----------------------------- MODULE JoinToolProofs -----------------------------
(***************************************************************************)
(* JoinsWhatWasStored, MissingStopsJoin and FirstResultStays for any       *)
(* number of sessions, any indexes and contents, and any number of         *)
(* Horcruxes to join.                                                      *)
(***************************************************************************)
EXTENDS JoinTool, SequenceFacts

(***************************************************************************)
(* The server's side: a session only fills a file with a piece it has, so  *)
(* that a file that is there stays there.                                  *)
(***************************************************************************)
Upload == UNION {[I -> Content \cup {None}] : I \in SUBSET Index}

StoreInv ==
  /\ uuid \in [Session -> Uuid]
  /\ pieces \in [Session -> Upload]
  /\ writing \in [Session -> Index \cup {None}]
  /\ DOMAIN files = Uuid \X Index
  /\ \A s \in Session : writing[s] # None =>
       writing[s] \in DOMAIN pieces[s] /\ pieces[s][writing[s]] \in Content

FilesStay == \A p \in Uuid \X Index : files[p] # None => files'[p] # None

LEMMA NoUploadIsUpload == NoUpload \in Upload
<1>1. NoUpload \in [{} -> Content \cup {None}] /\ {} \in SUBSET Index
  BY DEF NoUpload
<1> QED BY <1>1 DEF Upload

LEMMA UploadDomain ==
  ASSUME NEW f \in Upload
  PROVE  /\ DOMAIN f \in SUBSET Index
         /\ \A i \in DOMAIN f : f[i] \in Content \cup {None}
         /\ f \in [DOMAIN f -> Content \cup {None}]
BY DEF Upload

\* Filling a file, whether its session goes on or ends, leaves something in it.
LEMMA FillLeaves ==
  ASSUME StoreInv, NEW s \in Session, writing[s] # None, NEW content \in Outcome(s),
         files' = [files EXCEPT ![<<uuid[s], writing[s]>>] = content]
  PROVE  DOMAIN files' = Uuid \X Index /\ FilesStay
<1>1. pieces[s][writing[s]] \in Content
  BY DEF StoreInv
<1>2. content # None
  BY <1>1, JoinAssumption DEF Outcome
<1> QED BY <1>2 DEF StoreInv, FilesStay

LEMMA StoreStep == StoreInv /\ Next => StoreInv' /\ FilesStay
<1> SUFFICES ASSUME StoreInv, Next PROVE StoreInv' /\ FilesStay
  OBVIOUS
<1>1. ASSUME NEW s \in Session, Open(s) PROVE StoreInv' /\ FilesStay
  <2>1. writing[s] = None
    BY <1>1 DEF Open, StoreInv, NoUpload
  <2>2. PICK I \in SUBSET Index : pieces' = [pieces EXCEPT ![s] = [i \in I |-> None]]
    BY <1>1 DEF Open
  <2>3. [i \in I |-> None] \in Upload
    <3>1. [i \in I |-> None] \in [I -> Content \cup {None}]
      OBVIOUS
    <3> QED BY <3>1 DEF Upload
  <2>4. pieces' \in [Session -> Upload]
    BY <2>2, <2>3 DEF StoreInv
  <2>5. uuid' \in [Session -> Uuid] /\ UNCHANGED <<writing, files>>
    BY <1>1 DEF Open, StoreInv
  <2>6. \A r \in Session : writing'[r] # None => pieces'[r] = pieces[r]
    BY <2>1, <2>2, <2>5 DEF StoreInv
  <2> QED BY <2>4, <2>5, <2>6 DEF StoreInv, FilesStay
<1>2. ASSUME NEW s \in Session, Collect(s) PROVE StoreInv' /\ FilesStay
  <2>1. PICK i \in DOMAIN pieces[s], piece \in Content :
          pieces[s][i] = None /\ pieces' = [pieces EXCEPT ![s][i] = piece]
    BY <1>2 DEF Collect
  <2>2. pieces[s] \in Upload
    BY DEF StoreInv
  <2>3. [pieces[s] EXCEPT ![i] = piece] \in Upload
    <3>1. [pieces[s] EXCEPT ![i] = piece] \in [DOMAIN pieces[s] -> Content \cup {None}]
      BY <2>2, UploadDomain
    <3> QED BY <2>2, <3>1, UploadDomain DEF Upload
  <2>4. pieces' = [pieces EXCEPT ![s] = [pieces[s] EXCEPT ![i] = piece]]
    BY <2>1
  <2>5. pieces' \in [Session -> Upload]
    BY <2>3, <2>4 DEF StoreInv
  <2>6. UNCHANGED <<uuid, writing, files>>
    BY <1>2 DEF Collect
  <2>7. \A r \in Session : writing[r] # None =>
          writing[r] \in DOMAIN pieces'[r] /\ pieces'[r][writing[r]] \in Content
    <3> SUFFICES ASSUME NEW r \in Session, writing[r] # None
                 PROVE  writing[r] \in DOMAIN pieces'[r] /\ pieces'[r][writing[r]] \in Content
      OBVIOUS
    <3>1. writing[r] \in DOMAIN pieces[r] /\ pieces[r][writing[r]] \in Content
      BY DEF StoreInv
    <3>2. CASE r = s
      <4>1. pieces'[r] = [pieces[s] EXCEPT ![i] = piece]
        BY <2>4, <3>2 DEF StoreInv
      <4> QED BY <3>1, <3>2, <4>1
    <3>3. CASE r # s
      BY <2>4, <3>1, <3>3 DEF StoreInv
    <3> QED BY <3>2, <3>3
  <2> QED BY <2>5, <2>6, <2>7 DEF StoreInv, FilesStay
<1>3. ASSUME NEW s \in Session, Create(s) PROVE StoreInv' /\ FilesStay
  <2>1. PICK i \in DOMAIN pieces[s] :
          /\ files' = [files EXCEPT ![<<uuid[s], i>>] = <<>>]
          /\ writing' = [writing EXCEPT ![s] = i]
    BY <1>3 DEF Create
  <2>2. pieces[s][i] \in Content /\ i \in Index
    <3>1. pieces[s] \in Upload /\ pieces[s][i] # None
      BY <1>3 DEF StoreInv, Create, AllThere
    <3> QED BY <3>1, UploadDomain
  <2>3. UNCHANGED <<uuid, pieces>>
    BY <1>3 DEF Create
  <2>4. writing' \in [Session -> Index \cup {None}]
    BY <2>1, <2>2 DEF StoreInv
  <2>5. \A r \in Session : writing'[r] # None =>
          writing'[r] \in DOMAIN pieces[r] /\ pieces[r][writing'[r]] \in Content
    BY <2>1, <2>2 DEF StoreInv
  <2>6. DOMAIN files' = Uuid \X Index /\ FilesStay
    BY <2>1, JoinAssumption DEF StoreInv, FilesStay
  <2> QED BY <2>3, <2>4, <2>5, <2>6 DEF StoreInv
<1>4. ASSUME NEW s \in Session, Fill(s) PROVE StoreInv' /\ FilesStay
  <2>1. PICK content \in Outcome(s) : files' = [files EXCEPT ![<<uuid[s], writing[s]>>] = content]
    BY <1>4 DEF Fill
  <2>2. DOMAIN files' = Uuid \X Index /\ FilesStay
    BY <1>4, <2>1, FillLeaves DEF Fill
  <2>3. writing' = [writing EXCEPT ![s] = None] /\ UNCHANGED <<uuid, pieces>>
    BY <1>4 DEF Fill
  <2> QED BY <2>2, <2>3 DEF StoreInv
<1>5. ASSUME NEW S \in SUBSET Session, End(S) PROVE StoreInv' /\ FilesStay
  <2>1. /\ uuid' \in [Session -> Uuid]
        /\ pieces' = [s \in Session |-> IF s \in S THEN NoUpload ELSE pieces[s]]
        /\ writing' = [s \in Session |-> IF s \in S THEN None ELSE writing[s]]
    BY <1>5 DEF End
  <2>2. pieces' \in [Session -> Upload]
    BY <2>1, NoUploadIsUpload DEF StoreInv
  <2>3. writing' \in [Session -> Index \cup {None}]
    BY <2>1 DEF StoreInv
  <2>4. \A r \in Session : writing'[r] # None =>
          writing'[r] \in DOMAIN pieces'[r] /\ pieces'[r][writing'[r]] \in Content
    BY <2>1 DEF StoreInv
  <2>5. DOMAIN files' = Uuid \X Index /\ FilesStay
    <3>1. CASE UNCHANGED files
      BY <3>1 DEF StoreInv, FilesStay
    <3>2. ASSUME NEW s \in S, writing[s] # None, NEW content \in Outcome(s),
                 files' = [files EXCEPT ![<<uuid[s], writing[s]>>] = content]
          PROVE  DOMAIN files' = Uuid \X Index /\ FilesStay
      BY <3>2, FillLeaves
    <3> QED BY <1>5, <3>1, <3>2 DEF End
  <2> QED BY <2>1, <2>2, <2>3, <2>4, <2>5 DEF StoreInv
<1> QED BY <1>1, <1>2, <1>3, <1>4, <1>5 DEF Next

-----------------------------------------------------------------------------
(***************************************************************************)
(* The inductive invariant.  Every file the loop has passed is there, and  *)
(* so are all of them if they were when main began; reconstructed.png is   *)
(* empty from when saveFile opens it to when it is written.                *)
(***************************************************************************)
There(n) == \A i \in 0..(n - 1) : files[<<JoinUuid, i>>] # None

JoinInv ==
  /\ StoreInv
  /\ at \in {"idle", "load", "write", "done", "missing", "unreadable"}
  /\ idx \in 0..NumHcxs
  /\ at = "load" => There(idx)
  /\ at \in {"write", "done"} => idx = NumHcxs /\ There(NumHcxs)
  /\ at # "idle" /\ stored # None => There(NumHcxs)
  /\ at = "missing" => stored = None
  /\ at = "write" => reconstructed = <<>>

\* Files that are there stay, those of the tool among them.
LEMMA ThereStays ==
  ASSUME FilesStay, NEW n \in 0..NumHcxs, There(n)
  PROVE  There(n)'
<1>1. \A i \in 0..(n - 1) : i \in Index
  BY JoinAssumption
<1> QED BY <1>1, JoinAssumption DEF There, FilesStay

LEMMA JoinInitInv == JoinInit => JoinInv
<1> SUFFICES ASSUME JoinInit PROVE JoinInv
  OBVIOUS
<1>1. StoreInv
  BY NoUploadIsUpload DEF JoinInit, Init, StoreInv
<1> QED BY <1>1, JoinAssumption DEF JoinInit, JoinInv

LEMMA JoinStepInv == JoinInv /\ [JoinNext]_allVars => JoinInv'
<1> SUFFICES ASSUME JoinInv, [JoinNext]_allVars PROVE JoinInv'
  OBVIOUS
<1>a. NumHcxs \in Nat
  BY JoinAssumption
<1>b. UNCHANGED storeVars => StoreInv' /\ \A n : There(n)' <=> There(n)
  BY DEF JoinInv, StoreInv, storeVars, There
<1>1. CASE main
  <2>1. /\ UNCHANGED storeVars /\ at' = "load" /\ idx' = 0
        /\ stored' # None => There(NumHcxs)
    BY <1>1 DEF main, There
  <2>2. There(0)
    BY DEF There
  <2>3. There(idx)'
    BY <1>b, <2>1, <2>2 DEF There
  <2> QED BY <1>a, <1>b, <2>1, <2>3 DEF JoinInv
<1>2. CASE loadFile
  <2>1. at = "load" /\ idx \in 0..(NumHcxs - 1) /\ UNCHANGED <<storeVars, reconstructed, stored>>
    BY <1>a, <1>2 DEF loadFile, JoinInv
  <2>2. CASE files[<<JoinUuid, idx>>] = None
    <3>1. at' = "missing" /\ UNCHANGED idx
      BY <1>2, <2>2 DEF loadFile
    <3>2. stored = None
      BY <2>1, <2>2 DEF JoinInv, There
    <3> QED BY <1>b, <2>1, <3>1, <3>2 DEF JoinInv
  <2>3. CASE files[<<JoinUuid, idx>>] # None /\ at' # "unreadable"
    <3>1. at' = "load" /\ idx' = idx + 1
      BY <1>2, <2>1, <2>3 DEF loadFile
    <3>2. There(idx + 1)
      <4> SUFFICES ASSUME NEW i \in 0..((idx + 1) - 1) PROVE files[<<JoinUuid, i>>] # None
        BY DEF There
      <4>1. i = idx \/ i \in 0..(idx - 1)
        BY <2>1
      <4> QED BY <2>1, <2>3, <4>1 DEF JoinInv, There
    <3>3. There(idx)'
      BY <2>1, <3>1, <3>2 DEF There, storeVars
    <3>4. idx' \in 0..NumHcxs
      BY <1>a, <2>1, <3>1
    <3> QED BY <1>b, <2>1, <3>1, <3>3, <3>4 DEF JoinInv
  <2>4. CASE at' = "unreadable"
    <3>1. UNCHANGED idx
      BY <1>2, <2>1, <2>4 DEF loadFile
    <3> QED BY <1>b, <2>1, <2>4, <3>1 DEF JoinInv
  <2> QED BY <2>2, <2>3, <2>4
<1>3. CASE openResult
  <2>1. /\ at = "load" /\ idx = NumHcxs /\ UNCHANGED <<storeVars, idx, stored>>
        /\ at' \in {"write", "done"} /\ (at' = "write" => reconstructed' = <<>>)
    BY <1>3 DEF openResult
  <2>2. There(NumHcxs)
    BY <2>1 DEF JoinInv
  <2> QED BY <1>b, <2>1, <2>2 DEF JoinInv
<1>4. CASE writeResult
  BY <1>b, <1>4 DEF writeResult, JoinInv
<1>5. CASE Kill
  BY <1>b, <1>5 DEF Kill, JoinInv
<1>6. CASE Server
  <2>1. StoreInv' /\ FilesStay /\ UNCHANGED <<at, idx, reconstructed, stored>>
    BY <1>6, StoreStep DEF JoinInv, Server, joinVars
  <2>2. There(NumHcxs) => There(NumHcxs)'
    BY <1>a, <2>1, ThereStays
  <2>3. There(idx) => There(idx)'
    <3>1. ASSUME There(idx) PROVE \A i \in 0..(idx - 1) : files'[<<JoinUuid, i>>] # None
      <4>1. \A i \in 0..(idx - 1) : i \in Index
        BY <1>a, JoinAssumption DEF JoinInv
      <4> QED BY <2>1, <3>1, <4>1, JoinAssumption DEF There, FilesStay
    <3> QED BY <2>1, <3>1 DEF There
  <2> QED BY <2>1, <2>2, <2>3 DEF JoinInv
<1>7. CASE UNCHANGED allVars
  <2>1. UNCHANGED storeVars /\ UNCHANGED <<at, idx, reconstructed, stored>>
    BY <1>7 DEF allVars, joinVars
  <2>2. There(idx)' <=> There(idx)
    BY <2>1 DEF There, storeVars
  <2> QED BY <1>b, <2>1, <2>2 DEF JoinInv
<1> QED BY <1>1, <1>2, <1>3, <1>4, <1>5, <1>6, <1>7 DEF JoinNext

LEMMA JoinSpecInv == JoinSpec => []JoinInv
BY JoinInitInv, JoinStepInv, PTL DEF JoinSpec

-----------------------------------------------------------------------------
(***************************************************************************)
(* The loop of join.cpp never gets past a file that is missing, and finds  *)
(* none missing if all were final when it began, whatever the server does  *)
(* meanwhile and whichever files cannot be opened.                         *)
(***************************************************************************)
THEOREM JoinStopsAtMissing == JoinSpec => []MissingStopsJoin
<1>1. JoinInv => MissingStopsJoin
  BY DEF JoinInv, There, MissingStopsJoin
<1> QED BY <1>1, JoinSpecInv, PTL

(***************************************************************************)
(* What the first run of the join tool has written to reconstructed.png is *)
(* not changed by a later one (saveFile of Utils.cpp).                     *)
(***************************************************************************)
THEOREM JoinKeepsFirstResult == JoinSpec => FirstResultStays
<1> DEFINE Kept == reconstructed # None /\ reconstructed' # reconstructed =>
                     at = "write" /\ reconstructed = <<>>
<1>1. JoinInv /\ [JoinNext]_allVars => [Kept]_allVars
  <2> SUFFICES ASSUME JoinInv, JoinNext PROVE Kept
    OBVIOUS
  <2>1. CASE main
    BY <2>1 DEF main
  <2>2. CASE loadFile
    BY <2>2 DEF loadFile
  <2>3. CASE openResult
    BY <2>3 DEF openResult
  <2>4. CASE writeResult
    BY <2>4 DEF writeResult, JoinInv
  <2>5. CASE Kill
    BY <2>5 DEF Kill, JoinInv
  <2>6. CASE Server
    BY <2>6 DEF Server, joinVars
  <2> QED BY <2>1, <2>2, <2>3, <2>4, <2>5, <2>6 DEF JoinNext
<1> QED BY <1>1, JoinSpecInv, PTL DEF JoinSpec, FirstResultStays

-----------------------------------------------------------------------------
(***************************************************************************)
(* A file that is there and that no session is filling is final: the       *)
(* server neither changes it nor begins to fill it.                        *)
(***************************************************************************)
Final(p) == files[p] # None /\ \A s \in Session : writing[s] # None => <<uuid[s], writing[s]>> # p

FinalStay == \A p \in Uuid \X Index : Final(p) => Final(p)' /\ files'[p] = files[p]

LEMMA FillOtherFile ==
  ASSUME StoreInv, NEW s \in Session, writing[s] # None, NEW content,
         files' = [files EXCEPT ![<<uuid[s], writing[s]>>] = content],
         NEW p \in Uuid \X Index, Final(p)
  PROVE  files'[p] = files[p]
<1>1. p # <<uuid[s], writing[s]>> /\ p \in DOMAIN files
  BY DEF StoreInv, Final
<1> QED BY <1>1

LEMMA FinalStep == StoreInv /\ Next => FinalStay
<1> SUFFICES ASSUME StoreInv, Next, NEW p \in Uuid \X Index, Final(p)
             PROVE  Final(p)' /\ files'[p] = files[p]
  BY DEF FinalStay
<1>1. ASSUME NEW s \in Session, Open(s) PROVE Final(p)' /\ files'[p] = files[p]
  <2>1. writing[s] = None
    BY <1>1 DEF Open, StoreInv, NoUpload
  <2>2. UNCHANGED <<writing, files>> /\ \A r \in Session : r # s => uuid'[r] = uuid[r]
    BY <1>1 DEF Open, StoreInv
  <2> QED BY <2>1, <2>2 DEF Final
<1>2. ASSUME NEW s \in Session, Collect(s) PROVE Final(p)' /\ files'[p] = files[p]
  BY <1>2 DEF Collect, Final
<1>3. ASSUME NEW s \in Session, Create(s) PROVE Final(p)' /\ files'[p] = files[p]
  <2>1. PICK i \in DOMAIN pieces[s] :
          /\ files[<<uuid[s], i>>] = None
          /\ files' = [files EXCEPT ![<<uuid[s], i>>] = <<>>]
          /\ writing' = [writing EXCEPT ![s] = i]
    BY <1>3 DEF Create
  <2>2. p # <<uuid[s], i>>
    BY <2>1 DEF Final
  <2>3. files'[p] = files[p]
    BY <2>1, <2>2 DEF StoreInv
  <2>4. UNCHANGED uuid /\ writing'[s] = i /\ \A r \in Session : r # s => writing'[r] = writing[r]
    BY <1>3, <2>1 DEF Create, StoreInv
  <2> QED BY <2>2, <2>3, <2>4 DEF Final
<1>4. ASSUME NEW s \in Session, Fill(s) PROVE Final(p)' /\ files'[p] = files[p]
  <2>1. files'[p] = files[p]
    BY <1>4, FillOtherFile DEF Fill
  <2>2. UNCHANGED uuid /\ writing'[s] = None /\ \A r \in Session : r # s => writing'[r] = writing[r]
    BY <1>4 DEF Fill, StoreInv
  <2> QED BY <2>1, <2>2 DEF Final
<1>5. ASSUME NEW S \in SUBSET Session, End(S) PROVE Final(p)' /\ files'[p] = files[p]
  <2>1. files'[p] = files[p]
    <3>1. CASE UNCHANGED files
      BY <3>1
    <3>2. ASSUME NEW s \in S, writing[s] # None, NEW content \in Outcome(s),
                 files' = [files EXCEPT ![<<uuid[s], writing[s]>>] = content]
          PROVE  files'[p] = files[p]
      BY <3>2, FillOtherFile
    <3> QED BY <1>5, <3>1, <3>2 DEF End
  <2>2. \A r \in Session : writing'[r] # None => writing'[r] = writing[r] /\ uuid'[r] = uuid[r]
    BY <1>5 DEF End
  <2> QED BY <2>1, <2>2 DEF Final
<1> QED BY <1>1, <1>2, <1>3, <1>4, <1>5 DEF Next

\* Concatenation, up to any file.
JoinedTo(parts) ==
  LET upTo[n \in 0..NumHcxs] == IF n = 0 THEN <<>> ELSE upTo[n - 1] \o parts[n - 1]
  IN upTo

LEMMA JoinedSteps ==
  ASSUME NEW parts
  PROVE  /\ JoinedTo(parts)[0] = <<>>
         /\ \A n \in 0..(NumHcxs - 1) : JoinedTo(parts)[n + 1] = JoinedTo(parts)[n] \o parts[n]
<1> DEFINE part == [n \in 1..NumHcxs |-> parts[n - 1]]
           Def(f) == f = [n \in 0..NumHcxs |-> IF n = 0 THEN <<>> ELSE f[n - 1] \o parts[n - 1]]
           w == CHOOSE f : Def(f)
<1>1. NumHcxs \in Nat
  BY JoinAssumption
<1>2. JoinedTo(parts) = w
  BY DEF JoinedTo
<1>3. /\ \A n \in 0..NumHcxs : n # 0 => part[n] = parts[n - 1]
      /\ \A n \in 0..(NumHcxs - 1) : part[n + 1] = parts[n]
  BY <1>1
<1> HIDE DEF part
<1>4. ASSUME NEW f PROVE Def(f) <=> Concatenates(f, NumHcxs, <<>>, part)
  <2>1. [n \in 0..NumHcxs |-> IF n = 0 THEN <<>> ELSE f[n - 1] \o part[n]]
          = [n \in 0..NumHcxs |-> IF n = 0 THEN <<>> ELSE f[n - 1] \o parts[n - 1]]
    BY <1>3
  <2> QED BY <2>1, Zenon DEF Concatenates
<1>5. \E f : Concatenates(f, NumHcxs, <<>>, part)
  BY <1>1, ConcatenationExists
<1> HIDE DEF Def
<1>6. Def(w)
  BY <1>4, <1>5
<1>7. Concatenates(w, NumHcxs, <<>>, part)
  BY <1>4, <1>6
<1> HIDE DEF w
<1>8. w[0] = <<>>
  <2>1. 0 \in 0..NumHcxs
    BY <1>1
  <2> QED BY <1>7, <2>1 DEF Concatenates
<1>9. ASSUME NEW n \in 0..(NumHcxs - 1) PROVE w[n + 1] = w[n] \o parts[n]
  <2>1. n + 1 \in 0..NumHcxs /\ n + 1 # 0 /\ (n + 1) - 1 = n
    BY <1>1
  <2>2. w[n + 1] = w[n] \o part[n + 1]
    BY <1>7, <2>1 DEF Concatenates
  <2> QED BY <1>3, <2>2
<1> QED BY <1>2, <1>8, <1>9

(***************************************************************************)
(* What holds while the tool runs on files that were final when it began:  *)
(* they still are and still hold the same, and what the loop has read is   *)
(* those it has passed, one after the other.                               *)
(***************************************************************************)
StoredInv ==
  /\ at # "idle" /\ stored # None =>
       \A i \in 0..(NumHcxs - 1) : Final(<<JoinUuid, i>>) /\ stored[i] = files[<<JoinUuid, i>>]
  /\ at \in {"load", "write", "done"} /\ stored # None => binaries = JoinedTo(stored)[idx]

\* loadFile finds in a final file what it holds.
LEMMA VisibleFinal ==
  ASSUME NEW p, Final(p)
  PROVE  Visible(p) = {files[p]}
BY DEF Final, Visible

LEMMA StoredSteps == JoinInv /\ StoredInv /\ [JoinNext]_allVars => StoredInv'
<1> SUFFICES ASSUME JoinInv, StoredInv, [JoinNext]_allVars PROVE StoredInv'
  OBVIOUS
<1>a. UNCHANGED storeVars => \A p : Final(p)' <=> Final(p)
  BY DEF storeVars, Final
<1>1. CASE main
  <2>1. UNCHANGED storeVars /\ files' = files /\ at' = "load" /\ idx' = 0 /\ binaries' = <<>>
    BY <1>1 DEF main, storeVars
  <2>2. ASSUME stored' # None, NEW i \in 0..(NumHcxs - 1)
        PROVE  Final(<<JoinUuid, i>>) /\ stored'[i] = files[<<JoinUuid, i>>]
    <3> DEFINE P == [j \in 0..(NumHcxs - 1) |-> <<JoinUuid, j>>]
    <3>1. /\ \A j \in DOMAIN P : files[P[j]] # None /\ P[j] \notin Unfinished
          /\ stored' = [j \in DOMAIN P |-> files[P[j]]]
      BY <1>1, <2>2 DEF main
    <3>2. /\ files[<<JoinUuid, i>>] # None /\ <<JoinUuid, i>> \notin Unfinished
          /\ stored'[i] = files[<<JoinUuid, i>>]
      BY <3>1
    <3> QED BY <3>2 DEF Final, Unfinished
  <2>3. binaries' = JoinedTo(stored')[0]
    BY <2>1, JoinedSteps
  <2> QED BY <1>a, <2>1, <2>2, <2>3 DEF StoredInv
<1>2. CASE loadFile
  <2>1. /\ at = "load" /\ idx \in 0..(NumHcxs - 1) /\ UNCHANGED <<storeVars, stored>> /\ files' = files
        /\ at' \in {"load", "missing", "unreadable"}
    BY <1>2, JoinAssumption DEF loadFile, JoinInv, storeVars
  <2>2. ASSUME at' = "load", stored # None PROVE binaries' = JoinedTo(stored)[idx']
    <3> DEFINE p == <<JoinUuid, idx>>
    <3>1. (\E content \in Visible(p) : binaries' = binaries \o content) /\ idx' = idx + 1
      BY <1>2, <2>2 DEF loadFile
    <3>2. Final(p) /\ stored[idx] = files[p] /\ binaries = JoinedTo(stored)[idx]
      BY <2>1, <2>2 DEF StoredInv
    <3> HIDE DEF p
    <3>3. Visible(p) = {files[p]}
      BY <3>2, VisibleFinal
    <3>4. binaries' = JoinedTo(stored)[idx] \o stored[idx]
      BY <3>1, <3>2, <3>3
    <3>5. JoinedTo(stored)[idx + 1] = JoinedTo(stored)[idx] \o stored[idx]
      BY <2>1, JoinedSteps
    <3> QED BY <3>1, <3>4, <3>5
  <2> QED BY <1>a, <2>1, <2>2 DEF StoredInv
<1>3. CASE openResult
  <2>1. /\ at = "load" /\ UNCHANGED <<storeVars, idx, binaries, stored>> /\ files' = files
        /\ at' \in {"write", "done"}
    BY <1>3 DEF openResult, storeVars
  <2> QED BY <1>a, <2>1 DEF StoredInv
<1>4. CASE writeResult
  <2>1. /\ at = "write" /\ UNCHANGED <<storeVars, idx, binaries, stored>> /\ files' = files
        /\ at' = "done"
    BY <1>4 DEF writeResult, storeVars
  <2> QED BY <1>a, <2>1 DEF StoredInv
<1>5. CASE Kill
  <2>1. at' = "idle"
    BY <1>5 DEF Kill
  <2> QED BY <2>1 DEF StoredInv
<1>6. CASE Server
  <2>1. FinalStay /\ UNCHANGED <<at, idx, binaries, stored>>
    BY <1>6, FinalStep DEF JoinInv, Server, joinVars
  <2>2. \A i \in 0..(NumHcxs - 1) : <<JoinUuid, i>> \in Uuid \X Index
    BY JoinAssumption
  <2>3. \A i \in 0..(NumHcxs - 1) :
          Final(<<JoinUuid, i>>) => Final(<<JoinUuid, i>>)' /\ files'[<<JoinUuid, i>>] = files[<<JoinUuid, i>>]
    BY <2>1, <2>2 DEF FinalStay
  <2> QED BY <2>1, <2>3 DEF StoredInv
<1>7. CASE UNCHANGED allVars
  <2>1. UNCHANGED storeVars /\ UNCHANGED <<at, idx, binaries, stored, files>>
    BY <1>7 DEF allVars, joinVars, storeVars
  <2> QED BY <1>a, <2>1 DEF StoredInv
<1> QED BY <1>1, <1>2, <1>3, <1>4, <1>5, <1>6, <1>7 DEF JoinNext

(***************************************************************************)
(* join.cpp puts together the files that were final when it began,         *)
(* whatever the server does meanwhile: end or crash in the middle of an    *)
(* upload, or take a second one under the same UUID.                       *)
(***************************************************************************)
THEOREM JoinIsWhatWasStored == JoinSpec => []JoinsWhatWasStored
<1>1. JoinInit => StoredInv
  BY JoinAssumption DEF JoinInit, StoredInv
<1>2. JoinInv /\ StoredInv => JoinsWhatWasStored
  <2>1. Concatenation(stored) = JoinedTo(stored)[NumHcxs]
    BY DEF Concatenation, JoinedTo
  <2> QED BY <2>1 DEF JoinInv, StoredInv, JoinsWhatWasStored
<1> QED BY <1>1, <1>2, JoinSpecInv, StoredSteps, PTL DEF JoinSpec
=============================================================================
