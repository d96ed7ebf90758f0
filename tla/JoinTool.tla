------------------------------- MODULE JoinTool -------------------------------
(***************************************************************************)
(* join.cpp beside the server: it reads the files of one UUID by           *)
(* increasing index while the server may be creating and filling them, and *)
(* saves what it has read.  The server is UploadStore, which HorcruxServer *)
(* implements.                                                             *)
(*                                                                         *)
(* loadFile is one step.  It tests that the file exists, opens it, takes   *)
(* its size and reads that many bytes; files do not vanish and only grow,  *)
(* so that it gets the bytes that are there when it takes the size.  Files *)
(* may fail to open, and the result may be cut by a full disk; an error of *)
(* the read itself, which the code does not look at, is left out.          *)
(***************************************************************************)
EXTENDS UploadStore

CONSTANTS
  JoinUuid,   \* the constants uuid and numHcxs of main
  NumHcxs

\* None is no index and nothing a file can hold.
ASSUME JoinAssumption ==
  /\ JoinUuid \in Uuid /\ NumHcxs \in Nat /\ 0..(NumHcxs - 1) \subseteq Index
  /\ None \notin Index /\ None \notin Content /\ None # <<>>
  /\ \A piece \in Content : \A k \in 0..Len(piece) : SubSeq(piece, 1, k) # None

VARIABLES
  at,             \* where main is, or what loadFile logged before main ended
  idx,            \* the files it has read
  binaries,       \* what it has read from them
  reconstructed,  \* what reconstructed.png holds, or None
  stored          \* the files as they were when main began, if all were final

joinVars == <<at, idx, binaries, reconstructed, stored>>
allVars == <<storeVars, joinVars>>

\* The files that are being filled.
Unfinished == {<<uuid[s], writing[s]>> : s \in {r \in Session : writing[r] # None}}

JoinInit ==
  /\ Init
  /\ at = "idle"
  /\ idx = 0
  /\ binaries = <<>>
  /\ reconstructed = None
  /\ stored = None

-----------------------------------------------------------------------------
\* The tool is run, and may be run again.
main ==
  /\ at \in {"idle", "done", "missing", "unreadable"}
  /\ at' = "load"
  /\ idx' = 0
  /\ binaries' = <<>>
  /\ LET p == [i \in 0..(NumHcxs - 1) |-> <<JoinUuid, i>>]
     IN stored' = IF \A i \in DOMAIN p : files[p[i]] # None /\ p[i] \notin Unfinished
                    THEN [i \in DOMAIN p |-> files[p[i]]]
                    ELSE None
  /\ UNCHANGED <<storeVars, reconstructed>>

\* What loadFile can find in file p: the beginning of the piece while it is being filled.
Visible(p) ==
  {files[p]} \cup UNION {Outcome(s) : s \in {r \in Session : writing[r] # None /\ <<uuid[r], writing[r]>> = p}}

\* Faulty variant: a file that does not exist is taken for an empty one.
loadFile_MissingIsEmpty ==
  /\ at = "load"
  /\ idx < NumHcxs
  /\ \E content \in IF files[<<JoinUuid, idx>>] = None THEN {<<>>} ELSE Visible(<<JoinUuid, idx>>) :
       binaries' = binaries \o content
  /\ idx' = idx + 1
  /\ UNCHANGED <<storeVars, at, reconstructed, stored>>

\* Faulty variant: each file is put before those read so far.
loadFile_Prepends ==
  /\ at = "load"
  /\ idx < NumHcxs
  /\ IF files[<<JoinUuid, idx>>] = None
       THEN at' = "missing" /\ UNCHANGED <<idx, binaries>>
       ELSE /\ \E content \in Visible(<<JoinUuid, idx>>) : binaries' = content \o binaries
            /\ idx' = idx + 1
            /\ UNCHANGED at
  /\ UNCHANGED <<storeVars, reconstructed, stored>>

\* Faulty variant: a missing file is tried again until it is there.
loadFile_Waits ==
  /\ at = "load"
  /\ idx < NumHcxs
  /\ files[<<JoinUuid, idx>>] # None
  /\ \E content \in Visible(<<JoinUuid, idx>>) : binaries' = binaries \o content
  /\ idx' = idx + 1
  /\ UNCHANGED <<storeVars, at, reconstructed, stored>>

\* An iteration of the loop.  loadFile returns an empty optional for a file that does
\* not exist or cannot be opened; value() then throws, which nothing catches.
loadFile ==
  /\ at = "load"
  /\ idx < NumHcxs
  /\ \/ /\ files[<<JoinUuid, idx>>] = None
        /\ at' = "missing"
        /\ UNCHANGED <<idx, binaries>>
     \/ /\ files[<<JoinUuid, idx>>] # None
        /\ at' = "unreadable"
        /\ UNCHANGED <<idx, binaries>>
     \/ /\ files[<<JoinUuid, idx>>] # None
        /\ \E content \in Visible(<<JoinUuid, idx>>) : binaries' = binaries \o content
        /\ idx' = idx + 1
        /\ UNCHANGED at
  /\ UNCHANGED <<storeVars, reconstructed, stored>>

\* Faulty variant: saveFile truncates a result that is already there.
openResult_Truncates ==
  /\ at = "load"
  /\ idx = NumHcxs
  /\ reconstructed' = <<>>
  /\ at' = "write"
  /\ UNCHANGED <<storeVars, idx, binaries, stored>>

\* saveFile: nothing is written when the file exists or cannot be opened, and main
\* does not look.
openResult ==
  /\ at = "load"
  /\ idx = NumHcxs
  /\ \/ /\ reconstructed = None
        /\ reconstructed' = <<>>
        /\ at' = "write"
     \/ /\ reconstructed # None
        /\ at' = "done"
        /\ UNCHANGED reconstructed
     \/ /\ reconstructed = None
        /\ at' = "done"
        /\ UNCHANGED reconstructed
  /\ UNCHANGED <<storeVars, idx, binaries, stored>>

\* Nothing looks at whether all of it was written.
writeResult ==
  /\ at = "write"
  /\ \E k \in 0..Len(binaries) : reconstructed' = SubSeq(binaries, 1, k)
  /\ at' = "done"
  /\ UNCHANGED <<storeVars, idx, binaries, stored>>

\* The tool is killed, and leaves a part of the result if it was writing it.
Kill ==
  /\ at \in {"load", "write"}
  /\ at' = "idle"
  /\ \/ UNCHANGED reconstructed
     \/ /\ at = "write"
        /\ \E k \in 0..Len(binaries) : reconstructed' = SubSeq(binaries, 1, k)
  /\ UNCHANGED <<storeVars, idx, binaries, stored>>

Server == Next /\ UNCHANGED joinVars

JoinNext == main \/ loadFile \/ openResult \/ writeResult \/ Kill \/ Server

(***************************************************************************)
(* A tool that runs and is not killed goes on to its end.                  *)
(***************************************************************************)
JoinSpec ==
  /\ JoinInit /\ [][JoinNext]_allVars
  /\ WF_allVars(loadFile \/ openResult \/ writeResult)

-----------------------------------------------------------------------------
Concatenation(parts) ==
  LET upTo[n \in 0..NumHcxs] == IF n = 0 THEN <<>> ELSE upTo[n - 1] \o parts[n - 1]
  IN upTo[NumHcxs]

(***************************************************************************)
(* The loop of main puts the files together that were final when it began, *)
(* whatever the server does meanwhile, crashes and a second upload under   *)
(* the UUID included.                                                      *)
(***************************************************************************)
JoinsWhatWasStored ==
  at \in {"write", "done"} /\ stored # None => binaries = Concatenation(stored)

(***************************************************************************)
(* The loop never gets past a file that is missing, so that a result       *)
(* stands for all the indexes (a piece of it may be cut, if its file was   *)
(* still being filled); and it reports none as missing if all were final   *)
(* when it began: only a file that cannot be opened then stops it.         *)
(***************************************************************************)
MissingStopsJoin ==
  /\ at \in {"write", "done"} => \A i \in 0..(NumHcxs - 1) : files[<<JoinUuid, i>>] # None
  /\ at = "missing" => stored = None

(***************************************************************************)
(* saveFile does not replace reconstructed.png: what the first run to get  *)
(* there has written stays, and later runs leave no trace.                 *)
(***************************************************************************)
FirstResultStays ==
  [][reconstructed # None /\ reconstructed' # reconstructed =>
       at = "write" /\ reconstructed = <<>>]_allVars

(***************************************************************************)
(* main comes to its end, or is killed, whatever the server does.          *)
(***************************************************************************)
JoinEnds == at = "load" ~> at \in {"done", "missing", "unreadable", "idle"}
=============================================================================
