------------------------------ MODULE UploadStore ------------------------------
(***************************************************************************)
(* What the server promises about the files it keeps.  A session collects  *)
(* the pieces of one upload, each once and in any order.  Files are only   *)
(* made from an upload that has all its pieces, each file is made by one   *)
(* session, which fills it with its piece of that index or, when something *)
(* fails, with a part of it; from then on the file never changes.  A       *)
(* session may end at any time and takes its pieces with it.               *)
(***************************************************************************)
EXTENDS Integers, Sequences

CONSTANTS Session, Uuid, Content, Index, None

VARIABLES
  uuid,      \* the id of each session's upload
  pieces,    \* its pieces, None where one is missing; without a domain: no upload
  writing,   \* the index of the file it has created and not filled yet, or None
  files      \* what each file holds

storeVars == <<uuid, pieces, writing, files>>

NoUpload == [i \in {} |-> None]
AllThere(s) == \A i \in DOMAIN pieces[s] : pieces[s][i] # None

Init ==
  /\ uuid \in [Session -> Uuid]
  /\ pieces = [s \in Session |-> NoUpload]
  /\ writing = [s \in Session |-> None]
  /\ files = [p \in Uuid \X Index |-> None]

Open(s) ==
  /\ pieces[s] = NoUpload
  /\ \E u \in Uuid : uuid' = [uuid EXCEPT ![s] = u]
  /\ \E I \in SUBSET Index : pieces' = [pieces EXCEPT ![s] = [i \in I |-> None]]
  /\ UNCHANGED <<writing, files>>

Collect(s) ==
  /\ \E i \in DOMAIN pieces[s] :
       /\ pieces[s][i] = None
       /\ \E piece \in Content : pieces' = [pieces EXCEPT ![s][i] = piece]
  /\ UNCHANGED <<uuid, writing, files>>

Create(s) ==
  /\ AllThere(s)
  /\ writing[s] = None
  /\ \E i \in DOMAIN pieces[s] :
       /\ files[<<uuid[s], i>>] = None
       /\ files' = [files EXCEPT ![<<uuid[s], i>>] = <<>>]
       /\ writing' = [writing EXCEPT ![s] = i]
  /\ UNCHANGED <<uuid, pieces>>

\* What the file that s has created may hold once s is done with it.
Outcome(s) == LET piece == pieces[s][writing[s]] IN {SubSeq(piece, 1, k) : k \in 0..Len(piece)}

Fill(s) ==
  /\ writing[s] # None
  /\ \E content \in Outcome(s) : files' = [files EXCEPT ![<<uuid[s], writing[s]>>] = content]
  /\ writing' = [writing EXCEPT ![s] = None]
  /\ UNCHANGED <<uuid, pieces>>

\* Sessions that end, all at once when the process goes down; the file that one
\* of them is filling is left as it is or filled.
End(S) ==
  /\ uuid' \in [Session -> Uuid]
  /\ \A s \in Session \ S : uuid'[s] = uuid[s]
  /\ pieces' = [s \in Session |-> IF s \in S THEN NoUpload ELSE pieces[s]]
  /\ writing' = [s \in Session |-> IF s \in S THEN None ELSE writing[s]]
  /\ \/ UNCHANGED files
     \/ \E s \in S : /\ writing[s] # None
                     /\ \E content \in Outcome(s) :
                          files' = [files EXCEPT ![<<uuid[s], writing[s]>>] = content]

Next ==
  \/ \E s \in Session : Open(s) \/ Collect(s) \/ Create(s) \/ Fill(s)
  \/ \E S \in SUBSET Session : End(S)

Spec == Init /\ [][Next]_storeVars
=============================================================================
