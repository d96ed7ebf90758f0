-------------------------- MODULE HorcruxServerProofs --------------------------
(***************************************************************************)
(* The safety properties of HorcruxServer for any number of connections,   *)
(* any headers and contents the peers send and any configuration.          *)
(***************************************************************************)
EXTENDS HorcruxServer, FiniteSetTheorems, TLAPS

(***************************************************************************)
(* What the handlers of a connection leave to each other, by the operation *)
(* that is outstanding.  Before the pre-request header nothing was         *)
(* received; after it something is missing; the content that is being read *)
(* goes into an empty slot; once the save is due nothing is missing, and   *)
(* the loop of saveHorcruxes stays within the vector.                      *)
(***************************************************************************)
Fresh(c) == horcruxes[c] = EmptyVector /\ replies[c] = <<>>

Incomplete(c) == horcruxes[c] = EmptyVector \/ ~Complete(horcruxes[c])

Handover(c) ==
  /\ pending[c] \in {"none", "accept", "ReadPreRequestHeader"} => Fresh(c)
  /\ pending[c] \in {"respondThenReadRequestHeader", "ReadRequestHeader", "respondThenStop"} =>
       Incomplete(c)
  /\ pending[c] = "ReadRequestContent" =>
       /\ requestHeader[c] \in RequestHeader
       /\ requestHeader[c].mIndex \in DOMAIN horcruxes[c]
       /\ horcruxes[c][requestHeader[c].mIndex] = None
  /\ pending[c] = "respondThenSave" => 0 \in DOMAIN horcruxes[c] /\ Complete(horcruxes[c])
  /\ pending[c] \in Saves => counter[c] \in DOMAIN horcruxes[c] /\ Complete(horcruxes[c])
  /\ pending[c] \notin Saves => counter[c] = 0

\* At most one handler is inside saveHorcruxes.
OneSaver == \A c, d \in Connection : pending[c] \in Saves /\ pending[d] \in Saves => c = d

\* The file that is about to be written was created by this call of saveFile.
Created == \A c \in Connection : pending[c] = "writeFile" => out[horcruxPath(c)] = <<>>

\* Exactly one connection is in async_accept while the process is up.
Armed ==
  /\ up => \E c \in Connection : \A d \in Connection : pending[d] = "accept" <=> d = c
  /\ ~up => \A c \in Connection : pending[c] = "none"

Inv ==
  /\ TypeOK
  /\ \A c \in Connection : Handover(c)
  /\ OneSaver
  /\ Created
  /\ Armed

-----------------------------------------------------------------------------
\* A content is a sequence, and so different from nullopt.
LEMMA ContentIsSeq == Content \subseteq Seq(Byte) /\ None \notin Content
<1>1. ASSUME NEW x \in Content PROVE x \in Seq(Byte)
  <2>1. PICK n \in Size : x \in [1..n -> Byte]
    BY DEF Content
  <2>2. n \in Nat
    BY ServerAssumption
  <2> QED BY <2>1, <2>2
<1> QED BY <1>1, ServerAssumption

\* The vectors: without an element, of nullopts, and with one more content.
LEMMA EmptyIsVector == IsVector(EmptyVector)
<1>1. EmptyVector \in [0..(0 - 1) -> Optional]
  BY DEF EmptyVector
<1> QED BY <1>1, ServerAssumption DEF IsVector

LEMMA ResizeIsVector ==
  ASSUME NEW n \in 0..MaxNumHorcruxAccepted
  PROVE  LET v == [i \in 0..(n - 1) |-> None] IN
         IsVector(v) /\ (v = EmptyVector \/ ~Complete(v))
<1> DEFINE v == [i \in 0..(n - 1) |-> None]
<1>1. v \in [0..(n - 1) -> Optional]
  BY DEF Optional
<1>2. CASE n = 0
  <2>1. 0..(n - 1) = {}
    BY <1>2
  <2> QED BY <1>1, <2>1 DEF EmptyVector, IsVector
<1>3. CASE n # 0
  <2>1. 0 \in 0..(n - 1)
    BY <1>3, ServerAssumption
  <2> QED BY <1>1, <2>1 DEF Complete, IsVector
<1> QED BY <1>2, <1>3

LEMMA StoreIsVector ==
  ASSUME NEW v, IsVector(v), NEW i \in DOMAIN v, NEW x \in Content
  PROVE  /\ IsVector([v EXCEPT ![i] = x])
         /\ DOMAIN [v EXCEPT ![i] = x] = DOMAIN v
         /\ 0 \in DOMAIN v
<1>1. PICK n \in 0..MaxNumHorcruxAccepted : v \in [0..(n - 1) -> Optional]
  BY DEF IsVector
<1>2. [v EXCEPT ![i] = x] \in [0..(n - 1) -> Optional]
  BY <1>1 DEF Optional
<1>3. DOMAIN v = 0..(n - 1)
  BY <1>1
<1>4. 0 \in DOMAIN v
  BY <1>3, ServerAssumption
<1> QED BY <1>1, <1>2, <1>4 DEF IsVector

LEMMA VectorElement ==
  ASSUME NEW v, IsVector(v), NEW i \in DOMAIN v
  PROVE  /\ v[i] \in Optional
         /\ i \in Nat /\ i < MaxNumHorcruxAccepted
         /\ \A j \in 0..i : j \in DOMAIN v
<1>1. PICK n \in 0..MaxNumHorcruxAccepted : v \in [0..(n - 1) -> Optional]
  BY DEF IsVector
<1>2. DOMAIN v = 0..(n - 1)
  BY <1>1
<1> QED BY <1>1, <1>2, ServerAssumption

\* A connection whose variables a step leaves alone.
LEMMA HandoverFrame ==
  ASSUME NEW d, Handover(d),
         pending'[d] = pending[d], horcruxes'[d] = horcruxes[d], replies'[d] = replies[d],
         requestHeader'[d] = requestHeader[d], counter'[d] = counter[d]
  PROVE  Handover(d)'
BY DEF Handover, Fresh, Incomplete

\* A connection that goes away is as good as new.
LEMMA HandoverDestroyed ==
  ASSUME NEW d, pending'[d] = "none", horcruxes'[d] = EmptyVector, replies'[d] = <<>>, counter'[d] = 0
  PROVE  Handover(d)'
BY DEF Handover, Fresh, Saves

-----------------------------------------------------------------------------
LEMMA InitInv == Init => Inv
<1> SUFFICES ASSUME Init PROVE Inv
  OBVIOUS
<1>1. PICK a \in Connection : pending = [d \in Connection |-> IF d = a THEN "accept" ELSE "none"]
  BY DEF Init
<1>2. \A c \in Connection : IsVector(horcruxes[c])
  BY EmptyIsVector DEF Init
<1>3. TypeOK
  BY <1>1, <1>2, ServerAssumption DEF Init, TypeOK, Pending
<1>4. \A c \in Connection : Handover(c)
  BY <1>1 DEF Init, Handover, Fresh, Saves
<1>5. OneSaver /\ Created
  BY <1>1 DEF OneSaver, Created, Saves
<1>6. Armed
  BY <1>1 DEF Init, Armed
<1> QED BY <1>3, <1>4, <1>5, <1>6 DEF Inv

LEMMA AcceptInv ==
  ASSUME Inv, NEW c \in Connection, NEW n \in Connection, NEW error \in BOOLEAN,
         handle_accept(c, n, error)
  PROVE  Inv'
<1>1. /\ pending[c] = "accept"
      /\ pending[n] = "none"
      /\ \A d \in Connection : pending[d] \notin Saves
      /\ pending' = [pending EXCEPT ![c] = IF error THEN "none" ELSE "ReadPreRequestHeader",
                                    ![n] = "accept"]
      /\ UNCHANGED <<up, preRequestHeader, requestHeader, horcruxes, counter, replies, out>>
  BY DEF handle_accept, Runs, connVars
<1>2. /\ pending \in [Connection -> Pending]
      /\ c # n
      /\ pending'[n] = "accept"
      /\ pending'[c] \in {"none", "ReadPreRequestHeader"}
      /\ \A d \in Connection \ {c, n} : pending'[d] = pending[d]
  BY <1>1 DEF Inv, TypeOK
<1>3. TypeOK'
  BY <1>1 DEF Inv, TypeOK, Pending, Reads
<1>4. \A d \in Connection : Handover(d)'
  <2> SUFFICES ASSUME NEW d \in Connection PROVE Handover(d)'
    OBVIOUS
  <2>1. CASE d \in {c, n}
    <3>1. Fresh(d) /\ counter[d] = 0
      BY <1>1, <2>1 DEF Inv, Handover, Saves
    <3> QED BY <1>1, <1>2, <2>1, <3>1 DEF Handover, Fresh, Saves
  <2>2. CASE d \notin {c, n}
    BY <1>1, <1>2, <2>2, HandoverFrame DEF Inv
  <2> QED BY <2>1, <2>2
<1>5. (OneSaver /\ Created)'
  BY <1>1, <1>2 DEF OneSaver, Created, Saves
<1>6. Armed'
  <2>1. up
    BY <1>1 DEF Inv, Armed
  <2>2. \A d \in Connection : pending[d] = "accept" <=> d = c
    BY <1>1, <2>1 DEF Inv, Armed
  <2>3. \A d \in Connection : pending'[d] = "accept" <=> d = n
    BY <1>2, <2>2
  <2> QED BY <1>1, <2>1, <2>3 DEF Armed
<1> QED BY <1>3, <1>4, <1>5, <1>6 DEF Inv

(***************************************************************************)
(* A step of the operation outstanding on c, other than accepting, that    *)
(* neither enters nor leaves saveHorcruxes and does not touch "out".       *)
(***************************************************************************)
LEMMA GlobalFrame ==
  ASSUME Inv, NEW c \in Connection, NEW next \in Pending,
         pending[c] \notin {"none", "accept"},
         next # "accept",
         next \in Saves => \A d \in Connection : pending[d] \notin Saves,
         next # "writeFile",
         pending' = [pending EXCEPT ![c] = next],
         \A d \in Connection \ {c} : /\ preRequestHeader'[d] = preRequestHeader[d]
                                     /\ counter'[d] = counter[d],
         UNCHANGED <<up, out>>
  PROVE  (OneSaver /\ Created /\ Armed)'
<1>1. /\ pending \in [Connection -> Pending]
      /\ pending'[c] = next
      /\ \A d \in Connection \ {c} : pending'[d] = pending[d]
  BY DEF Inv, TypeOK
<1>2. OneSaver'
  BY <1>1 DEF Inv, OneSaver
<1>3. Created'
  BY <1>1 DEF Inv, Created, horcruxPath
<1>4. Armed'
  BY <1>1 DEF Inv, Armed
<1> QED BY <1>2, <1>3, <1>4

LEMMA ReadPreRequestHeaderInv ==
  ASSUME Inv, NEW c \in Connection, NEW h \in PreRequestHeader, ReadPreRequestHeader(c, h)
  PROVE  Inv'
<1> DEFINE v == [i \in 0..(h.mNumHorcruxes - 1) |-> None]
           ok == checkPreRequestHeader(h)
<1>1. /\ pending[c] = "ReadPreRequestHeader"
      /\ preRequestHeader' = [preRequestHeader EXCEPT ![c] = h]
      /\ UNCHANGED <<up, requestHeader, counter, out>>
  BY DEF ReadPreRequestHeader, Runs
<1>2. PICK next \in {"respondThenReadRequestHeader", "respondThenStop"},
           reply \in {"SUCCESS", "FAILURE"} :
        /\ pending' = [pending EXCEPT ![c] = next]
        /\ replies' = [replies EXCEPT ![c] = Append(@, reply)]
        /\ \/ ok /\ horcruxes' = [horcruxes EXCEPT ![c] = v]
           \/ horcruxes' = horcruxes
  BY DEF ReadPreRequestHeader, sendResponse
<1>3. TypeOK /\ Fresh(c) /\ counter[c] = 0
  BY <1>1 DEF Inv, Handover, Saves
<1>4. ok => IsVector(v) /\ (v = EmptyVector \/ ~Complete(v))
  <2>1. h.mNumHorcruxes \in Nat
    BY ServerAssumption DEF PreRequestHeader
  <2>2. ok => h.mNumHorcruxes \in 0..MaxNumHorcruxAccepted
    BY <2>1, ServerAssumption DEF checkPreRequestHeader
  <2> QED BY <2>2, ResizeIsVector
<1> HIDE DEF v, ok
<1>5. horcruxes = [d \in Connection |-> horcruxes[d]] /\ \A d \in Connection : IsVector(horcruxes[d])
  BY <1>3 DEF TypeOK
<1>6. /\ horcruxes' = [d \in Connection |-> horcruxes'[d]]
      /\ \A d \in Connection : IsVector(horcruxes'[d])
      /\ \A d \in Connection \ {c} : horcruxes'[d] = horcruxes[d]
      /\ horcruxes'[c] = EmptyVector \/ ~Complete(horcruxes'[c])
  BY <1>2, <1>3, <1>4, <1>5 DEF Fresh
<1>7. TypeOK'
  <2>1. next \in Pending
    BY DEF Pending, Writes
  <2>2. replies' \in [Connection -> Seq({"SUCCESS", "FAILURE"})]
    BY <1>2, <1>3 DEF TypeOK
  <2> QED BY <1>1, <1>2, <1>3, <1>6, <2>1, <2>2 DEF TypeOK
<1>8. \A d \in Connection : Handover(d)'
  <2> SUFFICES ASSUME NEW d \in Connection PROVE Handover(d)'
    OBVIOUS
  <2>1. CASE d = c
    <3>1. pending'[c] = next /\ counter'[c] = 0
      BY <1>1, <1>2, <1>3 DEF TypeOK
    <3> QED BY <1>6, <2>1, <3>1 DEF Handover, Incomplete, Saves
  <2>2. CASE d # c
    BY <1>1, <1>2, <1>3, <1>6, <2>2, HandoverFrame DEF Inv, TypeOK
  <2> QED BY <2>1, <2>2
<1>9. (OneSaver /\ Created /\ Armed)'
  <2>1. next \in Pending /\ next \notin Saves /\ next # "accept" /\ next # "writeFile"
    BY DEF Pending, Writes, Saves
  <2>2. \A d \in Connection \ {c} : /\ preRequestHeader'[d] = preRequestHeader[d]
                                    /\ counter'[d] = counter[d]
    BY <1>1, <1>3 DEF TypeOK
  <2>3. pending[c] \notin {"none", "accept"}
    BY <1>1
  <2> QED BY <1>1, <1>2, <2>1, <2>2, <2>3, GlobalFrame
<1> QED BY <1>7, <1>8, <1>9 DEF Inv

LEMMA ReadRequestHeaderInv ==
  ASSUME Inv, NEW c \in Connection, NEW h \in RequestHeader, ReadRequestHeader(c, h)
  PROVE  Inv'
<1>1. /\ pending[c] = "ReadRequestHeader"
      /\ requestHeader' = [requestHeader EXCEPT ![c] = h]
      /\ UNCHANGED <<up, preRequestHeader, horcruxes, counter, out>>
  BY DEF ReadRequestHeader, Runs
<1>2. PICK next \in {"ReadRequestContent", "respondThenStop"} :
        /\ pending' = [pending EXCEPT ![c] = next]
        /\ \/ replies' = replies
           \/ replies' = [replies EXCEPT ![c] = Append(replies[c], "FAILURE")]
        /\ next = "ReadRequestContent" => checkRequestHeader(c, h)
  BY DEF ReadRequestHeader, sendResponse
<1>3. TypeOK /\ Incomplete(c) /\ counter[c] = 0
  BY <1>1 DEF Inv, Handover, Saves
<1>4. TypeOK'
  <2>1. next \in Pending
    BY DEF Pending, Writes, Reads
  <2>2. replies' \in [Connection -> Seq({"SUCCESS", "FAILURE"})]
    <3>1. replies \in [Connection -> Seq({"SUCCESS", "FAILURE"})]
      BY <1>3 DEF TypeOK
    <3>2. Append(replies[c], "FAILURE") \in Seq({"SUCCESS", "FAILURE"})
      BY <3>1
    <3> QED BY <1>2, <3>1, <3>2
  <2> QED BY <1>1, <1>2, <1>3, <2>1, <2>2 DEF TypeOK
<1>5. \A d \in Connection : Handover(d)'
  <2> SUFFICES ASSUME NEW d \in Connection PROVE Handover(d)'
    OBVIOUS
  <2>1. CASE d = c
    <3>1. pending'[c] = next /\ counter'[c] = 0 /\ requestHeader'[c] = h /\ horcruxes'[c] = horcruxes[c]
      BY <1>1, <1>2, <1>3 DEF TypeOK
    <3> QED BY <1>2, <1>3, <2>1, <3>1 DEF Handover, Incomplete, Saves, checkRequestHeader
  <2>2. CASE d # c
    BY <1>1, <1>2, <1>3, <2>2, HandoverFrame DEF Inv, TypeOK
  <2> QED BY <2>1, <2>2
<1>6. (OneSaver /\ Created /\ Armed)'
  <2>1. next \in Pending /\ next \notin Saves /\ next # "accept" /\ next # "writeFile"
    BY DEF Pending, Reads, Writes, Saves
  <2>2. pending[c] \notin {"none", "accept"}
    BY <1>1
  <2> QED BY <1>1, <1>2, <2>1, <2>2, GlobalFrame
<1> QED BY <1>4, <1>5, <1>6 DEF Inv

LEMMA ReadRequestContentInv ==
  ASSUME Inv, NEW c \in Connection, NEW content \in [1..requestHeader[c].mContentSize -> Byte],
         ReadRequestContent(c, content)
  PROVE  Inv'
<1> DEFINE i == requestHeader[c].mIndex
           v == [horcruxes[c] EXCEPT ![i] = content]
<1>1. /\ pending[c] = "ReadRequestContent"
      /\ horcruxes' = [horcruxes EXCEPT ![c] = v]
      /\ UNCHANGED <<up, preRequestHeader, requestHeader, counter, out>>
  BY DEF ReadRequestContent, Runs
<1>2. PICK next \in {"respondThenReadRequestHeader", "respondThenSave"} :
        /\ pending' = [pending EXCEPT ![c] = next]
        /\ replies' = [replies EXCEPT ![c] = Append(@, "SUCCESS")]
        /\ next = "respondThenSave" <=> Complete(horcruxes'[c])
  BY DEF ReadRequestContent, sendResponse
<1>3. /\ TypeOK
      /\ counter[c] = 0
      /\ requestHeader[c] \in RequestHeader
      /\ i \in DOMAIN horcruxes[c]
  BY <1>1 DEF Inv, Handover, Saves
<1>4. content \in Content
  BY <1>3 DEF Content, RequestHeader
<1>5. IsVector(v) /\ DOMAIN v = DOMAIN horcruxes[c] /\ 0 \in DOMAIN v
  <2>1. IsVector(horcruxes[c])
    BY <1>3 DEF TypeOK
  <2> HIDE DEF i
  <2> QED BY <1>3, <1>4, <2>1, StoreIsVector
<1> HIDE DEF v
<1>6. /\ horcruxes' = [d \in Connection |-> horcruxes'[d]]
      /\ \A d \in Connection : IsVector(horcruxes'[d])
      /\ \A d \in Connection \ {c} : horcruxes'[d] = horcruxes[d]
      /\ horcruxes'[c] = v
  <2>1. horcruxes = [d \in Connection |-> horcruxes[d]] /\ \A d \in Connection : IsVector(horcruxes[d])
    BY <1>3 DEF TypeOK
  <2> QED BY <1>1, <1>5, <2>1
<1>7. TypeOK'
  <2>1. next \in Pending
    BY DEF Pending, Writes
  <2>2. replies' \in [Connection -> Seq({"SUCCESS", "FAILURE"})]
    BY <1>2, <1>3 DEF TypeOK
  <2> QED BY <1>1, <1>2, <1>3, <1>6, <2>1, <2>2 DEF TypeOK
<1>8. \A d \in Connection : Handover(d)'
  <2> SUFFICES ASSUME NEW d \in Connection PROVE Handover(d)'
    OBVIOUS
  <2>1. CASE d = c
    <3>1. pending'[c] = next /\ counter'[c] = 0
      BY <1>1, <1>2, <1>3 DEF TypeOK
    <3> QED BY <1>2, <1>5, <1>6, <2>1, <3>1 DEF Handover, Incomplete, Saves
  <2>2. CASE d # c
    BY <1>1, <1>2, <1>3, <1>6, <2>2, HandoverFrame DEF Inv, TypeOK
  <2> QED BY <2>1, <2>2
<1>9. (OneSaver /\ Created /\ Armed)'
  <2>1. next \in Pending /\ next \notin Saves /\ next # "accept" /\ next # "writeFile"
    BY DEF Pending, Writes, Saves
  <2>2. pending[c] \notin {"none", "accept"}
    BY <1>1
  <2> QED BY <1>1, <1>2, <2>1, <2>2, GlobalFrame
<1> QED BY <1>7, <1>8, <1>9 DEF Inv

-----------------------------------------------------------------------------
(***************************************************************************)
(* A handler returns without starting another operation.  When it is the   *)
(* one in saveHorcruxes it may have changed "out": nobody else is there.   *)
(***************************************************************************)
LEMMA DestroyInv ==
  ASSUME Inv, NEW c \in Connection, Destroy(c),
         pending[c] \notin {"none", "accept"},
         UNCHANGED up,
         out' \in [Path -> Seq(Byte) \cup {None}],
         out' = out \/ pending[c] \in Saves
  PROVE  Inv'
<1>1. TypeOK
  BY DEF Inv
<1>2. /\ pending' = [pending EXCEPT ![c] = "none"]
      /\ preRequestHeader' = [preRequestHeader EXCEPT ![c] = ZeroPreRequestHeader]
      /\ requestHeader' = [requestHeader EXCEPT ![c] = ZeroRequestHeader]
      /\ horcruxes' = [horcruxes EXCEPT ![c] = EmptyVector]
      /\ counter' = [counter EXCEPT ![c] = 0]
      /\ replies' = [replies EXCEPT ![c] = <<>>]
  BY DEF Destroy
<1>3. /\ horcruxes' = [d \in Connection |-> horcruxes'[d]]
      /\ \A d \in Connection : IsVector(horcruxes'[d])
      /\ \A d \in Connection \ {c} : horcruxes'[d] = horcruxes[d]
      /\ horcruxes'[c] = EmptyVector
  <2>1. horcruxes = [d \in Connection |-> horcruxes[d]] /\ \A d \in Connection : IsVector(horcruxes[d])
    BY <1>1 DEF TypeOK
  <2> QED BY <1>2, <2>1, EmptyIsVector
<1>4. TypeOK'
  BY <1>1, <1>2, <1>3, ServerAssumption DEF TypeOK, Pending
<1>5. /\ pending'[c] = "none"
      /\ \A d \in Connection \ {c} : /\ pending'[d] = pending[d]
                                     /\ preRequestHeader'[d] = preRequestHeader[d]
                                     /\ requestHeader'[d] = requestHeader[d]
                                     /\ counter'[d] = counter[d]
                                     /\ replies'[d] = replies[d]
      /\ counter'[c] = 0
      /\ replies'[c] = <<>>
  BY <1>1, <1>2 DEF TypeOK
<1>6. \A d \in Connection : Handover(d)'
  BY <1>3, <1>5, HandoverFrame, HandoverDestroyed DEF Inv
<1>7. OneSaver'
  BY <1>5 DEF Inv, OneSaver, Saves
<1>8. Created'
  <2> SUFFICES ASSUME NEW d \in Connection, pending'[d] = "writeFile"
               PROVE  out'[horcruxPath(d)'] = <<>>
    BY DEF Created
  <2>1. d # c /\ pending[d] = "writeFile" /\ horcruxPath(d)' = horcruxPath(d)
    BY <1>5 DEF horcruxPath
  <2>2. out' = out
    BY <2>1 DEF Inv, OneSaver, Saves
  <2> QED BY <2>1, <2>2 DEF Inv, Created
<1>9. Armed'
  BY <1>5 DEF Inv, Armed
<1> QED BY <1>4, <1>6, <1>7, <1>8, <1>9 DEF Inv

LEMMA ReadErrorInv ==
  ASSUME Inv, NEW c \in Connection, ReadError(c)
  PROVE  Inv'
<1>1. pending[c] \in Reads /\ Destroy(c) /\ UNCHANGED <<up, out>>
  BY DEF ReadError, Runs
<1>2. pending[c] \notin {"none", "accept"}
  BY <1>1 DEF Reads
<1>3. out' \in [Path -> Seq(Byte) \cup {None}]
  BY <1>1 DEF Inv, TypeOK
<1> QED BY <1>1, <1>2, <1>3, DestroyInv

LEMMA WriteHandlerInv ==
  ASSUME Inv, NEW c \in Connection, writeHandler(c)
  PROVE  Inv'
<1>1. TypeOK /\ Handover(c)
  BY DEF Inv
<1>2. CASE Runs(c, "respondThenStop") /\ Destroy(c) /\ UNCHANGED <<up, out>>
  <2>1. pending[c] \notin {"none", "accept"}
    BY <1>2 DEF Runs
  <2>2. out' \in [Path -> Seq(Byte) \cup {None}]
    BY <1>1, <1>2 DEF TypeOK
  <2> QED BY <1>2, <2>1, <2>2, DestroyInv
<1>3. ASSUME NEW op \in {"respondThenReadRequestHeader", "respondThenSave"},
             NEW next \in {"ReadRequestHeader", "openFile"},
             next = "openFile" <=> op = "respondThenSave",
             Runs(c, op),
             pending' = [pending EXCEPT ![c] = next],
             UNCHANGED <<up, connVars, out>>
      PROVE  Inv'
  <2>1. /\ pending[c] = op
        /\ \A d \in Connection : pending[d] \notin Saves
        /\ UNCHANGED <<up, preRequestHeader, requestHeader, horcruxes, counter, replies, out>>
    BY <1>3 DEF Runs, connVars
  <2>2. next \in Pending /\ next # "accept" /\ next # "writeFile"
    BY DEF Pending, Reads, Saves
  <2>3. TypeOK'
    BY <1>1, <1>3, <2>1, <2>2 DEF TypeOK
  <2>4. pending'[c] = next /\ \A d \in Connection \ {c} : pending'[d] = pending[d]
    BY <1>1, <1>3 DEF TypeOK
  <2>5. \A d \in Connection : Handover(d)'
    <3> SUFFICES ASSUME NEW d \in Connection PROVE Handover(d)'
      OBVIOUS
    <3>1. CASE d = c
      <4>1. counter[c] = 0
        BY <1>1, <2>1 DEF Handover
      <4> QED BY <1>1, <1>3, <2>1, <2>4, <3>1, <4>1 DEF Handover, Incomplete, Saves
    <3>2. CASE d # c
      BY <2>1, <2>4, <3>2, HandoverFrame DEF Inv
    <3> QED BY <3>1, <3>2
  <2>6. (OneSaver /\ Created /\ Armed)'
    <3>1. pending[c] \notin {"none", "accept"}
      BY <2>1
    <3> QED BY <1>3, <2>1, <2>2, <3>1, GlobalFrame
  <2> QED BY <2>3, <2>5, <2>6 DEF Inv
<1> QED BY <1>2, <1>3 DEF writeHandler

-----------------------------------------------------------------------------
\* The file saveFile is at is one of the paths, and a piece of content a sequence.
LEMMA SavePath ==
  ASSUME Inv, NEW c \in Connection, pending[c] \in Saves
  PROVE  /\ horcruxPath(c) \in Path
         /\ counter[c] \in DOMAIN horcruxes[c]
         /\ horcruxes[c][counter[c]] \in Seq(Byte)
<1>1. TypeOK /\ counter[c] \in DOMAIN horcruxes[c] /\ Complete(horcruxes[c])
  BY DEF Inv, Handover
<1>2. IsVector(horcruxes[c])
  BY <1>1 DEF TypeOK
<1>3. /\ horcruxes[c][counter[c]] \in Optional
      /\ counter[c] \in Nat
      /\ counter[c] < MaxNumHorcruxAccepted
  BY <1>1, <1>2, VectorElement
<1>4. horcruxes[c][counter[c]] \in Seq(Byte)
  BY <1>1, <1>3, ContentIsSeq DEF Optional, Complete
<1>5. preRequestHeader[c].mUuid \in Uuid
  BY <1>1, ServerAssumption DEF TypeOK, PreRequestHeader, ZeroPreRequestHeader
<1>6. counter[c] \in 0..(MaxNumHorcruxAccepted - 1)
  BY <1>3, ServerAssumption
<1> QED BY <1>1, <1>4, <1>5, <1>6 DEF Path, horcruxPath

\* saveHorcruxes is done with one file and goes on, or returns.
LEMMA NextHorcruxInv ==
  ASSUME Inv, NEW c \in Connection, NextHorcrux(c),
         pending[c] \in Saves,
         UNCHANGED up,
         out' \in [Path -> Seq(Byte) \cup {None}]
  PROVE  Inv'
<1>1. TypeOK /\ Handover(c)
  BY DEF Inv
<1>2. CASE Destroy(c)
  BY <1>2, DestroyInv DEF Saves
<1>3. CASE /\ counter[c] + 1 \in DOMAIN horcruxes[c]
           /\ counter' = [counter EXCEPT ![c] = @ + 1]
           /\ pending' = [pending EXCEPT ![c] = "openFile"]
           /\ UNCHANGED <<preRequestHeader, requestHeader, horcruxes, replies>>
  <2>1. TypeOK'
    BY <1>1, <1>3 DEF TypeOK, Pending, Saves
  <2>2. /\ pending'[c] = "openFile"
        /\ counter'[c] = counter[c] + 1
        /\ \A d \in Connection \ {c} : pending'[d] = pending[d] /\ counter'[d] = counter[d]
    BY <1>1, <1>3 DEF TypeOK
  <2>3. \A d \in Connection : Handover(d)'
    <3> SUFFICES ASSUME NEW d \in Connection PROVE Handover(d)'
      OBVIOUS
    <3>1. CASE d = c
      BY <1>1, <1>3, <2>2, <3>1 DEF Handover, Saves
    <3>2. CASE d # c
      BY <1>3, <2>2, <3>2, HandoverFrame DEF Inv
    <3> QED BY <3>1, <3>2
  <2>4. OneSaver'
    BY <2>2 DEF Inv, OneSaver, Saves
  <2>5. Created'
    BY <2>2 DEF Inv, OneSaver, Created, Saves
  <2>6. Armed'
    BY <2>2 DEF Inv, Armed, Saves
  <2> QED BY <2>1, <2>3, <2>4, <2>5, <2>6 DEF Inv
<1> QED BY <1>2, <1>3 DEF NextHorcrux

LEMMA OpenFileInv ==
  ASSUME Inv, NEW c \in Connection, openFile(c)
  PROVE  Inv'
<1>1. pending[c] = "openFile" /\ pending[c] \in Saves /\ UNCHANGED up /\ TypeOK
  BY DEF openFile, Saves, Inv
<1>2. CASE NextHorcrux(c) /\ UNCHANGED out
  <2>1. out' \in [Path -> Seq(Byte) \cup {None}]
    BY <1>1, <1>2 DEF TypeOK
  <2> QED BY <1>1, <1>2, <2>1, NextHorcruxInv
<1>3. CASE /\ out' = [out EXCEPT ![horcruxPath(c)] = <<>>]
           /\ pending' = [pending EXCEPT ![c] = "writeFile"]
           /\ UNCHANGED connVars
  <2>1. UNCHANGED <<preRequestHeader, requestHeader, horcruxes, counter, replies>>
    BY <1>3 DEF connVars
  <2>2. horcruxPath(c) \in Path /\ <<>> \in Seq(Byte)
    BY <1>1, SavePath
  <2>3. out' \in [Path -> Seq(Byte) \cup {None}] /\ out'[horcruxPath(c)] = <<>>
    BY <1>1, <1>3, <2>2 DEF TypeOK
  <2>4. TypeOK'
    BY <1>1, <1>3, <2>1, <2>3 DEF TypeOK, Pending, Saves
  <2>5. pending'[c] = "writeFile" /\ \A d \in Connection \ {c} : pending'[d] = pending[d]
    BY <1>1, <1>3 DEF TypeOK
  <2>6. \A d \in Connection : Handover(d)'
    <3> SUFFICES ASSUME NEW d \in Connection PROVE Handover(d)'
      OBVIOUS
    <3>1. CASE d = c
      <4>1. Handover(c)
        BY DEF Inv
      <4> QED BY <1>1, <2>1, <2>5, <3>1, <4>1 DEF Handover, Saves
    <3>2. CASE d # c
      BY <2>1, <2>5, <3>2, HandoverFrame DEF Inv
    <3> QED BY <3>1, <3>2
  <2>7. OneSaver'
    BY <1>1, <2>5 DEF Inv, OneSaver, Saves
  <2>8. Created'
    <3> SUFFICES ASSUME NEW d \in Connection, pending'[d] = "writeFile"
                 PROVE  out'[horcruxPath(d)'] = <<>>
      BY DEF Created
    <3>1. d = c
      BY <1>1, <2>5 DEF Inv, OneSaver, Saves
    <3>2. horcruxPath(c)' = horcruxPath(c)
      BY <2>1 DEF horcruxPath
    <3> QED BY <2>3, <3>1, <3>2
  <2>9. Armed'
    BY <1>1, <2>5 DEF Inv, Armed
  <2> QED BY <2>4, <2>6, <2>7, <2>8, <2>9 DEF Inv
<1> QED BY <1>2, <1>3 DEF openFile

\* What a save leaves in a file: the content or, when the disk or the process fails, a part of it.
LEMMA PartIsSeq ==
  ASSUME Inv, NEW c \in Connection, pending[c] \in Saves,
         NEW k \in 0..Len(horcruxes[c][counter[c]])
  PROVE  SubSeq(horcruxes[c][counter[c]], 1, k) \in Seq(Byte)
<1> DEFINE x == horcruxes[c][counter[c]]
<1>1. x \in Seq(Byte)
  BY SavePath
<1> HIDE DEF x
<1>2. \A i \in 1..k : x[i] \in Byte
  BY <1>1 DEF x
<1>3. k \in Int /\ 1 \in Int
  BY <1>1 DEF x
<1>4. SubSeq(x, 1, k) \in Seq(Byte)
  BY <1>2, <1>3
<1> QED BY <1>4 DEF x

LEMMA WriteFileInv ==
  ASSUME Inv, NEW c \in Connection, writeFile(c) \/ openFails(c) \/ writeFails(c)
  PROVE  Inv'
<1>1. pending[c] \in Saves /\ UNCHANGED up /\ NextHorcrux(c) /\ TypeOK
  BY DEF writeFile, openFails, writeFails, Saves, Inv
<1>2. PICK x \in Seq(Byte) : out' = [out EXCEPT ![horcruxPath(c)] = x] \/ out' = out
  <2>1. CASE writeFile(c)
    BY <1>1, <2>1, SavePath DEF writeFile
  <2>2. CASE openFails(c)
    <3>1. out' = out /\ <<>> \in Seq(Byte)
      BY <2>2 DEF openFails
    <3> QED BY <3>1
  <2>3. CASE writeFails(c)
    <3>1. PICK k \in 0..(Len(horcruxes[c][counter[c]]) - 1) :
            out' = [out EXCEPT ![horcruxPath(c)] = SubSeq(horcruxes[c][counter[c]], 1, k)]
      BY <2>3 DEF writeFails
    <3>2. k \in 0..Len(horcruxes[c][counter[c]])
      BY <1>1, SavePath
    <3> QED BY <1>1, <3>1, <3>2, PartIsSeq
  <2> QED BY <2>1, <2>2, <2>3
<1>3. out' \in [Path -> Seq(Byte) \cup {None}]
  BY <1>1, <1>2 DEF TypeOK
<1> QED BY <1>1, <1>3, NextHorcruxInv

LEMMA CrashInv ==
  ASSUME Inv, Crash
  PROVE  Inv'
<1>1. TypeOK
  BY DEF Inv
<1>2. /\ up' = FALSE
      /\ pending' = [c \in Connection |-> "none"]
      /\ preRequestHeader' = [c \in Connection |-> ZeroPreRequestHeader]
      /\ requestHeader' = [c \in Connection |-> ZeroRequestHeader]
      /\ horcruxes' = [c \in Connection |-> EmptyVector]
      /\ counter' = [c \in Connection |-> 0]
      /\ replies' = [c \in Connection |-> <<>>]
  BY DEF Crash
<1>3. out' \in [Path -> Seq(Byte) \cup {None}]
  <2>1. CASE UNCHANGED out
    BY <1>1, <2>1 DEF TypeOK
  <2>2. ASSUME NEW c \in Connection, pending[c] = "writeFile",
               NEW k \in 1..Len(horcruxes[c][counter[c]]),
               out' = [out EXCEPT ![horcruxPath(c)] = SubSeq(horcruxes[c][counter[c]], 1, k)]
        PROVE  out' \in [Path -> Seq(Byte) \cup {None}]
    <3>1. pending[c] \in Saves
      BY <2>2 DEF Saves
    <3>2. k \in 0..Len(horcruxes[c][counter[c]])
      BY <3>1, SavePath
    <3>3. SubSeq(horcruxes[c][counter[c]], 1, k) \in Seq(Byte)
      BY <3>1, <3>2, PartIsSeq
    <3> QED BY <1>1, <2>2, <3>3 DEF TypeOK
  <2> QED BY <2>1, <2>2 DEF Crash
<1>4. TypeOK'
  <2>1. horcruxes' = [d \in Connection |-> horcruxes'[d]] /\ \A d \in Connection : IsVector(horcruxes'[d])
    BY <1>2, EmptyIsVector
  <2>2. replies' \in [Connection -> Seq({"SUCCESS", "FAILURE"})]
    <3>1. <<>> \in Seq({"SUCCESS", "FAILURE"})
      OBVIOUS
    <3> QED BY <1>2, <3>1
  <2> QED BY <1>2, <1>3, <2>1, <2>2 DEF TypeOK, Pending
<1>5. \A d \in Connection : Handover(d)'
  BY <1>2, HandoverDestroyed
<1>6. (OneSaver /\ Created /\ Armed)'
  BY <1>2 DEF OneSaver, Created, Armed, Saves
<1> QED BY <1>4, <1>5, <1>6 DEF Inv

LEMMA RestartInv ==
  ASSUME Inv, NEW c \in Connection, Restart(c)
  PROVE  Inv'
<1>1. /\ TypeOK
      /\ up' = TRUE
      /\ pending' = [pending EXCEPT ![c] = "accept"]
      /\ UNCHANGED <<preRequestHeader, requestHeader, horcruxes, counter, replies, out>>
      /\ \A d \in Connection : pending[d] = "none"
  BY DEF Restart, Inv, Armed, connVars
<1>2. /\ pending'[c] = "accept"
      /\ \A d \in Connection \ {c} : pending'[d] = "none"
  BY <1>1 DEF TypeOK
<1>3. TypeOK'
  BY <1>1 DEF TypeOK, Pending
<1>4. \A d \in Connection : Handover(d)'
  BY <1>1, <1>2 DEF Inv, Handover, Fresh, Saves
<1>5. (OneSaver /\ Created /\ Armed)'
  BY <1>1, <1>2 DEF OneSaver, Created, Armed, Saves
<1> QED BY <1>3, <1>4, <1>5 DEF Inv

LEMMA NextInv == Inv /\ [Next]_vars => Inv'
<1> SUFFICES ASSUME Inv, [Next]_vars PROVE Inv'
  OBVIOUS
<1>1. ASSUME NEW c \in Connection, Peer(c) PROVE Inv'
  BY <1>1, AcceptInv, ReadPreRequestHeaderInv, ReadRequestHeaderInv, ReadRequestContentInv,
     ReadErrorInv DEF Peer
<1>2. ASSUME NEW c \in Connection, writeHandler(c) \/ openFile(c) \/ writeFile(c) PROVE Inv'
  BY <1>2, WriteHandlerInv, OpenFileInv, WriteFileInv
<1>3. CASE Fault
  BY <1>3, WriteFileInv, RestartInv, CrashInv DEF Fault
<1>4. CASE UNCHANGED vars
  BY <1>4 DEF Inv, TypeOK, Handover, Fresh, Incomplete, OneSaver, Created, Armed, horcruxPath, vars, connVars
<1> QED BY <1>1, <1>2, <1>3, <1>4 DEF Next, FaultFreeNext

THEOREM SpecInv == Spec => []Inv
BY InitInv, NextInv, PTL DEF Spec

-----------------------------------------------------------------------------
(***************************************************************************)
(* The variables of the server keep their types: in particular no vector   *)
(* grows beyond mMaxNumHorcruxAccepted, and every file is one of the       *)
(* paths that saveHorcruxes may write.                                     *)
(***************************************************************************)
THEOREM ServerTypeOK == Spec => []TypeOK
<1>1. Inv => TypeOK
  BY DEF Inv
<1> QED BY <1>1, SpecInv, PTL

(***************************************************************************)
(* ReadRequestContent's unchecked operator[] is within the vector and its  *)
(* slot empty, whatever the peer sends and however long it takes.          *)
(***************************************************************************)
THEOREM ContentHasSlot == Spec => []SlotReserved
<1>1. Inv => SlotReserved
  BY DEF Inv, Handover, SlotReserved
<1> QED BY <1>1, SpecInv, PTL

(***************************************************************************)
(* saveHorcruxes runs on complete requests only, so that the optionals it  *)
(* dereferences all have a value, and a complete request is saved: the     *)
(* connection does not wait for more.                                      *)
(***************************************************************************)
THEOREM SavesCompleteRequests == Spec => []SaveIffComplete
<1>1. ASSUME Inv PROVE SaveIffComplete
  <2> SUFFICES ASSUME NEW c \in Connection, horcruxes[c] # EmptyVector
               PROVE  pending[c] \in Saves \cup {"respondThenSave"}
                        <=> Received(c) = DOMAIN horcruxes[c]
    BY DEF SaveIffComplete
  <2>1. Handover(c) /\ pending[c] \in Pending
    BY <1>1 DEF Inv, TypeOK
  <2>2. Received(c) = DOMAIN horcruxes[c] <=> Complete(horcruxes[c])
    BY DEF Received, Complete
  <2>3. CASE pending[c] \in Saves \cup {"respondThenSave"}
    BY <2>1, <2>2, <2>3 DEF Handover
  <2>4. CASE pending[c] \notin Saves \cup {"respondThenSave"}
    <3>1. ~Complete(horcruxes[c])
      BY <2>1, <2>4 DEF Handover, Fresh, Incomplete, Complete, Pending, Reads, Writes
    <3> QED BY <2>2, <2>4, <3>1
  <2> QED BY <2>3, <2>4
<1> QED BY <1>1, SpecInv, PTL

(***************************************************************************)
(* The server never stops accepting while its process runs, and never      *)
(* waits with two connections (TcpServer::handle_accept).                  *)
(***************************************************************************)
THEOREM AlwaysAccepting == Spec => []AcceptorArmed
<1>1. ASSUME Inv PROVE AcceptorArmed
  <2> DEFINE A == {c \in Connection : pending[c] = "accept"}
  <2>1. CASE up
    <3>1. PICK c \in Connection : \A d \in Connection : pending[d] = "accept" <=> d = c
      BY <1>1, <2>1 DEF Inv, Armed
    <3>2. A = {c}
      BY <3>1
    <3> QED BY <2>1, <3>2, FS_Singleton DEF AcceptorArmed
  <2>2. CASE ~up
    <3>1. A = {}
      BY <1>1, <2>2 DEF Inv, Armed
    <3> QED BY <2>2, <3>1, FS_EmptySet DEF AcceptorArmed
  <2> QED BY <2>1, <2>2
<1> QED BY <1>1, SpecInv, PTL

-----------------------------------------------------------------------------
(***************************************************************************)
(* All that a step can do to "out": create the file the saver is at, or    *)
(* put its content, or a part of it, into the file that was just created.  *)
(***************************************************************************)
Creates(c) ==
  /\ pending[c] = "openFile"
  /\ out[horcruxPath(c)] = None
  /\ out' = [out EXCEPT ![horcruxPath(c)] = <<>>]

Fills(c) ==
  /\ pending[c] = "writeFile"
  /\ \E k \in 0..Len(horcruxes[c][counter[c]]) :
       out' = [out EXCEPT ![horcruxPath(c)] = SubSeq(horcruxes[c][counter[c]], 1, k)]

LEMMA WriteFileFills ==
  ASSUME Inv, NEW c \in Connection, writeFile(c)
  PROVE  Fills(c)
<1> DEFINE x == horcruxes[c][counter[c]]
<1>1. pending[c] = "writeFile" /\ pending[c] \in Saves /\ out' = [out EXCEPT ![horcruxPath(c)] = x]
  BY DEF writeFile, Saves
<1>2. x \in Seq(Byte)
  BY <1>1, SavePath
<1> HIDE DEF x
<1>3. SubSeq(x, 1, Len(x)) = x /\ Len(x) \in 0..Len(x)
  BY <1>2
<1> QED BY <1>1, <1>3 DEF Fills, x

LEMMA FaultFills ==
  ASSUME Inv, NEW c \in Connection, pending[c] = "writeFile",
         \/ writeFails(c)
         \/ \E k \in 1..Len(horcruxes[c][counter[c]]) :
              out' = [out EXCEPT ![horcruxPath(c)] = SubSeq(horcruxes[c][counter[c]], 1, k)]
  PROVE  Fills(c)
<1>1. horcruxes[c][counter[c]] \in Seq(Byte)
  BY SavePath DEF Saves
<1>2. Len(horcruxes[c][counter[c]]) \in Nat
  BY <1>1
<1> QED BY <1>2 DEF Fills, writeFails

LEMMA OutStep ==
  ASSUME Inv, [Next]_vars
  PROVE  \/ UNCHANGED out
         \/ \E c \in Connection : Creates(c) \/ Fills(c)
<1>1. ASSUME NEW c \in Connection, Peer(c) \/ writeHandler(c) \/ openFails(c) \/ Restart(c)
      PROVE  UNCHANGED out
  BY <1>1 DEF Peer, handle_accept, ReadPreRequestHeader, ReadRequestHeader, ReadRequestContent,
              ReadError, writeHandler, openFails, Restart
<1>2. ASSUME NEW c \in Connection, openFile(c)
      PROVE  UNCHANGED out \/ Creates(c)
  BY <1>2 DEF openFile, Creates
<1>3. ASSUME NEW c \in Connection, writeFile(c)
      PROVE  Fills(c)
  BY <1>3, WriteFileFills
<1>4. ASSUME NEW c \in Connection, writeFails(c)
      PROVE  Fills(c)
  BY <1>4, FaultFills DEF writeFails
<1>5. CASE Crash
  BY <1>5, FaultFills DEF Crash
<1>6. CASE UNCHANGED vars
  BY <1>6 DEF vars
<1> QED BY <1>1, <1>2, <1>3, <1>4, <1>5, <1>6 DEF Next, FaultFreeNext, Fault

(***************************************************************************)
(* No upload, crash or failing disk changes a file that another call of    *)
(* saveFile wrote, and files are made of complete requests only.           *)
(***************************************************************************)
THEOREM FilesAreWrittenOnce == Spec => OutWrittenOnce
<1> DEFINE A == \A p \in Path : out'[p] # out[p] =>
                  \E c \in Connection :
                    /\ p[1] = preRequestHeader[c].mUuid
                    /\ Received(c) = DOMAIN horcruxes[c]
                    /\ \/ pending[c] = "openFile" /\ out[p] = None /\ out'[p] = <<>>
                       \/ /\ pending[c] = "writeFile"
                          /\ out[p] = <<>>
                          /\ out'[p] = SubSeq(horcruxes[c][p[2]], 1, Len(out'[p]))
<1>1. ASSUME Inv, [Next]_vars PROVE A
  <2> SUFFICES ASSUME NEW p \in Path, out'[p] # out[p]
               PROVE  \E c \in Connection :
                        /\ p[1] = preRequestHeader[c].mUuid
                        /\ Received(c) = DOMAIN horcruxes[c]
                        /\ \/ pending[c] = "openFile" /\ out[p] = None /\ out'[p] = <<>>
                           \/ /\ pending[c] = "writeFile"
                              /\ out[p] = <<>>
                              /\ out'[p] = SubSeq(horcruxes[c][p[2]], 1, Len(out'[p]))
    OBVIOUS
  <2>1. PICK c \in Connection : Creates(c) \/ Fills(c)
    BY <1>1, OutStep
  <2>2. pending[c] \in Saves /\ out \in [Path -> Seq(Byte) \cup {None}]
    BY <1>1, <2>1 DEF Creates, Fills, Saves, Inv, TypeOK
  <2>3. Received(c) = DOMAIN horcruxes[c]
    BY <1>1, <2>2 DEF Inv, Handover, Complete, Received
  <2>4. p = horcruxPath(c)
    BY <2>1, <2>2 DEF Creates, Fills
  <2>5. p[1] = preRequestHeader[c].mUuid /\ p[2] = counter[c]
    BY <2>4 DEF horcruxPath
  <2>6. CASE Creates(c)
    BY <2>2, <2>3, <2>4, <2>5, <2>6 DEF Creates
  <2>7. CASE Fills(c)
    <3> DEFINE x == horcruxes[c][counter[c]]
    <3>1. PICK k \in 0..Len(x) : out' = [out EXCEPT ![p] = SubSeq(x, 1, k)]
      BY <2>4, <2>7 DEF Fills
    <3>2. x \in Seq(Byte)
      BY <1>1, <2>2, SavePath
    <3>3. out'[p] = SubSeq(x, 1, k)
      BY <2>2, <3>1
    <3> HIDE DEF x
    <3>4. Len(SubSeq(x, 1, k)) = k
      BY <3>2
    <3>5. pending[c] = "writeFile" /\ out[p] = <<>>
      BY <1>1, <2>4, <2>7 DEF Fills, Inv, Created
    <3> QED BY <2>3, <2>5, <3>3, <3>4, <3>5 DEF x
  <2> QED BY <2>1, <2>6, <2>7
<1>2. Spec => [][A]_vars
  <2>1. Inv /\ [Next]_vars => [A]_vars
    BY <1>1
  <2> QED BY <2>1, SpecInv, PTL DEF Spec
<1> QED BY <1>2 DEF OutWrittenOnce

-----------------------------------------------------------------------------
(***************************************************************************)
(* The responses.  RepliesCountHorcruxes is inductive relative to Inv; it  *)
(* only changes with the vector and the responses of a connection.         *)
(***************************************************************************)
Uncounted == {"none", "accept", "ReadPreRequestHeader", "respondThenStop"}

Counted(c) ==
  pending[c] \notin Uncounted =>
    /\ \A k \in DOMAIN replies[c] : replies[c][k] = "SUCCESS"
    /\ Len(replies[c]) = 1 + Cardinality(Received(c))

LEMMA CountedFrame ==
  ASSUME NEW d, Counted(d),
         \/ pending'[d] \in Uncounted
         \/ /\ pending[d] \notin Uncounted
            /\ horcruxes'[d] = horcruxes[d]
            /\ replies'[d] = replies[d]
  PROVE  Counted(d)'
<1>1. CASE pending'[d] \in Uncounted
  BY <1>1 DEF Counted
<1>2. CASE /\ pending[d] \notin Uncounted
           /\ horcruxes'[d] = horcruxes[d]
           /\ replies'[d] = replies[d]
  <2>1. Received(d)' = Received(d)
    BY <1>2 DEF Received
  <2> QED BY <1>2, <2>1 DEF Counted
<1> QED BY <1>1, <1>2

LEMMA ReceivedFinite ==
  ASSUME NEW c \in Connection, TypeOK
  PROVE  IsFiniteSet(Received(c)) /\ Cardinality(Received(c)) \in Nat
<1>1. PICK n \in 0..MaxNumHorcruxAccepted : horcruxes[c] \in [0..(n - 1) -> Optional]
  BY DEF TypeOK, IsVector
<1>2. IsFiniteSet(0..(n - 1))
  BY FS_Interval, ServerAssumption
<1>3. Received(c) \in SUBSET (0..(n - 1))
  BY <1>1 DEF Received
<1> QED BY <1>2, <1>3, FS_Subset, FS_CardinalityType

LEMMA CountedPreRequest ==
  ASSUME Inv, NEW c \in Connection, NEW h \in PreRequestHeader, ReadPreRequestHeader(c, h)
  PROVE  Counted(c)'
<1>1. pending[c] = "ReadPreRequestHeader" /\ TypeOK
  BY DEF ReadPreRequestHeader, Runs, Inv
<1>2. replies[c] = <<>>
  BY <1>1 DEF Inv, Handover, Fresh
<1>3. CASE /\ horcruxes' = [horcruxes EXCEPT ![c] = [i \in 0..(h.mNumHorcruxes - 1) |-> None]]
           /\ sendResponse(c, TRUE, "respondThenReadRequestHeader")
  <2>1. Received(c)' = {}
    BY <1>1, <1>3 DEF Received, TypeOK
  <2>2. replies'[c] = <<"SUCCESS">>
    BY <1>1, <1>2, <1>3 DEF sendResponse, TypeOK
  <2>3. Cardinality(Received(c)') = 0
    BY <2>1, FS_EmptySet
  <2> QED BY <2>2, <2>3 DEF Counted
<1>4. CASE sendResponse(c, FALSE, "respondThenStop")
  BY <1>1, <1>4 DEF Counted, Uncounted, sendResponse, TypeOK
<1> QED BY <1>3, <1>4 DEF ReadPreRequestHeader

LEMMA CountedContent ==
  ASSUME Inv, NEW c \in Connection, Counted(c),
         NEW content \in [1..requestHeader[c].mContentSize -> Byte], ReadRequestContent(c, content)
  PROVE  Counted(c)'
<1> DEFINE i == requestHeader[c].mIndex
<1>1. /\ TypeOK
      /\ pending[c] = "ReadRequestContent"
      /\ i \in DOMAIN horcruxes[c]
      /\ horcruxes[c][i] = None
      /\ requestHeader[c] \in RequestHeader
  BY DEF ReadRequestContent, Runs, Inv, Handover
<1>2. content # None
  <2>1. content \in Content
    BY <1>1 DEF Content, RequestHeader
  <2> QED BY <2>1, ContentIsSeq
<1> HIDE DEF i
<1>3. horcruxes'[c] = [horcruxes[c] EXCEPT ![i] = content]
  BY <1>1 DEF ReadRequestContent, TypeOK, i
<1>4. Received(c)' = Received(c) \cup {i} /\ i \notin Received(c)
  BY <1>1, <1>2, <1>3 DEF Received
<1>5. Cardinality(Received(c)') = Cardinality(Received(c)) + 1
  BY <1>1, <1>4, ReceivedFinite, FS_AddElement
<1>6. replies'[c] = Append(replies[c], "SUCCESS") /\ replies[c] \in Seq({"SUCCESS", "FAILURE"})
  BY <1>1 DEF ReadRequestContent, sendResponse, TypeOK
<1>7. /\ \A k \in DOMAIN replies[c] : replies[c][k] = "SUCCESS"
      /\ Len(replies[c]) = 1 + Cardinality(Received(c))
  BY <1>1 DEF Counted, Uncounted
<1>8. /\ \A k \in DOMAIN replies'[c] : replies'[c][k] = "SUCCESS"
      /\ Len(replies'[c]) = Len(replies[c]) + 1
  BY <1>6, <1>7
<1>9. Cardinality(Received(c)) \in Nat
  BY <1>1, ReceivedFinite
<1> QED BY <1>5, <1>7, <1>8, <1>9 DEF Counted

LEMMA NextCounted ==
  ASSUME Inv, [Next]_vars, \A c \in Connection : Counted(c), NEW d \in Connection
  PROVE  Counted(d)'
<1>1. TypeOK /\ Counted(d)
  BY DEF Inv
<1>2. ASSUME NEW c \in Connection, Peer(c)
      PROVE  Counted(d)'
  <2>1. ASSUME NEW n \in Connection, NEW error \in BOOLEAN, handle_accept(c, n, error)
        PROVE  Counted(d)'
    BY <1>1, <2>1, CountedFrame DEF handle_accept, Runs, connVars, Uncounted, TypeOK
  <2>2. ASSUME NEW h \in PreRequestHeader, ReadPreRequestHeader(c, h)
        PROVE  Counted(d)'
    <3>1. CASE d = c
      BY <2>2, <3>1, CountedPreRequest
    <3>2. CASE d # c
      BY <1>1, <2>2, <3>2, CountedFrame DEF ReadPreRequestHeader, sendResponse, TypeOK
    <3> QED BY <3>1, <3>2
  <2>3. ASSUME NEW h \in RequestHeader, ReadRequestHeader(c, h)
        PROVE  Counted(d)'
    BY <1>1, <2>3, CountedFrame DEF ReadRequestHeader, sendResponse, Runs, Uncounted, TypeOK
  <2>4. ASSUME NEW content \in [1..requestHeader[c].mContentSize -> Byte],
               ReadRequestContent(c, content)
        PROVE  Counted(d)'
    <3>1. CASE d = c
      BY <2>4, <3>1, <1>1, CountedContent
    <3>2. CASE d # c
      BY <1>1, <2>4, <3>2, CountedFrame DEF ReadRequestContent, sendResponse, TypeOK
    <3> QED BY <3>1, <3>2
  <2>5. CASE ReadError(c)
    BY <1>1, <2>5, CountedFrame DEF ReadError, Destroy, Uncounted, TypeOK
  <2> QED BY <1>2, <2>1, <2>2, <2>3, <2>4, <2>5 DEF Peer
<1>3. ASSUME NEW c \in Connection, writeHandler(c)
      PROVE  Counted(d)'
  BY <1>1, <1>3, CountedFrame DEF writeHandler, Runs, Destroy, connVars, Uncounted, TypeOK
<1>4. ASSUME NEW c \in Connection, NextHorcrux(c), pending[c] \in Saves
      PROVE  Counted(d)'
  BY <1>1, <1>4, CountedFrame DEF NextHorcrux, Destroy, Uncounted, TypeOK, Saves
<1>5. ASSUME NEW c \in Connection, openFile(c) \/ writeFile(c) \/ openFails(c) \/ writeFails(c)
      PROVE  Counted(d)'
  <2>1. pending[c] \in Saves
    BY <1>5 DEF openFile, writeFile, openFails, writeFails, Saves
  <2>2. CASE NextHorcrux(c)
    BY <1>4, <2>1, <2>2
  <2>3. CASE pending' = [pending EXCEPT ![c] = "writeFile"] /\ UNCHANGED connVars
    BY <1>1, <2>1, <2>3, CountedFrame DEF connVars, Uncounted, Saves, TypeOK
  <2> QED BY <1>5, <2>2, <2>3 DEF openFile, writeFile, openFails, writeFails
<1>6. ASSUME NEW c \in Connection, Restart(c)
      PROVE  Counted(d)'
  BY <1>1, <1>6, CountedFrame DEF Restart, Inv, Armed, Uncounted, TypeOK
<1>7. CASE Crash
  BY <1>1, <1>7, CountedFrame DEF Crash, Uncounted
<1>8. CASE UNCHANGED vars
  BY <1>1, <1>8 DEF Counted, Received, vars, connVars
<1> QED BY <1>2, <1>3, <1>5, <1>6, <1>7, <1>8 DEF Next, FaultFreeNext, Fault

(***************************************************************************)
(* A peer that is answered SUCCESS can count: one answer for the           *)
(* pre-request header and one for each Horcrux the connection holds, so    *)
(* none was lost, taken twice or put into another's place.                 *)
(***************************************************************************)
THEOREM RepliesCount == Spec => []RepliesCountHorcruxes
<1> DEFINE All == \A c \in Connection : Counted(c)
<1>1. Init => All
  BY DEF Init, Counted, Uncounted
<1>2. Inv /\ All /\ [Next]_vars => All'
  BY NextCounted
<1>3. All => RepliesCountHorcruxes
  BY DEF Counted, Uncounted, RepliesCountHorcruxes
<1> HIDE DEF All
<1> QED BY <1>1, <1>2, <1>3, SpecInv, PTL DEF Spec

-----------------------------------------------------------------------------
(***************************************************************************)
(* What a reader of "out" can rely on: the files of a UUID have no gap,    *)
(* and the server implements the write-once store of UploadStore.          *)
(***************************************************************************)

(***************************************************************************)
(* FilesHaveNoGap is not inductive by itself: a save in progress also has  *)
(* to have left a file at each index its loop has passed.                  *)
(***************************************************************************)
Behind(c) ==
  pending[c] \in Saves =>
    \A i \in 0..(counter[c] - 1) : out[<<preRequestHeader[c].mUuid, i>>] # None

GapInv ==
  ~DiskFaults => /\ \A c \in Connection : Behind(c)
                 /\ FilesHaveNoGap

\* A file never goes away.
LEMMA FilesStay ==
  ASSUME Inv, [Next]_vars, NEW p \in Path, out[p] # None
  PROVE  out'[p] # None
<1>1. out \in [Path -> Seq(Byte) \cup {None}] /\ Inv'
  BY NextInv DEF Inv, TypeOK
<1>2. CASE UNCHANGED out
  BY <1>2
<1>3. ASSUME NEW c \in Connection, Creates(c) PROVE out'[p] # None
  BY <1>1, <1>3 DEF Creates
<1>4. ASSUME NEW c \in Connection, Fills(c) PROVE out'[p] # None
  <2>1. pending[c] \in Saves
    BY <1>4 DEF Fills, Saves
  <2>2. PICK k \in 0..Len(horcruxes[c][counter[c]]) :
          out' = [out EXCEPT ![horcruxPath(c)] = SubSeq(horcruxes[c][counter[c]], 1, k)]
    BY <1>4 DEF Fills
  <2>3. SubSeq(horcruxes[c][counter[c]], 1, k) # None
    BY <2>1, PartIsSeq, ServerAssumption
  <2> QED BY <1>1, <2>2, <2>3
<1> QED BY <1>2, <1>3, <1>4, OutStep

\* The paths of the files a save has passed.
LEMMA BehindPath ==
  ASSUME Inv, NEW c \in Connection, pending[c] \in Saves, NEW i \in 0..counter[c]
  PROVE  <<preRequestHeader[c].mUuid, i>> \in Path
<1>1. horcruxPath(c) \in Path /\ counter[c] \in Nat
  BY SavePath DEF Inv, TypeOK
<1> QED BY <1>1, ServerAssumption DEF horcruxPath, Path

LEMMA GapInit == Init => GapInv
BY ServerAssumption DEF Init, GapInv, Behind, FilesHaveNoGap, Saves, Path

\* No gap appears: the only new file is the one the saver is at.
LEMMA GapStep ==
  ASSUME Inv, GapInv, [Next]_vars, ~DiskFaults
  PROVE  FilesHaveNoGap'
<1> SUFFICES ASSUME NEW u \in Uuid,
                    NEW i \in 0..(MaxNumHorcruxAccepted - 1), NEW j \in 0..(MaxNumHorcruxAccepted - 1),
                    i < j, out'[<<u, j>>] # None
             PROVE  out'[<<u, i>>] # None
  BY DEF FilesHaveNoGap
<1>1. <<u, i>> \in Path /\ <<u, j>> \in Path
  BY DEF Path
<1>2. CASE out[<<u, j>>] # None
  <2>1. out[<<u, i>>] # None
    BY <1>2 DEF GapInv, FilesHaveNoGap
  <2> QED BY <1>1, <2>1, FilesStay
<1>3. CASE out[<<u, j>>] = None
  <2>1. PICK c \in Connection : Creates(c) \/ Fills(c)
    BY <1>3, OutStep
  <2>2. pending[c] \in Saves /\ out \in [Path -> Seq(Byte) \cup {None}]
    BY <2>1 DEF Creates, Fills, Saves, Inv, TypeOK
  <2>3. <<u, j>> = horcruxPath(c)
    BY <1>1, <1>3, <2>1, <2>2 DEF Creates, Fills
  <2>4. u = preRequestHeader[c].mUuid /\ j = counter[c]
    BY <2>3 DEF horcruxPath
  <2>5. i \in 0..(counter[c] - 1)
    BY <2>4, ServerAssumption
  <2>6. out[<<u, i>>] # None
    BY <2>2, <2>4, <2>5 DEF GapInv, Behind
  <2> QED BY <1>1, <2>6, FilesStay
<1> QED BY <1>2, <1>3

\* The saver moves on over a file that exists.
LEMMA BehindNext ==
  ASSUME Inv, GapInv, [Next]_vars, ~DiskFaults,
         NEW c \in Connection, NextHorcrux(c), pending[c] \in Saves,
         out'[horcruxPath(c)] # None
  PROVE  Behind(c)'
<1>1. TypeOK /\ Behind(c) /\ counter[c] \in Nat
  BY DEF Inv, TypeOK, GapInv
<1>2. CASE Destroy(c)
  BY <1>1, <1>2 DEF Destroy, Behind, Saves, TypeOK
<1>3. CASE counter' = [counter EXCEPT ![c] = @ + 1] /\ UNCHANGED preRequestHeader
  <2>1. counter'[c] = counter[c] + 1 /\ preRequestHeader'[c] = preRequestHeader[c]
    BY <1>1, <1>3 DEF TypeOK
  <2>2. ASSUME NEW i \in 0..counter[c]
        PROVE  out'[<<preRequestHeader[c].mUuid, i>>] # None
    <3>1. CASE i = counter[c]
      BY <3>1 DEF horcruxPath
    <3>2. CASE i # counter[c]
      <4>1. i \in 0..(counter[c] - 1)
        BY <1>1, <3>2
      <4>2. out[<<preRequestHeader[c].mUuid, i>>] # None
        BY <1>1, <4>1 DEF Behind
      <4> QED BY <4>2, FilesStay, BehindPath
    <3> QED BY <3>1, <3>2
  <2>3. 0..(counter'[c] - 1) = 0..counter[c]
    BY <1>1, <2>1
  <2> QED BY <2>1, <2>2, <2>3 DEF Behind
<1> QED BY <1>2, <1>3 DEF NextHorcrux

\* The others, and a step that leaves the loop where it is.
LEMMA BehindFrame ==
  ASSUME Inv, GapInv, [Next]_vars, ~DiskFaults, NEW d \in Connection,
         \/ pending'[d] \notin Saves
         \/ pending'[d] \in Saves /\ counter'[d] = 0
         \/ /\ pending[d] \in Saves
            /\ counter'[d] = counter[d]
            /\ preRequestHeader'[d] = preRequestHeader[d]
  PROVE  Behind(d)'
<1>1. CASE pending'[d] \notin Saves
  BY <1>1 DEF Behind
<1>2. CASE counter'[d] = 0
  BY <1>2 DEF Behind
<1>3. CASE /\ pending[d] \in Saves
           /\ counter'[d] = counter[d]
           /\ preRequestHeader'[d] = preRequestHeader[d]
  <2>1. counter[d] \in Nat /\ Behind(d)
    BY DEF Inv, TypeOK, GapInv
  <2>2. ASSUME NEW i \in 0..(counter[d] - 1)
        PROVE  out'[<<preRequestHeader[d].mUuid, i>>] # None
    <3>1. out[<<preRequestHeader[d].mUuid, i>>] # None /\ i \in 0..counter[d]
      BY <1>3, <2>1 DEF Behind
    <3> QED BY <1>3, <3>1, FilesStay, BehindPath
  <2> QED BY <1>3, <2>2 DEF Behind
<1> QED BY <1>1, <1>2, <1>3

LEMMA BehindStep ==
  ASSUME Inv, GapInv, [Next]_vars, ~DiskFaults, NEW d \in Connection
  PROVE  Behind(d)'
<1>1. TypeOK /\ (\A c \in Connection : Handover(c)) /\ OneSaver
  BY DEF Inv
<1>2. ASSUME NEW c \in Connection, Peer(c)
      PROVE  Behind(d)'
  <2>1. pending'[d] \notin Saves
    BY <1>1, <1>2 DEF Peer, handle_accept, ReadPreRequestHeader, ReadRequestHeader, ReadRequestContent,
                      ReadError, Runs, sendResponse, Destroy, Reads, Saves, TypeOK
  <2> QED BY <2>1, BehindFrame
<1>3. ASSUME NEW c \in Connection, writeHandler(c)
      PROVE  Behind(d)'
  <2>1. pending'[d] \notin Saves \/ counter'[d] = 0
    BY <1>1, <1>3 DEF writeHandler, Runs, Destroy, connVars, Handover, TypeOK, Saves
  <2> QED BY <2>1, BehindFrame
<1>4. ASSUME NEW c \in Connection, pending[c] \in Saves, d # c,
             openFile(c) \/ writeFile(c)
      PROVE  Behind(d)'
  <2>1. pending[d] \notin Saves
    BY <1>1, <1>4 DEF OneSaver
  <2>2. pending'[d] = pending[d]
    BY <1>1, <1>4 DEF openFile, writeFile, NextHorcrux, Destroy, TypeOK
  <2> QED BY <2>1, <2>2, BehindFrame
<1>5. ASSUME NEW c \in Connection, pending[c] \in Saves, d = c, openFile(c)
      PROVE  Behind(d)'
  <2>1. CASE out[horcruxPath(c)] # None /\ NextHorcrux(c) /\ UNCHANGED out
    BY <1>5, <2>1, BehindNext
  <2>2. CASE UNCHANGED connVars
    BY <1>5, <2>2, BehindFrame DEF connVars
  <2> QED BY <1>5, <2>1, <2>2 DEF openFile
<1>6. ASSUME NEW c \in Connection, pending[c] \in Saves, d = c, writeFile(c)
      PROVE  Behind(d)'
  <2>1. out[horcruxPath(c)] = <<>> /\ horcruxPath(c) \in Path
    BY <1>6, SavePath DEF writeFile, Inv, Created
  <2>2. out[horcruxPath(c)] # None
    <3>1. <<>> \in Seq(Byte)
      OBVIOUS
    <3> QED BY <2>1, <3>1, ServerAssumption
  <2>3. out'[horcruxPath(c)] # None
    BY <2>1, <2>2, FilesStay
  <2> QED BY <1>6, <2>3, BehindNext DEF writeFile
<1>7. ASSUME NEW c \in Connection, openFile(c) \/ writeFile(c)
      PROVE  Behind(d)'
  <2>1. pending[c] \in Saves
    BY <1>7 DEF openFile, writeFile, Saves
  <2> QED BY <1>4, <1>5, <1>6, <1>7, <2>1
<1>8. CASE Fault
  <2>1. pending'[d] \notin Saves
    BY <1>1, <1>8 DEF Fault, openFails, writeFails, Restart, Crash, Inv, Armed, Saves, TypeOK
  <2> QED BY <2>1, BehindFrame
<1>9. CASE UNCHANGED vars
  BY <1>1, <1>9, BehindFrame DEF vars, connVars
<1> QED BY <1>2, <1>3, <1>7, <1>8, <1>9 DEF Next, FaultFreeNext

(***************************************************************************)
(* join.cpp finds the files of a UUID one after the other: with a sound    *)
(* disk there is none after one that is missing, even if the server died   *)
(* in saveHorcruxes or two uploads shared the UUID.                        *)
(***************************************************************************)
THEOREM NoGap == Spec => []FilesHaveNoGap
<1>1. Inv /\ GapInv /\ [Next]_vars => GapInv'
  BY GapStep, BehindStep DEF GapInv
<1>2. GapInv => FilesHaveNoGap
  BY DEF GapInv, FilesHaveNoGap
<1> QED BY <1>1, <1>2, GapInit, SpecInv, PTL DEF Spec

-----------------------------------------------------------------------------
(***************************************************************************)
(* The refinement mapping of Store, by name: the UUID of each connection,  *)
(* and the index of the file it has created and not written.               *)
(***************************************************************************)
UuidOf == [c \in Connection |-> preRequestHeader[c].mUuid]
WritingOf == [c \in Connection |-> IF pending[c] = "writeFile" THEN counter[c] ELSE None]

LEMMA UuidType == ASSUME TypeOK PROVE UuidOf \in [Connection -> Uuid]
BY ServerAssumption DEF TypeOK, UuidOf, PreRequestHeader, ZeroPreRequestHeader

LEMMA StoreInit == ASSUME Init PROVE Store!Init
<1>1. UuidOf \in [Connection -> Uuid]
  BY InitInv, UuidType DEF Inv
<1>2. WritingOf = [c \in Connection |-> None]
  BY DEF Init, WritingOf
<1> QED BY <1>1, <1>2 DEF Init, Store!Init, Store!NoUpload, EmptyVector, Path, UuidOf, WritingOf

\* A step that only moves from one handler to the next.
LEMMA StoreStutter ==
  ASSUME TypeOK, NEW c \in Connection, NEW next,
         pending' = [pending EXCEPT ![c] = next],
         pending[c] # "writeFile", next # "writeFile",
         \A d \in Connection \ {c} : counter'[d] = counter[d],
         UNCHANGED <<preRequestHeader, horcruxes, out>>
  PROVE  UNCHANGED Store!storeVars
<1>1. WritingOf' = WritingOf
  BY DEF WritingOf, TypeOK
<1>2. UuidOf' = UuidOf
  BY Zenon DEF UuidOf
<1> QED BY <1>1, <1>2, Zenon DEF Store!storeVars, WritingOf, UuidOf

LEMMA StoreEnd ==
  ASSUME Inv, Inv', NEW c \in Connection, Destroy(c), UNCHANGED out \/ Fills(c)
  PROVE  Store!End({c})
<1>1. TypeOK /\ UuidOf' \in [Connection -> Uuid]
  BY ServerAssumption DEF Inv, TypeOK, UuidOf, PreRequestHeader, ZeroPreRequestHeader
<1>2. \A d \in Connection \ {c} : UuidOf'[d] = UuidOf[d]
  BY <1>1 DEF UuidOf, Destroy, TypeOK
<1>3. horcruxes' = [d \in Connection |-> IF d \in {c} THEN EmptyVector ELSE horcruxes[d]]
  <2>1. horcruxes = [d \in Connection |-> horcruxes[d]]
    BY <1>1 DEF TypeOK
  <2> QED BY <2>1 DEF Destroy
<1>4. WritingOf' = [d \in Connection |-> IF d \in {c} THEN None ELSE WritingOf[d]]
  BY <1>1 DEF WritingOf, Destroy, TypeOK
<1>5. \/ UNCHANGED out
      \/ /\ WritingOf[c] # None
         /\ \E content \in Store!Outcome(c) :
              out' = [out EXCEPT ![<<UuidOf[c], WritingOf[c]>>] = content]
  <2>1. CASE Fills(c)
    <3>1. WritingOf[c] = counter[c] /\ counter[c] \in Nat /\ UuidOf[c] = preRequestHeader[c].mUuid
      BY <1>1, <2>1 DEF Fills, WritingOf, UuidOf, TypeOK
    <3>2. Store!Outcome(c)
            = {SubSeq(horcruxes[c][counter[c]], 1, k) : k \in 0..Len(horcruxes[c][counter[c]])}
      BY <3>1 DEF Store!Outcome, WritingOf
    <3> QED BY <2>1, <3>1, <3>2, ServerAssumption DEF Fills, horcruxPath
  <2> QED BY <2>1
<1>6. Store!NoUpload = EmptyVector
  BY DEF Store!NoUpload, EmptyVector
<1> QED BY <1>1, <1>2, <1>3, <1>4, <1>5, <1>6 DEF Store!End, UuidOf, WritingOf

LEMMA StoreOpen ==
  ASSUME Inv, NEW c \in Connection, NEW h \in PreRequestHeader, ReadPreRequestHeader(c, h)
  PROVE  Store!Open(c)
<1>1. /\ TypeOK
      /\ pending[c] = "ReadPreRequestHeader"
      /\ preRequestHeader' = [preRequestHeader EXCEPT ![c] = h]
      /\ horcruxes[c] = EmptyVector
      /\ horcruxes = [d \in Connection |-> horcruxes[d]]
      /\ UNCHANGED <<counter, out>>
  BY DEF ReadPreRequestHeader, Runs, Inv, Handover, Fresh, TypeOK
<1>2. \E u \in Uuid : UuidOf' = [UuidOf EXCEPT ![c] = u]
  <2>1. h.mUuid \in Uuid
    BY DEF PreRequestHeader
  <2>2. UuidOf' = [UuidOf EXCEPT ![c] = h.mUuid]
    BY <1>1 DEF UuidOf, TypeOK
  <2> QED BY <2>1, <2>2
<1>3. \E I \in SUBSET (0..(MaxNumHorcruxAccepted - 1)) :
        horcruxes' = [horcruxes EXCEPT ![c] = [i \in I |-> None]]
  <2>1. CASE checkPreRequestHeader(h)
    <3>1. h.mNumHorcruxes \in Nat
      BY ServerAssumption DEF PreRequestHeader
    <3>2. 0..(h.mNumHorcruxes - 1) \in SUBSET (0..(MaxNumHorcruxAccepted - 1))
      BY <2>1, <3>1, ServerAssumption DEF checkPreRequestHeader
    <3> QED BY <2>1, <3>2 DEF ReadPreRequestHeader
  <2>2. CASE ~checkPreRequestHeader(h)
    <3>1. horcruxes' = [horcruxes EXCEPT ![c] = [i \in {} |-> None]]
      BY <1>1, <2>2 DEF ReadPreRequestHeader, EmptyVector
    <3> QED BY <3>1
  <2> QED BY <2>1, <2>2
<1>4. WritingOf' = WritingOf
  BY <1>1 DEF WritingOf, ReadPreRequestHeader, sendResponse, TypeOK
<1> QED BY <1>1, <1>2, <1>3, <1>4 DEF Store!Open, Store!NoUpload, EmptyVector, UuidOf, WritingOf

LEMMA StoreCollect ==
  ASSUME Inv, NEW c \in Connection, NEW content \in [1..requestHeader[c].mContentSize -> Byte],
         ReadRequestContent(c, content)
  PROVE  Store!Collect(c)
<1> DEFINE i == requestHeader[c].mIndex
<1>1. /\ TypeOK
      /\ pending[c] = "ReadRequestContent"
      /\ requestHeader[c] \in RequestHeader
      /\ i \in DOMAIN horcruxes[c]
      /\ horcruxes[c][i] = None
      /\ horcruxes' = [horcruxes EXCEPT ![c][i] = content]
      /\ UNCHANGED <<preRequestHeader, counter, out>>
  BY DEF ReadRequestContent, Runs, Inv, Handover
<1>2. content \in Content
  BY <1>1 DEF Content, RequestHeader
<1>3. WritingOf' = WritingOf
  BY <1>1 DEF WritingOf, ReadRequestContent, sendResponse, TypeOK
<1>4. UuidOf' = UuidOf
  BY <1>1 DEF UuidOf
<1> HIDE DEF i
<1> QED BY <1>1, <1>2, <1>3, <1>4 DEF Store!Collect, UuidOf, WritingOf

LEMMA StoreCreate ==
  ASSUME Inv, NEW c \in Connection, Creates(c),
         pending' = [pending EXCEPT ![c] = "writeFile"], UNCHANGED connVars
  PROVE  Store!Create(c)
<1>1. /\ TypeOK
      /\ pending[c] = "openFile"
      /\ counter[c] \in DOMAIN horcruxes[c]
      /\ \A i \in DOMAIN horcruxes[c] : horcruxes[c][i] # None
      /\ UNCHANGED <<preRequestHeader, horcruxes, counter>>
  BY DEF Creates, Inv, Handover, Complete, Saves, connVars
<1>2. UuidOf' = UuidOf /\ UuidOf[c] = preRequestHeader[c].mUuid
  BY <1>1 DEF UuidOf
<1>3. WritingOf[c] = None /\ WritingOf' = [WritingOf EXCEPT ![c] = counter[c]]
  BY <1>1 DEF WritingOf, TypeOK
<1>4. out[<<UuidOf[c], counter[c]>>] = None /\ out' = [out EXCEPT ![<<UuidOf[c], counter[c]>>] = <<>>]
  BY <1>2 DEF Creates, horcruxPath
<1> QED BY <1>1, <1>2, <1>3, <1>4 DEF Store!Create, Store!AllThere, UuidOf, WritingOf

\* One file is done: filled or skipped, and the session goes on or ends.
LEMMA StoreNextHorcrux ==
  ASSUME Inv, Inv', NEW c \in Connection, NextHorcrux(c), pending[c] \in Saves,
         \/ pending[c] = "openFile" /\ UNCHANGED out
         \/ Fills(c)
  PROVE  Store!Next \/ UNCHANGED Store!storeVars
<1>1. TypeOK
  BY DEF Inv
<1>2. CASE Destroy(c)
  <2>1. Store!End({c})
    BY <1>2, StoreEnd
  <2> QED BY <2>1 DEF Store!Next
<1>3. CASE /\ counter' = [counter EXCEPT ![c] = @ + 1]
           /\ pending' = [pending EXCEPT ![c] = "openFile"]
           /\ UNCHANGED <<preRequestHeader, requestHeader, horcruxes, replies>>
  <2>1. CASE pending[c] = "openFile" /\ UNCHANGED out
    <3>1. \A d \in Connection \ {c} : counter'[d] = counter[d]
      BY <1>1, <1>3 DEF TypeOK
    <3> QED BY <1>1, <1>3, <2>1, <3>1, StoreStutter
  <2>2. CASE Fills(c)
    <3>1. /\ pending[c] = "writeFile"
          /\ counter[c] \in Nat
          /\ WritingOf[c] = counter[c]
          /\ WritingOf' = [WritingOf EXCEPT ![c] = None]
      BY <1>1, <1>3, <2>2 DEF Fills, WritingOf, TypeOK
    <3>2. UuidOf' = UuidOf /\ UuidOf[c] = preRequestHeader[c].mUuid
      BY <1>3 DEF UuidOf
    <3>3. Store!Outcome(c)
            = {SubSeq(horcruxes[c][counter[c]], 1, k) : k \in 0..Len(horcruxes[c][counter[c]])}
      BY <3>1 DEF Store!Outcome, WritingOf
    <3>4. \E content \in Store!Outcome(c) :
            out' = [out EXCEPT ![<<UuidOf[c], WritingOf[c]>>] = content]
      BY <2>2, <3>1, <3>2, <3>3 DEF Fills, horcruxPath
    <3>5. WritingOf[c] # None
      BY <3>1, ServerAssumption
    <3>6. Store!Fill(c)
      BY <1>3, <3>1, <3>2, <3>4, <3>5 DEF Store!Fill, UuidOf, WritingOf
    <3> QED BY <3>6 DEF Store!Next
  <2> QED BY <2>1, <2>2
<1> QED BY <1>2, <1>3 DEF NextHorcrux

LEMMA StoreCrash ==
  ASSUME Inv, Inv', Crash
  PROVE  Store!End(Connection)
<1>1. /\ TypeOK
      /\ UuidOf' \in [Connection -> Uuid]
      /\ pending' = [c \in Connection |-> "none"]
      /\ horcruxes' = [c \in Connection |-> EmptyVector]
  BY ServerAssumption DEF Crash, Inv, TypeOK, UuidOf, PreRequestHeader, ZeroPreRequestHeader
<1>2. WritingOf' = [c \in Connection |-> None]
  BY <1>1 DEF WritingOf
<1>3. \/ UNCHANGED out
      \/ \E c \in Connection :
           /\ WritingOf[c] # None
           /\ \E content \in Store!Outcome(c) :
                out' = [out EXCEPT ![<<UuidOf[c], WritingOf[c]>>] = content]
  <2>1. ASSUME NEW c \in Connection, Fills(c)
        PROVE  /\ WritingOf[c] # None
               /\ \E content \in Store!Outcome(c) :
                    out' = [out EXCEPT ![<<UuidOf[c], WritingOf[c]>>] = content]
    <3>1. WritingOf[c] = counter[c] /\ counter[c] \in Nat /\ UuidOf[c] = preRequestHeader[c].mUuid
      BY <1>1, <2>1 DEF Fills, WritingOf, UuidOf, TypeOK
    <3>2. Store!Outcome(c)
            = {SubSeq(horcruxes[c][counter[c]], 1, k) : k \in 0..Len(horcruxes[c][counter[c]])}
      BY <3>1 DEF Store!Outcome, WritingOf
    <3> QED BY <2>1, <3>1, <3>2, ServerAssumption DEF Fills, horcruxPath
  <2>2. CASE UNCHANGED out
    BY <2>2
  <2>3. ASSUME NEW c \in Connection, pending[c] = "writeFile",
               \E k \in 1..Len(horcruxes[c][counter[c]]) :
                 out' = [out EXCEPT ![horcruxPath(c)] = SubSeq(horcruxes[c][counter[c]], 1, k)]
        PROVE  Fills(c)
    BY <2>3, FaultFills
  <2> QED BY <2>1, <2>2, <2>3 DEF Crash
<1>4. Store!NoUpload = EmptyVector
  BY DEF Store!NoUpload, EmptyVector
<1>5. /\ \A s \in Connection \ Connection : UuidOf'[s] = UuidOf[s]
      /\ horcruxes' = [s \in Connection |-> IF s \in Connection THEN EmptyVector ELSE horcruxes[s]]
      /\ WritingOf' = [s \in Connection |-> IF s \in Connection THEN None ELSE WritingOf[s]]
  BY <1>1, <1>2
<1> QED BY <1>1, <1>3, <1>4, <1>5, Zenon DEF Store!End, UuidOf, WritingOf

LEMMA StoreStep ==
  ASSUME Inv, Inv', [Next]_vars
  PROVE  Store!Next \/ UNCHANGED Store!storeVars
<1>1. TypeOK
  BY DEF Inv
<1>2. ASSUME NEW c \in Connection, Peer(c)
      PROVE  Store!Next \/ UNCHANGED Store!storeVars
  <2>1. ASSUME NEW n \in Connection, NEW error \in BOOLEAN, handle_accept(c, n, error)
        PROVE  UNCHANGED Store!storeVars
    <3>1. WritingOf' = WritingOf
      BY <1>1, <2>1 DEF WritingOf, handle_accept, Runs, connVars, TypeOK
    <3>2. UNCHANGED <<preRequestHeader, horcruxes, out>>
      BY <2>1 DEF handle_accept, connVars
    <3> QED BY <3>1, <3>2 DEF Store!storeVars, WritingOf
  <2>2. ASSUME NEW h \in PreRequestHeader, ReadPreRequestHeader(c, h)
        PROVE  Store!Next
    BY <2>2, StoreOpen DEF Store!Next
  <2>3. ASSUME NEW h \in RequestHeader, ReadRequestHeader(c, h)
        PROVE  UNCHANGED Store!storeVars
    <3>1. /\ pending[c] = "ReadRequestHeader"
          /\ \E next \in {"ReadRequestContent", "respondThenStop"} : pending' = [pending EXCEPT ![c] = next]
          /\ UNCHANGED <<preRequestHeader, horcruxes, counter, out>>
      BY <2>3 DEF ReadRequestHeader, Runs, sendResponse
    <3> QED BY <1>1, <3>1, StoreStutter
  <2>4. ASSUME NEW content \in [1..requestHeader[c].mContentSize -> Byte],
               ReadRequestContent(c, content)
        PROVE  Store!Next
    BY <2>4, StoreCollect DEF Store!Next
  <2>5. CASE ReadError(c)
    <3>1. Store!End({c})
      BY <2>5, StoreEnd DEF ReadError
    <3> QED BY <3>1 DEF Store!Next
  <2> QED BY <1>2, <2>1, <2>2, <2>3, <2>4, <2>5 DEF Peer
<1>3. ASSUME NEW c \in Connection, writeHandler(c)
      PROVE  Store!Next \/ UNCHANGED Store!storeVars
  <2>1. CASE Destroy(c) /\ UNCHANGED out
    <3>1. Store!End({c})
      BY <2>1, StoreEnd
    <3> QED BY <3>1 DEF Store!Next
  <2>2. CASE /\ pending[c] \in Writes
             /\ \E next \in {"ReadRequestHeader", "openFile"} : pending' = [pending EXCEPT ![c] = next]
             /\ UNCHANGED <<preRequestHeader, horcruxes, counter, out>>
    BY <1>1, <2>2, StoreStutter DEF Writes
  <2> QED BY <1>3, <2>1, <2>2 DEF writeHandler, Runs, connVars, Writes
<1>4. ASSUME NEW c \in Connection, openFile(c) \/ writeFile(c) \/ openFails(c) \/ writeFails(c)
      PROVE  Store!Next \/ UNCHANGED Store!storeVars
  <2>1. pending[c] \in Saves
    BY <1>4 DEF openFile, writeFile, openFails, writeFails, Saves
  <2>2. CASE openFile(c) \/ openFails(c)
    <3>1. CASE Creates(c) /\ pending' = [pending EXCEPT ![c] = "writeFile"] /\ UNCHANGED connVars
      <4>1. Store!Create(c)
        BY <3>1, StoreCreate
      <4> QED BY <4>1 DEF Store!Next
    <3>2. CASE pending[c] = "openFile" /\ NextHorcrux(c) /\ UNCHANGED out
      BY <2>1, <3>2, StoreNextHorcrux
    <3> QED BY <2>2, <3>1, <3>2 DEF openFile, openFails, Creates
  <2>3. CASE writeFile(c) \/ writeFails(c)
    <3>1. Fills(c) /\ NextHorcrux(c)
      BY <2>3, WriteFileFills, FaultFills DEF writeFile, writeFails
    <3> QED BY <2>1, <3>1, StoreNextHorcrux
  <2> QED BY <1>4, <2>2, <2>3
<1>5. ASSUME NEW c \in Connection, Restart(c)
      PROVE  UNCHANGED Store!storeVars
  <2>1. pending[c] = "none"
    BY <1>5 DEF Restart, Inv, Armed
  <2>2. /\ pending' = [pending EXCEPT ![c] = "accept"]
        /\ UNCHANGED <<preRequestHeader, horcruxes, counter, out>>
    BY <1>5 DEF Restart, connVars
  <2> QED BY <1>1, <2>1, <2>2, StoreStutter
<1>6. CASE Crash
  <2>1. Store!End(Connection)
    BY <1>6, StoreCrash
  <2> QED BY <2>1 DEF Store!Next
<1>7. CASE UNCHANGED vars
  BY <1>7 DEF vars, connVars, Store!storeVars
<1> QED BY <1>2, <1>3, <1>4, <1>5, <1>6, <1>7 DEF Next, FaultFreeNext, Fault

(***************************************************************************)
(* The server, with its handlers, crashes and failing disk, implements the *)
(* write-once store of uploads that UploadStore specifies.                 *)
(***************************************************************************)
THEOREM ServerImplementsStore == Spec => ImplementsUploadStore
<1>1. Init => Store!Init
  BY StoreInit
<1>2. Inv /\ Inv' /\ [Next]_vars => [Store!Next]_(Store!storeVars)
  BY StoreStep
<1>3. Spec => Store!Init /\ [][Store!Next]_(Store!storeVars)
  BY <1>1, <1>2, SpecInv, PTL DEF Spec
<1> QED BY <1>3 DEF ImplementsUploadStore, Store!Spec
=============================================================================
