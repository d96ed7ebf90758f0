----------------------------- MODULE HorcruxServer -----------------------------
(***************************************************************************)
(* The server process: the acceptor (networking/TcpServer), the            *)
(* connections (networking/TcpConnection) and the directory "out" they     *)
(* store Horcruxes in (Utils::saveFile).                                   *)
(*                                                                         *)
(* asio runs every completion handler on the one thread that called        *)
(* io_context::run (server.cpp).  A connection always has exactly one      *)
(* operation outstanding, so its control state is the name of that         *)
(* operation (pending); each handler is one action.  The exception is the  *)
(* handler that saves the Horcruxes: a crash of the process, a failing     *)
(* disk, or another process that reads "out", can observe it half way, so  *)
(* it takes two steps per file, during which no other handler runs.        *)
(*                                                                         *)
(* The peers are arbitrary here: a header, a content or an error is        *)
(* whatever the handler is called with.                                    *)
(***************************************************************************)
EXTENDS Integers, Sequences, FiniteSets

CONSTANTS
  Connection,             \* TcpConnection objects alive at the same time
  Uuid,                   \* values of mUuid
  Byte,                   \* values of one byte of content
  Count,                  \* values of mNumHorcruxes and mIndex on the wire
  Size,                   \* values of mTotalSize and mContentSize on the wire
  MaxNumHorcruxAccepted,  \* Config::mMaxNumHorcruxAccepted
  MaxTotalSizeAccepted,   \* Config::mMaxTotalSizeAccepted
  DiskFaults,             \* whether opening and writing files may fail
  None                    \* std::nullopt, and a path without a file

ASSUME ServerAssumption ==
  /\ IsFiniteSet(Connection)
  /\ 0 \in Uuid
  /\ Count \subseteq Nat
  /\ Size \subseteq Nat
  /\ MaxNumHorcruxAccepted \in Nat
  /\ MaxTotalSizeAccepted \in Nat
  /\ DiskFaults \in BOOLEAN
  /\ None \notin Seq(Byte) \cup Nat

VARIABLES
  up,                     \* the process is running
  pending,                \* the operation outstanding on each connection
  preRequestHeader,       \* mPreRequestHeader
  requestHeader,          \* mRequestHeader
  horcruxes,              \* mCurrentRequestHorcruxes, indexed from 0
  counter,                \* the loop counter of saveHorcruxes
  replies,                \* the responses written to the socket so far
  out                     \* kOutPath: what each file holds

connVars == <<preRequestHeader, requestHeader, horcruxes, counter, replies>>
vars == <<up, pending, connVars, out>>

(***************************************************************************)
(* The values of pending: no such object; async_accept; the three reads;   *)
(* the writes of a response, told apart by the NEXT_OP the completion      *)
(* calls; and the two points of saveFile inside saveHorcruxes.             *)
(***************************************************************************)
Reads == {"ReadPreRequestHeader", "ReadRequestHeader", "ReadRequestContent"}
Writes == {"respondThenReadRequestHeader", "respondThenSave", "respondThenStop"}
Saves == {"openFile", "writeFile"}
Pending == {"none", "accept"} \cup Reads \cup Writes \cup Saves

\* What a peer can send as one Horcrux, std::optional of it, and the vector of those.
Content == UNION {[1..n -> Byte] : n \in Size}
Optional == Content \cup {None}
IsVector(v) == \E n \in 0..MaxNumHorcruxAccepted : v \in [0..(n - 1) -> Optional]
PreRequestHeader == [mUuid : Uuid, mTotalSize : Size, mNumHorcruxes : Count]
RequestHeader == [mUuid : Uuid, mIndex : Count, mContentSize : Size]
Path == Uuid \X (0..(MaxNumHorcruxAccepted - 1))

\* The value-initialised members of a new TcpConnection.
ZeroPreRequestHeader == [mUuid |-> 0, mTotalSize |-> 0, mNumHorcruxes |-> 0]
ZeroRequestHeader == [mUuid |-> 0, mIndex |-> 0, mContentSize |-> 0]
EmptyVector == [i \in {} |-> None]

TypeOK ==
  /\ up \in BOOLEAN
  /\ pending \in [Connection -> Pending]
  /\ preRequestHeader \in [Connection -> PreRequestHeader \cup {ZeroPreRequestHeader}]
  /\ requestHeader \in [Connection -> RequestHeader \cup {ZeroRequestHeader}]
  /\ horcruxes = [c \in Connection |-> horcruxes[c]]
  /\ \A c \in Connection : IsVector(horcruxes[c])
  /\ counter \in [Connection -> Nat]
  /\ replies \in [Connection -> Seq({"SUCCESS", "FAILURE"})]
  /\ out \in [Path -> Seq(Byte) \cup {None}]

-----------------------------------------------------------------------------
(***************************************************************************)
(* TcpServer's constructor arms the acceptor with a new connection.        *)
(***************************************************************************)
Init ==
  /\ up = TRUE
  /\ \E c \in Connection :
       pending = [d \in Connection |-> IF d = c THEN "accept" ELSE "none"]
  /\ preRequestHeader = [c \in Connection |-> ZeroPreRequestHeader]
  /\ requestHeader = [c \in Connection |-> ZeroRequestHeader]
  /\ horcruxes = [c \in Connection |-> EmptyVector]
  /\ counter = [c \in Connection |-> 0]
  /\ replies = [c \in Connection |-> <<>>]
  /\ out = [p \in Path |-> None]

\* The single thread of io_context::run is free for the handler of op on c.
Runs(c, op) ==
  /\ pending[c] = op
  /\ \A d \in Connection : pending[d] \notin Saves

(***************************************************************************)
(* No handler holds the connection's shared_ptr any more: the object is    *)
(* destroyed, and with it its members; its socket is closed.               *)
(***************************************************************************)
Destroy(c) ==
  /\ pending' = [pending EXCEPT ![c] = "none"]
  /\ preRequestHeader' = [preRequestHeader EXCEPT ![c] = ZeroPreRequestHeader]
  /\ requestHeader' = [requestHeader EXCEPT ![c] = ZeroRequestHeader]
  /\ horcruxes' = [horcruxes EXCEPT ![c] = EmptyVector]
  /\ counter' = [counter EXCEPT ![c] = 0]
  /\ replies' = [replies EXCEPT ![c] = <<>>]

-----------------------------------------------------------------------------
\* Faulty variant: a failed accept does not call startAccept again.
handle_accept_StopsOnError(c, n, error) ==
  /\ Runs(c, "accept")
  /\ pending[n] = "none"
  /\ pending' = [pending EXCEPT ![c] = IF error THEN "none" ELSE "ReadPreRequestHeader",
                                ![n] = IF error THEN "none" ELSE "accept"]
  /\ UNCHANGED <<up, connVars, out>>

(***************************************************************************)
(* TcpServer: a connection is accepted and started, or accepting it failed *)
(* and it is dropped; either way startAccept waits with a new object n.    *)
(***************************************************************************)
handle_accept(c, n, error) ==
  /\ Runs(c, "accept")
  /\ pending[n] = "none"
  /\ pending' = [pending EXCEPT ![c] = IF error THEN "none" ELSE "ReadPreRequestHeader",
                                ![n] = "accept"]
  /\ UNCHANGED <<up, connVars, out>>

\* Faulty variant: one Horcrux too many is let through.
checkPreRequestHeader_OffByOne(h) ==
  /\ h.mNumHorcruxes <= MaxNumHorcruxAccepted + 1
  /\ h.mTotalSize <= MaxTotalSizeAccepted

checkPreRequestHeader(h) ==
  /\ h.mNumHorcruxes <= MaxNumHorcruxAccepted
  /\ h.mTotalSize <= MaxTotalSizeAccepted

\* Faulty variant: > instead of >= in the comparison with the vector's size.
checkRequestHeader_OffByOne(c, h) ==
  /\ h.mUuid = preRequestHeader[c].mUuid
  /\ h.mIndex <= Cardinality(DOMAIN horcruxes[c])
  /\ h.mIndex \in DOMAIN horcruxes[c] => horcruxes[c][h.mIndex] = None

\* Faulty variant: no check that the Horcrux was already sent.
checkRequestHeader_AllowsDuplicate(c, h) ==
  /\ h.mUuid = preRequestHeader[c].mUuid
  /\ h.mIndex \in DOMAIN horcruxes[c]

checkRequestHeader(c, h) ==
  /\ h.mUuid = preRequestHeader[c].mUuid
  /\ h.mIndex \in DOMAIN horcruxes[c]
  /\ horcruxes[c][h.mIndex] = None

\* async_write of the response; next says what its completion goes on with.
sendResponse(c, outcome, next) ==
  /\ replies' = [replies EXCEPT ![c] = Append(@, IF outcome THEN "SUCCESS" ELSE "FAILURE")]
  /\ pending' = [pending EXCEPT ![c] = next]

ReadPreRequestHeader(c, h) ==
  /\ Runs(c, "ReadPreRequestHeader")
  /\ preRequestHeader' = [preRequestHeader EXCEPT ![c] = h]
  /\ \/ /\ checkPreRequestHeader(h)
        /\ horcruxes' = [horcruxes EXCEPT ![c] = [i \in 0..(h.mNumHorcruxes - 1) |-> None]]
        /\ sendResponse(c, TRUE, "respondThenReadRequestHeader")
     \/ /\ ~checkPreRequestHeader(h)
        /\ UNCHANGED horcruxes
        /\ sendResponse(c, FALSE, "respondThenStop")
  /\ UNCHANGED <<up, requestHeader, counter, out>>

ReadRequestHeader(c, h) ==
  /\ Runs(c, "ReadRequestHeader")
  /\ requestHeader' = [requestHeader EXCEPT ![c] = h]
  /\ \/ /\ checkRequestHeader(c, h)
        /\ pending' = [pending EXCEPT ![c] = "ReadRequestContent"]
        /\ UNCHANGED replies
     \/ /\ ~checkRequestHeader(c, h)
        /\ sendResponse(c, FALSE, "respondThenStop")
  /\ UNCHANGED <<up, preRequestHeader, horcruxes, counter, out>>

\* Faulty variant: the last slot is not looked at.
Complete_SkipsLast(v) == \A i \in DOMAIN v : i + 1 \in DOMAIN v => v[i] # None

\* std::all_of(..., has_value)
Complete(v) == \A i \in DOMAIN v : v[i] # None

\* async_read fills the whole buffer, which was resized to mContentSize.
ReadRequestContent(c, content) ==
  /\ Runs(c, "ReadRequestContent")
  /\ Len(content) = requestHeader[c].mContentSize
  /\ horcruxes' = [horcruxes EXCEPT ![c][requestHeader[c].mIndex] = content]
  /\ sendResponse(c, TRUE, IF Complete(horcruxes'[c]) THEN "respondThenSave"
                           ELSE "respondThenReadRequestHeader")
  /\ UNCHANGED <<up, preRequestHeader, requestHeader, counter, out>>

\* End of file or an error on the socket: the handler returns and c goes away.
ReadError(c) ==
  /\ \E op \in Reads : Runs(c, op)
  /\ Destroy(c)
  /\ UNCHANGED <<up, out>>

\* The completion of async_write calls NEXT_OP whether or not the write failed.
writeHandler(c) ==
  \/ /\ Runs(c, "respondThenReadRequestHeader")
     /\ pending' = [pending EXCEPT ![c] = "ReadRequestHeader"]
     /\ UNCHANGED <<up, connVars, out>>
  \/ /\ Runs(c, "respondThenSave")
     /\ pending' = [pending EXCEPT ![c] = "openFile"]
     /\ UNCHANGED <<up, connVars, out>>
  \/ /\ Runs(c, "respondThenStop")
     /\ Destroy(c)
     /\ UNCHANGED <<up, out>>

-----------------------------------------------------------------------------
(***************************************************************************)
(* saveHorcruxes: saveFile for each Horcrux in turn, its result ignored.   *)
(* When the loop is over the handler returns and c goes away.              *)
(***************************************************************************)

\* Faulty variant: files are numbered from 1.
horcruxPath_OneBased(c) == <<preRequestHeader[c].mUuid, counter[c] + 1>>

horcruxPath(c) == <<preRequestHeader[c].mUuid, counter[c]>>

\* Faulty variant: the loop is over one Horcrux too early.
NextHorcrux_SkipsLast(c) ==
  \/ /\ counter[c] + 2 \in DOMAIN horcruxes[c]
     /\ counter' = [counter EXCEPT ![c] = @ + 1]
     /\ pending' = [pending EXCEPT ![c] = "openFile"]
     /\ UNCHANGED <<preRequestHeader, requestHeader, horcruxes, replies>>
  \/ /\ counter[c] + 2 \notin DOMAIN horcruxes[c]
     /\ Destroy(c)

NextHorcrux(c) ==
  \/ /\ counter[c] + 1 \in DOMAIN horcruxes[c]
     /\ counter' = [counter EXCEPT ![c] = @ + 1]
     /\ pending' = [pending EXCEPT ![c] = "openFile"]
     /\ UNCHANGED <<preRequestHeader, requestHeader, horcruxes, replies>>
  \/ /\ counter[c] + 1 \notin DOMAIN horcruxes[c]
     /\ Destroy(c)

\* Faulty variant: the file is opened even though the path is taken.
openFile_Overwrites(c) ==
  /\ pending[c] = "openFile"
  /\ out' = [out EXCEPT ![horcruxPath(c)] = <<>>]
  /\ pending' = [pending EXCEPT ![c] = "writeFile"]
  /\ UNCHANGED <<up, connVars>>

\* saveFile opens the file for writing, unless the path is already taken.
openFile(c) ==
  /\ pending[c] = "openFile"
  /\ UNCHANGED up
  /\ \/ /\ out[horcruxPath(c)] = None
        /\ out' = [out EXCEPT ![horcruxPath(c)] = <<>>]
        /\ pending' = [pending EXCEPT ![c] = "writeFile"]
        /\ UNCHANGED connVars
     \/ /\ out[horcruxPath(c)] # None
        /\ NextHorcrux(c)
        /\ UNCHANGED out

\* write, and the destructor of the stream, which flushes it.
writeFile(c) ==
  /\ pending[c] = "writeFile"
  /\ out' = [out EXCEPT ![horcruxPath(c)] = horcruxes[c][counter[c]]]
  /\ NextHorcrux(c)
  /\ UNCHANGED up

-----------------------------------------------------------------------------
(***************************************************************************)
(* What can fail around the handlers.  The disk: the stream is not good    *)
(* after opening, or only a part of the content gets written, which        *)
(* saveFile does not look at.  The process: an exception that leaves a     *)
(* handler ends io_context::run and main returns; it may also be killed.   *)
(* A file it was writing is left with what had reached the disk.           *)
(***************************************************************************)
openFails(c) ==
  /\ DiskFaults
  /\ pending[c] = "openFile"
  /\ out[horcruxPath(c)] = None
  /\ NextHorcrux(c)
  /\ UNCHANGED <<up, out>>

writeFails(c) ==
  /\ DiskFaults
  /\ pending[c] = "writeFile"
  /\ \E k \in 0..(Len(horcruxes[c][counter[c]]) - 1) :
       out' = [out EXCEPT ![horcruxPath(c)] = SubSeq(horcruxes[c][counter[c]], 1, k)]
  /\ NextHorcrux(c)
  /\ UNCHANGED up

Crash ==
  /\ up
  /\ up' = FALSE
  /\ pending' = [c \in Connection |-> "none"]
  /\ preRequestHeader' = [c \in Connection |-> ZeroPreRequestHeader]
  /\ requestHeader' = [c \in Connection |-> ZeroRequestHeader]
  /\ horcruxes' = [c \in Connection |-> EmptyVector]
  /\ counter' = [c \in Connection |-> 0]
  /\ replies' = [c \in Connection |-> <<>>]
  /\ \/ UNCHANGED out
     \/ \E c \in Connection :
          /\ pending[c] = "writeFile"
          /\ \E k \in 1..Len(horcruxes[c][counter[c]]) :
               out' = [out EXCEPT ![horcruxPath(c)] = SubSeq(horcruxes[c][counter[c]], 1, k)]

Restart(c) ==
  /\ ~up
  /\ up' = TRUE
  /\ pending' = [pending EXCEPT ![c] = "accept"]
  /\ UNCHANGED <<connVars, out>>

-----------------------------------------------------------------------------
\* What a peer does to a connection: it connects, sends, or goes away.
Peer(c) ==
  \/ \E n \in Connection, error \in BOOLEAN : handle_accept(c, n, error)
  \/ \E h \in PreRequestHeader : ReadPreRequestHeader(c, h)
  \/ \E h \in RequestHeader : ReadRequestHeader(c, h)
  \/ \E content \in [1..requestHeader[c].mContentSize -> Byte] : ReadRequestContent(c, content)
  \/ ReadError(c)

Fault ==
  \/ \E c \in Connection : openFails(c) \/ writeFails(c) \/ Restart(c)
  \/ Crash

FaultFreeNext == \E c \in Connection : Peer(c) \/ writeHandler(c) \/ openFile(c) \/ writeFile(c)

Next == FaultFreeNext \/ Fault

Spec == Init /\ [][Next]_vars

-----------------------------------------------------------------------------
\* The Horcruxes of the current request that have arrived.
Received(c) == {i \in DOMAIN horcruxes[c] : horcruxes[c][i] # None}

(***************************************************************************)
(* ReadRequestContent indexes mCurrentRequestHorcruxes with operator[],    *)
(* unchecked, by an index the previous handler validated: while the read   *)
(* is outstanding that index is in range and its slot is still empty.      *)
(***************************************************************************)
SlotReserved ==
  \A c \in Connection : pending[c] = "ReadRequestContent" =>
    /\ requestHeader[c].mIndex \in DOMAIN horcruxes[c]
    /\ horcruxes[c][requestHeader[c].mIndex] = None

(***************************************************************************)
(* saveHorcruxes dereferences every optional without looking: a connection *)
(* is answering its last request or saving exactly when every Horcrux it   *)
(* announced has arrived (and it announced at least one).                  *)
(***************************************************************************)
SaveIffComplete ==
  \A c \in Connection : horcruxes[c] # EmptyVector =>
    (pending[c] \in Saves \cup {"respondThenSave"} <=> Received(c) = DOMAIN horcruxes[c])

(***************************************************************************)
(* The peer can count on the responses: as long as a connection has not    *)
(* rejected anything, it has answered SUCCESS once for the pre-request     *)
(* header and once for each Horcrux it holds, never for one it dropped.    *)
(***************************************************************************)
RepliesCountHorcruxes ==
  \A c \in Connection :
    pending[c] \notin {"none", "accept", "ReadPreRequestHeader", "respondThenStop"} =>
      /\ \A k \in DOMAIN replies[c] : replies[c][k] = "SUCCESS"
      /\ Len(replies[c]) = 1 + Cardinality(Received(c))

(***************************************************************************)
(* While the process runs, exactly one connection waits in async_accept,   *)
(* whatever happened to the earlier ones (TcpServer::handle_accept).       *)
(***************************************************************************)
AcceptorArmed ==
  Cardinality({c \in Connection : pending[c] = "accept"}) = IF up THEN 1 ELSE 0

(***************************************************************************)
(* Only a connection that is in saveHorcruxes with a complete request      *)
(* touches "out": it creates a file at a path that is free, and what it    *)
(* puts into a file it finds empty is its own Horcrux of that index, or a  *)
(* part of it when the disk fails or the process dies.                     *)
(***************************************************************************)
OutWrittenOnce ==
  [][\A p \in Path : out'[p] # out[p] =>
       \E c \in Connection :
         /\ p[1] = preRequestHeader[c].mUuid
         /\ Received(c) = DOMAIN horcruxes[c]
         /\ \/ pending[c] = "openFile" /\ out[p] = None /\ out'[p] = <<>>
            \/ /\ pending[c] = "writeFile"
               /\ out[p] = <<>>
               /\ out'[p] = SubSeq(horcruxes[c][p[2]], 1, Len(out'[p]))]_vars

(***************************************************************************)
(* join.cpp reads the files of a UUID by increasing index: with a sound    *)
(* disk they never have a gap, even after a crash in the middle of         *)
(* saveHorcruxes and whatever requests shared the UUID.                    *)
(***************************************************************************)
FilesHaveNoGap ==
  \A u \in Uuid, i, j \in 0..(MaxNumHorcruxAccepted - 1) :
    ~DiskFaults /\ i < j /\ out[<<u, j>>] # None => out[<<u, i>>] # None

(***************************************************************************)
(* Once the last Horcrux of a request was received, a file exists for each *)
(* of them in the end, whatever the other connections do.                  *)
(***************************************************************************)
Accepted(u, i) ==
  \E c \in Connection : /\ pending[c] = "respondThenSave"
                        /\ preRequestHeader[c].mUuid = u
                        /\ i \in DOMAIN horcruxes[c]

AcceptedIsSaved ==
  \A p \in Path : Accepted(p[1], p[2]) ~> (out[p] # None)

(***************************************************************************)
(* To a reader of "out" the server is a write-once store of uploads: its   *)
(* headers, responses and handlers are hidden, a connection is the upload  *)
(* it has in hand, and writing is the file it has created and not filled.  *)
(***************************************************************************)
Store ==
  INSTANCE UploadStore WITH
    Session <- Connection,
    Index <- 0..(MaxNumHorcruxAccepted - 1),
    uuid <- [c \in Connection |-> preRequestHeader[c].mUuid],
    pieces <- horcruxes,
    writing <- [c \in Connection |-> IF pending[c] = "writeFile" THEN counter[c] ELSE None],
    files <- out

\* Every step of the server is a step of that store, or invisible to it.
ImplementsUploadStore == Store!Spec

(***************************************************************************)
(* TcpConnection.hpp says of mMaxTotalSizeAccepted that a request with a   *)
(* Horcrux over this size is rejected entirely: no Horcrux larger than     *)
(* that is ever taken in.                                                  *)
(***************************************************************************)
OversizedIsRejected ==
  \A c \in Connection : \A i \in Received(c) : Len(horcruxes[c][i]) <= MaxTotalSizeAccepted
=============================================================================
