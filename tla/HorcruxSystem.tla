----------------------------- MODULE HorcruxSystem -----------------------------
(***************************************************************************)
(* The client (client.cpp) and the server together.  The server's handlers *)
(* are those of HorcruxServer; what a peer may send there is here what the *)
(* clients have sent, over one TCP connection each.                        *)
(*                                                                         *)
(* A direction of a connection is a sequence of cells: a byte of content,  *)
(* a half of a header, a half of a response.  read_some returns what has   *)
(* arrived (ShortReads: any part of it); write_some, on a socket that      *)
(* blocks, sends all that it is given.                                     *)
(***************************************************************************)
EXTENDS HorcruxServer

CONSTANTS
  Client,       \* runs of client.cpp
  Steady,       \* those that go on while they can; the others may stall for ever
  Upload,       \* what split may return: sequences of contents
  Draw,         \* the UUIDs the clients may draw together
  UintMod,      \* the number of values of uint32_t
  ShortReads,   \* whether read_some may return a part of what was sent
  Faults        \* whether processes may crash and accepting may fail

ASSUME SystemAssumption ==
  /\ Upload \subseteq Seq(Seq(Byte))
  /\ Draw \subseteq [Client -> Uuid]
  /\ UintMod \in Nat \ {0}
  /\ Steady \subseteq Client
  /\ {ShortReads, Faults} \subseteq BOOLEAN
  /\ None \notin Client

(***************************************************************************)
(* The fields of the headers can hold what the clients put into them.  A   *)
(* Horcrux of 2^32 bytes or more would have its mContentSize cut.          *)
(***************************************************************************)
ASSUME FieldsFit ==
  /\ 0..(UintMod - 1) \subseteq Size
  /\ \A u \in Upload : /\ 0..Len(u) \subseteq Count
                       /\ \A i \in DOMAIN u : Len(u[i]) < UintMod

VARIABLES
  at,           \* the statement each client is at
  upload,       \* its horcruxes
  uuid,         \* the UUID it has drawn
  sent,         \* the requests it is done with
  results,      \* what sendHorcruxRequest returned for each of them
  backlog,      \* clients that are connected and not accepted yet
  peer,         \* the client at the other end of each server connection
  toServer,     \* cells on their way to the server
  toClient,     \* cells on their way to the client
  clientClosed, \* the client's socket is closed
  serverClosed, \* the server's socket is closed
  reset         \* a side has closed with data unread or was sent data after it

clientVars == <<at, upload, uuid, sent, results>>
netVars == <<backlog, peer, toServer, toClient, clientClosed, serverClosed, reset>>
systemVars == <<vars, clientVars, netVars>>

-----------------------------------------------------------------------------
\* The object representation of a header, and of a response, in two cells each.
serializeHeader(h) == <<[of |-> h, half |-> 1], [of |-> h, half |-> 2]>>
Response(outcome) == IF outcome = "SUCCESS" THEN <<"SUCC", "ESS">> ELSE <<"FAIL", "URE">>

\* The headers that cells may be read as: bytes that are no header are read as some header.
deserializeHeader(cells, Headers) ==
  IF \E h \in Headers : cells = serializeHeader(h)
    THEN {h \in Headers : cells = serializeHeader(h)}
    ELSE Headers

\* The first n cells of a stream, and the others.
First(s, n) == SubSeq(s, 1, n)
Rest(s, n) == SubSeq(s, n + 1, Len(s))

\* The sizes in the headers are uint32_t; n contents are added up one by one.
totalSize(horcrux) ==
  LET sum[n \in 0..Len(horcrux)] ==
        IF n = 0 THEN 0 ELSE (sum[n - 1] + Len(horcrux[n])) % UintMod
  IN sum[Len(horcrux)]

preRequestHeaderOf(k) ==
  [mUuid |-> uuid[k], mTotalSize |-> totalSize(upload[k]), mNumHorcruxes |-> Len(upload[k])]

\* Faulty variant: requests are numbered from 1.
requestHeaderOf_OneBased(k) ==
  [mUuid |-> uuid[k], mIndex |-> sent[k] + 1,
   mContentSize |-> Len(upload[k][sent[k] + 1]) % UintMod]

\* Faulty variant: the index is the number of requests still to be built.
requestHeaderOf_CountsDown(k) ==
  [mUuid |-> uuid[k], mIndex |-> Len(upload[k]) - sent[k] - 1,
   mContentSize |-> Len(upload[k][sent[k] + 1]) % UintMod]

requestHeaderOf(k) ==
  [mUuid |-> uuid[k], mIndex |-> sent[k],
   mContentSize |-> Len(upload[k][sent[k] + 1]) % UintMod]

-----------------------------------------------------------------------------
SystemInit ==
  /\ Init
  /\ at = [k \in Client |-> "connect"]
  /\ upload \in [Client -> Upload]
  /\ uuid \in Draw
  /\ sent = [k \in Client |-> 0]
  /\ results = [k \in Client |-> <<>>]
  /\ backlog = <<>>
  /\ peer = [c \in Connection |-> None]
  /\ toServer = [k \in Client |-> <<>>]
  /\ toClient = [k \in Client |-> <<>>]
  /\ clientClosed = [k \in Client |-> FALSE]
  /\ serverClosed = [k \in Client |-> FALSE]
  /\ reset = [k \in Client |-> FALSE]

\* main returns: the socket is closed, with a reset if something was not read.
Close(k) ==
  /\ at' = [at EXCEPT ![k] = "done"]
  /\ clientClosed' = [clientClosed EXCEPT ![k] = TRUE]
  /\ reset' = [reset EXCEPT ![k] = @ \/ toClient[k] # <<>>]

(***************************************************************************)
(* main up to the pre-request header: parse, resolve and connect, which    *)
(* throws when no server listens; then loadFile and split, after which an  *)
(* empty vector ends main.                                                 *)
(***************************************************************************)
connect(k) ==
  /\ at[k] = "connect"
  /\ \/ /\ up
        /\ backlog' = Append(backlog, k)
        /\ at' = [at EXCEPT ![k] = "getHorcruxes"]
        /\ UNCHANGED clientClosed
     \/ /\ ~up
        /\ at' = [at EXCEPT ![k] = "done"]
        /\ clientClosed' = [clientClosed EXCEPT ![k] = TRUE]
        /\ UNCHANGED backlog
  /\ UNCHANGED <<vars, upload, uuid, sent, results, peer, toServer, toClient, serverClosed, reset>>

getHorcruxes(k) ==
  /\ at[k] = "getHorcruxes"
  /\ \/ /\ upload[k] = <<>>
        /\ Close(k)
     \/ /\ upload[k] # <<>>
        /\ at' = [at EXCEPT ![k] = "sendPreRequest"]
        /\ UNCHANGED <<clientClosed, reset>>
  /\ UNCHANGED <<vars, upload, uuid, sent, results, backlog, peer, toServer, toClient, serverClosed>>

(***************************************************************************)
(* write_some without an error.  What is sent to a closed socket is lost   *)
(* and answered by a reset.  To send nothing does nothing, even after it.  *)
(***************************************************************************)
Writes_some(k, cells) ==
  /\ reset[k] => cells = <<>>
  /\ \/ /\ ~serverClosed[k]
        /\ toServer' = [toServer EXCEPT ![k] = @ \o cells]
        /\ UNCHANGED reset
     \/ /\ serverClosed[k]
        /\ reset' = [reset EXCEPT ![k] = @ \/ cells # <<>>]
        /\ UNCHANGED toServer

sendPreRequest(k) ==
  /\ at[k] = "sendPreRequest"
  /\ \/ /\ Writes_some(k, serializeHeader(preRequestHeaderOf(k)))
        /\ at' = [at EXCEPT ![k] = "readPreResponse"]
        /\ UNCHANGED clientClosed
     \/ /\ reset[k]
        /\ Close(k)
        /\ UNCHANGED toServer
  /\ UNCHANGED <<vars, upload, uuid, sent, results, backlog, peer, toClient, serverClosed>>

\* Faulty variant: any answer that does not begin like FAILURE is taken for SUCCESS.
Reads_some_AnyAnswer(k, ok) ==
  /\ toClient[k] # <<>>
  /\ \E n \in IF ShortReads THEN 1..Len(toClient[k]) ELSE {Len(toClient[k])} :
       /\ ok = (Head(toClient[k]) # "FAIL")
       /\ toClient' = [toClient EXCEPT ![k] = Rest(@, n)]

\* read_some without an error: ok says whether exactly SUCCESS was read.
Reads_some(k, ok) ==
  /\ toClient[k] # <<>>
  /\ \E n \in IF ShortReads THEN 1..Len(toClient[k]) ELSE {Len(toClient[k])} :
       /\ ok = (First(toClient[k], n) = Response("SUCCESS"))
       /\ toClient' = [toClient EXCEPT ![k] = Rest(@, n)]

\* Faulty variant: an error is only logged and reading is tried again.
ReadThrows_Never(k) == FALSE /\ reset[k]

\* read_some with an error, thrown out of readResponse and caught in main.
ReadThrows(k) == reset[k] \/ (serverClosed[k] /\ toClient[k] = <<>>)

NextRequest(k) ==
  at' = [at EXCEPT ![k] = IF sent[k] < Len(upload[k]) THEN "sendHeader" ELSE "end"]

readPreResponse(k) ==
  /\ at[k] = "readPreResponse"
  /\ \/ /\ Reads_some(k, TRUE)
        /\ NextRequest(k)
        /\ UNCHANGED <<clientClosed, reset>>
     \/ /\ Reads_some(k, FALSE)
        /\ at' = [at EXCEPT ![k] = "end"]
        /\ UNCHANGED <<clientClosed, reset>>
     \/ /\ ReadThrows(k)
        /\ Close(k)
        /\ UNCHANGED toClient
  /\ UNCHANGED <<vars, upload, uuid, sent, results, backlog, peer, toServer, serverClosed>>

\* sendHorcruxRequest returns ok: main logs a failure and goes on with the next request.
Return(k, ok) ==
  /\ results' = [results EXCEPT ![k] = Append(@, ok)]
  /\ sent' = [sent EXCEPT ![k] = @ + 1]
  /\ at' = [at EXCEPT ![k] = IF sent[k] + 1 < Len(upload[k]) THEN "sendHeader" ELSE "end"]

\* One of the two writes of sendHorcruxRequest.
SendPart(k, here, cells, next) ==
  /\ at[k] = here
  /\ \/ /\ Writes_some(k, cells)
        /\ at' = [at EXCEPT ![k] = next]
        /\ UNCHANGED <<sent, results>>
     \/ /\ reset[k] /\ cells # <<>>
        /\ Return(k, FALSE)
        /\ UNCHANGED <<toServer, reset>>
  /\ UNCHANGED <<vars, upload, uuid, backlog, peer, toClient, clientClosed, serverClosed>>

sendHeader(k) ==
  /\ sent[k] < Len(upload[k])
  /\ SendPart(k, "sendHeader", serializeHeader(requestHeaderOf(k)), "sendContent")

sendContent(k) ==
  /\ sent[k] < Len(upload[k])
  /\ SendPart(k, "sendContent", upload[k][sent[k] + 1], "readResponse")

readResponse(k) ==
  /\ at[k] = "readResponse"
  /\ \/ /\ \E ok \in BOOLEAN : Reads_some(k, ok) /\ Return(k, ok)
        /\ UNCHANGED <<clientClosed, reset>>
     \/ /\ ReadThrows(k)
        /\ Close(k)
        /\ UNCHANGED <<sent, results, toClient>>
  /\ UNCHANGED <<vars, upload, uuid, backlog, peer, toServer, serverClosed>>

end(k) ==
  /\ at[k] = "end"
  /\ Close(k)
  /\ UNCHANGED <<vars, upload, uuid, sent, results, backlog, peer, toServer, toClient, serverClosed>>

\* The client is killed.
ClientCrash(k) ==
  /\ Faults
  /\ at[k] \notin {"connect", "done"}
  /\ Close(k)
  /\ UNCHANGED <<vars, upload, uuid, sent, results, backlog, peer, toServer, toClient, serverClosed>>

-----------------------------------------------------------------------------
(***************************************************************************)
(* The server's handlers on the streams.  After a step of connection c     *)
(* that has read n cells: a new response is on its way, unless the client  *)
(* is gone; if c was destroyed its socket is closed, with a reset if       *)
(* something was not read.                                                 *)
(***************************************************************************)
Socket(c, n) ==
  LET k == peer[c]
      rest == Rest(toServer[k], n)
      closes == pending'[c] = "none"
      reply == IF Len(replies'[c]) > Len(replies[c]) THEN Response(replies'[c][Len(replies'[c])])
                                                     ELSE <<>>
  IN /\ k # None
     /\ toServer' = [toServer EXCEPT ![k] = IF closes THEN <<>> ELSE rest]
     /\ toClient' = [toClient EXCEPT ![k] = IF clientClosed[k] THEN @ ELSE @ \o reply]
     /\ serverClosed' = [serverClosed EXCEPT ![k] = closes]
     /\ reset' = [reset EXCEPT ![k] = @ \/ (closes /\ rest # <<>>)
                                        \/ (clientClosed[k] /\ reply # <<>>)]
     /\ peer' = [peer EXCEPT ![c] = IF closes THEN None ELSE @]
     /\ UNCHANGED <<clientVars, backlog, clientClosed>>

\* At least n cells have arrived for c.
Arrived(c, n) == peer[c] # None /\ Len(toServer[peer[c]]) >= n

Accept(c) ==
  /\ backlog # <<>>
  /\ \E n \in Connection : handle_accept(c, n, FALSE)
  /\ peer' = [peer EXCEPT ![c] = Head(backlog)]
  /\ backlog' = Tail(backlog)
  /\ UNCHANGED <<clientVars, toServer, toClient, clientClosed, serverClosed, reset>>

AcceptFails(c) ==
  /\ Faults
  /\ \E n \in Connection : handle_accept(c, n, TRUE)
  /\ UNCHANGED <<clientVars, netVars>>

Receive(c) ==
  \/ /\ Arrived(c, 2)
     /\ \E h \in deserializeHeader(First(toServer[peer[c]], 2), PreRequestHeader) :
          ReadPreRequestHeader(c, h)
     /\ Socket(c, 2)
  \/ /\ Arrived(c, 2)
     /\ \E h \in deserializeHeader(First(toServer[peer[c]], 2), RequestHeader) :
          ReadRequestHeader(c, h)
     /\ Socket(c, 2)
  \/ /\ Arrived(c, requestHeader[c].mContentSize)
     /\ ReadRequestContent(c, First(toServer[peer[c]], requestHeader[c].mContentSize))
     /\ Socket(c, requestHeader[c].mContentSize)

\* How many cells the read that c has outstanding waits for.
Wanted(c) == IF pending[c] = "ReadRequestContent" THEN requestHeader[c].mContentSize ELSE 2

\* End of file before the read is complete, or a reset, which may overtake what was sent.
Lose(c) ==
  /\ peer[c] # None
  /\ \/ clientClosed[peer[c]] /\ ~Arrived(c, Wanted(c))
     \/ reset[peer[c]]
  /\ ReadError(c)
  /\ Socket(c, 0)

Handle(c) == (writeHandler(c) \/ openFile(c) \/ writeFile(c)) /\ Socket(c, 0)

DiskFails(c) == (openFails(c) \/ writeFails(c)) /\ Socket(c, 0)

\* The sockets of the server process are closed with it, those in the backlog included.
ServerCrash ==
  /\ Faults
  /\ Crash
  /\ peer' = [c \in Connection |-> None]
  /\ backlog' = <<>>
  /\ toServer' = [k \in Client |-> <<>>]
  /\ LET lost == {k \in Client : at[k] # "connect" /\ ~clientClosed[k] /\ ~serverClosed[k]}
     IN /\ serverClosed' = [k \in Client |-> serverClosed[k] \/ k \in lost]
        /\ reset' = [k \in Client |-> reset[k] \/ (k \in lost /\ toServer[k] # <<>>)]
  /\ UNCHANGED <<clientVars, toClient, clientClosed>>

ServerRestart(c) == Faults /\ Restart(c) /\ UNCHANGED <<clientVars, netVars>>

-----------------------------------------------------------------------------
ClientNext(k) ==
  \/ connect(k) \/ getHorcruxes(k) \/ sendPreRequest(k) \/ readPreResponse(k)
  \/ sendHeader(k) \/ sendContent(k) \/ readResponse(k) \/ end(k)

ServerNext(c) == Accept(c) \/ Receive(c) \/ Lose(c) \/ Handle(c)

FaultNext ==
  \/ \E k \in Client : ClientCrash(k)
  \/ \E c \in Connection : AcceptFails(c) \/ DiskFails(c) \/ ServerRestart(c)
  \/ ServerCrash

SystemNext ==
  \/ \E k \in Client : ClientNext(k)
  \/ \E c \in Connection : ServerNext(c)
  \/ FaultNext

SystemSpec == SystemInit /\ [][SystemNext]_systemVars

(***************************************************************************)
(* The operating system runs the steady clients, and io_context::run takes *)
(* up what is ready.  Strong fairness for the server, since another        *)
(* connection's save holds its thread for a while.  Nothing is assumed of  *)
(* the other clients and of the faults.                                    *)
(***************************************************************************)
SystemFairSpec ==
  /\ SystemSpec
  /\ \A k \in Steady : WF_systemVars(ClientNext(k))
  /\ \A c \in Connection : SF_systemVars(ServerNext(c))

-----------------------------------------------------------------------------
(***************************************************************************)
(* What a file of out holds is Horcrux number i, or a beginning of it, of  *)
(* a client that drew the UUID in the file's name: whatever crashes,       *)
(* fails, is interleaved or is read in parts, the bytes the client hands   *)
(* to write_some end up in the slot, and in the file, they belong to.      *)
(***************************************************************************)
FilesAreSent ==
  \A p \in Path : out[p] # None =>
    \E k \in Client :
      /\ uuid[k] = p[1]
      /\ p[2] < Len(upload[k])
      /\ Len(out[p]) <= Len(upload[k][p[2] + 1])
      /\ out[p] = First(upload[k][p[2] + 1], Len(out[p]))

(***************************************************************************)
(* While no request has failed, the answer that sendHorcruxRequest takes   *)
(* for request i is the answer to request i: the server holds that Horcrux *)
(* as long as it holds the connection.  (The loop of main goes on after a  *)
(* failure; what is read in parts is then taken for later answers.)        *)
(***************************************************************************)
AcknowledgedIsHeld ==
  \A c \in Connection : peer[c] # None =>
    \A i \in DOMAIN results[peer[c]] :
      (\A j \in 1..i : results[peer[c]][j]) =>
        /\ i - 1 \in DOMAIN horcruxes[c]
        /\ horcruxes[c][i - 1] = upload[peer[c]][i]

(***************************************************************************)
(* The client's blocking reads and writes come to an end: client and       *)
(* server never wait for each other for ever.                              *)
(***************************************************************************)
ClientEnds == \A k \in Steady : <>(at[k] = "done")

(***************************************************************************)
(* Horcruxes that the server has no reason to reject get stored, each in   *)
(* its file, whatever the other clients do or fail to do.  No other client *)
(* may have drawn the same UUID: saveFile refuses a path that exists, and  *)
(* saveHorcruxes does not look at what it returns.                         *)
(***************************************************************************)
UploadStored ==
  \A k \in Steady :
    /\ upload[k] # <<>>
    /\ checkPreRequestHeader(preRequestHeaderOf(k))
    /\ \A l \in Client \ {k} : uuid[l] # uuid[k]
    => <>(\A i \in DOMAIN upload[k] : out[<<uuid[k], i - 1>>] = upload[k][i])
=============================================================================
