-------------------------- MODULE HorcruxSystemProofs --------------------------
(***************************************************************************)
(* The client and the server together, for any number of clients and       *)
(* connections, any uploads whose sizes fit the fields of the headers,     *)
(* any short reads, crashes and disk faults: every behaviour is one of     *)
(* HorcruxServer, so that what is proved of the server holds here, and     *)
(* what the clients sent is what the server holds and stores.              *)
(***************************************************************************)
EXTENDS HorcruxSessionProofs, HorcruxServerProofs

\* Most steps here need no arithmetic: Zenon proves them, and SMT those that say so.
USE ZenonT(60)

(***************************************************************************)
(* A step of client k: it has to keep what the other side counts on, while *)
(* there is another side.                                                  *)
(***************************************************************************)
LEMMA ClientStep ==
  ASSUME SystemInv, NEW k \in Client, ClientType',
         UNCHANGED <<vars, peer, backlog>>,
         \A l \in Client \ {k} : SameClient(l) /\ SameSocket(l),
         upload'[k] = upload[k], uuid'[k] = uuid[k],
         Progress(k)',
         Live(k) => /\ Live(k)'
                    /\ Unread(k) => Unread(k)'
                    /\ Rejected(k) => Rejected(k)'
                    /\ Carried(k)
  PROVE  SystemInv'
<1>1. \A l \in Client : Live(l) => Live(l)'
  BY ClientFrame
<1>2. \A l \in Client : Live(l) /\ Unread(l) => Unread(l)'
  BY ClientFrame
<1>3. \A l \in Client : Progress(l)'
  BY ClientFrame DEF SystemInv
<1>4. UNCHANGED pending /\ \A c \in Connection : SameServer(c)
  BY DEF vars, connVars, SameServer
<1>5. \A c \in Connection : peer[c] \in Client \cup {None}
  BY DEF SystemInv, ClientType
<1>6. \A i \in DOMAIN backlog : backlog[i] \in Client
  BY SMTT(60) DEF SystemInv, ClientType
<1>7. Links'
  BY <1>1, <1>4, <1>5, <1>6 DEF SystemInv, Links
<1>8. ASSUME NEW c \in Connection, peer[c] # None PROVE Session(c, peer[c])'
  <2>1. peer[c] \in Client /\ Live(peer[c]) /\ Session(c, peer[c]) /\ SameServer(c)
    BY <1>4, <1>5, <1>8 DEF SystemInv, Links
  <2>2. CASE peer[c] = k
    BY <2>1, <2>2, SessionFrame
  <2>3. CASE peer[c] # k
    <3>1. PICK l : l = peer[c]
      OBVIOUS
    <3>2. SameClient(l) /\ SameSocket(l) /\ Session(c, l)
      BY <2>1, <2>3, <3>1
    <3>3. Session(c, l)' /\ peer'[c] = l
      BY <2>1, <3>1, <3>2, SessionKept
    <3> QED BY <3>3
  <2> QED BY <2>2, <2>3
<1>9. \A i \in DOMAIN backlog' : Unread(backlog[i])'
  BY <1>2, <1>6 DEF SystemInv, Links
<1> QED BY <1>3, <1>7, <1>8, <1>9 DEF SystemInv

\* Once main is at its end nothing is asked of the client but what it has written.
LEMMA OverCarries ==
  ASSUME SystemInv, NEW k \in Client, at'[k] \in {"end", "done"},
         upload'[k] = upload[k], uuid'[k] = uuid[k], sent'[k] = sent[k], results'[k] = results[k],
         toServer'[k] = toServer[k]
  PROVE  /\ Unread(k) => Unread(k)'
         /\ Rejected(k) => Rejected(k)'
         /\ Carried(k)
<1>1. Over(k)'
  BY DEF Over
<1>2. \A n : Stream(k, n) => Stream(k, n)'
  BY <1>1, StreamKept
<1>3. \A m : Answers(k, m)'
  BY <1>1 DEF Answers
<1> QED BY <1>2, <1>3 DEF Unread, Rejected, Carried

LEMMA CloseStep ==
  ASSUME SystemInv, NEW k \in Client, Close(k), at[k] # "connect",
         UNCHANGED <<vars, peer, backlog, upload, uuid, sent, results, toServer, toClient, serverClosed>>
  PROVE  SystemInv'
<1>1. ClientType /\ Progress(k)
  BY DEF SystemInv
<1>2. ClientType'
  <2>1. at' \in [Client -> Place]
    BY <1>1 DEF Close, ClientType, Place
  <2>2. clientClosed' \in [Client -> BOOLEAN] /\ reset' \in [Client -> BOOLEAN]
    BY <1>1 DEF Close, ClientType
  <2> QED BY <1>1, <2>1, <2>2 DEF ClientType
<1>3. at'[k] = "done" /\ clientClosed'[k] = TRUE
  BY <1>1 DEF Close, ClientType
<1>4. \A l \in Client \ {k} : SameClient(l) /\ SameSocket(l)
  BY <1>1 DEF Close, ClientType, SameClient, SameSocket
<1>5. Progress(k)'
  BY <1>1, <1>3 DEF Progress
<1>6. Live(k) => Live(k)'
  BY <1>3 DEF Live
<1> QED BY <1>2, <1>3, <1>4, <1>5, <1>6, OverCarries, ClientStep

-----------------------------------------------------------------------------
\* A write sends the cells that come next.
LEMMA WriteCarries ==
  ASSUME SystemInv, NEW k \in Client, ~Over(k), ~Over(k)', ~Rejected(k),
         NEW cells \in Seq(Cell),
         Written(k) + Len(cells) <= Len(Full(k)),
         SubSeq(Full(k), Written(k) + 1, Written(k) + Len(cells)) = cells,
         toServer'[k] = toServer[k] \o cells, toClient'[k] = toClient[k],
         upload'[k] = upload[k], uuid'[k] = uuid[k], results'[k] = results[k],
         Written(k)' = Written(k) + Len(cells),
         Taken(k)' = Taken(k)
  PROVE  /\ Unread(k) => Unread(k)'
         /\ Rejected(k) => Rejected(k)'
         /\ Carried(k)
<1>1. ClientType
  BY DEF SystemInv
<1>2. \A n \in Nat : Stream(k, n) => Stream(k, n)'
  BY <1>1, StreamWritten
<1>3. \A m : Answers(k, m) => Answers(k, m)'
  BY DEF Answers, AllTrue
<1>4. \A j \in 0..Len(upload[k]) : \A n : n \in {Mark(k, j), Mark(k, j) + 2} => n \in Nat
  BY <1>1, StreamParts, SMTT(60)
<1> QED BY <1>2, <1>3, <1>4 DEF Unread, Carried

\* The statements that write, and what comes after each.
WritesThen(here, next) ==
  <<here, next>> \in {<<"sendPreRequest", "readPreResponse">>, <<"sendHeader", "sendContent">>,
                     <<"sendContent", "readResponse">>}

LEMMA WriteStep ==
  ASSUME SystemInv, NEW k \in Client, NEW next, WritesThen(at[k], next),
         NEW cells \in Seq(Cell),
         Written(k) + Len(cells) <= Len(Full(k)),
         SubSeq(Full(k), Written(k) + 1, Written(k) + Len(cells)) = cells,
         Writes_some(k, cells),
         at' = [at EXCEPT ![k] = next],
         Written(k)' = Written(k) + Len(cells),
         UNCHANGED <<vars, upload, uuid, sent, results, backlog, peer, toClient, clientClosed, serverClosed>>
  PROVE  SystemInv'
<1>1. ClientType /\ Progress(k)
  BY DEF SystemInv
<1>2. at'[k] = next /\ at[k] \in {"sendPreRequest", "sendHeader", "sendContent"}
        /\ next \in {"readPreResponse", "sendContent", "readResponse"}
        /\ (at[k] = "sendPreRequest" <=> next = "readPreResponse")
  BY <1>1 DEF ClientType, WritesThen
<1>3. ClientType'
  <2>1. at' \in [Client -> Place]
    BY <1>1, <1>2 DEF ClientType, Place
  <2>2. toServer' \in [Client -> Seq(Cell)] /\ reset' \in [Client -> BOOLEAN]
    <3>1. toServer[k] \o cells \in Seq(Cell)
      BY <1>1, StreamType, SMTT(60)
    <3> QED BY <1>1, <3>1 DEF Writes_some, ClientType
  <2> QED BY <1>1, <2>1, <2>2 DEF ClientType
<1>4. \A l \in Client \ {k} : SameClient(l) /\ SameSocket(l)
  BY <1>1 DEF Writes_some, ClientType, SameClient, SameSocket
<1>5. Progress(k)'
  BY <1>1, <1>2 DEF Progress
<1>6. ASSUME Live(k)
      PROVE  /\ Live(k)'
             /\ Unread(k) => Unread(k)'
             /\ Rejected(k) => Rejected(k)'
             /\ Carried(k)
  <2>1. toServer'[k] = toServer[k] \o cells /\ reset'[k] = reset[k] /\ ~reset[k]
    <3>1. ~reset[k] /\ ~serverClosed[k]
      BY <1>2, <1>6 DEF Live
    <3>2. toServer' = [toServer EXCEPT ![k] = @ \o cells] /\ reset' = reset
      BY <3>1 DEF Writes_some
    <3> QED BY <1>1, <3>1, <3>2 DEF ClientType
  <2>2. Live(k)'
    BY <1>2, <1>6, <2>1 DEF Live
  <2>3. ~Over(k) /\ Over(k)' = FALSE /\ ~Rejected(k)
    BY <1>2, SMTT(60) DEF Over, Rejected
  <2>4. Taken(k)' = Taken(k)
    BY <1>2 DEF Taken
  <2> QED BY <2>1, <2>2, <2>3, <2>4, WriteCarries
<1> QED BY <1>3, <1>4, <1>5, <1>6, ClientStep

LEMMA SendPreRequestStep ==
  ASSUME SystemInv, NEW k \in Client, sendPreRequest(k)
  PROVE  SystemInv'
<1>1. ClientType /\ at[k] = "sendPreRequest"
  BY DEF SystemInv, sendPreRequest
<1>2. CASE reset[k] /\ Close(k) /\ UNCHANGED toServer
  BY <1>1, <1>2, CloseStep DEF sendPreRequest
<1>3. CASE /\ Writes_some(k, serializeHeader(preRequestHeaderOf(k)))
           /\ at' = [at EXCEPT ![k] = "readPreResponse"]
           /\ UNCHANGED clientClosed
  <2>0. PICK cells : cells = serializeHeader(preRequestHeaderOf(k))
    OBVIOUS
  <2>1. preRequestHeaderOf(k) = preHeader(uuid[k], upload[k])
    BY DEF preRequestHeaderOf, preHeader
  <2>2. uuid[k] \in Uuid /\ upload[k] \in Upload
    BY <1>1 DEF ClientType
  <2>3. cells \in Seq(Cell) /\ Len(cells) = 2
    BY <2>0, <2>1, <2>2, HeadersFit, HeaderCells
  <2>4. Written(k) = 0
    BY <1>1 DEF Written
  <2>5. Written(k)' = 2
    <3>1. at'[k] = "readPreResponse"
      BY <1>1, <1>3 DEF ClientType
    <3> QED BY <3>1 DEF Written
  <2>6. SubSeq(Full(k), 1, 2) = cells /\ 2 <= Len(Full(k))
    BY <1>1, <2>0, <2>1, StreamParts
  <2>7. Writes_some(k, cells)
    BY <1>3, <2>0
  <2>8. /\ Written(k) + Len(cells) <= Len(Full(k))
        /\ SubSeq(Full(k), Written(k) + 1, Written(k) + Len(cells)) = cells
        /\ Written(k)' = Written(k) + Len(cells)
    BY <2>3, <2>4, <2>5, <2>6, SMTT(60)
  <2>9. WritesThen(at[k], "readPreResponse")
    BY <1>1 DEF WritesThen
  <2>10. UNCHANGED <<vars, upload, uuid, sent, results, backlog, peer, toClient, clientClosed, serverClosed>>
    BY <1>3 DEF sendPreRequest
  <2> QED BY <1>3, <2>3, <2>7, <2>8, <2>9, <2>10, WriteStep
<1> QED BY <1>2, <1>3 DEF sendPreRequest

\* A write that fails: the connection is reset, and no one is at its other end.
LEMMA SendFails ==
  ASSUME SystemInv, NEW k \in Client, sent[k] < Len(upload[k]),
         at[k] \in {"sendHeader", "sendContent"}, reset[k], Return(k, FALSE),
         UNCHANGED <<vars, upload, uuid, backlog, peer, toServer, toClient,
                     clientClosed, serverClosed, reset>>
  PROVE  SystemInv'
<1>1. ClientType /\ Progress(k)
  BY DEF SystemInv
<1>2. ~Live(k)
  BY DEF Live
<1>3. at'[k] \in {"sendHeader", "end"} /\ at'[k] = (IF sent[k] + 1 < Len(upload[k]) THEN "sendHeader" ELSE "end")
  BY <1>1 DEF Return, ClientType
<1>4. sent'[k] = sent[k] + 1 /\ results'[k] = Append(results[k], FALSE)
  BY <1>1 DEF Return, ClientType
<1>5. ClientType'
  <2>1. at' \in [Client -> Place]
    BY <1>1 DEF Return, ClientType, Place
  <2>2. sent' \in [Client -> Nat]
    BY <1>1, SMTT(60) DEF Return, ClientType
  <2>3. results' \in [Client -> Seq(BOOLEAN)]
    <3>1. Append(results[k], FALSE) \in Seq(BOOLEAN)
      BY <1>1, SMTT(60) DEF ClientType
    <3> QED BY <1>1, <3>1 DEF Return, ClientType
  <2> QED BY <1>1, <2>1, <2>2, <2>3 DEF ClientType
<1>6. \A l \in Client \ {k} : SameClient(l) /\ SameSocket(l)
  BY <1>1 DEF Return, ClientType, SameClient, SameSocket
<1>7. Progress(k)'
  <2>1. results[k] \in Seq(BOOLEAN) /\ Len(results[k]) = sent[k]
    BY <1>1 DEF ClientType, Progress
  <2>2. Len(results'[k]) = sent'[k]
    BY <1>4, <2>1, SMTT(60)
  <2> QED BY <1>1, <1>3, <1>4, <2>2 DEF Progress
<1> QED BY <1>2, <1>5, <1>6, <1>7, ClientStep

-----------------------------------------------------------------------------
LEMMA SendHeaderStep ==
  ASSUME SystemInv, NEW k \in Client, sendHeader(k)
  PROVE  SystemInv'
<1>1. ClientType /\ at[k] = "sendHeader" /\ sent[k] < Len(upload[k]) /\ sent[k] \in Nat
  BY DEF SystemInv, ClientType, sendHeader, SendPart
<1>2. CASE reset[k] /\ Return(k, FALSE) /\ UNCHANGED <<toServer, reset>>
  BY <1>1, <1>2, SendFails DEF sendHeader, SendPart
<1>3. CASE /\ Writes_some(k, serializeHeader(requestHeaderOf(k)))
           /\ at' = [at EXCEPT ![k] = "sendContent"]
           /\ UNCHANGED <<sent, results>>
  <2>0. PICK cells : cells = serializeHeader(requestHeaderOf(k))
    OBVIOUS
  <2>1. requestHeaderOf(k) = header(uuid[k], upload[k], sent[k])
    BY DEF requestHeaderOf, header
  <2>2. uuid[k] \in Uuid /\ upload[k] \in Upload /\ Len(upload[k]) \in Nat
    BY <1>1, StreamParts DEF ClientType
  <2>3. sent[k] \in 0..(Len(upload[k]) - 1) /\ sent[k] + 1 \in 0..Len(upload[k])
          /\ sent[k] \in 0..Len(upload[k])
    BY <1>1, <2>2, SMTT(60)
  <2>4. cells \in Seq(Cell) /\ Len(cells) = 2
    BY <2>0, <2>1, <2>2, <2>3, HeadersFit, HeaderCells, SMTT(60)
  <2>5. Written(k) = Mark(k, sent[k])
    BY <1>1 DEF Written
  <2>6. Written(k)' = Mark(k, sent[k]) + 2
    <3>1. at'[k] = "sendContent"
      BY <1>1, <1>3 DEF ClientType
    <3>2. sent'[k] = sent[k] /\ upload'[k] = upload[k] /\ uuid'[k] = uuid[k]
      BY <1>3 DEF sendHeader, SendPart
    <3> QED BY <3>1, <3>2 DEF Written, Mark
  <2>7. SubSeq(Full(k), Mark(k, sent[k]) + 1, Mark(k, sent[k]) + 2) = cells
    BY <1>1, <2>0, <2>1, <2>3, StreamParts
  <2>8. Mark(k, sent[k]) + 2 <= Len(Full(k))
    <3>1. /\ Mark(k, sent[k]) \in Nat /\ Mark(k, sent[k] + 1) <= Len(Full(k))
          /\ Len(upload[k][sent[k] + 1]) \in Nat /\ Len(Full(k)) \in Nat
          /\ Mark(k, sent[k] + 1) = Mark(k, sent[k]) + 2 + Len(upload[k][sent[k] + 1])
      BY <1>1, <2>3, StreamParts
    <3> QED BY <3>1, SMTT(60)
  <2>9. Writes_some(k, cells)
    BY <1>3, <2>0
  <2>10. /\ Written(k) + Len(cells) <= Len(Full(k))
         /\ SubSeq(Full(k), Written(k) + 1, Written(k) + Len(cells)) = cells
         /\ Written(k)' = Written(k) + Len(cells)
    BY <2>4, <2>5, <2>6, <2>7, <2>8
  <2>11. WritesThen(at[k], "sendContent")
    BY <1>1 DEF WritesThen
  <2>12. UNCHANGED <<vars, upload, uuid, sent, results, backlog, peer, toClient, clientClosed, serverClosed>>
    BY <1>3 DEF sendHeader, SendPart
  <2> QED BY <1>3, <2>4, <2>9, <2>10, <2>11, <2>12, WriteStep
<1> QED BY <1>2, <1>3 DEF sendHeader, SendPart

LEMMA SendContentStep ==
  ASSUME SystemInv, NEW k \in Client, sendContent(k)
  PROVE  SystemInv'
<1>1. ClientType /\ at[k] = "sendContent" /\ sent[k] < Len(upload[k]) /\ sent[k] \in Nat
  BY DEF SystemInv, ClientType, sendContent, SendPart
<1>2. CASE reset[k] /\ Return(k, FALSE) /\ UNCHANGED <<toServer, reset>>
  BY <1>1, <1>2, SendFails DEF sendContent, SendPart
<1>3. CASE /\ Writes_some(k, upload[k][sent[k] + 1])
           /\ at' = [at EXCEPT ![k] = "readResponse"]
           /\ UNCHANGED <<sent, results>>
  <2>0. PICK cells : cells = upload[k][sent[k] + 1]
    OBVIOUS
  <2>2. uuid[k] \in Uuid /\ upload[k] \in Upload /\ Len(upload[k]) \in Nat
    BY <1>1, StreamParts DEF ClientType
  <2>3. sent[k] \in 0..(Len(upload[k]) - 1) /\ sent[k] + 1 \in 1..Len(upload[k])
          /\ sent[k] \in 0..Len(upload[k]) /\ sent[k] + 1 \in 0..Len(upload[k])
    BY <1>1, <2>2, SMTT(60)
  <2>4. cells \in Seq(Cell)
    BY <2>0, <2>2, <2>3, RequestCells
  <2>5. Written(k) = Mark(k, sent[k]) + 2
    BY <1>1 DEF Written
  <2>6. Written(k)' = Mark(k, sent[k] + 1)
    <3>1. at'[k] = "readResponse"
      BY <1>1, <1>3 DEF ClientType
    <3>2. sent'[k] = sent[k] /\ upload'[k] = upload[k] /\ uuid'[k] = uuid[k]
      BY <1>3 DEF sendContent, SendPart
    <3> QED BY <3>1, <3>2 DEF Written, Mark
  <2>7. SubSeq(Full(k), Mark(k, sent[k]) + 2 + 1, Mark(k, sent[k] + 1)) = cells
    BY <1>1, <2>0, <2>3, StreamParts
  <2>8. /\ Mark(k, sent[k] + 1) <= Len(Full(k))
        /\ Mark(k, sent[k] + 1) = Mark(k, sent[k]) + 2 + Len(cells)
    BY <1>1, <2>0, <2>3, StreamParts
  <2>9. Writes_some(k, cells)
    BY <1>3, <2>0
  <2>10. /\ Written(k) + Len(cells) <= Len(Full(k))
         /\ SubSeq(Full(k), Written(k) + 1, Written(k) + Len(cells)) = cells
         /\ Written(k)' = Written(k) + Len(cells)
    BY <2>5, <2>6, <2>7, <2>8
  <2>11. WritesThen(at[k], "readResponse")
    BY <1>1 DEF WritesThen
  <2>12. UNCHANGED <<vars, upload, uuid, sent, results, backlog, peer, toClient, clientClosed, serverClosed>>
    BY <1>3 DEF sendContent, SendPart
  <2> QED BY <1>3, <2>4, <2>9, <2>10, <2>11, <2>12, WriteStep
<1> QED BY <1>2, <1>3 DEF sendContent, SendPart

LEMMA EndStep ==
  ASSUME SystemInv, NEW k \in Client, end(k) \/ ClientCrash(k)
  PROVE  SystemInv'
<1>1. Close(k) /\ at[k] # "connect"
  BY DEF end, ClientCrash
<1>2. UNCHANGED <<vars, peer, backlog, upload, uuid, sent, results, toServer, toClient, serverClosed>>
  BY DEF end, ClientCrash
<1> QED BY <1>1, <1>2, CloseStep

LEMMA GetHorcruxesStep ==
  ASSUME SystemInv, NEW k \in Client, getHorcruxes(k)
  PROVE  SystemInv'
<1>1. ClientType /\ Progress(k) /\ at[k] = "getHorcruxes"
  BY DEF SystemInv, getHorcruxes
<1>2. UNCHANGED <<vars, peer, backlog, upload, uuid, sent, results, toServer, toClient, serverClosed>>
  BY DEF getHorcruxes
<1>3. CASE upload[k] = <<>> /\ Close(k)
  BY <1>1, <1>2, <1>3, CloseStep
<1>4. CASE at' = [at EXCEPT ![k] = "sendPreRequest"] /\ UNCHANGED <<clientClosed, reset>>
  <2>1. at'[k] = "sendPreRequest"
    BY <1>1, <1>4 DEF ClientType
  <2>2. ClientType'
    <3>1. at' \in [Client -> Place]
      BY <1>1, <1>4 DEF ClientType, Place
    <3> QED BY <1>1, <1>2, <1>4, <3>1 DEF ClientType
  <2>3. \A l \in Client \ {k} : SameClient(l) /\ SameSocket(l)
    BY <1>1, <1>2, <1>4 DEF ClientType, SameClient, SameSocket
  <2>4. Progress(k)'
    BY <1>1, <1>2, <1>4, <2>1 DEF Progress
  <2>5. Live(k) => Live(k)'
    BY <1>1, <1>2, <1>4, <2>1 DEF Live
  <2>6. Written(k)' = Written(k) /\ ~Over(k) /\ Taken(k)' = Taken(k) /\ ~Rejected(k)
    <3>1. Written(k) = 0 /\ Taken(k) = 0 /\ ~Over(k) /\ ~Rejected(k)
      BY <1>1 DEF Written, Over, Taken, Rejected
    <3>2. Written(k)' = 0 /\ Taken(k)' = 0
      BY <2>1 DEF Written, Taken
    <3> QED BY <3>1, <3>2
  <2>7. \A n : Stream(k, n) => Stream(k, n)'
    BY <1>2, <2>6, StreamKept DEF Over
  <2>8. \A m : Answers(k, m) => Answers(k, m)'
    BY <1>2, <2>6 DEF Answers, AllTrue
  <2>9. (Unread(k) => Unread(k)') /\ Carried(k)
    BY <1>2, <2>7, <2>8 DEF Unread, Carried
  <2> QED BY <1>2, <2>2, <2>3, <2>4, <2>5, <2>6, <2>9, ClientStep
<1> QED BY <1>3, <1>4 DEF getHorcruxes

-----------------------------------------------------------------------------
\* What a read leaves, and that exactly a response was read.
LEMMA ReadSome ==
  ASSUME ClientType, NEW k \in Client, NEW ok, Reads_some(k, ok)
  PROVE  /\ toClient' \in [Client -> Seq({"SUCC", "ESS", "FAIL", "URE"})]
         /\ \A l \in Client \ {k} : toClient'[l] = toClient[l]
         /\ toClient[k] # <<>>
         /\ ok = TRUE => /\ Len(toClient'[k]) = Len(toClient[k]) - 2
                         /\ toClient[k][1] = "SUCC"
<1> DEFINE s == toClient[k]
           S == {"SUCC", "ESS", "FAIL", "URE"}
<1>1. PICK n \in IF ShortReads THEN 1..Len(s) ELSE {Len(s)} :
        /\ ok = (First(s, n) = Response("SUCCESS"))
        /\ toClient' = [toClient EXCEPT ![k] = Rest(s, n)]
  BY DEF Reads_some
<1>2. s \in Seq(S) /\ Len(s) \in Nat /\ s # <<>>
  BY SMTT(60) DEF ClientType, Reads_some
<1>3. n \in 0..Len(s) /\ n \in Nat /\ n <= Len(s)
  BY <1>1, <1>2, SMTT(60)
<1> HIDE DEF s
<1>4. /\ SubSeq(s, n + 1, Len(s)) \in Seq(S) /\ Len(SubSeq(s, n + 1, Len(s))) = Len(s) - n
  BY <1>2, <1>3, PartOf, SMTT(60)
<1>5. /\ Len(SubSeq(s, 1, n)) = n /\ \A i \in 1..n : SubSeq(s, 1, n)[i] = s[i]
  BY <1>2, <1>3, SMTT(60)
<1>6. toClient'[k] = SubSeq(s, n + 1, Len(s))
  BY <1>1 DEF ClientType, Rest
<1>7. ASSUME ok = TRUE PROVE n = 2 /\ s[1] = "SUCC"
  <2>1. SubSeq(s, 1, n) = <<"SUCC", "ESS">>
    BY <1>1, <1>7 DEF First, Response
  <2>2. n = 2
    BY <1>5, <2>1
  <2>3. SubSeq(s, 1, n)[1] = s[1] /\ <<"SUCC", "ESS">>[1] = "SUCC"
    BY <1>5, <2>2, SMTT(60)
  <2> QED BY <2>1, <2>2, <2>3
<1>8. toClient' \in [Client -> Seq(S)]
  <2>1. Rest(s, n) \in Seq(S)
    BY <1>4 DEF Rest
  <2>2. toClient \in [Client -> Seq(S)]
    BY DEF ClientType
  <2> HIDE DEF S
  <2> QED BY <1>1, <2>1, <2>2
<1>9. \A l \in Client \ {k} : toClient'[l] = toClient[l]
  BY <1>1 DEF ClientType
<1> QED BY <1>2, <1>4, <1>6, <1>7, <1>8, <1>9 DEF s

LEMMA ReadPreResponseStep ==
  ASSUME SystemInv, NEW k \in Client, readPreResponse(k)
  PROVE  SystemInv'
<1>1. ClientType /\ Progress(k) /\ at[k] = "readPreResponse" /\ sent[k] = 0
  BY DEF SystemInv, readPreResponse, Progress
<1>2. UNCHANGED <<vars, upload, uuid, sent, results, backlog, peer, toServer, serverClosed>>
  BY DEF readPreResponse
<1>3. CASE ReadThrows(k) /\ Close(k) /\ UNCHANGED toClient
  BY <1>1, <1>2, <1>3, CloseStep
<1>4. ASSUME NEW ok, Reads_some(k, ok), NEW next \in {"sendHeader", "end"},
             at' = [at EXCEPT ![k] = next], UNCHANGED <<clientClosed, reset>>,
             next = "sendHeader" => ok = TRUE /\ sent[k] < Len(upload[k])
      PROVE  SystemInv'
  <2>1. at'[k] = next /\ \A l \in Client \ {k} : at'[l] = at[l]
    BY <1>1, <1>4 DEF ClientType
  <2>2. ClientType'
    <3>1. at' \in [Client -> Place]
      BY <1>1, <1>4 DEF ClientType, Place
    <3> QED BY <1>1, <1>2, <1>4, <3>1, ReadSome DEF ClientType
  <2>3. \A l \in Client \ {k} : SameClient(l) /\ SameSocket(l)
    BY <1>1, <1>2, <1>4, <2>1, ReadSome DEF SameClient, SameSocket
  <2>4. Progress(k)'
    BY <1>1, <1>2, <1>4, <2>1 DEF Progress
  <2>5. Live(k) => Live(k)'
    BY <1>1, <1>2, <1>4, <2>1 DEF Live
  <2>6. CASE next = "end"
    BY <1>2, <2>1, <2>2, <2>3, <2>4, <2>5, <2>6, OverCarries, ClientStep
  <2>7. CASE next = "sendHeader"
    <3>1. /\ Len(toClient'[k]) = Len(toClient[k]) - 2 /\ toClient[k][1] = "SUCC"
          /\ toClient[k] # <<>> /\ toClient[k] \in Seq({"SUCC", "ESS", "FAIL", "URE"})
      BY <1>1, <1>4, <2>7, ReadSome DEF ClientType
    <3>2. ~Rejected(k)
      <4>1. Response("FAILURE")[1] # "SUCC"
        BY DEF Response
      <4> QED BY <1>1, <3>1, <4>1 DEF Rejected
    <3>3. Written(k) = 2 /\ Taken(k) = 0 /\ ~Over(k)
      BY <1>1 DEF Written, Taken, Over
    <3>4. Written(k)' = 2 /\ Taken(k)' = 1
      <4>1. at'[k] = "sendHeader" /\ sent'[k] = 0 /\ Mark(k, 0)' = Mark(k, 0) /\ Mark(k, 0) = 2
        BY <1>1, <1>2, <2>1, <2>7, StreamParts DEF Mark
      <4> QED BY <4>1, SMTT(60) DEF Written, Taken
    <3>5. \A n : Stream(k, n) => Stream(k, n)'
      BY <1>2, <3>3, <3>4, StreamKept
    <3>6. Len(toClient[k]) \in Nat /\ Len(toClient[k]) # 0
      BY <3>1, SMTT(60)
    <3>7. AllTrue(k)' = AllTrue(k)
      BY <1>2 DEF AllTrue
    <3>8. ~Unread(k)
      <4>1. results[k] = <<>> => AllTrue(k)
        BY SMTT(60) DEF AllTrue
      <4> QED BY <3>3, <3>6, <4>1, SMTT(60) DEF Unread, Answers
    <3>9. ASSUME NEW j \in 0..Len(upload[k]), Answers(k, 1 + j) PROVE Answers(k, 1 + j)'
      <4>1. AllTrue(k) => Len(toClient[k]) = 2 * (1 + j)
        BY <3>3, <3>9, SMTT(60) DEF Answers
      <4>2. AllTrue(k) => Len(toClient'[k]) = 2 * ((1 + j) - 1)
        BY <3>1, <4>1, SMTT(60)
      <4> QED BY <3>4, <3>7, <4>2 DEF Answers
    <3>10. Carried(k)
      BY <1>2, <3>5, <3>9 DEF Carried
    <3> QED BY <1>2, <2>2, <2>3, <2>4, <2>5, <3>2, <3>8, <3>10, ClientStep
  <2> QED BY <1>4, <2>6, <2>7
<1>5. CASE Reads_some(k, TRUE) /\ NextRequest(k) /\ UNCHANGED <<clientClosed, reset>>
  BY <1>4, <1>5 DEF NextRequest
<1>6. CASE Reads_some(k, FALSE) /\ at' = [at EXCEPT ![k] = "end"] /\ UNCHANGED <<clientClosed, reset>>
  BY <1>4, <1>6
<1> QED BY <1>3, <1>5, <1>6 DEF readPreResponse

-----------------------------------------------------------------------------
LEMMA ReadResponseStep ==
  ASSUME SystemInv, NEW k \in Client, readResponse(k)
  PROVE  SystemInv'
<1>1. /\ ClientType /\ Progress(k) /\ at[k] = "readResponse"
      /\ sent[k] \in Nat /\ sent[k] < Len(upload[k]) /\ Len(upload[k]) \in Nat
      /\ results[k] \in Seq(BOOLEAN) /\ Len(results[k]) = sent[k]
  BY StreamParts DEF SystemInv, ClientType, readResponse, Progress
<1>2. UNCHANGED <<vars, upload, uuid, backlog, peer, toServer, serverClosed>>
  BY DEF readResponse
<1>3. CASE ReadThrows(k) /\ Close(k) /\ UNCHANGED <<sent, results, toClient>>
  BY <1>1, <1>2, <1>3, CloseStep
<1>4. ASSUME NEW ok \in BOOLEAN, Reads_some(k, ok), Return(k, ok), UNCHANGED <<clientClosed, reset>>
      PROVE  SystemInv'
  <2> DEFINE R == Append(results[k], ok)
  <2>1. /\ at'[k] \in {"sendHeader", "end"}
        /\ at'[k] = "sendHeader" => sent[k] + 1 < Len(upload[k])
        /\ sent'[k] = sent[k] + 1 /\ results'[k] = R
    BY <1>1, <1>4 DEF ClientType, Return
  <2>2. /\ R \in Seq(BOOLEAN) /\ Len(R) = sent[k] + 1 /\ R[sent[k] + 1] = ok
        /\ DOMAIN R = 1..(sent[k] + 1) /\ DOMAIN results[k] = 1..sent[k]
        /\ \A i \in 1..sent[k] : R[i] = results[k][i]
    BY <1>1, <1>4, SMTT(60)
  <2> HIDE DEF R
  <2>3. ClientType'
    <3>1. at' \in [Client -> Place]
      BY <1>1, <1>4 DEF ClientType, Place, Return
    <3>2. sent' \in [Client -> Nat]
      BY <1>1, <1>4, SMTT(60) DEF ClientType, Return
    <3>3. results' \in [Client -> Seq(BOOLEAN)]
      BY <1>1, <1>4, <2>2 DEF ClientType, Return, R
    <3> QED BY <1>1, <1>2, <1>4, <3>1, <3>2, <3>3, ReadSome DEF ClientType
  <2>4. \A l \in Client \ {k} : SameClient(l) /\ SameSocket(l)
    <3>1. \A l \in Client \ {k} : at'[l] = at[l] /\ sent'[l] = sent[l] /\ results'[l] = results[l]
      BY <1>1, <1>4 DEF ClientType, Return
    <3> QED BY <1>1, <1>2, <1>4, <3>1, ReadSome DEF SameClient, SameSocket
  <2>5. Progress(k)'
    <3>1. Len(results'[k]) = sent'[k]
      BY <2>1, <2>2
    <3> QED BY <1>1, <1>2, <1>4, <2>1, <3>1 DEF Progress
  <2>6. Live(k) => Live(k)'
    BY <1>1, <1>2, <1>4, <2>1 DEF Live
  <2>7. ~Rejected(k) /\ ~Over(k) /\ Taken(k) = 1 + sent[k] /\ Written(k) = Mark(k, sent[k] + 1)
    BY <1>1 DEF Rejected, Over, Taken, Written
  <2>8. Len(toClient[k]) \in Nat /\ Len(toClient[k]) # 0
    <3>1. toClient[k] \in Seq({"SUCC", "ESS", "FAIL", "URE"}) /\ toClient[k] # <<>>
      BY <1>1, <1>4, ReadSome DEF ClientType
    <3> QED BY <3>1, SMTT(60)
  <2>9. ~Unread(k)
    <3>1. results[k] = <<>> => AllTrue(k) /\ sent[k] = 0
      BY <1>1, SMTT(60) DEF AllTrue
    <3> QED BY <2>7, <2>8, <3>1, SMTT(60) DEF Unread, Answers
  <2>10. \A n : Stream(k, n) => Stream(k, n)'
    <3>1. Over(k)' \/ Written(k)' = Mark(k, sent[k] + 1)
      <4>1. Mark(k, sent[k] + 1)' = Mark(k, sent[k] + 1)'
        OBVIOUS
      <4>2. at'[k] = "sendHeader" => Written(k)' = Mark(k, sent[k])'
        BY DEF Written
      <4>3. Mark(k, sent[k])' = Mark(k, sent[k] + 1)
        BY <1>2, <2>1 DEF Mark
      <4> QED BY <2>1, <4>2, <4>3 DEF Over
    <3> QED BY <1>2, <2>7, <3>1, StreamKept
  <2>11. AllTrue(k)' <=> AllTrue(k) /\ ok = TRUE
    <3>1. AllTrue(k)' <=> \A i \in 1..(sent[k] + 1) : R[i]
      BY <2>1, <2>2 DEF AllTrue
    <3>2. AllTrue(k) <=> \A i \in 1..sent[k] : results[k][i]
      BY <2>2 DEF AllTrue
    <3>3. 1..(sent[k] + 1) = 1..sent[k] \cup {sent[k] + 1}
      BY <1>1, SMTT(60)
    <3> QED BY <1>4, <2>2, <3>1, <3>2, <3>3
  <2>12. Len(toClient'[k]) = Len(toClient[k]) - 2 \/ ok = FALSE
    BY <1>1, <1>4, ReadSome
  <2>13. ASSUME NEW j \in 0..Len(upload[k]), Answers(k, 1 + j),
                \A i \in DOMAIN results[k] : (\A x \in 1..i : results[k][x]) => i <= j
         PROVE  /\ Answers(k, 1 + j)'
                /\ \A i \in DOMAIN results'[k] : (\A x \in 1..i : results'[k][x]) => i <= j
    <3>1. j \in Nat
      BY <1>1, SMTT(60)
    <3>2. AllTrue(k) => Len(toClient[k]) = 2 * ((1 + j) - (1 + sent[k]))
      <4>1. AllTrue(k) => Len(toClient[k]) = 2 * ((1 + j) - Taken(k))
        BY <2>7, <2>13 DEF Answers
      <4> QED BY <2>7, <4>1
    <3>3. Answers(k, 1 + j)'
      <4>1. SUFFICES ASSUME at'[k] = "sendHeader", AllTrue(k), ok = TRUE
                     PROVE  Len(toClient'[k]) = 2 * ((1 + j) - Taken(k)')
        BY <2>1, <2>11 DEF Answers, Over
      <4>2. Taken(k)' = 1 + sent[k] + 1
        BY <1>1, <2>1, <4>1, SMTT(60) DEF Taken
      <4>3. Len(toClient'[k]) = 2 * ((1 + j) - (1 + sent[k])) - 2
        BY <2>12, <3>2, <4>1
      <4>4. 2 * ((1 + j) - (1 + sent[k])) - 2 = 2 * ((1 + j) - (1 + sent[k] + 1))
        BY <1>1, <3>1, SMTT(60)
      <4> QED BY <4>2, <4>3, <4>4
    <3>4. AllTrue(k) => sent[k] + 1 <= j
      BY <1>1, <2>8, <3>1, <3>2, SMTT(60)
    <3>5. ASSUME NEW i \in 1..(sent[k] + 1), \A x \in 1..i : R[x] PROVE i <= j
      <4>1. CASE i = sent[k] + 1
        <5>1. \A x \in 1..sent[k] : results[k][x]
          BY <1>1, <2>2, <3>5, <4>1, SMTT(60)
        <5>2. AllTrue(k)
          BY <2>2, <5>1 DEF AllTrue
        <5> QED BY <3>4, <4>1, <5>2
      <4>2. CASE i # sent[k] + 1
        <5>1. i \in 1..sent[k] /\ \A x \in 1..i : x \in 1..sent[k]
          BY <1>1, <4>2, SMTT(60)
        <5>2. \A x \in 1..i : results[k][x]
          BY <2>2, <3>5, <5>1
        <5> QED BY <2>2, <2>13, <5>1, <5>2
      <4> QED BY <4>1, <4>2
    <3> QED BY <2>1, <2>2, <3>3, <3>5
  <2>14. Carried(k)
    BY <2>10, <2>13 DEF Carried
  <2> QED BY <1>2, <2>3, <2>4, <2>5, <2>6, <2>7, <2>9, <2>14, ClientStep
<1> QED BY <1>3, <1>4 DEF readResponse

-----------------------------------------------------------------------------
LEMMA ConnectStep ==
  ASSUME SystemInv, NEW k \in Client, connect(k)
  PROVE  SystemInv'
<1>1. /\ ClientType /\ Progress(k) /\ Links /\ at[k] = "connect" /\ ~Live(k)
      /\ backlog \in Seq(Client)
  BY DEF SystemInv, ClientType, connect, Live
<1>2. UNCHANGED <<vars, upload, uuid, sent, results, peer, toServer, toClient, serverClosed, reset>>
  BY DEF connect
<1>3. CASE /\ ~up
           /\ at' = [at EXCEPT ![k] = "done"]
           /\ clientClosed' = [clientClosed EXCEPT ![k] = TRUE]
           /\ UNCHANGED backlog
  <2>1. at'[k] = "done" /\ clientClosed'[k] = TRUE
    BY <1>1, <1>3 DEF ClientType
  <2>2. ClientType'
    <3>1. at' \in [Client -> Place] /\ clientClosed' \in [Client -> BOOLEAN]
      BY <1>1, <1>3 DEF ClientType, Place
    <3> QED BY <1>1, <1>2, <1>3, <3>1 DEF ClientType
  <2>3. \A l \in Client \ {k} : SameClient(l) /\ SameSocket(l)
    BY <1>1, <1>2, <1>3 DEF ClientType, SameClient, SameSocket
  <2>4. Progress(k)'
    BY <1>1, <1>2, <2>1 DEF Progress
  <2> QED BY <1>1, <1>2, <1>3, <2>2, <2>3, <2>4, ClientStep
<1>4. CASE /\ up
           /\ backlog' = Append(backlog, k)
           /\ at' = [at EXCEPT ![k] = "getHorcruxes"]
           /\ UNCHANGED clientClosed
  <2>1. at'[k] = "getHorcruxes"
    BY <1>1, <1>4 DEF ClientType
  <2>2. ClientType'
    <3>1. at' \in [Client -> Place] /\ backlog' \in Seq(Client)
      BY <1>1, <1>4, SMTT(60) DEF ClientType, Place
    <3> QED BY <1>1, <1>2, <1>4, <3>1 DEF ClientType
  <2>3. \A l \in Client \ {k} : SameClient(l) /\ SameSocket(l)
    BY <1>1, <1>2, <1>4 DEF ClientType, SameClient, SameSocket
  <2>4. Progress(k)'
    BY <1>1, <1>2, <1>4, <2>1 DEF Progress
  <2>5. \A l \in Client : Progress(l)'
    BY <2>3, <2>4, ClientFrame DEF SystemInv
  <2>6. Live(k)'
    BY <1>1, <1>2, <2>1 DEF Progress, Live
  <2>7. Unread(k)'
    <3>1. toServer'[k] = <<>> /\ toClient'[k] = <<>> /\ results'[k] = <<>> /\ Full(k)' = Full(k)
      <4>1. results[k] = <<>>
        BY <1>1, SMTT(60) DEF Progress, ClientType
      <4> QED BY <1>1, <1>2, <4>1 DEF Progress, Full
    <3>2. Written(k)' = 0 /\ Taken(k)' = 0
      BY <2>1 DEF Written, Taken
    <3>3. Full(k) \in Seq(Cell) /\ Len(Full(k)) \in Nat
      BY <1>1, StreamParts
    <3>4. SubSeq(Full(k), 1, 0) = <<>>
      BY <3>3, SMTT(60)
    <3>5. Stream(k, 0)'
      BY <3>1, <3>2, <3>3, <3>4, SMTT(60) DEF Stream
    <3>6. Answers(k, 0)'
      BY <3>1, <3>2, SMTT(60) DEF Answers
    <3> QED BY <3>1, <3>5, <3>6 DEF Unread
  <2>8. /\ DOMAIN backlog' = 1..(Len(backlog) + 1) /\ DOMAIN backlog = 1..Len(backlog)
        /\ Len(backlog) \in Nat
        /\ backlog'[Len(backlog) + 1] = k /\ \A i \in 1..Len(backlog) : backlog'[i] = backlog[i]
    BY <1>1, <1>4, SMTT(60)
  <2>9. /\ \A c \in Connection : peer[c] # k /\ peer[c] \in Client \cup {None}
        /\ \A i \in 1..Len(backlog) : backlog[i] # k /\ backlog[i] \in Client
    <3>1. \A c \in Connection : peer[c] # k
      <4>1. k # None
        BY SystemAssumption
      <4> QED BY <1>1, <4>1 DEF Links
    <3>2. \A i \in 1..Len(backlog) : backlog[i] # k
      BY <1>1, <2>8 DEF Links
    <3>3. \A i \in 1..Len(backlog) : backlog[i] \in Client
      BY <1>1, SMTT(60)
    <3> QED BY <1>1, <3>1, <3>2, <3>3 DEF ClientType
  <2>10. /\ \A l \in Client \ {k} : Live(l) => Live(l)'
         /\ \A l \in Client \ {k} : Unread(l) => Unread(l)'
    BY <2>3, ClientFrame
  <2>11. \A i \in DOMAIN backlog' : \/ i \in DOMAIN backlog /\ backlog'[i] = backlog[i]
                                    \/ i = Len(backlog) + 1 /\ i \notin DOMAIN backlog /\ backlog'[i] = k
    <3>1. \A i \in 1..(Len(backlog) + 1) :
            i \in 1..Len(backlog) \/ (i = Len(backlog) + 1 /\ i \notin 1..Len(backlog))
      BY <2>8, SMTT(60)
    <3> QED BY <2>8, <3>1
  <2>12. UNCHANGED peer /\ UNCHANGED pending
    <3>1. UNCHANGED vars /\ UNCHANGED peer
      BY <1>2
    <3> QED BY <3>1 DEF vars, connVars
  <2>13. Links'
    <3>1. \A c \in Connection : peer'[c] # None => Live(peer[c])'
      <4>1. SUFFICES ASSUME NEW c \in Connection, NEW l, l = peer'[c], l # None PROVE Live(l)'
        OBVIOUS
      <4>2. l \in Client \ {k} /\ Live(l)
        BY <1>1, <2>9, <2>12, <4>1 DEF Links
      <4> QED BY <2>10, <4>2
    <3>2. \A i \in DOMAIN backlog' : Live(backlog[i])'
      <4>1. SUFFICES ASSUME NEW i \in DOMAIN backlog', NEW l, l = backlog'[i] PROVE Live(l)'
        OBVIOUS
      <4>2. CASE l = k
        BY <2>6, <4>2
      <4>3. CASE l # k
        <5>1. l \in Client \ {k} /\ Live(l)
          BY <1>1, <2>8, <2>9, <2>11, <4>1, <4>3 DEF Links
        <5> QED BY <2>10, <5>1
      <4> QED BY <4>2, <4>3
    <3>3. \A i, j \in DOMAIN backlog' : backlog'[i] = backlog'[j] => i = j
      BY <1>1, <2>8, <2>9, <2>11, SMTT(60) DEF Links
    <3>4. \A i \in DOMAIN backlog', c \in Connection : peer[c] # backlog'[i]
      BY <1>1, <2>8, <2>9, <2>11, SMTT(60) DEF Links
    <3> QED BY <1>1, <2>12, <3>1, <3>2, <3>3, <3>4 DEF Links
  <2>14. ASSUME NEW c \in Connection, peer[c] # None PROVE Session(c, peer[c])'
    <3>1. PICK l : l = peer[c]
      OBVIOUS
    <3>2. l \in Client \ {k} /\ Session(c, l)
      BY <2>9, <2>14, <3>1 DEF SystemInv
    <3>3. SameServer(c)
      BY <1>2 DEF vars, connVars, SameServer
    <3>4. SameClient(l) /\ SameSocket(l)
      BY <2>3, <3>2
    <3>5. Session(c, l)'
      BY <3>2, <3>3, <3>4, SessionKept
    <3>6. l = peer'[c]
      BY <2>12, <3>1
    <3> QED BY <3>5, <3>6
  <2>15. \A i \in DOMAIN backlog' : Unread(backlog[i])'
    <3>1. SUFFICES ASSUME NEW i \in DOMAIN backlog', NEW l, l = backlog'[i] PROVE Unread(l)'
      OBVIOUS
    <3>2. CASE l = k
      BY <2>7, <3>2
    <3>3. CASE l # k
      <4>1. l \in Client \ {k} /\ Unread(l)
        BY <2>8, <2>9, <2>11, <3>1, <3>3 DEF SystemInv
      <4> QED BY <2>10, <4>1
    <3> QED BY <3>2, <3>3
  <2> QED BY <2>2, <2>5, <2>12, <2>13, <2>14, <2>15 DEF SystemInv
<1> QED BY <1>3, <1>4 DEF connect

LEMMA ClientSteps ==
  ASSUME SystemInv, NEW k \in Client, ClientNext(k) \/ ClientCrash(k)
  PROVE  SystemInv'
BY ConnectStep, GetHorcruxesStep, SendPreRequestStep, ReadPreResponseStep, SendHeaderStep,
   SendContentStep, ReadResponseStep, EndStep DEF ClientNext

\* Every step keeps the sessions (that a process starts without connections is the server's).
LEMMA SystemStepInv ==
  ASSUME TypeOK, SystemInv, [SystemNext]_systemVars,
         ~up => \A c \in Connection : pending[c] = "none"
  PROVE  SystemInv'
<1>1. ASSUME NEW k \in Client, ClientNext(k) \/ ClientCrash(k) PROVE SystemInv'
  BY <1>1, ClientSteps
<1>2. ASSUME NEW c \in Connection, Receive(c) PROVE SystemInv'
  BY <1>2, ReadPreRequestHeaderStep, ReadRequestHeaderStep, ReadRequestContentStep DEF Receive
<1>3. ASSUME NEW c \in Connection, Accept(c) \/ Lose(c) \/ Handle(c) \/ DiskFails(c) PROVE SystemInv'
  BY <1>3, AcceptStep, HandleStep
<1>4. ASSUME NEW c \in Connection, AcceptFails(c) \/ ServerRestart(c) PROVE SystemInv'
  <2>1. ServerRestart(c) => pending[c] = "none"
    BY DEF ServerRestart, Restart
  <2> QED BY <1>4, <2>1, AcceptFailsStep
<1>5. CASE UNCHANGED systemVars
  <2>1. UNCHANGED <<clientVars, netVars>> /\ UNCHANGED vars
    BY <1>5 DEF systemVars
  <2>2. \A d \in Connection : SameServer(d)
    BY <2>1 DEF vars, connVars, SameServer
  <2> QED BY <2>1, <2>2, IdleStep
<1> QED BY <1>1, <1>2, <1>3, <1>4, <1>5, CrashStep DEF SystemNext, ServerNext, FaultNext

-----------------------------------------------------------------------------
(***************************************************************************)
(* A step of the system is a step of the server, or one it does not see.   *)
(***************************************************************************)
LEMMA ServerStep ==
  ASSUME Inv, SystemInv, [SystemNext]_systemVars
  PROVE  [Next]_vars
<1>1. ASSUME NEW k \in Client, ClientNext(k) \/ ClientCrash(k) PROVE UNCHANGED vars
  BY <1>1 DEF ClientNext, ClientCrash, connect, getHorcruxes, sendPreRequest, readPreResponse,
     sendHeader, sendContent, SendPart, readResponse, end
<1>2. ASSUME NEW c \in Connection, Receive(c) PROVE Next
  <2>1. TypeOK
    BY DEF Inv
  <2>2. ASSUME NEW h \in deserializeHeader(First(toServer[peer[c]], 2), PreRequestHeader),
               ReadPreRequestHeader(c, h), Arrived(c, 2), Socket(c, 2)
        PROVE  Peer(c)
    BY <2>1, <2>2, ReadPreRequestHeaderStep DEF Peer
  <2>3. ASSUME NEW h \in deserializeHeader(First(toServer[peer[c]], 2), RequestHeader),
               ReadRequestHeader(c, h), Arrived(c, 2), Socket(c, 2)
        PROVE  Peer(c)
    BY <2>1, <2>3, ReadRequestHeaderStep DEF Peer
  <2>4. ASSUME ReadRequestContent(c, First(toServer[peer[c]], requestHeader[c].mContentSize)),
               Arrived(c, requestHeader[c].mContentSize), Socket(c, requestHeader[c].mContentSize)
        PROVE  Peer(c)
    BY <2>1, <2>4, ReadRequestContentStep DEF Peer
  <2> QED BY <1>2, <2>2, <2>3, <2>4 DEF Receive, Next, FaultFreeNext
<1>3. ASSUME NEW c \in Connection, Accept(c) \/ Lose(c) \/ Handle(c) PROVE Next
  BY <1>3 DEF Accept, Lose, Handle, Peer, Next, FaultFreeNext
<1>4. ASSUME NEW c \in Connection, AcceptFails(c) \/ DiskFails(c) \/ ServerRestart(c) PROVE Next
  BY <1>4 DEF AcceptFails, DiskFails, ServerRestart, Peer, Next, FaultFreeNext, Fault
<1>5. ServerCrash => Next
  BY DEF ServerCrash, Next, Fault
<1>6. UNCHANGED systemVars => UNCHANGED vars
  BY DEF systemVars
<1> QED BY <1>1, <1>2, <1>3, <1>4, <1>5, <1>6 DEF SystemNext, ServerNext, FaultNext

LEMMA BothInv == SystemSpec => [](Inv /\ SystemInv)
<1>1. SystemInit => Inv /\ SystemInv
  BY InitInv, SystemInitInv DEF SystemInit
<1>2. ASSUME Inv, SystemInv, [SystemNext]_systemVars PROVE Inv' /\ SystemInv'
  <2>1. Inv'
    BY <1>2, ServerStep, NextInv
  <2>2. TypeOK /\ (~up => \A c \in Connection : pending[c] = "none")
    BY <1>2 DEF Inv, Armed
  <2>3. SystemInv'
    BY <1>2, <2>2, SystemStepInv
  <2> QED BY <2>1, <2>3
<1>3. (Inv /\ SystemInv) /\ [SystemNext]_systemVars => (Inv /\ SystemInv)'
  BY <1>2
<1> QED BY <1>1, <1>3, PTL DEF SystemSpec

(***************************************************************************)
(* With the clients of client.cpp at the other end of its sockets the      *)
(* server does what HorcruxServer lets it do with arbitrary peers.  Every  *)
(* property proved of the server's specification is therefore one of the   *)
(* system.                                                                 *)
(***************************************************************************)
THEOREM SystemImplementsServer == SystemSpec => Spec
<1>1. SystemInit => Init
  BY DEF SystemInit
<1>2. Inv /\ SystemInv /\ [SystemNext]_systemVars => [Next]_vars
  BY ServerStep
<1> QED BY <1>1, <1>2, BothInv, PTL DEF SystemSpec, Spec

(***************************************************************************)
(* With a sound disk the files of a UUID have no gap, whatever the clients *)
(* and the processes do, a crash of saveHorcruxes half way included.       *)
(***************************************************************************)
THEOREM SystemNoGap == SystemSpec => []FilesHaveNoGap
BY SystemImplementsServer, NoGap, PTL

-----------------------------------------------------------------------------
\* What a client has to send is chosen once.
LEMMA SameUploads ==
  ASSUME [SystemNext]_systemVars
  PROVE  upload' = upload /\ uuid' = uuid
<1>1. ASSUME NEW k \in Client, ClientNext(k) \/ ClientCrash(k) PROVE upload' = upload /\ uuid' = uuid
  BY <1>1 DEF ClientNext, ClientCrash, connect, getHorcruxes, sendPreRequest, readPreResponse,
     sendHeader, sendContent, SendPart, readResponse, end
<1>2. ASSUME NEW c \in Connection, ServerNext(c) \/ AcceptFails(c) \/ DiskFails(c) \/ ServerRestart(c)
      PROVE  UNCHANGED clientVars
  BY <1>2 DEF ServerNext, Accept, Receive, Lose, Handle, AcceptFails, DiskFails, ServerRestart,
     Socket
<1>3. ServerCrash \/ UNCHANGED systemVars => UNCHANGED clientVars
  BY DEF ServerCrash, systemVars
<1>4. UNCHANGED clientVars => upload' = upload /\ uuid' = uuid
  BY DEF clientVars
<1> QED BY <1>1, <1>2, <1>3, <1>4 DEF SystemNext, FaultNext

\* What the saver has in hand is what its client has to send.
LEMMA SavesUpload ==
  ASSUME Inv, SystemInv, NEW c \in Connection, pending[c] \in Saves
  PROVE  \E k \in Client :
           /\ preRequestHeader[c].mUuid = uuid[k]
           /\ counter[c] \in Nat /\ counter[c] < Len(upload[k])
           /\ horcruxes[c][counter[c]] = upload[k][counter[c] + 1]
           /\ upload[k][counter[c] + 1] \in Seq(Byte)
<1>1. PICK k \in Client, j \in Nat : /\ k = peer[c] /\ k # None
                                     /\ j \in 0..Len(upload[k])
                                     /\ InTransfer(c, k, j)
  BY Served DEF Saves
<1>2. /\ preRequestHeader[c] = preHeader(uuid[k], upload[k])
      /\ horcruxes[c] = [i \in 0..(Len(upload[k]) - 1) |-> IF i < j THEN upload[k][i + 1] ELSE None]
  BY <1>1 DEF InTransfer
<1>3. Len(upload[k]) \in Nat /\ counter[c] \in 0..(Len(upload[k]) - 1) /\ horcruxes[c][counter[c]] \in Seq(Byte)
  BY <1>1, <1>2, SavePath, StreamParts DEF SystemInv
<1>4. horcruxes[c][counter[c]] # None
  BY <1>3, ServerAssumption
<1>5. horcruxes[c][counter[c]] = upload[k][counter[c] + 1]
  BY <1>2, <1>3, <1>4
<1>6. preRequestHeader[c].mUuid = uuid[k]
  BY <1>2, SMTT(60) DEF preHeader
<1>7. counter[c] \in Nat /\ counter[c] < Len(upload[k])
  BY <1>3, SMTT(60)
<1> QED BY <1>3, <1>5, <1>6, <1>7

\* A file that holds the first n bytes of what client k has to send at its index.
LEMMA SentFile ==
  ASSUME Inv, SystemInv, NEW c \in Connection, pending[c] \in Saves,
         upload' = upload, uuid' = uuid,
         NEW n \in 0..Len(horcruxes[c][counter[c]]),
         out' = [out EXCEPT ![horcruxPath(c)] = SubSeq(horcruxes[c][counter[c]], 1, n)],
         NEW p \in Path, p = horcruxPath(c)
  PROVE  \E k \in Client :
           /\ uuid'[k] = p[1]
           /\ p[2] < Len(upload'[k])
           /\ Len(out'[p]) <= Len(upload'[k][p[2] + 1])
           /\ out'[p] = First(upload'[k][p[2] + 1], Len(out'[p]))
<1>1. PICK k \in Client : /\ preRequestHeader[c].mUuid = uuid[k]
                          /\ counter[c] \in Nat /\ counter[c] < Len(upload[k])
                          /\ horcruxes[c][counter[c]] = upload[k][counter[c] + 1]
                          /\ upload[k][counter[c] + 1] \in Seq(Byte)
  BY SavesUpload
<1>2. PICK x : x = upload[k][counter[c] + 1]
  OBVIOUS
<1>3. x \in Seq(Byte) /\ n \in 0..Len(x) /\ horcruxes[c][counter[c]] = x
  BY <1>1, <1>2
<1>4. p[1] = uuid[k] /\ p[2] = counter[c]
  BY <1>1 DEF horcruxPath
<1>5. out'[p] = SubSeq(x, 1, n)
  BY <1>3 DEF Inv, TypeOK
<1>6. Len(out'[p]) = n /\ n <= Len(x)
  BY <1>3, <1>5, SMTT(60)
<1>7. out'[p] = First(x, Len(out'[p]))
  BY <1>5, <1>6 DEF First
<1> QED BY <1>1, <1>2, <1>4, <1>6, <1>7

LEMMA SentStep ==
  ASSUME Inv, SystemInv, FilesAreSent, [SystemNext]_systemVars
  PROVE  FilesAreSent'
<1>1. upload' = upload /\ uuid' = uuid
  BY SameUploads
<1>2. UNCHANGED out \/ \E c \in Connection : Creates(c) \/ Fills(c)
  BY ServerStep, OutStep
<1>3. CASE UNCHANGED out
  BY <1>1, <1>3 DEF FilesAreSent
<1>4. ASSUME NEW c \in Connection, pending[c] \in Saves, NEW n \in 0..Len(horcruxes[c][counter[c]]),
             out' = [out EXCEPT ![horcruxPath(c)] = SubSeq(horcruxes[c][counter[c]], 1, n)]
      PROVE  FilesAreSent'
  <2> SUFFICES ASSUME NEW p \in Path, out'[p] # None
               PROVE  \E k \in Client :
                        /\ uuid'[k] = p[1]
                        /\ p[2] < Len(upload'[k])
                        /\ Len(out'[p]) <= Len(upload'[k][p[2] + 1])
                        /\ out'[p] = First(upload'[k][p[2] + 1], Len(out'[p]))
    BY DEF FilesAreSent
  <2>1. CASE p = horcruxPath(c)
    BY <1>1, <1>4, <2>1, SentFile
  <2>2. CASE p # horcruxPath(c)
    <3>1. out'[p] = out[p]
      BY <1>4, <2>2 DEF Inv, TypeOK
    <3> QED BY <1>1, <3>1 DEF FilesAreSent
  <2> QED BY <2>1, <2>2
<1>5. ASSUME NEW c \in Connection, Creates(c) PROVE FilesAreSent'
  <2>1. pending[c] \in Saves
    BY <1>5 DEF Creates, Saves
  <2>2. PICK x \in Seq(Byte) : x = horcruxes[c][counter[c]]
    BY <2>1, SavePath
  <2>3. SubSeq(x, 1, 0) = <<>> /\ 0 \in 0..Len(x)
    BY <2>2, SMTT(60)
  <2>4. out' = [out EXCEPT ![horcruxPath(c)] = SubSeq(x, 1, 0)]
    BY <1>5, <2>3 DEF Creates
  <2> QED BY <1>4, <2>1, <2>2, <2>3, <2>4
<1>6. ASSUME NEW c \in Connection, Fills(c) PROVE FilesAreSent'
  <2>1. pending[c] \in Saves
    BY <1>6 DEF Fills, Saves
  <2>2. PICK n \in 0..Len(horcruxes[c][counter[c]]) :
          out' = [out EXCEPT ![horcruxPath(c)] = SubSeq(horcruxes[c][counter[c]], 1, n)]
    BY <1>6 DEF Fills
  <2> QED BY <1>4, <2>1, <2>2
<1> QED BY <1>2, <1>3, <1>5, <1>6

(***************************************************************************)
(* Every file on the server's disk holds what one client read from its     *)
(* input for that UUID and that place, or the beginning of it: nothing the *)
(* sockets, the connections and the other clients do mixes or changes the  *)
(* Horcruxes on their way from getHorcruxes to saveFile.                   *)
(***************************************************************************)
THEOREM SystemStoresWhatIsSent == SystemSpec => []FilesAreSent
<1>1. SystemInit => FilesAreSent
  BY DEF SystemInit, Init, FilesAreSent
<1>2. Inv /\ SystemInv /\ FilesAreSent /\ [SystemNext]_systemVars => FilesAreSent'
  BY SentStep
<1> QED BY <1>1, <1>2, BothInv, PTL DEF SystemSpec

(***************************************************************************)
(* As long as no request has failed, the client takes a SUCCESS for        *)
(* request i only when the server has put Horcrux i in its vector.         *)
(***************************************************************************)
THEOREM SystemAcknowledges == SystemSpec => []AcknowledgedIsHeld
<1>1. SystemInv => AcknowledgedIsHeld
  <2> SUFFICES ASSUME SystemInv, NEW c \in Connection, peer[c] # None,
                      NEW i \in DOMAIN results[peer[c]], \A x \in 1..i : results[peer[c]][x]
               PROVE  /\ i - 1 \in DOMAIN horcruxes[c]
                      /\ horcruxes[c][i - 1] = upload[peer[c]][i]
    BY DEF AcknowledgedIsHeld
  <2>1. PICK k \in Client : k = peer[c]
    BY DEF SystemInv, ClientType
  <2>2. /\ Session(c, k) /\ Progress(k)
        /\ results[k] \in Seq(BOOLEAN) /\ Len(results[k]) = sent[k]
    BY <2>1 DEF SystemInv, ClientType, Progress
  <2>3. results[k] # <<>> /\ sent[k] # 0 /\ i \in Nat /\ i >= 1
    BY <2>1, <2>2, SMTT(60)
  <2>4. pending[c] \notin {"ReadPreRequestHeader", "respondThenStop"}
    BY <2>2, <2>3 DEF Session, Unread, Rejected
  <2>5. PICK j \in 0..Len(upload[k]) : InTransfer(c, k, j)
    BY <2>2, <2>4 DEF Session
  <2>6. i <= j
    BY <2>1, <2>5 DEF InTransfer
  <2>7. Len(upload[k]) \in Nat
    BY <2>1, StreamParts DEF SystemInv
  <2>8. i - 1 \in 0..(Len(upload[k]) - 1) /\ i - 1 < j /\ (i - 1) + 1 = i
    BY <2>3, <2>5, <2>6, <2>7, SMTT(60)
  <2>9. horcruxes[c] = [x \in 0..(Len(upload[k]) - 1) |-> IF x < j THEN upload[k][x + 1] ELSE None]
    BY <2>5 DEF InTransfer
  <2> QED BY <2>1, <2>8, <2>9
<1> QED BY <1>1, BothInv, PTL
=============================================================================
