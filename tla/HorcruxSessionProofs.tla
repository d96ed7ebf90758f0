------------------------- MODULE HorcruxSessionProofs -------------------------
(***************************************************************************)
(* What holds between a client and the connection that serves it at every  *)
(* moment of a session, for any number of clients and connections, any     *)
(* uploads whose sizes fit the fields of the headers, any short reads,     *)
(* crashes and disk faults.  HorcruxSystemProofs draws the conclusions.    *)
(***************************************************************************)
EXTENDS HorcruxSystem, SequenceFacts

\* Most steps here need no arithmetic: Zenon proves them, and SMT those that say so.
USE ZenonT(60)

(***************************************************************************)
(* What client k writes if nothing fails: the pre-request header and, for  *)
(* each request in turn, its header and its content.  wire[n] is all of it *)
(* up to request n.                                                        *)
(***************************************************************************)
preHeader(id, u) == [mUuid |-> id, mTotalSize |-> totalSize(u), mNumHorcruxes |-> Len(u)]
header(id, u, n) == [mUuid |-> id, mIndex |-> n, mContentSize |-> Len(u[n + 1]) % UintMod]

Wire(id, u) ==
  LET wire[n \in 0..Len(u)] ==
        IF n = 0 THEN serializeHeader(preHeader(id, u))
        ELSE wire[n - 1] \o (serializeHeader(header(id, u, n - 1)) \o u[n])
  IN wire

Full(k) == Wire(uuid[k], upload[k])[Len(upload[k])]
Mark(k, n) == Len(Wire(uuid[k], upload[k])[n])

\* How much of it k has written, and how many responses it has taken, where it goes on.
Written(k) ==
  CASE at[k] \in {"connect", "getHorcruxes", "sendPreRequest"} -> 0
    [] at[k] = "readPreResponse" -> 2
    [] at[k] = "sendHeader" -> Mark(k, sent[k])
    [] at[k] = "sendContent" -> Mark(k, sent[k]) + 2
    [] at[k] = "readResponse" -> Mark(k, sent[k] + 1)
    [] OTHER -> 0

Taken(k) ==
  IF at[k] \in {"connect", "getHorcruxes", "sendPreRequest", "readPreResponse"} THEN 0 ELSE 1 + sent[k]

Over(k) == at[k] \in {"end", "done"}
AllTrue(k) == \A i \in DOMAIN results[k] : results[k][i]

\* The server has read the first n cells of what k writes; the next ones are on their way.
Stream(k, n) ==
  /\ n + Len(toServer[k]) <= Len(Full(k))
  /\ toServer[k] = SubSeq(Full(k), n + 1, n + Len(toServer[k]))
  /\ ~Over(k) => n + Len(toServer[k]) = Written(k)

\* The server has answered m times, and those answers that k has not taken are on their way.
Answers(k, m) == ~Over(k) /\ AllTrue(k) => Len(toClient[k]) = 2 * (m - Taken(k))

(***************************************************************************)
(* A session: connection c serves client peer[c] and has taken in its      *)
(* first j Horcruxes.                                                      *)
(***************************************************************************)
Unread(k) == Stream(k, 0) /\ Answers(k, 0) /\ results[k] = <<>>

Rejected(k) ==
  /\ sent[k] = 0
  /\ at[k] \in {"readPreResponse", "end", "done"}
  /\ at[k] = "readPreResponse" => toClient[k] = Response("FAILURE")

InTransfer(c, k, j) ==
  /\ preRequestHeader[c] = preHeader(uuid[k], upload[k])
  /\ horcruxes[c] = [i \in 0..(Len(upload[k]) - 1) |-> IF i < j THEN upload[k][i + 1] ELSE None]
  /\ pending[c] = "ReadRequestContent" => /\ j < Len(upload[k])
                                          /\ requestHeader[c] = header(uuid[k], upload[k], j)
                                          /\ Stream(k, Mark(k, j) + 2)
  /\ pending[c] # "ReadRequestContent" => Stream(k, Mark(k, j))
  /\ Answers(k, 1 + j)
  /\ \A i \in DOMAIN results[k] : (\A x \in 1..i : results[k][x]) => i <= j

Session(c, k) ==
  /\ pending[c] = "ReadPreRequestHeader" => Unread(k)
  /\ pending[c] = "respondThenStop" => Rejected(k)
  /\ pending[c] \notin {"ReadPreRequestHeader", "respondThenStop"} =>
       \E j \in 0..Len(upload[k]) : InTransfer(c, k, j)

-----------------------------------------------------------------------------
Cell == Byte \cup [of : PreRequestHeader \cup RequestHeader, half : {1, 2}]
Place == {"connect", "getHorcruxes", "sendPreRequest", "readPreResponse", "sendHeader",
          "sendContent", "readResponse", "end", "done"}

ClientType ==
  /\ at \in [Client -> Place]
  /\ upload \in [Client -> Upload]
  /\ uuid \in [Client -> Uuid]
  /\ sent \in [Client -> Nat]
  /\ results \in [Client -> Seq(BOOLEAN)]
  /\ backlog \in Seq(Client)
  /\ peer \in [Connection -> Client \cup {None}]
  /\ toServer \in [Client -> Seq(Cell)]
  /\ toClient \in [Client -> Seq({"SUCC", "ESS", "FAIL", "URE"})]
  /\ clientClosed \in [Client -> BOOLEAN]
  /\ serverClosed \in [Client -> BOOLEAN]
  /\ reset \in [Client -> BOOLEAN]

\* The loop of main over the requests.
Progress(k) ==
  /\ Len(results[k]) = sent[k]
  /\ at[k] \in {"sendHeader", "sendContent", "readResponse"} => sent[k] < Len(upload[k])
  /\ at[k] \in {"connect", "getHorcruxes", "sendPreRequest", "readPreResponse"} => sent[k] = 0
  /\ clientClosed[k] <=> at[k] = "done"
  /\ at[k] = "connect" => toServer[k] = <<>> /\ toClient[k] = <<>> /\ ~reset[k] /\ ~serverClosed[k]

\* A client is served by one connection, or waits in the backlog once; and a
\* connection has a client from being accepted to being destroyed.
Live(k) == at[k] # "connect" /\ ~serverClosed[k] /\ (reset[k] => at[k] = "done")

Links ==
  /\ \A c \in Connection : peer[c] # None <=> pending[c] \notin {"none", "accept"}
  /\ \A c, d \in Connection : peer[c] # None /\ peer[c] = peer[d] => c = d
  /\ \A i, j \in DOMAIN backlog : backlog[i] = backlog[j] => i = j
  /\ \A i \in DOMAIN backlog, c \in Connection : peer[c] # backlog[i]
  /\ \A c \in Connection : peer[c] # None => Live(peer[c])
  /\ \A i \in DOMAIN backlog : Live(backlog[i])

SystemInv ==
  /\ ClientType
  /\ \A k \in Client : Progress(k)
  /\ Links
  /\ \A c \in Connection : peer[c] # None => Session(c, peer[c])
  /\ \A i \in DOMAIN backlog : Unread(backlog[i])

-----------------------------------------------------------------------------
(***************************************************************************)
(* The headers the clients make are among those the server can read.       *)
(***************************************************************************)
LEMMA SumExists ==
  ASSUME NEW N \in Nat, NEW u
  PROVE  \E f : f = [n \in 0..N |-> IF n = 0 THEN 0 ELSE (f[n - 1] + Len(u[n])) % UintMod]
<1> DEFINE Def(f, m) == f = [n \in 0..m |-> IF n = 0 THEN 0 ELSE (f[n - 1] + Len(u[n])) % UintMod]
           T == {m \in Nat : \E f : Def(f, m)}
<1>1. 0 \in T
  <2> DEFINE f == [n \in 0..0 |-> 0]
  <2>1. Def(f, 0)
    BY SMTT(60)
  <2> QED BY <2>1
<1>2. ASSUME NEW m \in Nat, m \in T PROVE m + 1 \in T
  <2>1. PICK f : Def(f, m)
    BY <1>2
  <2> DEFINE last == (f[m] + Len(u[m + 1])) % UintMod
             g == [n \in 0..(m + 1) |-> IF n = m + 1 THEN last ELSE f[n]]
  <2>2. ASSUME NEW n \in 0..(m + 1)
        PROVE  g[n] = IF n = 0 THEN 0 ELSE (g[n - 1] + Len(u[n])) % UintMod
    <3>1. CASE n = m + 1
      <4>1. n # 0 /\ n - 1 = m /\ m \in 0..(m + 1) /\ m # m + 1
        BY <3>1, SMTT(60)
      <4> HIDE DEF last
      <4>2. g[n] = last /\ g[n - 1] = f[m]
        BY <3>1, <4>1
      <4> QED BY <3>1, <4>1, <4>2 DEF last
    <3>2. CASE n # m + 1
      <4>1. n \in 0..m /\ g[n] = f[n]
        BY <3>2, SMTT(60)
      <4>2. n # 0 => n - 1 \in 0..(m + 1) /\ n - 1 # m + 1 /\ g[n - 1] = f[n - 1]
        BY <4>1, SMTT(60)
      <4>3. f[n] = IF n = 0 THEN 0 ELSE (f[n - 1] + Len(u[n])) % UintMod
        BY <2>1, <4>1
      <4> HIDE DEF g
      <4> QED BY <4>1, <4>2, <4>3
    <3> QED BY <3>1, <3>2
  <2>3. g = [n \in 0..(m + 1) |-> g[n]]
    OBVIOUS
  <2> HIDE DEF g
  <2>4. Def(g, m + 1)
    BY <2>2, <2>3
  <2>5. \E h : Def(h, m + 1)
    BY <2>4
  <2> QED BY <2>5, SMTT(60)
<1> HIDE DEF T
<1>3. Nat \subseteq T
  BY <1>1, <1>2, SetInduction
<1> QED BY <1>3 DEF T

LEMMA TotalFits ==
  ASSUME NEW u \in Upload
  PROVE  totalSize(u) \in 0..(UintMod - 1)
<1> DEFINE N == Len(u)
           Def(f) == f = [n \in 0..N |-> IF n = 0 THEN 0 ELSE (f[n - 1] + Len(u[n])) % UintMod]
           sum == CHOOSE f : Def(f)
           T == {m \in Nat : m <= N => sum[m] \in 0..(UintMod - 1)}
<1>1. N \in Nat /\ \A n \in 1..N : Len(u[n]) \in Nat
  BY SystemAssumption, SMTT(60)
<1>2. UintMod \in Nat /\ UintMod > 0 /\ 0 \in 0..(UintMod - 1)
  BY SystemAssumption, SMTT(60)
<1>3. \A x \in Nat : x % UintMod \in 0..(UintMod - 1)
  BY <1>2, SMTT(60)
<1>4. totalSize(u) = sum[N]
  BY DEF totalSize
<1>5. Def(sum)
  <2>1. \E f : Def(f)
    BY <1>1, SumExists
  <2> HIDE DEF Def
  <2> QED BY <2>1
<1> HIDE DEF N, sum
<1>6. \A n \in 0..N : sum[n] = IF n = 0 THEN 0 ELSE (sum[n - 1] + Len(u[n])) % UintMod
  BY <1>5
<1>7. 0 \in T
  BY <1>1, <1>2, <1>6, SMTT(60)
<1>8. ASSUME NEW m \in Nat, m \in T PROVE m + 1 \in T
  <2> SUFFICES ASSUME m + 1 <= N PROVE sum[m + 1] \in 0..(UintMod - 1)
    BY SMTT(60)
  <2>1. m + 1 \in 0..N /\ m + 1 # 0 /\ (m + 1) - 1 = m
    BY <1>1, SMTT(60)
  <2>2. sum[m] \in 0..(UintMod - 1) /\ Len(u[m + 1]) \in Nat
    <3>1. m <= N /\ m + 1 \in 1..N
      BY <1>1, SMTT(60)
    <3> QED BY <1>1, <1>8, <3>1
  <2>3. sum[m] + Len(u[m + 1]) \in Nat
    BY <1>2, <2>2, SMTT(60)
  <2>4. sum[m + 1] = (sum[m] + Len(u[m + 1])) % UintMod
    BY <1>6, <2>1
  <2> QED BY <1>3, <2>3, <2>4
<1> HIDE DEF T
<1>9. Nat \subseteq T
  BY <1>7, <1>8, SetInduction
<1> QED BY <1>1, <1>4, <1>9, SMTT(60) DEF T

LEMMA SmallMod ==
  ASSUME NEW m \in Nat \ {0}, NEW x \in Nat, x < m
  PROVE  x % m = x
BY SMTT(60)

LEMMA HeadersFit ==
  ASSUME NEW id \in Uuid, NEW u \in Upload
  PROVE  /\ preHeader(id, u) \in PreRequestHeader
         /\ \A n \in 0..(Len(u) - 1) : /\ header(id, u, n) \in RequestHeader
                                       /\ header(id, u, n).mContentSize = Len(u[n + 1])
<1>1. u \in Seq(Seq(Byte)) /\ Len(u) \in Nat
  BY SystemAssumption, SMTT(60)
<1>2. Len(u) \in Count
  BY <1>1, FieldsFit, SMTT(60)
<1>3. preHeader(id, u) \in PreRequestHeader
  BY <1>2, TotalFits, FieldsFit DEF preHeader, PreRequestHeader
<1>4. ASSUME NEW n \in 0..(Len(u) - 1)
      PROVE  /\ header(id, u, n) \in RequestHeader
             /\ header(id, u, n).mContentSize = Len(u[n + 1])
  <2>1. n + 1 \in DOMAIN u /\ n \in 0..Len(u)
    BY <1>1, SMTT(60)
  <2>2. Len(u[n + 1]) \in Nat /\ Len(u[n + 1]) < UintMod /\ UintMod \in Nat \ {0}
    BY <1>1, <2>1, FieldsFit, SystemAssumption, SMTT(60)
  <2>3. Len(u[n + 1]) % UintMod = Len(u[n + 1])
    BY <2>2, SmallMod
  <2>4. Len(u[n + 1]) \in 0..(UintMod - 1)
    BY <2>2, SMTT(60)
  <2>5. n \in Count /\ Len(u[n + 1]) \in Size
    BY <2>1, <2>4, FieldsFit
  <2> QED BY <2>3, <2>5 DEF header, RequestHeader
<1> QED BY <1>3, <1>4

-----------------------------------------------------------------------------
(***************************************************************************)
(* The stream of a client: where each request begins and what is there.    *)
(***************************************************************************)
LEMMA HeaderCells ==
  ASSUME NEW h \in PreRequestHeader \cup RequestHeader
  PROVE  serializeHeader(h) \in Seq(Cell) /\ Len(serializeHeader(h)) = 2
<1>1. [of |-> h, half |-> 1] \in Cell /\ [of |-> h, half |-> 2] \in Cell
  BY DEF Cell
<1> QED BY <1>1, SMTT(60) DEF serializeHeader

Request(id, u, n) == serializeHeader(header(id, u, n - 1)) \o u[n]

LEMMA RequestCells ==
  ASSUME NEW id \in Uuid, NEW u \in Upload, NEW n \in 1..Len(u)
  PROVE  /\ serializeHeader(header(id, u, n - 1)) \in Seq(Cell)
         /\ Len(serializeHeader(header(id, u, n - 1))) = 2
         /\ u[n] \in Seq(Cell)
         /\ Request(id, u, n) \in Seq(Cell)
<1>1. u \in Seq(Seq(Byte)) /\ Len(u) \in Nat
  BY SystemAssumption, SMTT(60)
<1>2. n - 1 \in 0..(Len(u) - 1)
  BY <1>1, SMTT(60)
<1>3. serializeHeader(header(id, u, n - 1)) \in Seq(Cell) /\ Len(serializeHeader(header(id, u, n - 1))) = 2
  BY <1>2, HeadersFit, HeaderCells
<1>4. u[n] \in Seq(Cell)
  <2>1. u[n] \in Seq(Byte)
    BY <1>1, SMTT(60)
  <2>2. \A i \in 1..Len(u[n]) : u[n][i] \in Cell
    BY <2>1, SMTT(60) DEF Cell
  <2> QED BY <2>1, <2>2, SMTT(60)
<1>5. serializeHeader(header(id, u, n - 1)) \o u[n] \in Seq(Cell)
  BY <1>3, <1>4, JoinOf
<1> QED BY <1>3, <1>4, <1>5 DEF Request

LEMMA WireConcatenates ==
  ASSUME NEW id \in Uuid, NEW u \in Upload
  PROVE  Concatenates(Wire(id, u), Len(u), serializeHeader(preHeader(id, u)),
                      [n \in 1..Len(u) |-> Request(id, u, n)])
<1> DEFINE N == Len(u)
           base == serializeHeader(preHeader(id, u))
           part == [n \in 1..N |-> Request(id, u, n)]
           Def(f) == f = [n \in 0..N |-> IF n = 0 THEN base ELSE f[n - 1] \o Request(id, u, n)]
           w == CHOOSE f : Def(f)
<1>1. N \in Nat
  BY SystemAssumption, SMTT(60)
<1>2. Wire(id, u) = w
  BY DEF Wire, Request
<1> HIDE DEF N, base
<1>3. \A n \in 0..N : n # 0 => part[n] = Request(id, u, n)
  BY <1>1, SMTT(60)
<1> HIDE DEF part
<1>4. ASSUME NEW f PROVE Def(f) <=> Concatenates(f, N, base, part)
  <2>1. [n \in 0..N |-> IF n = 0 THEN base ELSE f[n - 1] \o part[n]]
          = [n \in 0..N |-> IF n = 0 THEN base ELSE f[n - 1] \o Request(id, u, n)]
    BY <1>3
  <2> QED BY <2>1 DEF Concatenates
<1>5. \E f : Concatenates(f, N, base, part)
  BY <1>1, ConcatenationExists
<1> HIDE DEF Def
<1>6. Def(w)
  BY <1>4, <1>5
<1>7. Concatenates(w, N, base, part)
  BY <1>4, <1>6
<1> QED BY <1>2, <1>7 DEF N, base, part

LEMMA WireParts ==
  ASSUME NEW id \in Uuid, NEW u \in Upload
  PROVE  LET w == Wire(id, u)
             F == w[Len(u)]
         IN  /\ F \in Seq(Cell)
             /\ Len(w[0]) = 2
             /\ SubSeq(F, 1, 2) = serializeHeader(preHeader(id, u))
             /\ \A n \in 0..Len(u) : Len(w[n]) \in Nat /\ Len(w[n]) <= Len(F)
             /\ \A n \in 0..(Len(u) - 1) :
                  /\ Len(w[n + 1]) = Len(w[n]) + 2 + Len(u[n + 1])
                  /\ SubSeq(F, Len(w[n]) + 1, Len(w[n]) + 2) = serializeHeader(header(id, u, n))
                  /\ SubSeq(F, Len(w[n]) + 2 + 1, Len(w[n + 1])) = u[n + 1]
<1> DEFINE w == Wire(id, u)
           F == w[Len(u)]
           base == serializeHeader(preHeader(id, u))
           part == [n \in 1..Len(u) |-> Request(id, u, n)]
<1>1. Len(u) \in Nat /\ Len(u) \in 0..Len(u) /\ 0 \in 0..Len(u)
  BY SystemAssumption, SMTT(60)
<1>2. base \in Seq(Cell) /\ Len(base) = 2
  <2>1. preHeader(id, u) \in PreRequestHeader
    BY HeadersFit
  <2> QED BY <2>1, HeaderCells
<1>3. part \in [1..Len(u) -> Seq(Cell)]
  BY RequestCells
<1>4. Concatenates(w, Len(u), base, part)
  BY WireConcatenates
<1>5. \A n \in 0..(Len(u) - 1) : part[n + 1] = Request(id, u, n + 1)
  BY <1>1, SMTT(60)
<1> HIDE DEF w, base, part
<1>6. /\ w[0] = base
      /\ \A n \in 0..(Len(u) - 1) : w[n + 1] = w[n] \o part[n + 1]
      /\ \A n \in 0..Len(u) : w[n] \in Seq(Cell)
      /\ \A n \in 0..Len(u) : BeginsWith(F, w[n])
  BY <1>1, <1>2, <1>3, <1>4, ConcatenationGrows
<1>7. \A n \in 0..Len(u) : Len(w[n]) \in Nat /\ Len(w[n]) <= Len(F)
  BY <1>6, SMTT(60) DEF BeginsWith
<1>8. F \in Seq(Cell) /\ Len(w[0]) = 2
  BY <1>1, <1>2, <1>6
<1>9. SubSeq(F, 1, 2) = base
  BY <1>1, <1>6, <1>8 DEF BeginsWith
<1>10. ASSUME NEW n \in 0..(Len(u) - 1)
       PROVE  /\ Len(w[n + 1]) = Len(w[n]) + 2 + Len(u[n + 1])
              /\ SubSeq(F, Len(w[n]) + 1, Len(w[n]) + 2) = serializeHeader(header(id, u, n))
              /\ SubSeq(F, Len(w[n]) + 2 + 1, Len(w[n + 1])) = u[n + 1]
  <2> DEFINE x == w[n]
             y == serializeHeader(header(id, u, n))
             z == u[n + 1]
  <2>1. n \in 0..Len(u) /\ n + 1 \in 0..Len(u) /\ n + 1 \in 1..Len(u) /\ (n + 1) - 1 = n
    BY <1>1, SMTT(60)
  <2>2. y \in Seq(Cell) /\ Len(y) = 2 /\ z \in Seq(Cell)
    BY <2>1, RequestCells
  <2>3. w[n + 1] = x \o (y \o z)
    BY <1>5, <1>6, <2>1 DEF Request
  <2>4. x \in Seq(Cell) /\ BeginsWith(F, w[n + 1])
    BY <1>6, <2>1
  <2>5. BeginsWith(F, x \o (y \o z))
    BY <2>3, <2>4
  <2> HIDE DEF F, x, y, z
  <2>6. /\ Len(x \o (y \o z)) = Len(x) + Len(y) + Len(z)
        /\ SubSeq(F, Len(x) + 1, Len(x) + Len(y)) = y
        /\ SubSeq(F, Len(x) + Len(y) + 1, Len(x) + Len(y) + Len(z)) = z
    <3>1. F \in Seq(Cell) /\ x \in Seq(Cell) /\ y \in Seq(Cell) /\ z \in Seq(Cell)
      BY <1>8, <2>2, <2>4
    <3> QED BY <2>5, <3>1, ConcatParts, SMTT(60)
  <2> QED BY <2>2, <2>3, <2>6 DEF x, y, z
<1> QED BY <1>7, <1>8, <1>9, <1>10 DEF w, base

LEMMA StreamParts ==
  ASSUME ClientType, NEW k \in Client
  PROVE  /\ upload[k] \in Seq(Seq(Byte)) /\ Len(upload[k]) \in Nat
         /\ Full(k) \in Seq(Cell) /\ Len(Full(k)) \in Nat
         /\ Mark(k, 0) = 2 /\ 2 <= Len(Full(k))
         /\ Mark(k, Len(upload[k])) = Len(Full(k))
         /\ SubSeq(Full(k), 1, 2) = serializeHeader(preHeader(uuid[k], upload[k]))
         /\ \A n \in 0..Len(upload[k]) : Mark(k, n) \in Nat /\ Mark(k, n) <= Len(Full(k))
         /\ \A n \in 0..(Len(upload[k]) - 1) :
              /\ Len(upload[k][n + 1]) \in Nat
              /\ Mark(k, n + 1) = Mark(k, n) + 2 + Len(upload[k][n + 1])
              /\ SubSeq(Full(k), Mark(k, n) + 1, Mark(k, n) + 2)
                   = serializeHeader(header(uuid[k], upload[k], n))
              /\ SubSeq(Full(k), Mark(k, n) + 2 + 1, Mark(k, n + 1)) = upload[k][n + 1]
<1>1. uuid[k] \in Uuid /\ upload[k] \in Upload
  BY DEF ClientType
<1>2. upload[k] \in Seq(Seq(Byte)) /\ Len(upload[k]) \in Nat
  BY <1>1, SystemAssumption, SMTT(60)
<1>3. \A n \in 0..(Len(upload[k]) - 1) : Len(upload[k][n + 1]) \in Nat
  BY <1>2, SMTT(60)
<1>4. 0 \in 0..Len(upload[k])
  BY <1>2, SMTT(60)
<1> DEFINE w == Wire(uuid[k], upload[k])
<1>5. /\ w[Len(upload[k])] \in Seq(Cell)
      /\ Len(w[0]) = 2
      /\ SubSeq(w[Len(upload[k])], 1, 2) = serializeHeader(preHeader(uuid[k], upload[k]))
      /\ \A n \in 0..Len(upload[k]) : Len(w[n]) \in Nat /\ Len(w[n]) <= Len(w[Len(upload[k])])
      /\ \A n \in 0..(Len(upload[k]) - 1) :
           /\ Len(w[n + 1]) = Len(w[n]) + 2 + Len(upload[k][n + 1])
           /\ SubSeq(w[Len(upload[k])], Len(w[n]) + 1, Len(w[n]) + 2)
                = serializeHeader(header(uuid[k], upload[k], n))
           /\ SubSeq(w[Len(upload[k])], Len(w[n]) + 2 + 1, Len(w[n + 1])) = upload[k][n + 1]
  BY <1>1, WireParts
<1>6. Full(k) = w[Len(upload[k])] /\ \A n : Mark(k, n) = Len(w[n])
  BY DEF Full, Mark
<1> HIDE DEF w
<1>7. Len(Full(k)) \in Nat /\ Mark(k, 0) = 2 /\ 2 <= Len(Full(k))
  <2>1. Mark(k, 0) = 2
    BY <1>5, <1>6
  <2>2. Len(w[0]) <= Len(w[Len(upload[k])])
    BY <1>4, <1>5
  <2>3. Len(Full(k)) \in Nat
    BY <1>5, <1>6, SMTT(60)
  <2>4. 2 <= Len(Full(k))
    BY <1>5, <1>6, <2>2
  <2> QED BY <2>1, <2>3, <2>4
<1> QED BY <1>2, <1>3, <1>5, <1>6, <1>7

-----------------------------------------------------------------------------
(***************************************************************************)
(* What happens to a stream: k writes the cells that come next; the server *)
(* takes the first m of those on their way; neither of them.               *)
(***************************************************************************)
LEMMA StreamType ==
  ASSUME ClientType, NEW k \in Client
  PROVE  toServer[k] \in Seq(Cell) /\ Len(toServer[k]) \in Nat
BY SMTT(60) DEF ClientType

LEMMA StreamWritten ==
  ASSUME ClientType, NEW k \in Client, NEW n \in Nat, Stream(k, n), ~Over(k),
         NEW cells \in Seq(Cell),
         Written(k) + Len(cells) <= Len(Full(k)),
         SubSeq(Full(k), Written(k) + 1, Written(k) + Len(cells)) = cells,
         toServer'[k] = toServer[k] \o cells,
         upload'[k] = upload[k], uuid'[k] = uuid[k],
         Over(k)' \/ Written(k)' = Written(k) + Len(cells)
  PROVE  Stream(k, n)'
<1> DEFINE F == Full(k)
           l == Len(toServer[k])
           m == Len(cells)
<1>1. F \in Seq(Cell) /\ l \in Nat /\ m \in Nat
  BY StreamParts, StreamType, SMTT(60)
<1>2. Full(k)' = F
  BY DEF Full
<1>3. n + l <= Len(F) /\ toServer[k] = SubSeq(F, n + 1, n + l) /\ Written(k) = n + l
  BY DEF Stream
<1>4. Len(toServer'[k]) = l + m
  BY StreamType, SMTT(60)
<1> HIDE DEF F, l, m
<1>5. SubSeq(F, n + l + 1, n + l + m) = cells /\ n + l + m <= Len(F)
  BY <1>3 DEF F, m
<1>6. toServer'[k] = SubSeq(F, n + 1, n + l + m)
  <2>1. n + l \in Nat /\ n + l + m \in Nat /\ n <= n + l /\ n + l <= n + l + m
    BY <1>1, SMTT(60)
  <2>2. SubSeq(F, n + 1, n + l) \o SubSeq(F, n + l + 1, n + l + m) = SubSeq(F, n + 1, n + l + m)
    BY <1>1, <1>5, <2>1, PartsInARow, SMTT(60)
  <2> QED BY <1>3, <1>5, <2>2
<1>7. n + (l + m) = n + l + m
  BY <1>1, SMTT(60)
<1>8. Over(k)' \/ n + l + m = Written(k)'
  BY <1>3 DEF m
<1> QED BY <1>2, <1>4, <1>5, <1>6, <1>7, <1>8 DEF Stream

LEMMA StreamTaken ==
  ASSUME ClientType, NEW k \in Client, NEW n \in Nat, Stream(k, n),
         NEW m \in Nat, m <= Len(toServer[k])
  PROVE  /\ n + m <= Len(Full(k))
         /\ First(toServer[k], m) = SubSeq(Full(k), n + 1, n + m)
         /\ /\ toServer'[k] = Rest(toServer[k], m)
            /\ at'[k] = at[k] /\ sent'[k] = sent[k] /\ upload'[k] = upload[k] /\ uuid'[k] = uuid[k]
            => Stream(k, n + m)'
<1> DEFINE F == Full(k)
           l == Len(toServer[k])
<1>1. F \in Seq(Cell) /\ l \in Nat /\ Len(F) \in Nat
  BY StreamParts, StreamType
<1>2. n + l <= Len(F) /\ toServer[k] = SubSeq(F, n + 1, n + l) /\ (~Over(k) => n + l = Written(k))
  BY DEF Stream
<1>3. m <= l
  OBVIOUS
<1>4. toServer[k] \in Seq(Cell)
  BY StreamType
<1> HIDE DEF F, l
<1>5. n + l \in Nat /\ n + m <= n + l /\ n + m \in Nat
  BY <1>1, <1>3, SMTT(60)
<1>6. /\ SubSeq(SubSeq(F, n + 1, n + l), 1, m) = SubSeq(F, n + 1, n + m)
      /\ SubSeq(SubSeq(F, n + 1, n + l), m + 1, Len(SubSeq(F, n + 1, n + l))) = SubSeq(F, n + m + 1, n + l)
  BY <1>1, <1>2, <1>5, PartOfPart, SMTT(60)
<1>7. First(toServer[k], m) = SubSeq(F, n + 1, n + m) /\ Rest(toServer[k], m) = SubSeq(F, n + m + 1, n + l)
  BY <1>2, <1>6 DEF First, Rest
<1>8. n + m <= Len(F)
  BY <1>1, <1>2, <1>5, SMTT(60)
<1>9. ASSUME toServer'[k] = Rest(toServer[k], m),
             at'[k] = at[k], sent'[k] = sent[k], upload'[k] = upload[k], uuid'[k] = uuid[k]
      PROVE  Stream(k, n + m)'
  <2>1. Len(SubSeq(F, n + m + 1, n + l)) = (n + l) - (n + m)
    BY <1>1, <1>2, <1>5, PartOf
  <2>2. n + m + Len(toServer'[k]) = n + l
    <3>1. Len(toServer'[k]) = (n + l) - (n + m)
      BY <1>7, <1>9, <2>1
    <3> HIDE <1>9
    <3> QED BY <1>1, <3>1, SMTT(60)
  <2>3. Full(k)' = F /\ Over(k)' = Over(k) /\ Written(k)' = Written(k)
    BY <1>9 DEF Full, F, Over, Written, Mark
  <2> QED BY <1>2, <1>7, <1>9, <2>2, <2>3 DEF Stream
<1> QED BY <1>7, <1>8, <1>9 DEF F

LEMMA StreamKept ==
  ASSUME NEW k, NEW n, Stream(k, n),
         toServer'[k] = toServer[k], upload'[k] = upload[k], uuid'[k] = uuid[k],
         Over(k)' \/ (~Over(k) /\ Written(k)' = Written(k))
  PROVE  Stream(k, n)'
<1>1. Full(k)' = Full(k)
  BY DEF Full
<1> QED BY <1>1 DEF Stream

-----------------------------------------------------------------------------
(***************************************************************************)
(* A client, and a session, that a step leaves alone.                      *)
(***************************************************************************)
SameClient(k) ==
  /\ at'[k] = at[k] /\ upload'[k] = upload[k] /\ uuid'[k] = uuid[k]
  /\ sent'[k] = sent[k] /\ results'[k] = results[k]

SameSocket(k) ==
  /\ toServer'[k] = toServer[k] /\ toClient'[k] = toClient[k]
  /\ clientClosed'[k] = clientClosed[k] /\ serverClosed'[k] = serverClosed[k] /\ reset'[k] = reset[k]

SameServer(c) ==
  /\ pending'[c] = pending[c] /\ preRequestHeader'[c] = preRequestHeader[c]
  /\ requestHeader'[c] = requestHeader[c] /\ horcruxes'[c] = horcruxes[c]

LEMMA ClientFrame ==
  ASSUME NEW k, SameClient(k), SameSocket(k)
  PROVE  /\ Progress(k) => Progress(k)'
         /\ Live(k) => Live(k)'
         /\ \A n : Stream(k, n) => Stream(k, n)'
         /\ \A m : Answers(k, m) => Answers(k, m)'
         /\ Rejected(k) => Rejected(k)'
         /\ Unread(k) => Unread(k)'
<1>1. Full(k)' = Full(k) /\ Over(k)' = Over(k) /\ Written(k)' = Written(k)
        /\ Taken(k)' = Taken(k) /\ AllTrue(k)' = AllTrue(k)
  BY DEF SameClient, Full, Over, Written, Mark, Taken, AllTrue
<1>2. \A n : Stream(k, n) => Stream(k, n)'
  BY <1>1 DEF SameSocket, Stream
<1>3. \A m : Answers(k, m) => Answers(k, m)'
  BY <1>1 DEF SameSocket, Answers
<1>4. (Progress(k) => Progress(k)') /\ (Live(k) => Live(k)') /\ (Rejected(k) => Rejected(k)')
  BY DEF SameClient, SameSocket, Progress, Live, Rejected
<1>5. Unread(k) => Unread(k)'
  BY <1>2, <1>3 DEF SameClient, Unread
<1> QED BY <1>2, <1>3, <1>4, <1>5

\* What a session that has taken in j Horcruxes asks of its client is kept.
Carried(k) ==
  \A j \in 0..Len(upload[k]) : \A n :
    /\ n \in {Mark(k, j), Mark(k, j) + 2}
    /\ Stream(k, n)
    /\ Answers(k, 1 + j)
    /\ \A i \in DOMAIN results[k] : (\A x \in 1..i : results[k][x]) => i <= j
    => /\ Stream(k, n)'
       /\ Answers(k, 1 + j)'
       /\ \A i \in DOMAIN results'[k] : (\A x \in 1..i : results'[k][x]) => i <= j

LEMMA SessionFrame ==
  ASSUME NEW c, NEW k, Session(c, k), SameServer(c),
         upload'[k] = upload[k], uuid'[k] = uuid[k],
         Unread(k) => Unread(k)',
         Rejected(k) => Rejected(k)',
         Carried(k)
  PROVE  Session(c, k)'
<1>1. /\ pending'[c] = pending[c] /\ preRequestHeader'[c] = preRequestHeader[c]
      /\ requestHeader'[c] = requestHeader[c] /\ horcruxes'[c] = horcruxes[c]
  BY DEF SameServer
<1>2. CASE pending[c] = "ReadPreRequestHeader"
  BY <1>1, <1>2 DEF Session
<1>3. CASE pending[c] = "respondThenStop"
  BY <1>1, <1>3 DEF Session
<1>4. CASE pending[c] \notin {"ReadPreRequestHeader", "respondThenStop"}
  <2>1. PICK j \in 0..Len(upload[k]) : InTransfer(c, k, j)
    BY <1>4 DEF Session
  <2>2. Mark(k, j)' = Mark(k, j)
    BY DEF Mark
  <2>3. preRequestHeader'[c] = preHeader(uuid'[k], upload'[k])
    BY <1>1, <2>1 DEF InTransfer
  <2>4. horcruxes'[c] = [i \in 0..(Len(upload'[k]) - 1) |-> IF i < j THEN upload'[k][i + 1] ELSE None]
    BY <1>1, <2>1 DEF InTransfer
  <2>5. CASE pending[c] = "ReadRequestContent"
    <3>1. /\ j < Len(upload[k])
          /\ requestHeader[c] = header(uuid[k], upload[k], j)
          /\ Stream(k, Mark(k, j) + 2)
          /\ Answers(k, 1 + j)
          /\ \A i \in DOMAIN results[k] : (\A x \in 1..i : results[k][x]) => i <= j
      BY <2>1, <2>5 DEF InTransfer
    <3>2. /\ Stream(k, Mark(k, j) + 2)'
          /\ Answers(k, 1 + j)'
          /\ \A i \in DOMAIN results'[k] : (\A x \in 1..i : results'[k][x]) => i <= j
      <4> DEFINE n == Mark(k, j) + 2
      <4>1. /\ n \in {Mark(k, j), Mark(k, j) + 2} /\ Stream(k, n)
        BY <3>1
      <4>2. n' = n
        BY <2>2
      <4> HIDE DEF n
      <4>3. /\ Stream(k, n)'
            /\ Answers(k, 1 + j)'
            /\ \A i \in DOMAIN results'[k] : (\A x \in 1..i : results'[k][x]) => i <= j
        BY <3>1, <4>1, <4>2 DEF Carried
      <4> QED BY <4>3 DEF n
    <3> QED BY <1>1, <1>4, <2>3, <2>4, <2>5, <3>1, <3>2 DEF Session, InTransfer
  <2>6. CASE pending[c] # "ReadRequestContent"
    <3>1. /\ Stream(k, Mark(k, j))
          /\ Answers(k, 1 + j)
          /\ \A i \in DOMAIN results[k] : (\A x \in 1..i : results[k][x]) => i <= j
      BY <2>1, <2>6 DEF InTransfer
    <3>2. /\ Stream(k, Mark(k, j))'
          /\ Answers(k, 1 + j)'
          /\ \A i \in DOMAIN results'[k] : (\A x \in 1..i : results'[k][x]) => i <= j
      BY <2>2, <3>1 DEF Carried
    <3> QED BY <1>1, <1>4, <2>3, <2>4, <2>6, <3>2 DEF Session, InTransfer
  <2> QED BY <2>5, <2>6
<1> QED BY <1>2, <1>3, <1>4

LEMMA SessionKept ==
  ASSUME NEW c, NEW l, Session(c, l), SameServer(c), SameClient(l), SameSocket(l)
  PROVE  Session(c, l)'
<1>1. upload'[l] = upload[l] /\ uuid'[l] = uuid[l] /\ results'[l] = results[l]
  BY DEF SameClient
<1>2. (Unread(l) => Unread(l)') /\ (Rejected(l) => Rejected(l)')
  BY ClientFrame
<1>3. Carried(l)
  BY <1>1, ClientFrame DEF Carried
<1> QED BY <1>1, <1>2, <1>3, SessionFrame

-----------------------------------------------------------------------------
(***************************************************************************)
(* A step of connection c, and what Socket does for it to the client at    *)
(* the other end.                                                          *)
(***************************************************************************)
Reply(c) ==
  IF Len(replies'[c]) > Len(replies[c]) THEN Response(replies'[c][Len(replies'[c])]) ELSE <<>>

LEMMA SocketEffect ==
  ASSUME ClientType, NEW c \in Connection, NEW n \in Nat, Socket(c, n),
         NEW k, k = peer[c], n <= Len(toServer[k])
  PROVE  /\ k \in Client
         /\ ClientType'
         /\ \A l \in Client : SameClient(l)
         /\ \A l \in Client \ {k} : SameSocket(l)
         /\ backlog' = backlog
         /\ peer' = [peer EXCEPT ![c] = IF pending'[c] = "none" THEN None ELSE k]
         /\ clientClosed'[k] = clientClosed[k]
         /\ serverClosed'[k] = (pending'[c] = "none")
         /\ toClient'[k] = IF clientClosed[k] THEN toClient[k] ELSE toClient[k] \o Reply(c)
         /\ pending'[c] # "none" => /\ toServer'[k] = Rest(toServer[k], n)
                                    /\ reset'[k] => reset[k] \/ clientClosed[k]
<1> DEFINE rest == Rest(toServer[k], n)
           closes == pending'[c] = "none"
           reply == Reply(c)
           S == {"SUCC", "ESS", "FAIL", "URE"}
<1>1. /\ k # None
      /\ toServer' = [toServer EXCEPT ![k] = IF closes THEN <<>> ELSE rest]
      /\ toClient' = [toClient EXCEPT ![k] = IF clientClosed[k] THEN toClient[k] ELSE toClient[k] \o reply]
      /\ serverClosed' = [serverClosed EXCEPT ![k] = closes]
      /\ reset' = [reset EXCEPT ![k] = reset[k] \/ (closes /\ rest # <<>>)
                                               \/ (clientClosed[k] /\ reply # <<>>)]
      /\ peer' = [peer EXCEPT ![c] = IF closes THEN None ELSE k]
      /\ UNCHANGED <<clientVars, backlog, clientClosed>>
  BY DEF Socket, Reply
<1>2. k \in Client
  BY <1>1 DEF ClientType
<1>3. UNCHANGED <<at, upload, uuid, sent, results, backlog, clientClosed>>
  BY <1>1 DEF clientVars
<1>4. reply \in Seq(S)
  <2>1. <<>> \in Seq(S) /\ <<"SUCC", "ESS">> \in Seq(S) /\ <<"FAIL", "URE">> \in Seq(S)
    BY SMTT(60)
  <2> HIDE DEF S
  <2> QED BY <2>1 DEF Reply, Response
<1>5. rest \in Seq(Cell)
  <2>1. toServer[k] \in Seq(Cell) /\ Len(toServer[k]) \in Nat
    BY <1>2, StreamType
  <2> QED BY <2>1, PartOf, SMTT(60) DEF Rest
<1> HIDE DEF rest, reply
<1>6. ClientType'
  <2>1. toServer' \in [Client -> Seq(Cell)]
    BY <1>1, <1>2, <1>5, SMTT(60) DEF ClientType
  <2>2. toClient' \in [Client -> Seq(S)]
    <3>1. toClient \in [Client -> Seq(S)] /\ toClient[k] \in Seq(S)
      BY <1>2 DEF ClientType
    <3> HIDE DEF S
    <3>2. toClient[k] \o reply \in Seq(S)
      BY <1>4, <3>1, SMTT(60)
    <3> QED BY <1>1, <1>2, <3>1, <3>2
  <2>3. serverClosed' \in [Client -> BOOLEAN] /\ reset' \in [Client -> BOOLEAN]
    BY <1>1, <1>2 DEF ClientType
  <2>4. peer' \in [Connection -> Client \cup {None}]
    BY <1>1, <1>2 DEF ClientType
  <2> QED BY <1>3, <2>1, <2>2, <2>3, <2>4 DEF ClientType
<1>7. \A l \in Client : SameClient(l)
  BY <1>3 DEF SameClient
<1>8. \A l \in Client \ {k} : SameSocket(l)
  BY <1>1, <1>3 DEF ClientType, SameSocket
<1>9. serverClosed'[k] = closes /\ toServer'[k] = (IF closes THEN <<>> ELSE rest)
        /\ toClient'[k] = (IF clientClosed[k] THEN toClient[k] ELSE toClient[k] \o reply)
  BY <1>1, <1>2 DEF ClientType
<1>10. pending'[c] # "none" /\ reset'[k] => reset[k] \/ clientClosed[k]
  BY <1>1, <1>2 DEF ClientType
<1> QED BY <1>1, <1>2, <1>3, <1>6, <1>7, <1>8, <1>9, <1>10 DEF rest, reply

LEMMA SocketStep ==
  ASSUME SystemInv, NEW c \in Connection, NEW n \in Nat, Socket(c, n),
         NEW k, k = peer[c], n <= Len(toServer[k]),
         pending[c] \notin {"none", "accept"}, pending'[c] # "accept",
         \A d \in Connection \ {c} : SameServer(d),
         pending'[c] # "none" => Session(c, k)'
  PROVE  SystemInv'
<1>1. ClientType /\ Links
  BY DEF SystemInv
<1>2. /\ k \in Client /\ k # None
      /\ ClientType'
      /\ \A l \in Client : SameClient(l)
      /\ \A l \in Client \ {k} : SameSocket(l)
      /\ backlog' = backlog
      /\ peer' = [peer EXCEPT ![c] = IF pending'[c] = "none" THEN None ELSE k]
      /\ clientClosed'[k] = clientClosed[k]
      /\ serverClosed'[k] = (pending'[c] = "none")
      /\ pending'[c] # "none" /\ reset'[k] => reset[k] \/ clientClosed[k]
  BY <1>1, SocketEffect, SystemAssumption, SMTT(60)
<1>3. /\ peer'[c] = (IF pending'[c] = "none" THEN None ELSE k)
      /\ \A d \in Connection \ {c} : peer'[d] = peer[d] /\ pending'[d] = pending[d]
  BY <1>1, <1>2 DEF ClientType, SameServer
<1>4. /\ \A d \in Connection \ {c} : peer[d] # k
      /\ \A d \in Connection : peer[d] \in Client \cup {None}
      /\ \A i \in DOMAIN backlog : backlog[i] \in Client \ {k}
  <2>1. \A d \in Connection : peer[d] \in Client \cup {None}
    BY <1>1 DEF ClientType
  <2>2. \A i \in DOMAIN backlog : backlog[i] \in Client
    BY <1>1, SMTT(60) DEF ClientType
  <2> QED BY <1>1, <1>2, <2>1, <2>2 DEF Links
<1>5. Live(k) /\ Progress(k)
  BY <1>1, <1>2 DEF Links, SystemInv
<1>6. \A l \in Client : Progress(l)'
  <2>1. Progress(k)'
    BY <1>2, <1>5 DEF Progress, Live, SameClient
  <2> QED BY <1>2, <2>1, ClientFrame DEF SystemInv
<1>7. /\ \A l \in Client \ {k} : Live(l) => Live(l)'
      /\ \A l \in Client \ {k} : Unread(l) => Unread(l)'
  BY <1>2, ClientFrame
<1>8. pending'[c] # "none" => Live(k)'
  <2>1. at'[k] = at[k] /\ (clientClosed[k] => at[k] = "done")
    BY <1>2, <1>5 DEF SameClient, Progress
  <2> QED BY <1>2, <1>5, <2>1 DEF Live
<1>9. Links'
  <2>1. \A d \in Connection : peer'[d] # None <=> pending'[d] \notin {"none", "accept"}
    <3>1. peer'[c] # None <=> pending'[c] \notin {"none", "accept"}
      BY <1>2, <1>3
    <3> QED BY <1>1, <1>3, <3>1 DEF Links
  <2>2. \A d, e \in Connection : peer'[d] # None /\ peer'[d] = peer'[e] => d = e
    BY <1>1, <1>2, <1>3, <1>4, SMTT(60) DEF Links
  <2>3. \A i \in DOMAIN backlog, d \in Connection : peer'[d] # backlog[i]
    <3>1. None \notin Client
      BY SystemAssumption
    <3> QED BY <1>1, <1>2, <1>3, <1>4, <3>1, SMTT(60) DEF Links
  <2>4. \A d \in Connection : peer'[d] # None => Live(peer[d])'
    <3>1. SUFFICES ASSUME NEW d \in Connection, NEW l, l = peer'[d], l # None PROVE Live(l)'
      OBVIOUS
    <3>2. CASE d = c
      <4>1. l = k /\ pending'[c] # "none"
        BY <1>3, <3>1, <3>2
      <4> QED BY <1>8, <4>1
    <3>3. CASE d # c
      <4>1. l \in Client \ {k} /\ Live(l)
        BY <1>1, <1>3, <1>4, <3>1, <3>3 DEF Links
      <4> QED BY <1>7, <4>1
    <3> QED BY <3>2, <3>3
  <2>5. \A i \in DOMAIN backlog' : Live(backlog[i])'
    <3>1. SUFFICES ASSUME NEW i \in DOMAIN backlog, NEW l, l = backlog'[i] PROVE Live(l)'
      BY <1>2
    <3>2. l \in Client \ {k} /\ Live(l)
      BY <1>1, <1>2, <1>4, <3>1 DEF Links
    <3> QED BY <1>7, <3>2
  <2> QED BY <1>1, <1>2, <2>1, <2>2, <2>3, <2>4, <2>5, SMTT(60) DEF Links
<1>10. \A d \in Connection : peer'[d] # None => Session(d, peer[d])'
  <2>1. SUFFICES ASSUME NEW d \in Connection, NEW l, l = peer'[d], l # None PROVE Session(d, l)'
    OBVIOUS
  <2>2. CASE d = c
    <3>1. l = k /\ pending'[c] # "none"
      BY <1>3, <2>1, <2>2
    <3> QED BY <2>2, <3>1
  <2>3. CASE d # c
    <3>1. l \in Client \ {k} /\ Session(d, l) /\ SameServer(d)
      BY <1>3, <1>4, <2>1, <2>3 DEF SystemInv
    <3>2. SameClient(l) /\ SameSocket(l)
      BY <1>2, <3>1
    <3> QED BY <3>1, <3>2, SessionKept
  <2> QED BY <2>2, <2>3
<1>11. \A i \in DOMAIN backlog' : Unread(backlog[i])'
  <2>1. SUFFICES ASSUME NEW i \in DOMAIN backlog, NEW l, l = backlog'[i] PROVE Unread(l)'
    BY <1>2
  <2>2. l \in Client \ {k} /\ Unread(l)
    BY <1>2, <1>4, <2>1 DEF SystemInv
  <2> QED BY <1>7, <2>2
<1> QED BY <1>2, <1>6, <1>9, <1>10, <1>11 DEF SystemInv

-----------------------------------------------------------------------------
\* A header that has arrived is read as the one that was sent.
LEMMA Deserialized ==
  ASSUME NEW Headers, NEW g \in Headers, NEW h \in deserializeHeader(serializeHeader(g), Headers)
  PROVE  h = g
<1>1. serializeHeader(h) = serializeHeader(g)
  BY DEF deserializeHeader
<1>2. serializeHeader(h)[1].of = h /\ serializeHeader(g)[1].of = g
  BY DEF serializeHeader
<1> QED BY <1>1, <1>2

\* A response is appended to what is on its way to a client that is still there.
LEMMA ReplySent ==
  ASSUME TypeOK, SystemInv, NEW c \in Connection, NEW k \in Client, ~Over(k),
         NEW x, replies' = [replies EXCEPT ![c] = Append(@, x)],
         toClient'[k] = IF clientClosed[k] THEN toClient[k] ELSE toClient[k] \o Reply(c)
  PROVE  toClient'[k] = toClient[k] \o Response(x)
<1>1. replies[c] \in Seq({"SUCCESS", "FAILURE"}) /\ replies'[c] = Append(replies[c], x)
  BY DEF TypeOK
<1>2. Len(replies[c]) \in Nat /\ Len(replies'[c]) = Len(replies[c]) + 1
        /\ replies'[c][Len(replies[c]) + 1] = x
  BY <1>1, SMTT(60)
<1>3. Reply(c) = Response(x)
  BY <1>2, SMTT(60) DEF Reply
<1>4. ~clientClosed[k]
  BY DEF SystemInv, Progress, Over
<1> QED BY <1>3, <1>4

LEMMA NoReply ==
  ASSUME TypeOK, SystemInv, NEW c \in Connection, NEW k \in Client, replies'[c] = replies[c],
         toClient'[k] = IF clientClosed[k] THEN toClient[k] ELSE toClient[k] \o Reply(c)
  PROVE  toClient'[k] = toClient[k]
<1>1. replies[c] \in Seq({"SUCCESS", "FAILURE"})
  BY DEF TypeOK
<1>2. Reply(c) = <<>>
  BY <1>1, SMTT(60) DEF Reply
<1>3. toClient[k] \in Seq({"SUCC", "ESS", "FAIL", "URE"})
  BY DEF SystemInv, ClientType
<1>4. toClient[k] \o <<>> = toClient[k]
  BY <1>3, SMTT(60)
<1> QED BY <1>2, <1>4

\* Two more cells for each answer.
LEMMA Answered ==
  ASSUME TypeOK, SystemInv, NEW c \in Connection, NEW k \in Client, SameClient(k),
         NEW m \in Nat, Answers(k, m),
         NEW x \in {"SUCCESS", "FAILURE"}, replies' = [replies EXCEPT ![c] = Append(@, x)],
         toClient'[k] = IF clientClosed[k] THEN toClient[k] ELSE toClient[k] \o Reply(c)
  PROVE  Answers(k, m + 1)'
<1>1. Over(k)' = Over(k) /\ AllTrue(k)' = AllTrue(k) /\ Taken(k)' = Taken(k)
  BY DEF SameClient, Over, AllTrue, Taken
<1>2. SUFFICES ASSUME ~Over(k), AllTrue(k) PROVE Len(toClient'[k]) = 2 * ((m + 1) - Taken(k))
  BY <1>1 DEF Answers
<1>3. toClient'[k] = toClient[k] \o Response(x)
  BY <1>2, ReplySent
<1>4. PICK S : S = {"SUCC", "ESS", "FAIL", "URE"}
  OBVIOUS
<1>5. Len(toClient'[k]) = Len(toClient[k]) + 2
  <2>1. toClient[k] \in Seq(S)
    BY <1>4 DEF SystemInv, ClientType
  <2>2. <<"SUCC", "ESS">> \in Seq(S) /\ <<"FAIL", "URE">> \in Seq(S)
    BY <1>4, SMTT(60)
  <2>3. Response(x) \in Seq(S) /\ Len(Response(x)) = 2
    BY <2>2 DEF Response
  <2>4. \A s, t \in Seq(S) : Len(s \o t) = Len(s) + Len(t)
    BY JoinOf
  <2>5. Len(toClient[k] \o Response(x)) = Len(toClient[k]) + Len(Response(x))
    BY <2>1, <2>3, <2>4
  <2> QED BY <1>3, <2>3, <2>5
<1>6. Len(toClient[k]) = 2 * (m - Taken(k))
  BY <1>2 DEF Answers
<1>7. Taken(k) \in Int
  BY SMTT(60) DEF Taken, SystemInv, ClientType
<1> QED BY <1>5, <1>6, <1>7, SMTT(60)

LEMMA ReadPreRequestHeaderStep ==
  ASSUME TypeOK, SystemInv, NEW c \in Connection, Arrived(c, 2), Socket(c, 2),
         NEW h \in deserializeHeader(First(toServer[peer[c]], 2), PreRequestHeader),
         ReadPreRequestHeader(c, h)
  PROVE  SystemInv' /\ h \in PreRequestHeader
<1>1. PICK k : k = peer[c]
  OBVIOUS
<1>2. /\ ClientType /\ Links /\ k # None /\ k \in Client /\ 2 <= Len(toServer[k]) /\ Len(toServer[k]) \in Nat
  <2>1. k # None /\ Len(toServer[k]) >= 2
    BY <1>1 DEF Arrived
  <2>2. ClientType /\ Links /\ k \in Client
    BY <1>1, <2>1 DEF SystemInv, ClientType
  <2> QED BY <2>1, <2>2, StreamType
<1>3. pending[c] = "ReadPreRequestHeader"
  BY DEF ReadPreRequestHeader, Runs
<1>4. Unread(k) /\ Stream(k, 0) /\ Answers(k, 0) /\ results[k] = <<>>
  BY <1>1, <1>2, <1>3 DEF SystemInv, Session, Unread
<1>5. PICK g : g = preHeader(uuid[k], upload[k])
  OBVIOUS
<1>6. uuid[k] \in Uuid /\ upload[k] \in Upload /\ g \in PreRequestHeader
  BY <1>2, <1>5, HeadersFit DEF ClientType
<1>7. h = g
  <2>1. First(toServer[k], 2) = SubSeq(Full(k), 0 + 1, 0 + 2)
    BY <1>2, <1>4, StreamTaken
  <2>2. First(toServer[k], 2) = serializeHeader(g)
    BY <1>2, <1>5, <2>1, StreamParts, SMTT(60)
  <2> QED BY <1>1, <1>6, <2>2, Deserialized
<1>8. /\ \A l \in Client : SameClient(l)
      /\ toClient'[k] = IF clientClosed[k] THEN toClient[k] ELSE toClient[k] \o Reply(c)
      /\ pending'[c] # "none" => toServer'[k] = Rest(toServer[k], 2)
  BY <1>1, <1>2, SocketEffect, SMTT(60)
<1>9. SameClient(k) /\ at'[k] = at[k] /\ sent'[k] = sent[k] /\ upload'[k] = upload[k] /\ uuid'[k] = uuid[k]
        /\ results'[k] = results[k]
  BY <1>2, <1>8 DEF SameClient
<1>10. \A d \in Connection \ {c} : SameServer(d)
  BY DEF ReadPreRequestHeader, sendResponse, SameServer, TypeOK
<1>11. sent[k] = 0 /\ AllTrue(k)
  BY <1>2, <1>4, SMTT(60) DEF SystemInv, Progress, AllTrue
<1>12. CASE /\ checkPreRequestHeader(h)
            /\ horcruxes' = [horcruxes EXCEPT ![c] = [i \in 0..(h.mNumHorcruxes - 1) |-> None]]
            /\ sendResponse(c, TRUE, "respondThenReadRequestHeader")
  <2>1. pending'[c] = "respondThenReadRequestHeader"
    BY <1>12 DEF sendResponse, TypeOK
  <2>2. Stream(k, 2)'
    <3>1. Stream(k, 0 + 2)'
      BY <1>2, <1>4, <1>8, <1>9, <2>1, StreamTaken
    <3> QED BY <3>1, SMTT(60)
  <2>3. Stream(k, Mark(k, 0))'
    <3>1. Mark(k, 0)' = 2
      BY <1>2, <1>9, StreamParts DEF Mark
    <3> QED BY <2>2, <3>1
  <2>4. Answers(k, 1 + 0)'
    <3>1. replies' = [replies EXCEPT ![c] = Append(@, "SUCCESS")]
      BY <1>12 DEF sendResponse
    <3>2. Answers(k, 0 + 1)'
      BY <1>2, <1>4, <1>8, <1>9, <3>1, Answered
    <3> QED BY <3>2, SMTT(60)
  <2>5. horcruxes'[c] = [i \in 0..(Len(upload'[k]) - 1) |-> IF i < 0 THEN upload'[k][i + 1] ELSE None]
    <3>1. horcruxes'[c] = [i \in 0..(h.mNumHorcruxes - 1) |-> None]
      BY <1>12 DEF TypeOK
    <3>2. h.mNumHorcruxes = Len(upload'[k])
      BY <1>5, <1>7, <1>9 DEF preHeader
    <3>3. Len(upload'[k]) \in Nat
      BY <1>2, <1>9, StreamParts
    <3> QED BY <3>1, <3>2, <3>3, SMTT(60)
  <2>6. preRequestHeader'[c] = preHeader(uuid'[k], upload'[k])
    BY <1>5, <1>7, <1>9 DEF ReadPreRequestHeader, TypeOK
  <2>7. InTransfer(c, k, 0)'
    BY <1>4, <1>9, <2>1, <2>3, <2>4, <2>5, <2>6, SMTT(60) DEF InTransfer
  <2>8. Session(c, k)'
    <3>1. 0 \in 0..Len(upload'[k])
      BY <1>2, <1>9, StreamParts, SMTT(60)
    <3> QED BY <2>1, <2>7, <3>1 DEF Session
  <2> QED BY <1>1, <1>2, <1>3, <1>6, <1>7, <1>10, <2>1, <2>8, SocketStep
<1>13. CASE ~checkPreRequestHeader(h) /\ sendResponse(c, FALSE, "respondThenStop")
  <2>1. pending'[c] = "respondThenStop"
    BY <1>13 DEF sendResponse, TypeOK
  <2>2. at[k] \in {"readPreResponse", "end", "done"}
    <3>1. ~Over(k) => Len(toServer[k]) = Written(k) /\ Len(toClient[k]) = 2 * (0 - Taken(k))
      BY <1>2, <1>4, <1>11, SMTT(60) DEF Stream, Answers
    <3>2. at[k] \notin {"connect", "getHorcruxes", "sendPreRequest"}
      BY <1>2, <3>1, SMTT(60) DEF Over, Written
    <3>3. at[k] \notin {"sendHeader", "sendContent", "readResponse"}
      <4>1. Len(toClient[k]) \in Nat
        BY <1>2, SMTT(60) DEF ClientType
      <4> QED BY <1>11, <3>1, <4>1, SMTT(60) DEF Over, Taken
    <3>4. at[k] \in Place
      BY <1>2 DEF ClientType
    <3> QED BY <3>2, <3>3, <3>4 DEF Place
  <2>3. ASSUME at[k] = "readPreResponse" PROVE toClient'[k] = Response("FAILURE")
    <3>1. ~Over(k) /\ Taken(k) = 0
      BY <2>3 DEF Over, Taken
    <3>2. toClient[k] \in Seq({"SUCC", "ESS", "FAIL", "URE"}) /\ Len(toClient[k]) = 0
      BY <1>2, <1>4, <1>11, <3>1, SMTT(60) DEF Answers, ClientType
    <3>3. toClient[k] = <<>>
      BY <3>2, SMTT(60)
    <3>4. replies' = [replies EXCEPT ![c] = Append(@, "FAILURE")]
      BY <1>13 DEF sendResponse
    <3>5. toClient'[k] = <<>> \o Response("FAILURE")
      BY <1>2, <1>8, <3>1, <3>3, <3>4, ReplySent
    <3> QED BY <3>5, SMTT(60) DEF Response
  <2>4. Rejected(k)'
    BY <1>9, <1>11, <2>2, <2>3 DEF Rejected
  <2>5. Session(c, k)'
    BY <2>1, <2>4 DEF Session
  <2> QED BY <1>1, <1>2, <1>3, <1>6, <1>7, <1>10, <2>1, <2>5, SocketStep
<1> QED BY <1>12, <1>13 DEF ReadPreRequestHeader

-----------------------------------------------------------------------------
\* The client served by c, where c has taken in j of its Horcruxes.
LEMMA Served ==
  ASSUME SystemInv, NEW c \in Connection,
         pending[c] \notin {"none", "accept", "ReadPreRequestHeader", "respondThenStop"}
  PROVE  \E k \in Client, j \in Nat :
           /\ k = peer[c] /\ k # None
           /\ j \in 0..Len(upload[k])
           /\ InTransfer(c, k, j)
<1>1. peer[c] # None /\ peer[c] \in Client
  BY DEF SystemInv, Links, ClientType
<1>2. PICK j \in 0..Len(upload[peer[c]]) : InTransfer(c, peer[c], j)
  BY <1>1 DEF SystemInv, Session
<1>3. j \in Nat
  BY <1>1, StreamParts, SMTT(60) DEF SystemInv
<1> QED BY <1>1, <1>2, <1>3

LEMMA ReadRequestHeaderStep ==
  ASSUME TypeOK, SystemInv, NEW c \in Connection, Arrived(c, 2), Socket(c, 2),
         NEW h \in deserializeHeader(First(toServer[peer[c]], 2), RequestHeader),
         ReadRequestHeader(c, h)
  PROVE  SystemInv' /\ h \in RequestHeader
<1>1. pending[c] = "ReadRequestHeader"
  BY DEF ReadRequestHeader, Runs
<1>2. PICK k \in Client, j \in Nat : /\ k = peer[c] /\ k # None
                                     /\ j \in 0..Len(upload[k])
                                     /\ InTransfer(c, k, j)
  BY <1>1, Served
<1>3. ClientType /\ 2 <= Len(toServer[k]) /\ Len(toServer[k]) \in Nat /\ Len(upload[k]) \in Nat
  BY <1>2, StreamType, StreamParts DEF Arrived, SystemInv
<1>4. PICK n : n = Mark(k, j)
  OBVIOUS
<1>5. /\ n \in Nat
      /\ preRequestHeader[c] = preHeader(uuid[k], upload[k])
      /\ horcruxes[c] = [i \in 0..(Len(upload[k]) - 1) |-> IF i < j THEN upload[k][i + 1] ELSE None]
      /\ Stream(k, n) /\ Answers(k, 1 + j)
      /\ \A i \in DOMAIN results[k] : (\A x \in 1..i : results[k][x]) => i <= j
  BY <1>1, <1>2, <1>3, <1>4, StreamParts DEF InTransfer
<1>6. n + 2 <= Len(Full(k)) /\ First(toServer[k], 2) = SubSeq(Full(k), n + 1, n + 2)
  BY <1>3, <1>5, StreamTaken
<1>7. j < Len(upload[k])
  <2>1. j = Len(upload[k]) => n = Len(Full(k))
    BY <1>3, <1>4, StreamParts
  <2>2. Len(Full(k)) \in Nat
    BY <1>3, StreamParts
  <2> QED BY <1>2, <1>3, <1>5, <1>6, <2>1, <2>2, SMTT(60)
<1>8. j \in 0..(Len(upload[k]) - 1)
  BY <1>2, <1>3, <1>7, SMTT(60)
<1>9. PICK g : g = header(uuid[k], upload[k], j)
  OBVIOUS
<1>10. g \in RequestHeader
  BY <1>3, <1>8, <1>9, HeadersFit DEF ClientType
<1>11. h = g
  <2>1. First(toServer[k], 2) = serializeHeader(g)
    BY <1>3, <1>4, <1>6, <1>8, <1>9, StreamParts
  <2> QED BY <1>2, <1>10, <2>1, Deserialized
<1>12. checkRequestHeader(c, h)
  <2>1. h.mUuid = uuid[k] /\ h.mIndex = j /\ preRequestHeader[c].mUuid = uuid[k]
    BY <1>5, <1>9, <1>11, SMTT(60) DEF header, preHeader
  <2>2. j \in DOMAIN horcruxes[c] /\ horcruxes[c][j] = None
    BY <1>3, <1>5, <1>8, SMTT(60)
  <2> QED BY <2>1, <2>2 DEF checkRequestHeader
<1>13. /\ requestHeader' = [requestHeader EXCEPT ![c] = h]
       /\ pending' = [pending EXCEPT ![c] = "ReadRequestContent"]
       /\ UNCHANGED <<replies, preRequestHeader, horcruxes>>
  BY <1>12 DEF ReadRequestHeader
<1>14. pending'[c] = "ReadRequestContent" /\ requestHeader'[c] = g
  BY <1>11, <1>13 DEF TypeOK
<1>15. \A d \in Connection \ {c} : SameServer(d)
  BY <1>13 DEF SameServer, TypeOK
<1>16. /\ \A l \in Client : SameClient(l)
       /\ toClient'[k] = IF clientClosed[k] THEN toClient[k] ELSE toClient[k] \o Reply(c)
       /\ pending'[c] # "none" => toServer'[k] = Rest(toServer[k], 2)
  BY <1>2, <1>3, SocketEffect, SMTT(60)
<1>17. /\ at'[k] = at[k] /\ sent'[k] = sent[k] /\ upload'[k] = upload[k] /\ uuid'[k] = uuid[k]
       /\ results'[k] = results[k] /\ toClient'[k] = toClient[k]
  <2>1. replies'[c] = replies[c]
    BY <1>13
  <2>2. toClient'[k] = toClient[k]
    BY <1>16, <2>1, NoReply
  <2> QED BY <1>16, <2>2 DEF SameClient
<1>18. Stream(k, n + 2)'
  BY <1>3, <1>5, <1>14, <1>16, <1>17, StreamTaken
<1>19. Stream(k, Mark(k, j) + 2)'
  <2>1. Mark(k, j)' = n
    BY <1>4, <1>17 DEF Mark
  <2> QED BY <1>18, <2>1
<1>20. Answers(k, 1 + j)'
  <2>1. Over(k)' = Over(k) /\ AllTrue(k)' = AllTrue(k) /\ Taken(k)' = Taken(k)
    BY <1>17 DEF Over, AllTrue, Taken
  <2> QED BY <1>5, <1>17, <2>1 DEF Answers
<1>21. InTransfer(c, k, j)'
  BY <1>5, <1>7, <1>9, <1>13, <1>14, <1>17, <1>19, <1>20 DEF InTransfer
<1>22. Session(c, k)'
  BY <1>2, <1>14, <1>17, <1>21 DEF Session
<1> QED BY <1>1, <1>2, <1>3, <1>10, <1>11, <1>14, <1>15, <1>22, SocketStep

LEMMA ReadRequestContentStep ==
  ASSUME TypeOK, SystemInv, NEW c \in Connection,
         Arrived(c, requestHeader[c].mContentSize), Socket(c, requestHeader[c].mContentSize),
         ReadRequestContent(c, First(toServer[peer[c]], requestHeader[c].mContentSize))
  PROVE  /\ SystemInv'
         /\ First(toServer[peer[c]], requestHeader[c].mContentSize)
              \in [1..requestHeader[c].mContentSize -> Byte]
<1>1. pending[c] = "ReadRequestContent"
  BY DEF ReadRequestContent, Runs
<1>2. PICK k \in Client, j \in Nat : /\ k = peer[c] /\ k # None
                                     /\ j \in 0..Len(upload[k])
                                     /\ InTransfer(c, k, j)
  BY <1>1, Served
<1>3. ClientType /\ Len(toServer[k]) \in Nat /\ Len(upload[k]) \in Nat /\ upload[k] \in Seq(Seq(Byte))
        /\ uuid[k] \in Uuid /\ upload[k] \in Upload
  BY <1>2, StreamType, StreamParts DEF SystemInv, ClientType
<1>4. PICK n : n = Mark(k, j) + 2
  OBVIOUS
<1>5. PICK m : m = requestHeader[c].mContentSize
  OBVIOUS
<1>6. /\ n \in Nat
      /\ j < Len(upload[k])
      /\ requestHeader[c] = header(uuid[k], upload[k], j)
      /\ preRequestHeader[c] = preHeader(uuid[k], upload[k])
      /\ horcruxes[c] = [i \in 0..(Len(upload[k]) - 1) |-> IF i < j THEN upload[k][i + 1] ELSE None]
      /\ Stream(k, n) /\ Answers(k, 1 + j)
      /\ \A i \in DOMAIN results[k] : (\A x \in 1..i : results[k][x]) => i <= j
  BY <1>1, <1>2, <1>3, <1>4, StreamParts, SMTT(60) DEF InTransfer
<1>7. j \in 0..(Len(upload[k]) - 1) /\ j + 1 \in 0..Len(upload[k]) /\ j + 1 \in 1..Len(upload[k])
  BY <1>3, <1>6, SMTT(60)
<1>8. PICK content : content = upload[k][j + 1]
  OBVIOUS
<1>9. content \in Seq(Byte) /\ m = Len(content) /\ m \in Nat
  <2>1. m = header(uuid[k], upload[k], j).mContentSize
    BY <1>5, <1>6
  <2>2. m = Len(content)
    BY <1>3, <1>7, <1>8, <2>1, HeadersFit
  <2>3. PICK u \in Seq(Seq(Byte)) : \E i \in 1..Len(u) : content = u[i]
    BY <1>3, <1>7, <1>8
  <2>4. content \in Seq(Byte) /\ Len(content) \in Nat
    BY <2>3, SMTT(60)
  <2> QED BY <2>2, <2>4
<1>10. m <= Len(toServer[k])
  BY <1>2, <1>3, <1>5, <1>9 DEF Arrived
<1>11. First(toServer[k], m) = content /\ n + m = Mark(k, j + 1)
  <2>1. First(toServer[k], m) = SubSeq(Full(k), n + 1, n + m)
    BY <1>3, <1>6, <1>9, <1>10, StreamTaken
  <2>2. /\ Mark(k, j + 1) = Mark(k, j) + 2 + Len(content)
        /\ SubSeq(Full(k), Mark(k, j) + 2 + 1, Mark(k, j + 1)) = content
    BY <1>3, <1>7, <1>8, StreamParts
  <2>3. Mark(k, j + 1) = n + m
    BY <1>4, <1>9, <2>2
  <2> QED BY <1>4, <2>1, <2>2, <2>3
<1>12. content \in [1..m -> Byte]
  BY <1>9, SMTT(60)
<1>13. PICK next \in {"respondThenSave", "respondThenReadRequestHeader"} :
         /\ horcruxes' = [horcruxes EXCEPT ![c][requestHeader[c].mIndex] = content]
         /\ sendResponse(c, TRUE, next)
         /\ UNCHANGED <<preRequestHeader, requestHeader>>
  BY <1>2, <1>5, <1>11 DEF ReadRequestContent
<1>14. /\ pending'[c] = next /\ replies' = [replies EXCEPT ![c] = Append(@, "SUCCESS")]
  BY <1>13 DEF sendResponse, TypeOK
<1>15. \A d \in Connection \ {c} : SameServer(d)
  BY <1>13 DEF SameServer, sendResponse, TypeOK
<1>16. /\ \A l \in Client : SameClient(l)
       /\ toClient'[k] = IF clientClosed[k] THEN toClient[k] ELSE toClient[k] \o Reply(c)
       /\ pending'[c] # "none" => toServer'[k] = Rest(toServer[k], m)
  <2>1. ClientType /\ m \in Nat /\ Socket(c, m) /\ k = peer[c] /\ m <= Len(toServer[k])
    BY <1>2, <1>3, <1>5, <1>9, <1>10
  <2> QED BY <2>1, SocketEffect
<1>17. /\ at'[k] = at[k] /\ sent'[k] = sent[k] /\ upload'[k] = upload[k] /\ uuid'[k] = uuid[k]
       /\ results'[k] = results[k]
  BY <1>16 DEF SameClient
<1>18. Stream(k, n + m)'
  BY <1>3, <1>6, <1>9, <1>10, <1>14, <1>16, <1>17, StreamTaken
<1>19. Stream(k, Mark(k, j + 1))'
  <2>1. Mark(k, j + 1)' = n + m
    BY <1>11, <1>17 DEF Mark
  <2> QED BY <1>18, <2>1
<1>20. Answers(k, 1 + (j + 1))'
  <2>1. 1 + j \in Nat /\ (1 + j) + 1 = 1 + (j + 1)
    BY SMTT(60)
  <2>2. Answers(k, (1 + j) + 1)'
    BY <1>6, <1>14, <1>16, <2>1, Answered
  <2> QED BY <2>1, <2>2
<1>21. horcruxes'[c] = [i \in 0..(Len(upload'[k]) - 1) |-> IF i < j + 1 THEN upload'[k][i + 1] ELSE None]
  <2>1. requestHeader[c].mIndex = j
    BY <1>6, SMTT(60) DEF header
  <2>2. horcruxes'[c] = [horcruxes[c] EXCEPT ![j] = content]
    BY <1>13, <2>1 DEF TypeOK
  <2>3. ASSUME NEW i \in 0..(Len(upload[k]) - 1)
        PROVE  [horcruxes[c] EXCEPT ![j] = content][i] = IF i < j + 1 THEN upload[k][i + 1] ELSE None
    <3>1. CASE i = j
      BY <1>3, <1>6, <1>8, <3>1, SMTT(60)
    <3>2. CASE i # j
      <4>1. i < j + 1 <=> i < j
        BY <1>3, <3>2, SMTT(60)
      <4> QED BY <1>6, <3>2, <4>1
    <3> QED BY <3>1, <3>2
  <2>4. DOMAIN [horcruxes[c] EXCEPT ![j] = content] = 0..(Len(upload[k]) - 1)
    BY <1>6
  <2>5. [horcruxes[c] EXCEPT ![j] = content]
          = [i \in 0..(Len(upload[k]) - 1) |-> IF i < j + 1 THEN upload[k][i + 1] ELSE None]
    BY <2>3, <2>4
  <2> QED BY <1>17, <2>2, <2>5
<1>22. \A i \in DOMAIN results'[k] : (\A x \in 1..i : results'[k][x]) => i <= j + 1
  <2>1. \A i \in DOMAIN results[k] : i <= j => i <= j + 1
    BY <1>2, <1>3, SMTT(60) DEF ClientType
  <2> QED BY <1>6, <1>17, <2>1
<1>23. InTransfer(c, k, j + 1)'
  BY <1>6, <1>13, <1>14, <1>17, <1>19, <1>20, <1>21, <1>22 DEF InTransfer
<1>24. Session(c, k)'
  BY <1>7, <1>14, <1>17, <1>23 DEF Session
<1>25. SystemInv'
  BY <1>1, <1>2, <1>5, <1>9, <1>10, <1>14, <1>15, <1>24, SocketStep
<1> QED BY <1>2, <1>5, <1>11, <1>12, <1>25

-----------------------------------------------------------------------------
(***************************************************************************)
(* The steps that read nothing: a handler that goes on to the next         *)
(* operation, or ends and with it the connection.                          *)
(***************************************************************************)
Busy == {"respondThenReadRequestHeader", "ReadRequestHeader", "respondThenSave"} \cup Saves

LEMMA HandlerStep ==
  ASSUME TypeOK, SystemInv, NEW c \in Connection, Socket(c, 0),
         pending[c] \in Busy, pending'[c] \in Busy,
         preRequestHeader'[c] = preRequestHeader[c], horcruxes'[c] = horcruxes[c],
         replies'[c] = replies[c],
         \A d \in Connection \ {c} : SameServer(d)
  PROVE  SystemInv'
<1>1. pending[c] \notin {"none", "accept", "ReadPreRequestHeader", "ReadRequestContent", "respondThenStop"}
        /\ pending'[c] \notin {"none", "accept", "ReadPreRequestHeader", "ReadRequestContent", "respondThenStop"}
  BY DEF Busy, Saves
<1>2. PICK k \in Client, j \in Nat : /\ k = peer[c] /\ k # None
                                     /\ j \in 0..Len(upload[k])
                                     /\ InTransfer(c, k, j)
  BY <1>1, Served
<1>3. ClientType /\ toServer[k] \in Seq(Cell) /\ 0 <= Len(toServer[k])
  BY StreamType, SMTT(60) DEF SystemInv
<1>4. /\ \A l \in Client : SameClient(l)
      /\ toClient'[k] = IF clientClosed[k] THEN toClient[k] ELSE toClient[k] \o Reply(c)
      /\ toServer'[k] = Rest(toServer[k], 0)
  BY <1>1, <1>2, <1>3, SocketEffect, SMTT(60)
<1>5. toServer'[k] = toServer[k]
  BY <1>3, <1>4, SMTT(60) DEF Rest
<1>6. /\ at'[k] = at[k] /\ sent'[k] = sent[k] /\ upload'[k] = upload[k] /\ uuid'[k] = uuid[k]
      /\ results'[k] = results[k] /\ toClient'[k] = toClient[k]
  BY <1>4, NoReply DEF SameClient
<1>7. /\ Over(k)' = Over(k) /\ AllTrue(k)' = AllTrue(k) /\ Taken(k)' = Taken(k)
      /\ Written(k)' = Written(k) /\ Mark(k, j)' = Mark(k, j)
  BY <1>6 DEF Over, AllTrue, Taken, Written, Mark
<1>8. Stream(k, Mark(k, j))'
  <2>1. PICK n : n = Mark(k, j)
    OBVIOUS
  <2>2. Stream(k, n)
    BY <1>1, <1>2, <2>1 DEF InTransfer
  <2>3. Stream(k, n)'
    BY <1>5, <1>6, <1>7, <2>2, StreamKept
  <2> QED BY <1>7, <2>1, <2>3
<1>9. Answers(k, 1 + j)'
  BY <1>2, <1>6, <1>7 DEF InTransfer, Answers
<1>10. InTransfer(c, k, j)'
  BY <1>1, <1>2, <1>6, <1>8, <1>9 DEF InTransfer
<1>11. Session(c, k)'
  BY <1>1, <1>2, <1>6, <1>10 DEF Session
<1> QED BY <1>1, <1>2, <1>3, <1>11, SocketStep

LEMMA DestroyStep ==
  ASSUME TypeOK, SystemInv, NEW c \in Connection, Socket(c, 0), Destroy(c),
         pending[c] \notin {"none", "accept"}
  PROVE  SystemInv'
<1>1. PICK k : k = peer[c]
  OBVIOUS
<1>2. pending'[c] = "none" /\ \A d \in Connection \ {c} : SameServer(d)
  BY DEF Destroy, TypeOK, SameServer
<1>3. k \in Client /\ k # None
  BY <1>1, SMTT(60) DEF SystemInv, Links, ClientType
<1>4. 0 <= Len(toServer[k])
  BY <1>3, StreamType, SMTT(60) DEF SystemInv
<1> QED BY <1>1, <1>2, <1>4, SocketStep

LEMMA NextHorcruxStep ==
  ASSUME TypeOK, SystemInv, NEW c \in Connection, Socket(c, 0), NextHorcrux(c), pending[c] \in Saves
  PROVE  SystemInv'
<1>1. CASE Destroy(c)
  BY <1>1, DestroyStep DEF Saves
<1>2. CASE /\ counter' = [counter EXCEPT ![c] = @ + 1]
           /\ pending' = [pending EXCEPT ![c] = "openFile"]
           /\ UNCHANGED <<preRequestHeader, requestHeader, horcruxes, replies>>
  <2>1. pending'[c] = "openFile" /\ \A d \in Connection \ {c} : SameServer(d)
    BY <1>2 DEF TypeOK, SameServer
  <2>2. pending[c] \in Busy /\ pending'[c] \in Busy
    BY <2>1 DEF Busy, Saves
  <2> QED BY <1>2, <2>1, <2>2, HandlerStep
<1> QED BY <1>1, <1>2 DEF NextHorcrux

LEMMA MoveOnStep ==
  ASSUME TypeOK, SystemInv, NEW c \in Connection, Socket(c, 0), NEW next \in Busy,
         pending[c] \in Busy, pending' = [pending EXCEPT ![c] = next], UNCHANGED connVars
  PROVE  SystemInv'
<1>1. pending'[c] = next /\ \A d \in Connection \ {c} : SameServer(d)
  BY DEF TypeOK, SameServer, connVars
<1>2. preRequestHeader'[c] = preRequestHeader[c] /\ horcruxes'[c] = horcruxes[c] /\ replies'[c] = replies[c]
  BY DEF connVars
<1> QED BY <1>1, <1>2, HandlerStep

LEMMA HandleStep ==
  ASSUME TypeOK, SystemInv, NEW c \in Connection, Handle(c) \/ DiskFails(c) \/ Lose(c)
  PROVE  SystemInv'
<1>1. Socket(c, 0)
  BY DEF Handle, DiskFails, Lose
<1>2. CASE writeHandler(c)
  <2>1. CASE pending[c] = "respondThenReadRequestHeader"
              /\ pending' = [pending EXCEPT ![c] = "ReadRequestHeader"] /\ UNCHANGED connVars
    BY <1>1, <2>1, MoveOnStep DEF Busy
  <2>2. CASE pending[c] = "respondThenSave"
              /\ pending' = [pending EXCEPT ![c] = "openFile"] /\ UNCHANGED connVars
    BY <1>1, <2>2, MoveOnStep DEF Busy, Saves
  <2>3. CASE pending[c] = "respondThenStop" /\ Destroy(c)
    BY <1>1, <2>3, DestroyStep
  <2> QED BY <1>2, <2>1, <2>2, <2>3 DEF writeHandler, Runs
<1>3. CASE openFile(c)
  <2>1. CASE /\ pending' = [pending EXCEPT ![c] = "writeFile"]
             /\ UNCHANGED connVars
    BY <1>1, <1>3, <2>1, MoveOnStep DEF Busy, Saves, openFile
  <2>2. CASE NextHorcrux(c)
    BY <1>1, <1>3, <2>2, NextHorcruxStep DEF Saves, openFile
  <2> QED BY <1>3, <2>1, <2>2 DEF openFile
<1>4. CASE writeFile(c) \/ openFails(c) \/ writeFails(c)
  BY <1>1, <1>4, NextHorcruxStep DEF Saves, writeFile, openFails, writeFails
<1>5. CASE ReadError(c)
  BY <1>1, <1>5, DestroyStep DEF ReadError, Runs, Reads
<1> QED BY <1>2, <1>3, <1>4, <1>5 DEF Handle, DiskFails, Lose

-----------------------------------------------------------------------------
\* Nothing happens to the clients, and nothing to the connections that have one.
LEMMA IdleStep ==
  ASSUME SystemInv, UNCHANGED <<clientVars, netVars>>,
         \A d \in Connection : \/ SameServer(d)
                               \/ {pending[d], pending'[d]} \subseteq {"none", "accept"}
  PROVE  SystemInv'
<1>1. UNCHANGED <<at, upload, uuid, sent, results, backlog, peer, toServer, toClient,
                  clientClosed, serverClosed, reset>>
  BY DEF clientVars, netVars
<1>2. ClientType'
  BY <1>1 DEF SystemInv, ClientType
<1>3. \A k : SameClient(k) /\ SameSocket(k)
  BY <1>1 DEF SameClient, SameSocket
<1>4. \A k \in Client : Progress(k)'
  BY <1>3, ClientFrame DEF SystemInv
<1>5. /\ \A k : Live(k) => Live(k)'
      /\ \A k : Unread(k) => Unread(k)'
  BY <1>3, ClientFrame
<1>6. \A d \in Connection : /\ pending'[d] \in {"none", "accept"} <=> pending[d] \in {"none", "accept"}
                            /\ pending[d] \notin {"none", "accept"} => SameServer(d)
  BY DEF SameServer
<1>7. Links'
  <2>1. \A d \in Connection : peer'[d] # None => Live(peer[d])'
    <3>1. SUFFICES ASSUME NEW d \in Connection, NEW l, l = peer'[d], l # None PROVE Live(l)'
      OBVIOUS
    <3>2. Live(l)
      BY <1>1, <3>1 DEF SystemInv, Links
    <3> QED BY <1>5, <3>2
  <2>2. \A i \in DOMAIN backlog' : Live(backlog[i])'
    <3>1. SUFFICES ASSUME NEW i \in DOMAIN backlog, NEW l, l = backlog'[i] PROVE Live(l)'
      BY <1>1
    <3>2. Live(l)
      BY <1>1, <3>1 DEF SystemInv, Links
    <3> QED BY <1>5, <3>2
  <2> QED BY <1>1, <1>6, <2>1, <2>2 DEF SystemInv, Links
<1>8. \A d \in Connection : peer'[d] # None => Session(d, peer[d])'
  <2>1. SUFFICES ASSUME NEW d \in Connection, NEW l, l = peer'[d], l # None PROVE Session(d, l)'
    OBVIOUS
  <2>2. Session(d, l) /\ SameServer(d)
    BY <1>1, <1>6, <2>1 DEF SystemInv, Links
  <2> QED BY <1>3, <2>2, SessionKept
<1>9. \A i \in DOMAIN backlog' : Unread(backlog[i])'
  <2>1. SUFFICES ASSUME NEW i \in DOMAIN backlog, NEW l, l = backlog'[i] PROVE Unread(l)'
    BY <1>1
  <2>2. Unread(l)
    BY <1>1, <2>1 DEF SystemInv
  <2> QED BY <1>5, <2>2
<1> QED BY <1>2, <1>4, <1>7, <1>8, <1>9 DEF SystemInv

-----------------------------------------------------------------------------
LEMMA AcceptStep ==
  ASSUME TypeOK, SystemInv, NEW c \in Connection, Accept(c)
  PROVE  SystemInv'
<1>1. ClientType /\ Links /\ backlog \in Seq(Client) /\ backlog # <<>>
  BY DEF SystemInv, ClientType, Accept
<1>2. PICK n \in Connection : handle_accept(c, n, FALSE)
  BY DEF Accept
<1>3. /\ pending[c] = "accept" /\ pending[n] = "none" /\ n # c
      /\ pending'[c] = "ReadPreRequestHeader" /\ pending'[n] = "accept"
      /\ \A d \in Connection \ {c, n} : SameServer(d)
  BY <1>2 DEF handle_accept, Runs, connVars, TypeOK, SameServer
<1>4. PICK k : k = Head(backlog)
  OBVIOUS
<1>5. /\ k \in Client /\ 1 \in DOMAIN backlog /\ k = backlog[1]
      /\ backlog' \in Seq(Client)
      /\ \A i \in DOMAIN backlog' : i + 1 \in DOMAIN backlog /\ backlog'[i] = backlog[i + 1] /\ i + 1 # 1
      /\ \A i, j \in DOMAIN backlog' : i + 1 = j + 1 => i = j
  BY <1>1, <1>4, SMTT(60) DEF Accept
<1>6. /\ peer' = [peer EXCEPT ![c] = k]
      /\ UNCHANGED <<at, upload, uuid, sent, results, toServer, toClient, clientClosed, serverClosed, reset>>
  BY <1>4 DEF Accept, clientVars
<1>7. peer'[c] = k /\ \A d \in Connection \ {c} : peer'[d] = peer[d]
  BY <1>1, <1>6 DEF ClientType
<1>8. ClientType'
  <2>1. peer' \in [Connection -> Client \cup {None}]
    BY <1>1, <1>5, <1>6 DEF ClientType
  <2> QED BY <1>1, <1>5, <1>6, <2>1 DEF ClientType
<1>9. \A l : SameClient(l) /\ SameSocket(l)
  BY <1>6 DEF SameClient, SameSocket
<1>10. \A l \in Client : Progress(l)'
  BY <1>9, ClientFrame DEF SystemInv
<1>11. /\ \A l : Live(l) => Live(l)'
       /\ \A l : Unread(l) => Unread(l)'
  BY <1>9, ClientFrame
<1>12. k # None /\ peer[n] = None /\ \A d \in Connection : peer[d] # k
  <2>1. k # None
    BY <1>5, SystemAssumption
  <2> QED BY <1>1, <1>3, <1>5, <2>1 DEF Links
<1>13. Links'
  <2>1. \A d \in Connection : peer'[d] # None <=> pending'[d] \notin {"none", "accept"}
    <3>1. \A d \in Connection \ {c, n} : pending'[d] = pending[d] /\ peer'[d] = peer[d]
      BY <1>3, <1>7 DEF SameServer
    <3> QED BY <1>1, <1>3, <1>7, <1>12, <3>1 DEF Links
  <2>2. \A d, e \in Connection : peer'[d] # None /\ peer'[d] = peer'[e] => d = e
    BY <1>1, <1>7, <1>12, SMTT(60) DEF Links
  <2>3. \A i, j \in DOMAIN backlog' : backlog'[i] = backlog'[j] => i = j
    BY <1>1, <1>5, SMTT(60) DEF Links
  <2>4. \A i \in DOMAIN backlog', d \in Connection : peer'[d] # backlog'[i]
    BY <1>1, <1>5, <1>7, SMTT(60) DEF Links
  <2>5. \A d \in Connection : peer'[d] # None => Live(peer[d])'
    <3>1. SUFFICES ASSUME NEW d \in Connection, NEW l, l = peer'[d], l # None PROVE Live(l)'
      OBVIOUS
    <3>2. Live(l)
      BY <1>1, <1>5, <1>7, <3>1 DEF Links
    <3> QED BY <1>11, <3>2
  <2>6. \A i \in DOMAIN backlog' : Live(backlog[i])'
    <3>1. SUFFICES ASSUME NEW i \in DOMAIN backlog', NEW l, l = backlog'[i] PROVE Live(l)'
      OBVIOUS
    <3>2. Live(l)
      BY <1>1, <1>5, <3>1 DEF Links
    <3> QED BY <1>11, <3>2
  <2> QED BY <2>1, <2>2, <2>3, <2>4, <2>5, <2>6 DEF Links
<1>14. \A d \in Connection : peer'[d] # None => Session(d, peer[d])'
  <2>1. SUFFICES ASSUME NEW d \in Connection, NEW l, l = peer'[d], l # None PROVE Session(d, l)'
    OBVIOUS
  <2>2. CASE d = c
    <3>1. l = k /\ Unread(k)
      BY <1>5, <1>7, <2>1, <2>2 DEF SystemInv
    <3>2. Unread(l)'
      BY <1>11, <3>1
    <3> QED BY <1>3, <2>2, <3>2 DEF Session
  <2>3. CASE d # c
    <3>1. Session(d, l) /\ SameServer(d)
      <4>1. d # n
        BY <1>7, <1>12, <2>1, <2>3
      <4> QED BY <1>3, <1>7, <2>1, <2>3, <4>1 DEF SystemInv
    <3> QED BY <1>9, <3>1, SessionKept
  <2> QED BY <2>2, <2>3
<1>15. \A i \in DOMAIN backlog' : Unread(backlog[i])'
  <2>1. SUFFICES ASSUME NEW i \in DOMAIN backlog', NEW l, l = backlog'[i] PROVE Unread(l)'
    OBVIOUS
  <2>2. Unread(l)
    BY <1>5, <2>1 DEF SystemInv
  <2> QED BY <1>11, <2>2
<1> QED BY <1>8, <1>10, <1>13, <1>14, <1>15 DEF SystemInv

LEMMA AcceptFailsStep ==
  ASSUME TypeOK, SystemInv, NEW c \in Connection,
         \/ AcceptFails(c)
         \/ ServerRestart(c) /\ pending[c] = "none"
  PROVE  SystemInv'
<1>1. UNCHANGED <<clientVars, netVars>>
  BY DEF AcceptFails, ServerRestart
<1>2. CASE AcceptFails(c)
  <2>1. PICK n \in Connection : handle_accept(c, n, TRUE)
    BY <1>2 DEF AcceptFails
  <2>2. \A d \in Connection : \/ SameServer(d)
                              \/ {pending[d], pending'[d]} \subseteq {"none", "accept"}
    BY <2>1 DEF handle_accept, Runs, connVars, TypeOK, SameServer
  <2> QED BY <1>1, <2>2, IdleStep
<1>3. CASE ServerRestart(c) /\ pending[c] = "none"
  <2>1. \A d \in Connection : \/ SameServer(d)
                              \/ {pending[d], pending'[d]} \subseteq {"none", "accept"}
    BY <1>3 DEF ServerRestart, Restart, connVars, TypeOK, SameServer
  <2> QED BY <1>1, <2>1, IdleStep
<1> QED BY <1>2, <1>3

LEMMA CrashStep ==
  ASSUME TypeOK, SystemInv, ServerCrash
  PROVE  SystemInv'
<1>1. ClientType
  BY DEF SystemInv
<1>2. /\ peer' = [c \in Connection |-> None] /\ backlog' = <<>>
      /\ toServer' = [k \in Client |-> <<>>]
      /\ pending' = [c \in Connection |-> "none"]
      /\ UNCHANGED <<at, upload, uuid, sent, results, toClient, clientClosed>>
  BY DEF ServerCrash, Crash, clientVars
<1>3. PICK lost : lost = {k \in Client : at[k] # "connect" /\ ~clientClosed[k] /\ ~serverClosed[k]}
  OBVIOUS
<1>4. /\ serverClosed' = [k \in Client |-> serverClosed[k] \/ k \in lost]
      /\ reset' = [k \in Client |-> reset[k] \/ (k \in lost /\ toServer[k] # <<>>)]
  BY <1>3 DEF ServerCrash
<1>5. ClientType'
  <2>1. serverClosed' \in [Client -> BOOLEAN] /\ reset' \in [Client -> BOOLEAN]
    BY <1>1, <1>4 DEF ClientType
  <2>2. toServer' \in [Client -> Seq(Cell)] /\ peer' \in [Connection -> Client \cup {None}]
          /\ backlog' \in Seq(Client)
    BY <1>2, SMTT(60)
  <2> QED BY <1>1, <1>2, <2>1, <2>2 DEF ClientType
<1>6. \A k \in Client : Progress(k)'
  <2>1. SUFFICES ASSUME NEW k \in Client PROVE Progress(k)'
    OBVIOUS
  <2>2. at[k] = "connect" => /\ toServer'[k] = <<>> /\ toClient'[k] = <<>>
                             /\ ~reset'[k] /\ ~serverClosed'[k]
    BY <1>2, <1>3, <1>4 DEF SystemInv, Progress
  <2> QED BY <1>2, <2>2 DEF SystemInv, Progress
<1>7. Links'
  BY <1>2, SMTT(60) DEF Links
<1> QED BY <1>2, <1>5, <1>6, <1>7, SMTT(60) DEF SystemInv

-----------------------------------------------------------------------------
LEMMA SystemInitInv == ASSUME SystemInit PROVE SystemInv
<1>1. ClientType
  BY SystemAssumption, SMTT(60) DEF SystemInit, ClientType, Place
<1>2. \A k \in Client : Progress(k)
  BY DEF SystemInit, Progress
<1>3. Links
  BY SMTT(60) DEF SystemInit, Init, Links
<1> QED BY <1>1, <1>2, <1>3, SMTT(60) DEF SystemInit, SystemInv
=============================================================================
