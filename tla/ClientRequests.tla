----------------------------- MODULE ClientRequests -----------------------------
(***************************************************************************)
(* What the client does before it sends: parseHorcruxCommand, loadFile,    *)
(* split (FileSplitter), PreRequestHeader::fromHorcruxes and               *)
(* Request::fromHorcruxes.  One action is a function or an iteration of a  *)
(* loop.  The UUID is drawn and passed through unchanged, and left out.    *)
(***************************************************************************)
EXTENDS FileSplitter

CONSTANTS
  Number,   \* the integers argv[3] may spell
  Text      \* an argv[3] that does not begin like a number

ASSUME RequestsAssumption == Number \subseteq Int /\ Text \notin Int

VARIABLES
  main,         \* where main of client.cpp is
  usage,        \* argc, argv[1] and argv[2] are as they should be
  count,        \* argv[3]
  readable,     \* argv[4] names a file that can be read
  mTotalSize,   \* of the PreRequestHeader
  mNumHorcruxes,
  requests      \* the vector Request::fromHorcruxes returns

ownVars == <<main, usage, count, readable, mTotalSize, mNumHorcruxes, requests>>
clientVars == <<vars, ownVars>>

\* The values of int32_t.
IntMax == UintMod \div 2 - 1
Int32 == (-IntMax - 1)..IntMax

ClientInit ==
  /\ main = "parse"
  /\ usage \in BOOLEAN
  /\ count \in Number \cup {Text}
  /\ readable \in BOOLEAN
  /\ binaryData \in Data
  /\ pc = "split" /\ mNumSplits = 0 /\ idx = 0 /\ horcruxes = <<>> /\ joined = <<>>
  /\ mTotalSize = 0
  /\ mNumHorcruxes = 0
  /\ requests = <<>>

-----------------------------------------------------------------------------
\* Faulty variant: the sign of the number is dropped.
toUint32_Absolute(n) == IF n < 0 THEN -n ELSE n

\* The conversion of an int to uint32_t.
toUint32(n) == n % UintMod

(***************************************************************************)
(* std::stoi throws invalid_argument, which is caught, or out_of_range,    *)
(* which nothing catches (main calls parse outside of its try block).      *)
(***************************************************************************)
parseHorcruxCommand ==
  /\ main = "parse"
  /\ \/ /\ ~usage \/ count = Text
        /\ main' = "exit"
        /\ UNCHANGED mNumSplits
     \/ /\ usage /\ count # Text /\ count \notin Int32
        /\ main' = "terminate"
        /\ UNCHANGED mNumSplits
     \/ /\ usage /\ count # Text /\ count \in Int32
        /\ main' = "getHorcruxes"
        /\ mNumSplits' = toUint32(count)
  /\ UNCHANGED <<pc, binaryData, idx, horcruxes, joined, usage, count, readable, mTotalSize, mNumHorcruxes, requests>>

\* loadFile: an empty optional becomes an empty vector, which ends main.
getHorcruxes ==
  /\ main = "getHorcruxes"
  /\ main' = IF readable THEN "split" ELSE "exit"
  /\ UNCHANGED <<vars, usage, count, readable, mTotalSize, mNumHorcruxes, requests>>

(***************************************************************************)
(* split, up to its return.  Its loop variable is an int32_t: counting it  *)
(* past IntMax is undefined, and nothing is said of what follows.          *)
(***************************************************************************)
Split ==
  /\ main = "split"
  /\ \/ split
     \/ idx < IntMax /\ splitIteration
  /\ main' = CASE pc' = "empty" -> "exit"
               [] pc' = "length_error" -> "caught"
               [] pc' = "joining" -> "preRequestHeader"
               [] OTHER -> "split"
  /\ mNumHorcruxes' = IF pc' = "joining" THEN Len(horcruxes') % UintMod ELSE mNumHorcruxes
  /\ UNCHANGED <<usage, count, readable, mTotalSize, requests>>

SplitOverflows ==
  /\ main = "split"
  /\ pc = "splitting" /\ idx = IntMax
  /\ main' = "undefined"
  /\ UNCHANGED <<vars, usage, count, readable, mTotalSize, mNumHorcruxes, requests>>

\* Faulty variant: the last Horcrux is not counted.
preRequestHeader_SkipsLast ==
  /\ main = "preRequestHeader"
  /\ mTotalSize' = (mTotalSize + (IF idx + 1 = Len(horcruxes) THEN 0 ELSE Len(horcruxes[idx + 1]))) % UintMod
  /\ IF idx + 1 = Len(horcruxes) THEN main' = "requests" /\ idx' = 0
                                 ELSE idx' = idx + 1 /\ UNCHANGED main
  /\ UNCHANGED <<pc, binaryData, mNumSplits, horcruxes, joined, usage, count, readable, mNumHorcruxes, requests>>

\* One iteration of PreRequestHeader::fromHorcruxes.
preRequestHeader ==
  /\ main = "preRequestHeader"
  /\ mTotalSize' = (mTotalSize + Len(horcruxes[idx + 1])) % UintMod
  /\ IF idx + 1 = Len(horcruxes) THEN main' = "requests" /\ idx' = 0
                                 ELSE idx' = idx + 1 /\ UNCHANGED main
  /\ UNCHANGED <<pc, binaryData, mNumSplits, horcruxes, joined, usage, count, readable, mNumHorcruxes, requests>>

\* Faulty variant: requests are numbered from 1.
Request_OneBased ==
  [mIndex |-> (Len(requests) + 1) % UintMod,
   mContentSize |-> Len(horcruxes[idx + 1]) % UintMod,
   mContent |-> horcruxes[idx + 1]]

Request ==
  [mIndex |-> Len(requests) % UintMod,
   mContentSize |-> Len(horcruxes[idx + 1]) % UintMod,
   mContent |-> horcruxes[idx + 1]]

\* One iteration of Request::fromHorcruxes, which moves the content out of the vector.
fromHorcruxes ==
  /\ main = "requests"
  /\ requests' = Append(requests, Request)
  /\ horcruxes' = [horcruxes EXCEPT ![idx + 1] = <<>>]
  /\ idx' = idx + 1
  /\ main' = IF idx + 1 = Len(horcruxes) THEN "send" ELSE main
  /\ UNCHANGED <<pc, binaryData, mNumSplits, joined, usage, count, readable, mTotalSize, mNumHorcruxes>>

Ended ==
  /\ main \in {"exit", "terminate", "caught", "undefined", "send"}
  /\ UNCHANGED clientVars

ClientNext ==
  \/ parseHorcruxCommand \/ getHorcruxes \/ Split \/ SplitOverflows
  \/ preRequestHeader \/ fromHorcruxes \/ Ended

ClientSpec == ClientInit /\ [][ClientNext]_clientVars

ClientFairSpec == ClientSpec /\ WF_clientVars(ClientNext)

-----------------------------------------------------------------------------
\* The contents of the requests, one after the other.
Payload ==
  LET upTo[i \in 0..Len(requests)] ==
        IF i = 0 THEN <<>> ELSE upTo[i - 1] \o requests[i].mContent
  IN upTo[Len(requests)]

(***************************************************************************)
(* The requests carry the file, in order and numbered from 0 without a     *)
(* gap, even where offsets and sizes wrap.                                 *)
(***************************************************************************)
RequestsCarryFile ==
  main = "send" =>
    /\ Payload = binaryData
    /\ mNumHorcruxes = Len(requests)
    /\ \A i \in DOMAIN requests : requests[i].mIndex = i - 1

(***************************************************************************)
(* What the headers announce is what is sent, modulo 2^32: the total of    *)
(* the pre-request header, added up from the Horcruxes, is the size of the *)
(* file, and the size in a request header is that of its content.          *)
(***************************************************************************)
AnnouncedModulo ==
  main = "send" =>
    /\ mTotalSize = Len(binaryData) % UintMod
    /\ \A i \in DOMAIN requests :
         requests[i].mContentSize = Len(requests[i].mContent) % UintMod

(***************************************************************************)
(* A save command for a readable file of less than 2^31 bytes gets to the  *)
(* point where it sends exactly if the number is between 1 and the size of *)
(* the file; a negative number, which the conversion to uint32_t makes a   *)
(* huge one, ends the client; and the client always gets somewhere.        *)
(***************************************************************************)
SendsOrRefuses ==
  Len(binaryData) <= IntMax =>
    <>(\/ main = "send" /\ usage /\ readable /\ count # Text /\ count \in 1..Len(binaryData)
       \/ main = "exit" /\ (usage /\ readable /\ count # Text => count \notin 1..Len(binaryData))
       \/ main = "terminate" /\ count \notin Int32)
=============================================================================
