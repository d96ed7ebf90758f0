------------------------------ MODULE FileSplitter ------------------------------
(***************************************************************************)
(* BasicFileSplitter (logic/HorcruxData): split cuts a file into           *)
(* mNumSplits Horcruxes, join puts them together again.  One action is one *)
(* iteration of the loop of either, so that what the loops have done so    *)
(* far can be stated, and proved, as an invariant.  The checksum is a stub *)
(* in the code (always the empty string) and is left out.                  *)
(*                                                                         *)
(* The code computes offsets in uint32_t; UintMod stands for 2^32.         *)
(***************************************************************************)
EXTENDS Integers, Sequences

CONSTANTS
  Byte,       \* values of one byte of a file
  Data,       \* the files that may be split
  NumSplits,  \* values of mNumSplits
  UintMod     \* the number of values of uint32_t

\* The loop variable of split is an int32_t: with more splits, idx++ overflows.
ASSUME SplitterAssumption ==
  /\ Data \subseteq Seq(Byte)
  /\ UintMod \in Nat \ {0}
  /\ NumSplits \subseteq 0..(UintMod \div 2 - 1)

VARIABLES
  pc,           \* where the caller of split and join is
  binaryData,   \* the argument of split
  mNumSplits,
  idx,          \* the iterations of the current loop that are done
  horcruxes,    \* the vector split returns; horcruxes[i + 1] is Horcrux i
  joined        \* joinedHorcrux

vars == <<pc, binaryData, mNumSplits, idx, horcruxes, joined>>

TypeOK ==
  /\ pc \in {"split", "splitting", "length_error", "empty", "joining", "joined"}
  /\ binaryData \in Data
  /\ mNumSplits \in NumSplits
  /\ idx \in 0..mNumSplits
  /\ horcruxes \in Seq(Seq(Byte))
  /\ joined \in Seq(Byte)

\* Faulty variant: idx starts at 1.
Init_FromOne ==
  /\ pc = "split"
  /\ binaryData \in Data
  /\ mNumSplits \in NumSplits
  /\ idx = 1
  /\ horcruxes = <<>>
  /\ joined = <<>>

Init ==
  /\ pc = "split"
  /\ binaryData \in Data
  /\ mNumSplits \in NumSplits
  /\ idx = 0
  /\ horcruxes = <<>>
  /\ joined = <<>>

-----------------------------------------------------------------------------
horcruxSize == (Len(binaryData) \div mNumSplits) % UintMod

\* Faulty variant: the last Horcrux has no more bytes than the others.
offset_DropsRest(i) == (i * horcruxSize) % UintMod

\* Where Horcrux i begins, which is where Horcrux i - 1 ends.
offset(i) == IF i = mNumSplits THEN Len(binaryData) ELSE (i * horcruxSize) % UintMod

\* Faulty variant: the size of the file is not compared with mNumSplits.
canSplit_AnySize == mNumSplits # 0

\* Faulty variant: a file of exactly mNumSplits bytes is refused.
canSplit_Strict == mNumSplits # 0 /\ Len(binaryData) > mNumSplits

canSplit == mNumSplits # 0 /\ Len(binaryData) >= mNumSplits

split ==
  /\ pc = "split"
  /\ pc' = IF canSplit THEN "splitting" ELSE "empty"
  /\ UNCHANGED <<binaryData, mNumSplits, idx, horcruxes, joined>>

(***************************************************************************)
(* One iteration of split.  The constructor of std::string throws when it  *)
(* is given an end before the beginning, which a wrapped offset can be.    *)
(***************************************************************************)
splitIteration ==
  /\ pc = "splitting"
  /\ \/ /\ offset(idx + 1) < offset(idx)
        /\ pc' = "length_error"
        /\ UNCHANGED <<idx, horcruxes>>
     \/ /\ offset(idx + 1) >= offset(idx)
        /\ horcruxes' = Append(horcruxes, SubSeq(binaryData, offset(idx) + 1, offset(idx + 1)))
        /\ IF idx + 1 = mNumSplits THEN pc' = "joining" /\ idx' = 0
                                   ELSE idx' = idx + 1 /\ UNCHANGED pc
  /\ UNCHANGED <<binaryData, mNumSplits, joined>>

\* One iteration of join, over what split returned.
joinIteration ==
  /\ pc = "joining"
  /\ joined' = joined \o horcruxes[idx + 1]
  /\ idx' = idx + 1
  /\ pc' = IF idx + 1 = Len(horcruxes) THEN "joined" ELSE pc
  /\ UNCHANGED <<binaryData, mNumSplits, horcruxes>>

Returned ==
  /\ pc \in {"empty", "length_error", "joined"}
  /\ UNCHANGED vars

Next == split \/ splitIteration \/ joinIteration \/ Returned

Spec == Init /\ [][Next]_vars

FairSpec == Spec /\ WF_vars(Next)

-----------------------------------------------------------------------------
(***************************************************************************)
(* The end-to-end test of the repository, for every file: what split       *)
(* returns, join turns back into the file, even if the offsets wrapped.    *)
(***************************************************************************)
RoundTrip == pc = "joined" => joined = binaryData

(***************************************************************************)
(* A file whose size fits uint32_t is cut without an exception, into       *)
(* Horcruxes of equal size but for the last, which also has the rest, so   *)
(* that none is empty.                                                     *)
(***************************************************************************)
EvenSplit ==
  Len(binaryData) < UintMod =>
    /\ pc # "length_error"
    /\ \A k \in DOMAIN horcruxes :
         Len(horcruxes[k]) = Len(binaryData) \div mNumSplits
                             + (IF k = mNumSplits THEN Len(binaryData) % mNumSplits ELSE 0)
    /\ \A k \in DOMAIN horcruxes : horcruxes[k] # <<>>

(***************************************************************************)
(* The loops end: a caller gets the file back, an empty vector or an       *)
(* exception, and the first of these whenever the file is at least as long *)
(* as the number of splits and its size fits uint32_t.                     *)
(***************************************************************************)
SplitReturns ==
  <>(\/ pc = "joined"
     \/ pc = "empty" /\ (mNumSplits = 0 \/ Len(binaryData) < mNumSplits)
     \/ pc = "length_error" /\ Len(binaryData) >= UintMod)
=============================================================================
