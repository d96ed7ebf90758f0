-------------------------- MODULE ClientRequestsProofs --------------------------
(***************************************************************************)
(* The splitter, and the requests of the client: RoundTrip, EvenSplit,     *)
(* AnnouncedModulo and RequestsCarryFile for files of any size, any number *)
(* of splits and any width of the integers.                                *)
(***************************************************************************)
EXTENDS ClientRequests, SequenceFacts, SequenceTheorems

\* What offset is made of: a product cannot exceed the dividend, nor a remainder
\* what it is the remainder of.
LEMMA DivMul ==
  ASSUME NEW len \in Nat, NEW n \in Nat \ {0}
  PROVE  /\ len \div n \in Nat
         /\ n * (len \div n) <= len
         /\ len = n * (len \div n) + (len % n)
BY SMT

LEMMA ModLe ==
  ASSUME NEW x \in Nat, NEW m \in Nat \ {0}
  PROVE  /\ x % m \in Nat
         /\ x % m <= x
         /\ x < m => x % m = x
BY SMT

LEMMA MulMono ==
  ASSUME NEW i \in Nat, NEW n \in Nat, NEW a \in Nat, NEW b \in Nat, i <= n, a <= b
  PROVE  i * a \in Nat /\ i * a <= n * b
BY SMT

-----------------------------------------------------------------------------
(***************************************************************************)
(* The inductive invariant.  Horcrux k - 1 is the part of the file between *)
(* two consecutive offsets, whether they wrapped or not, and join has put  *)
(* together what is before the offset it has got to.  A wrapped offset     *)
(* shows as a decreasing one, on which split throws.                       *)
(***************************************************************************)
Inv ==
  /\ TypeOK
  /\ Len(horcruxes) <= mNumSplits
  /\ \A k \in 1..Len(horcruxes) :
       /\ offset(k - 1) <= offset(k)
       /\ horcruxes[k] = SubSeq(binaryData, offset(k - 1) + 1, offset(k))
  /\ horcruxes # <<>> => canSplit
  /\ pc = "split" => idx = 0 /\ horcruxes = <<>> /\ joined = <<>>
  /\ pc = "splitting" => /\ canSplit
                         /\ idx < mNumSplits
                         /\ Len(horcruxes) = idx
                         /\ joined = <<>>
  /\ pc = "length_error" => /\ canSplit
                            /\ idx < mNumSplits
                            /\ offset(idx + 1) < offset(idx)
  /\ pc = "joining" => /\ canSplit
                       /\ idx < mNumSplits
                       /\ Len(horcruxes) = mNumSplits
                       /\ joined = SubSeq(binaryData, 1, offset(idx))
  /\ pc = "joined" => joined = binaryData

\* Every offset lies within the file, also when the product wrapped.
LEMMA OffsetBounds ==
  ASSUME binaryData \in Data, mNumSplits \in Nat, canSplit
  PROVE  /\ offset(0) = 0
         /\ offset(mNumSplits) = Len(binaryData)
         /\ \A i \in 0..mNumSplits : offset(i) \in 0..Len(binaryData)
<1> DEFINE len == Len(binaryData)
<1>1. len \in Nat /\ mNumSplits \in Nat \ {0} /\ UintMod \in Nat \ {0}
  BY SplitterAssumption DEF canSplit
<1>2. len \div mNumSplits \in Nat /\ mNumSplits * (len \div mNumSplits) <= len
  BY <1>1, DivMul
<1>3. horcruxSize \in Nat /\ horcruxSize <= len \div mNumSplits
  <2> HIDE DEF len
  <2> QED BY <1>1, <1>2, ModLe DEF horcruxSize, len
<1>4. \A i \in 0..mNumSplits : offset(i) \in 0..len
  <2> SUFFICES ASSUME NEW i \in 0..mNumSplits PROVE offset(i) \in 0..len
    OBVIOUS
  <2>1. i * horcruxSize \in Nat /\ i * horcruxSize <= mNumSplits * (len \div mNumSplits)
    BY <1>1, <1>2, <1>3, MulMono
  <2>2. (i * horcruxSize) % UintMod \in Nat /\ (i * horcruxSize) % UintMod <= i * horcruxSize
    BY <1>1, <2>1, ModLe
  <2>3. mNumSplits * (len \div mNumSplits) \in Nat
    BY <1>1, <1>2, MulMono
  <2>4. (i * horcruxSize) % UintMod \in 0..len
    <3> DEFINE a == (i * horcruxSize) % UintMod
               b == i * horcruxSize
               d == mNumSplits * (len \div mNumSplits)
    <3>1. a \in Nat /\ b \in Nat /\ d \in Nat /\ a <= b /\ b <= d /\ d <= len
      BY <1>2, <2>1, <2>2, <2>3
    <3> HIDE DEF a, b, d, len
    <3> QED BY <1>1, <3>1 DEF a
  <2> HIDE DEF len
  <2> QED BY <1>1, <2>4 DEF offset, len
<1>5. offset(0) = 0
  <2>1. 0 * horcruxSize = 0
    BY <1>3
  <2>2. 0 % UintMod = 0
    BY <1>1, ModLe
  <2> QED BY <1>1, <2>1, <2>2 DEF offset
<1> QED BY <1>4, <1>5 DEF offset

LEMMA OffsetInFile ==
  ASSUME TypeOK, canSplit
  PROVE  /\ offset(0) = 0
         /\ offset(mNumSplits) = Len(binaryData)
         /\ \A i \in 0..mNumSplits : offset(i) \in 0..Len(binaryData)
<1>1. binaryData \in Data /\ mNumSplits \in Nat
  BY SplitterAssumption DEF TypeOK
<1> QED BY <1>1, OffsetBounds

\* What an iteration of split cuts out, and an iteration of join puts behind the
\* part that is already there.
LEMMA Pieces ==
  ASSUME TypeOK, NEW a \in 0..Len(binaryData), NEW b \in a..Len(binaryData)
  PROVE  /\ SubSeq(binaryData, a + 1, b) \in Seq(Byte)
         /\ Len(SubSeq(binaryData, a + 1, b)) = b - a
         /\ SubSeq(binaryData, 1, a) \o SubSeq(binaryData, a + 1, b) = SubSeq(binaryData, 1, b)
<1>1. binaryData \in Seq(Byte) /\ Len(binaryData) \in Nat
  BY SplitterAssumption DEF TypeOK
<1>2. \A i \in (a + 1)..b : binaryData[i] \in Byte
  BY <1>1
<1>3. a \in Int /\ b \in Int /\ a + 1 \in Int
  BY <1>1
<1>4. /\ SubSeq(binaryData, a + 1, b) \in Seq(Byte)
      /\ Len(SubSeq(binaryData, a + 1, b)) = IF a + 1 <= b THEN b - (a + 1) + 1 ELSE 0
  BY <1>2, <1>3, SubSeqProperties
<1>5. SubSeq(binaryData, 1, a) \o SubSeq(binaryData, a + 1, b) = SubSeq(binaryData, 1, b)
  <2>1. 1 \in 1..Len(binaryData) + 1 /\ a \in (1 - 1)..Len(binaryData)
    BY <1>1
  <2> QED BY <1>1, <2>1, ConcatAdjacentSubSeq
<1> QED BY <1>1, <1>4, <1>5

LEMMA InitInv == Init => Inv
<1> SUFFICES ASSUME Init PROVE Inv
  OBVIOUS
<1>1. TypeOK
  BY SplitterAssumption DEF Init, TypeOK
<1> QED BY <1>1, SplitterAssumption DEF Init, Inv, TypeOK

\* The file and the number of splits do not change, and with them the offsets.
LEMMA OffsetUnchanged ==
  ASSUME UNCHANGED <<binaryData, mNumSplits>>
  PROVE  /\ \A i : offset(i)' = offset(i)
         /\ canSplit' <=> canSplit
BY DEF offset, canSplit, horcruxSize

LEMMA SplitInv == Inv /\ split => Inv'
<1> SUFFICES ASSUME Inv, split PROVE Inv'
  OBVIOUS
<1> USE DEF split
<1>1. TypeOK'
  BY DEF Inv, TypeOK
<1>2. canSplit => 0 < mNumSplits
  BY SplitterAssumption DEF canSplit, Inv, TypeOK
<1> QED BY <1>1, <1>2, OffsetUnchanged DEF Inv

LEMMA SplitIterationInv == Inv /\ splitIteration => Inv'
<1> SUFFICES ASSUME Inv, splitIteration PROVE Inv'
  OBVIOUS
<1>1. /\ TypeOK
      /\ canSplit
      /\ idx \in 0..(mNumSplits - 1)
      /\ Len(horcruxes) = idx
      /\ joined = <<>>
      /\ mNumSplits \in Nat \ {0}
      /\ Len(binaryData) \in Nat
  BY SplitterAssumption DEF Inv, TypeOK, splitIteration, canSplit
<1>2. /\ UNCHANGED <<binaryData, mNumSplits, joined>>
      /\ \A i : offset(i)' = offset(i)
      /\ canSplit'
  BY <1>1, OffsetUnchanged DEF splitIteration
<1>3. offset(idx) \in 0..Len(binaryData) /\ offset(idx + 1) \in 0..Len(binaryData)
  BY <1>1, OffsetInFile
<1>4. CASE offset(idx + 1) < offset(idx)
  <2>1. pc' = "length_error" /\ UNCHANGED <<idx, horcruxes>>
    BY <1>3, <1>4 DEF splitIteration
  <2>2. TypeOK'
    BY <1>1, <1>2, <2>1 DEF TypeOK
  <2> QED BY <1>1, <1>2, <1>4, <2>1, <2>2 DEF Inv
<1>5. CASE offset(idx + 1) >= offset(idx)
  <2> DEFINE piece == SubSeq(binaryData, offset(idx) + 1, offset(idx + 1))
  <2>1. /\ horcruxes' = Append(horcruxes, piece)
        /\ IF idx + 1 = mNumSplits THEN pc' = "joining" /\ idx' = 0
                                   ELSE idx' = idx + 1 /\ pc' = "splitting"
    BY <1>3, <1>5 DEF splitIteration
  <2>2. piece \in Seq(Byte)
    BY <1>1, <1>3, <1>5, Pieces
  <2>3. horcruxes \in Seq(Seq(Byte))
    BY <1>1 DEF TypeOK
  <2> HIDE DEF piece
  <2>4. /\ horcruxes' \in Seq(Seq(Byte))
        /\ Len(horcruxes') = idx + 1
        /\ horcruxes' # <<>>
        /\ \A k \in 1..idx : horcruxes'[k] = horcruxes[k]
        /\ horcruxes'[idx + 1] = piece
    BY <1>1, <2>1, <2>2, <2>3, AppendProperties
  <2>5. TypeOK'
    BY <1>1, <1>2, <2>1, <2>4 DEF TypeOK
  <2>6. \A k \in 1..Len(horcruxes') :
          /\ offset(k - 1)' <= offset(k)'
          /\ horcruxes'[k] = SubSeq(binaryData', offset(k - 1)' + 1, offset(k)')
    <3> SUFFICES ASSUME NEW k \in 1..(idx + 1)
                 PROVE  /\ offset(k - 1) <= offset(k)
                        /\ horcruxes'[k] = SubSeq(binaryData, offset(k - 1) + 1, offset(k))
      BY <1>2, <2>4
    <3>1. CASE k \in 1..idx
      BY <1>1, <2>4, <3>1 DEF Inv
    <3>2. CASE k = idx + 1
      <4>1. k - 1 = idx
        BY <1>1, <3>2
      <4> QED BY <1>3, <1>5, <2>4, <3>2, <4>1 DEF piece
    <3> QED BY <1>1, <3>1, <3>2
  <2>7. joined' = SubSeq(binaryData, 1, offset(0))
    <3>1. offset(0) = 0
      BY <1>1, OffsetInFile
    <3> QED BY <1>1, <1>2, <3>1, SubSeqEmpty
  <2>8. CASE idx + 1 = mNumSplits
    <3>1. pc' = "joining" /\ idx' = 0
      BY <2>1, <2>8
    <3> QED BY <1>1, <1>2, <2>4, <2>5, <2>6, <2>7, <2>8, <3>1 DEF Inv
  <2>9. CASE idx + 1 # mNumSplits
    <3>1. pc' = "splitting" /\ idx' = idx + 1
      BY <2>1, <2>9
    <3> QED BY <1>1, <1>2, <2>4, <2>5, <2>6, <2>9, <3>1 DEF Inv
  <2> QED BY <2>8, <2>9
<1> QED BY <1>3, <1>4, <1>5

LEMMA JoinIterationInv == Inv /\ joinIteration => Inv'
<1> SUFFICES ASSUME Inv, joinIteration PROVE Inv'
  OBVIOUS
<1>1. /\ TypeOK
      /\ canSplit
      /\ idx \in 0..(mNumSplits - 1)
      /\ Len(horcruxes) = mNumSplits
      /\ joined = SubSeq(binaryData, 1, offset(idx))
      /\ mNumSplits \in Nat \ {0}
      /\ Len(binaryData) \in Nat
      /\ binaryData \in Seq(Byte)
  BY SplitterAssumption DEF Inv, TypeOK, joinIteration, canSplit
<1>2. /\ UNCHANGED <<binaryData, mNumSplits, horcruxes>>
      /\ idx' = idx + 1
      /\ joined' = joined \o horcruxes[idx + 1]
      /\ \A i : offset(i)' = offset(i)
      /\ canSplit'
  BY <1>1, OffsetUnchanged DEF joinIteration
<1>3. /\ offset(idx) \in 0..Len(binaryData)
      /\ offset(idx + 1) \in 0..Len(binaryData)
      /\ offset(mNumSplits) = Len(binaryData)
  BY <1>1, OffsetInFile
<1>4. /\ offset(idx) <= offset(idx + 1)
      /\ horcruxes[idx + 1] = SubSeq(binaryData, offset(idx) + 1, offset(idx + 1))
  <2>1. idx + 1 \in 1..Len(horcruxes) /\ (idx + 1) - 1 = idx
    BY <1>1
  <2> QED BY <2>1 DEF Inv
<1>5. joined' = SubSeq(binaryData, 1, offset(idx + 1)) /\ joined' \in Seq(Byte)
  <2> DEFINE a == offset(idx)
             b == offset(idx + 1)
  <2>1. a \in 0..Len(binaryData) /\ b \in a..Len(binaryData)
    BY <1>1, <1>3, <1>4
  <2>2. horcruxes[idx + 1] \in Seq(Byte) /\ joined \in Seq(Byte)
    BY <1>1 DEF TypeOK
  <2>3. joined' = SubSeq(binaryData, 1, a) \o SubSeq(binaryData, a + 1, b)
    BY <1>1, <1>2, <1>4
  <2> HIDE DEF a, b
  <2>4. joined' = SubSeq(binaryData, 1, b)
    BY <1>1, <2>1, <2>3, Pieces
  <2> QED BY <1>2, <2>2, <2>4, ConcatProperties DEF b
<1>6. offset(idx)' = offset(idx + 1)
  BY <1>2 DEF offset, horcruxSize
<1>7. TypeOK'
  BY <1>1, <1>2, <1>5 DEF TypeOK, joinIteration
<1>8. CASE idx + 1 = mNumSplits
  <2>1. pc' = "joined"
    BY <1>1, <1>8 DEF joinIteration
  <2>2. joined' = binaryData
    BY <1>1, <1>3, <1>5, <1>8, SubSeqFull
  <2> QED BY <1>2, <1>7, <2>1, <2>2 DEF Inv
<1>9. CASE idx + 1 # mNumSplits
  <2>1. pc' = "joining"
    BY <1>1, <1>9 DEF joinIteration
  <2>2. idx' < mNumSplits' /\ Len(horcruxes') = mNumSplits'
    BY <1>1, <1>2, <1>9
  <2>3. joined' = SubSeq(binaryData', 1, offset(idx)')
    BY <1>2, <1>5, <1>6
  <2>4. \A k \in 1..Len(horcruxes') :
          /\ offset(k - 1)' <= offset(k)'
          /\ horcruxes'[k] = SubSeq(binaryData', offset(k - 1)' + 1, offset(k)')
    BY <1>2 DEF Inv
  <2> QED BY <1>1, <1>2, <1>7, <2>1, <2>2, <2>3, <2>4 DEF Inv
<1> QED BY <1>8, <1>9

LEMMA NextInv == Inv /\ [Next]_vars => Inv'
<1> SUFFICES ASSUME Inv, [Next]_vars PROVE Inv'
  OBVIOUS
<1>1. CASE split
  BY <1>1, SplitInv
<1>2. CASE splitIteration
  BY <1>2, SplitIterationInv
<1>3. CASE joinIteration
  BY <1>3, JoinIterationInv
<1>4. CASE UNCHANGED vars
  <2>1. UNCHANGED <<binaryData, mNumSplits>> /\ idx' = idx
    BY <1>4 DEF vars
  <2>2. (\A i : offset(i)' = offset(i)) /\ (canSplit' <=> canSplit)
    BY <2>1, OffsetUnchanged
  <2>3. offset(idx)' = offset(idx) /\ offset(idx + 1)' = offset(idx + 1)
    BY <2>1 DEF offset, horcruxSize
  <2>4. TypeOK'
    BY <1>4 DEF Inv, TypeOK, vars
  <2> QED BY <1>4, <2>2, <2>3, <2>4 DEF Inv, vars
<1> QED BY <1>1, <1>2, <1>3, <1>4 DEF Next, Returned

THEOREM SpecInv == Spec => []Inv
BY InitInv, NextInv, PTL DEF Spec

\* The loops of split and join keep within their vectors (HorcruxData.cpp).
THEOREM SplitterTyped == Spec => []TypeOK
<1>1. Inv => TypeOK
  BY DEF Inv
<1> QED BY <1>1, SpecInv, PTL

-----------------------------------------------------------------------------
(***************************************************************************)
(* What split cuts, join puts together again (HorcruxData.cpp), for every  *)
(* file and every number of splits: split never returns a damaged file,    *)
(* even when uint32_t is too narrow for its size.                          *)
(***************************************************************************)
THEOREM SplitRoundTrip == Spec => []RoundTrip
<1>1. Inv => RoundTrip
  BY DEF Inv, RoundTrip
<1> QED BY <1>1, SpecInv, PTL

\* The offsets of a file whose size fits uint32_t do not wrap.
LEMMA OffsetExact ==
  ASSUME TypeOK, canSplit, Len(binaryData) < UintMod, NEW i \in 0..(mNumSplits - 1)
  PROVE  offset(i) = i * (Len(binaryData) \div mNumSplits)
<1> DEFINE len == Len(binaryData)
           q == len \div mNumSplits
<1>1. len \in Nat /\ mNumSplits \in Nat \ {0} /\ UintMod \in Nat \ {0} /\ len < UintMod
  BY SplitterAssumption DEF TypeOK, canSplit
<1>2. q \in Nat /\ mNumSplits * q <= len /\ mNumSplits * q \in Nat
  BY <1>1, DivMul, MulMono
<1>3. i \in Nat /\ i <= mNumSplits /\ i # mNumSplits
  BY <1>1
<1>4. 1 * q <= mNumSplits * q
  BY <1>1, <1>2, MulMono
<1>5. i * q \in Nat /\ i * q <= mNumSplits * q
  BY <1>1, <1>2, <1>3, MulMono
<1>6. q < UintMod
  <2> DEFINE d == mNumSplits * q
  <2>1. d \in Nat /\ q <= d /\ d <= len
    BY <1>2, <1>4
  <2> HIDE DEF d, q, len
  <2> QED BY <1>1, <1>2, <2>1
<1>7. horcruxSize = q
  <2>1. q % UintMod = q
    <3> HIDE DEF q
    <3> QED BY <1>1, <1>2, <1>6, ModLe
  <2> QED BY <2>1 DEF horcruxSize
<1>8. i * q < UintMod
  <2> DEFINE d == mNumSplits * q
             e == i * q
  <2>1. d \in Nat /\ e \in Nat /\ e <= d /\ d <= len
    BY <1>2, <1>5
  <2> HIDE DEF d, e, q, len
  <2> QED BY <1>1, <2>1 DEF e
<1>9. (i * q) % UintMod = i * q
  <2> HIDE DEF q
  <2> QED BY <1>1, <1>5, <1>8, ModLe
<1> HIDE DEF q, len
<1> QED BY <1>3, <1>7, <1>9 DEF offset, q, len

\* The size of each Horcrux of such a file.
LEMMA OffsetStep ==
  ASSUME TypeOK, canSplit, Len(binaryData) < UintMod, NEW k \in 1..mNumSplits
  PROVE  /\ offset(k) - offset(k - 1)
              = Len(binaryData) \div mNumSplits
                + (IF k = mNumSplits THEN Len(binaryData) % mNumSplits ELSE 0)
         /\ offset(k) - offset(k - 1) > 0
<1> DEFINE len == Len(binaryData)
           q == len \div mNumSplits
           r == len % mNumSplits
<1>1. len \in Nat /\ mNumSplits \in Nat \ {0} /\ len >= mNumSplits
  BY SplitterAssumption DEF TypeOK, canSplit
<1>2. q \in Nat /\ len = mNumSplits * q + r /\ r \in Nat /\ q >= 1
  <2>1. len \div mNumSplits >= 1
    BY <1>1, SMT
  <2> QED BY <1>1, <2>1, DivMul, ModLe
<1>3. offset(k - 1) = (k - 1) * q
  <2>1. k - 1 \in 0..(mNumSplits - 1)
    BY <1>1
  <2> QED BY <2>1, OffsetExact
<1>4. (k - 1) * q = k * q - q
  <2> HIDE DEF q
  <2> QED BY <1>1, <1>2, SMT
<1>5. k * q \in Nat
  <2> HIDE DEF q
  <2> QED BY <1>1, <1>2, MulMono
<1>6. CASE k = mNumSplits
  <2>1. offset(k) = k * q + r
    BY <1>2, <1>6 DEF offset
  <2> DEFINE p == k * q
  <2>2. p \in Nat /\ offset(k - 1) = p - q /\ offset(k) = p + r
    BY <1>3, <1>4, <1>5, <2>1
  <2> HIDE DEF p, q, r, len
  <2>3. offset(k) - offset(k - 1) = q + r /\ q + r > 0
    BY <1>2, <2>2
  <2> QED BY <1>6, <2>3 DEF q, r, len
<1>7. CASE k # mNumSplits
  <2>1. offset(k) = k * q
    <3>1. k \in 0..(mNumSplits - 1)
      BY <1>1, <1>7
    <3> QED BY <3>1, OffsetExact
  <2> DEFINE p == k * q
  <2>2. p \in Nat /\ offset(k - 1) = p - q /\ offset(k) = p
    BY <1>3, <1>4, <1>5, <2>1
  <2> HIDE DEF p, q, len
  <2>3. offset(k) - offset(k - 1) = q + 0 /\ q > 0
    BY <1>2, <2>2
  <2> QED BY <1>2, <1>7, <2>3 DEF q, len
<1> QED BY <1>6, <1>7

(***************************************************************************)
(* A file whose size fits uint32_t is split without an exception into      *)
(* Horcruxes none of which is empty, all of the same size but for the      *)
(* last, which has the bytes that are left over (BasicFileSplitter::split).*)
(***************************************************************************)
THEOREM SplitIsEven == Spec => []EvenSplit
<1>1. ASSUME Inv PROVE EvenSplit
  <2> SUFFICES ASSUME Len(binaryData) < UintMod
               PROVE  /\ pc # "length_error"
                      /\ \A k \in DOMAIN horcruxes :
                           /\ Len(horcruxes[k])
                                = Len(binaryData) \div mNumSplits
                                  + (IF k = mNumSplits THEN Len(binaryData) % mNumSplits ELSE 0)
                           /\ horcruxes[k] # <<>>
    BY DEF EvenSplit
  <2>1. TypeOK /\ Len(binaryData) \in Nat /\ mNumSplits \in Nat
    BY <1>1, SplitterAssumption DEF Inv, TypeOK
  <2>2. ASSUME pc = "length_error" PROVE FALSE
    <3>1. canSplit /\ idx + 1 \in 1..mNumSplits /\ offset(idx + 1) < offset(idx) /\ idx \in Nat
      BY <1>1, <2>1, <2>2 DEF Inv, TypeOK
    <3>2. (idx + 1) - 1 = idx /\ idx \in 0..mNumSplits
      BY <2>1, <3>1
    <3>3. offset(idx + 1) - offset(idx) > 0
      BY <2>1, <3>1, <3>2, OffsetStep
    <3>4. offset(idx) \in Int /\ offset(idx + 1) \in Int
      BY <2>1, <3>1, <3>2, OffsetInFile
    <3> QED BY <3>1, <3>3, <3>4
  <2>3. ASSUME NEW k \in DOMAIN horcruxes
        PROVE  /\ Len(horcruxes[k])
                    = Len(binaryData) \div mNumSplits
                      + (IF k = mNumSplits THEN Len(binaryData) % mNumSplits ELSE 0)
               /\ horcruxes[k] # <<>>
    <3>1. k \in 1..Len(horcruxes) /\ k \in 1..mNumSplits /\ canSplit
      BY <1>1, <2>1 DEF Inv, TypeOK
    <3>2. /\ offset(k - 1) <= offset(k)
          /\ horcruxes[k] = SubSeq(binaryData, offset(k - 1) + 1, offset(k))
      BY <1>1, <3>1 DEF Inv
    <3>3. k - 1 \in 0..mNumSplits /\ k \in 0..mNumSplits
      BY <2>1, <3>1
    <3>4. offset(k - 1) \in 0..Len(binaryData) /\ offset(k) \in offset(k - 1)..Len(binaryData)
      BY <2>1, <3>1, <3>2, <3>3, OffsetInFile
    <3>5. Len(horcruxes[k]) = offset(k) - offset(k - 1)
      BY <2>1, <3>2, <3>4, Pieces
    <3>6. Len(horcruxes[k]) > 0
      BY <2>1, <3>1, <3>5, OffsetStep
    <3>7. horcruxes[k] # <<>>
      BY <3>6
    <3> QED BY <2>1, <3>1, <3>5, <3>7, OffsetStep
  <2> QED BY <2>2, <2>3
<1> QED BY <1>1, SpecInv, PTL

-----------------------------------------------------------------------------
\* What the sizes are computed with: a remainder is determined by what it is the
\* remainder of, up to multiples of the modulus.
LEMMA DivMod ==
  ASSUME NEW x \in Nat, NEW m \in Nat \ {0}
  PROVE  /\ x \div m \in Nat
         /\ x % m \in 0..(m - 1)
         /\ x = m * (x \div m) + (x % m)
         /\ (x % m) <= x
BY SMT

LEMMA ModUnique ==
  ASSUME NEW m \in Nat \ {0}, NEW k \in Int, NEW r \in 0..(m - 1)
  PROVE  (m * k + r) % m = r
BY SMT

\* Adding the size of a part to a wrapped total gives the wrapped total.
LEMMA AddWrapped ==
  ASSUME NEW m \in Nat \ {0}, NEW a \in Nat, NEW b \in Nat, a <= b
  PROVE  ((a % m) + (b - a)) % m = b % m
<1> DEFINE p == a \div m
           q == b \div m
           r == a % m
           s == b % m
<1>1. p \in Nat /\ q \in Nat /\ r \in Nat /\ s \in 0..(m - 1) /\ a = m * p + r /\ b = m * q + s
  BY DivMod
<1>2. q - p \in Int
  BY <1>1
<1> HIDE DEF p, q, r, s
<1>3. m * (q - p) = m * q - m * p
  BY <1>1, SMT
<1>4. m * p \in Nat /\ m * q \in Nat
  BY <1>1, SMT
<1>5. r + (b - a) = m * (q - p) + s
  BY <1>1, <1>3, <1>4
<1>6. (m * (q - p) + s) % m = s
  BY <1>1, <1>2, ModUnique
<1> QED BY <1>5, <1>6 DEF r, s

-----------------------------------------------------------------------------
(***************************************************************************)
(* The inductive invariant.  The Horcruxes lie between consecutive         *)
(* offsets, so that their sizes add up to the offset the loop has got to,  *)
(* wrapped like it; the last offset is the size of the file.               *)
(***************************************************************************)
ClientType ==
  /\ binaryData \in Data
  /\ mNumSplits \in Nat
  /\ idx \in Nat
  /\ horcruxes \in Seq(Seq(Byte))
  /\ requests \in Seq([mIndex : Nat, mContentSize : Nat, mContent : Seq(Byte)])

Cut ==
  /\ Len(horcruxes) <= mNumSplits
  /\ \A k \in 1..Len(horcruxes) :
       offset(k - 1) <= offset(k) /\ Len(horcruxes[k]) = offset(k) - offset(k - 1)

SizesFit == \A i \in 1..Len(requests) : requests[i].mContentSize = Len(requests[i].mContent) % UintMod

ClientInv ==
  /\ ClientType
  /\ main \in {"parse", "getHorcruxes", "split"} =>
       /\ mTotalSize = 0
       /\ requests = <<>>
       /\ pc \in {"split", "splitting"}
       /\ pc = "split" => idx = 0 /\ horcruxes = <<>>
       /\ pc = "splitting" => canSplit /\ idx < mNumSplits /\ Len(horcruxes) = idx /\ Cut
  /\ main \in {"parse", "getHorcruxes"} => pc = "split"
  /\ main = "preRequestHeader" =>
       /\ canSplit /\ Len(horcruxes) = mNumSplits /\ Cut
       /\ idx < mNumSplits
       /\ mTotalSize = offset(idx) % UintMod
       /\ requests = <<>>
  /\ main = "requests" => idx < Len(horcruxes)
  /\ main \in {"requests", "send"} => mTotalSize = Len(binaryData) % UintMod /\ SizesFit

LEMMA ClientInitInv == ClientInit => ClientInv
<1> SUFFICES ASSUME ClientInit PROVE ClientInv
  OBVIOUS
<1>1. <<>> \in Seq(Seq(Byte)) /\ <<>> \in Seq([mIndex : Nat, mContentSize : Nat, mContent : Seq(Byte)])
  OBVIOUS
<1>2. ClientType
  BY <1>1 DEF ClientInit, ClientType
<1> QED BY <1>2 DEF ClientInit, ClientInv

LEMMA ParseInv == ClientInv /\ parseHorcruxCommand => ClientInv'
<1> SUFFICES ASSUME ClientInv, parseHorcruxCommand PROVE ClientInv'
  OBVIOUS
<1> USE DEF parseHorcruxCommand
<1>1. main = "parse" /\ pc = "split" /\ idx = 0 /\ horcruxes = <<>> /\ mTotalSize = 0 /\ requests = <<>>
  BY DEF ClientInv
<1>2. ASSUME count \in Int32 PROVE toUint32(count) \in Nat
  <2>1. count \in Int
    BY <1>2, SplitterAssumption DEF Int32, IntMax
  <2>2. UintMod \in Nat \ {0}
    BY SplitterAssumption
  <2> QED BY <2>1, <2>2, SMT DEF toUint32
<1>3. ClientType'
  BY <1>2 DEF ClientInv, ClientType
<1> QED BY <1>1, <1>3 DEF ClientInv

LEMMA GetHorcruxesInv == ClientInv /\ getHorcruxes => ClientInv'
<1> SUFFICES ASSUME ClientInv, getHorcruxes PROVE ClientInv'
  OBVIOUS
<1>1. pc = "split" /\ idx = 0 /\ horcruxes = <<>> /\ mTotalSize = 0 /\ requests = <<>>
  BY DEF ClientInv, getHorcruxes
<1>2. ClientType'
  BY DEF ClientInv, ClientType, getHorcruxes, vars
<1> QED BY <1>1, <1>2 DEF ClientInv, getHorcruxes, vars

\* split decides whether the file can be cut.
LEMMA SplitBeginsInv == ClientInv /\ Split /\ split => ClientInv'
<1> SUFFICES ASSUME ClientInv, Split, split PROVE ClientInv'
  OBVIOUS
<1>1. /\ main = "split" /\ pc = "split" /\ idx = 0 /\ horcruxes = <<>>
      /\ mTotalSize = 0 /\ requests = <<>> /\ mNumSplits \in Nat
  BY DEF ClientInv, ClientType, Split, split
<1>2. pc' \in {"splitting", "empty"} /\ (pc' = "splitting" => canSplit)
  BY DEF split
<1>3. UNCHANGED <<binaryData, mNumSplits, idx, horcruxes, mTotalSize, requests>>
  BY DEF split, Split
<1>4. main' = IF pc' = "splitting" THEN "split" ELSE "exit"
  BY <1>2 DEF Split
<1>5. ClientType'
  BY <1>3 DEF ClientInv, ClientType
<1>6. canSplit' <=> canSplit
  BY <1>3, OffsetUnchanged
<1>7. canSplit => 0 < mNumSplits
  BY <1>1 DEF canSplit
<1>8. Cut'
  BY <1>1, <1>3 DEF Cut
<1> QED BY <1>1, <1>2, <1>3, <1>4, <1>5, <1>6, <1>7, <1>8 DEF ClientInv

\* An iteration of split cuts the part between two offsets, or throws.
LEMMA SplitIteratesInv == ClientInv /\ Split /\ splitIteration => ClientInv'
<1> SUFFICES ASSUME ClientInv, Split, splitIteration PROVE ClientInv'
  OBVIOUS
<1>1. /\ main = "split" /\ pc = "splitting" /\ canSplit /\ idx \in 0..(mNumSplits - 1)
      /\ Len(horcruxes) = idx /\ Cut /\ mTotalSize = 0 /\ requests = <<>>
      /\ mNumSplits \in Nat \ {0} /\ binaryData \in Data /\ horcruxes \in Seq(Seq(Byte))
      /\ binaryData \in Seq(Byte) /\ Len(binaryData) \in Nat
  BY SplitterAssumption DEF ClientInv, ClientType, Split, splitIteration, canSplit
<1>2. /\ UNCHANGED <<binaryData, mNumSplits, mTotalSize, requests>>
      /\ \A i : offset(i)' = offset(i)
      /\ canSplit'
  BY <1>1, OffsetUnchanged DEF splitIteration, Split
<1>3. /\ offset(idx) \in 0..Len(binaryData) /\ offset(idx + 1) \in 0..Len(binaryData)
      /\ offset(0) = 0
  BY <1>1, OffsetBounds
<1>4. CASE offset(idx + 1) < offset(idx)
  <2>1. pc' = "length_error" /\ UNCHANGED <<idx, horcruxes>>
    BY <1>3, <1>4 DEF splitIteration
  <2>2. main' = "caught"
    BY <2>1 DEF Split
  <2>3. ClientType'
    BY <1>2, <2>1 DEF ClientInv, ClientType
  <2> QED BY <2>2, <2>3 DEF ClientInv
<1>5. CASE offset(idx + 1) >= offset(idx)
  <2> DEFINE piece == SubSeq(binaryData, offset(idx) + 1, offset(idx + 1))
  <2>1. /\ horcruxes' = Append(horcruxes, piece)
        /\ IF idx + 1 = mNumSplits THEN pc' = "joining" /\ idx' = 0
                                   ELSE idx' = idx + 1 /\ pc' = "splitting"
    BY <1>1, <1>3, <1>5 DEF splitIteration
  <2>2. piece \in Seq(Byte) /\ Len(piece) = offset(idx + 1) - offset(idx)
    <3> DEFINE a == offset(idx)
               b == offset(idx + 1)
    <3>1. a \in Nat /\ b \in Nat /\ a <= b /\ b <= Len(binaryData)
      BY <1>1, <1>3, <1>5
    <3> HIDE DEF a, b
    <3>2. \A i \in (a + 1)..b : binaryData[i] \in Byte
      BY <1>1, <3>1
    <3>3. /\ SubSeq(binaryData, a + 1, b) \in Seq(Byte)
          /\ Len(SubSeq(binaryData, a + 1, b)) = IF a + 1 <= b THEN b - (a + 1) + 1 ELSE 0
      BY <3>1, <3>2, SubSeqProperties
    <3>4. Len(SubSeq(binaryData, a + 1, b)) = b - a
      BY <3>1, <3>3
    <3> QED BY <3>3, <3>4 DEF a, b
  <2> HIDE DEF piece
  <2>3. /\ horcruxes' \in Seq(Seq(Byte))
        /\ Len(horcruxes') = idx + 1
        /\ \A k \in 1..idx : horcruxes'[k] = horcruxes[k]
        /\ horcruxes'[idx + 1] = piece
    BY <1>1, <2>1, <2>2, AppendProperties
  <2>4. ClientType'
    BY <1>1, <1>2, <2>1, <2>3 DEF ClientInv, ClientType
  <2>5. Cut'
    <3>1. ASSUME NEW k \in 1..(idx + 1)
          PROVE  offset(k - 1) <= offset(k) /\ Len(horcruxes'[k]) = offset(k) - offset(k - 1)
      <4>1. CASE k \in 1..idx
        BY <1>1, <2>3, <4>1 DEF Cut
      <4>2. CASE k = idx + 1
        <5>1. k - 1 = idx
          BY <1>1, <4>2
        <5> QED BY <1>3, <1>5, <2>2, <2>3, <4>2, <5>1
      <4> QED BY <1>1, <4>1, <4>2
    <3>2. Len(horcruxes') <= mNumSplits'
      BY <1>1, <1>2, <2>3
    <3> QED BY <1>2, <2>3, <3>1, <3>2 DEF Cut
  <2>6. CASE idx + 1 = mNumSplits
    <3>1. pc' = "joining" /\ idx' = 0 /\ main' = "preRequestHeader"
      BY <2>1, <2>6 DEF Split
    <3>2. offset(idx)' = 0
      BY <1>2, <1>3, <3>1 DEF offset, horcruxSize
    <3>3. 0 % UintMod = 0
      BY SplitterAssumption, ModLe
    <3>4. mTotalSize' = (offset(idx) % UintMod)'
      BY <1>1, <1>2, <3>2, <3>3
    <3> QED BY <1>1, <1>2, <2>3, <2>4, <2>5, <2>6, <3>1, <3>4 DEF ClientInv
  <2>7. CASE idx + 1 # mNumSplits
    <3>1. pc' = "splitting" /\ idx' = idx + 1 /\ main' = "split"
      BY <2>1, <2>7 DEF Split
    <3> QED BY <1>1, <1>2, <2>3, <2>4, <2>5, <2>7, <3>1 DEF ClientInv
  <2> QED BY <2>6, <2>7
<1> QED BY <1>3, <1>4, <1>5

\* The sizes add up to the offset behind the Horcrux that was counted last.
LEMMA PreRequestHeaderInv == ClientInv /\ preRequestHeader => ClientInv'
<1> SUFFICES ASSUME ClientInv, preRequestHeader PROVE ClientInv'
  OBVIOUS
<1>1. /\ main = "preRequestHeader" /\ canSplit /\ idx \in 0..(mNumSplits - 1)
      /\ Len(horcruxes) = mNumSplits /\ Cut /\ mTotalSize = offset(idx) % UintMod
      /\ requests = <<>> /\ mNumSplits \in Nat \ {0} /\ binaryData \in Data
      /\ UintMod \in Nat \ {0}
  BY SplitterAssumption DEF ClientInv, ClientType, preRequestHeader, canSplit
<1>2. /\ UNCHANGED <<binaryData, mNumSplits, horcruxes, requests>>
      /\ \A i : offset(i)' = offset(i)
      /\ canSplit'
  BY <1>1, OffsetUnchanged DEF preRequestHeader
<1>3. offset(idx) \in Nat /\ offset(idx + 1) \in Nat /\ offset(mNumSplits) = Len(binaryData)
  BY <1>1, OffsetBounds
<1>4. offset(idx) <= offset(idx + 1) /\ Len(horcruxes[idx + 1]) = offset(idx + 1) - offset(idx)
  <2>1. idx + 1 \in 1..Len(horcruxes) /\ (idx + 1) - 1 = idx
    BY <1>1
  <2> QED BY <1>1, <2>1 DEF Cut
<1>5. mTotalSize' = offset(idx + 1) % UintMod
  <2>1. mTotalSize' = (mTotalSize + Len(horcruxes[idx + 1])) % UintMod
    BY DEF preRequestHeader
  <2>2. mTotalSize' = ((offset(idx) % UintMod) + (offset(idx + 1) - offset(idx))) % UintMod
    BY <1>1, <1>4, <2>1
  <2>3. ((offset(idx) % UintMod) + (offset(idx + 1) - offset(idx))) % UintMod = offset(idx + 1) % UintMod
    BY <1>1, <1>3, <1>4, AddWrapped
  <2> QED BY <2>2, <2>3
<1>6. ClientType'
  BY <1>1, <1>2 DEF ClientInv, ClientType, preRequestHeader
<1>7. Cut'
  BY <1>1, <1>2 DEF Cut
<1>8. CASE idx + 1 = mNumSplits
  <2>1. main' = "requests" /\ idx' = 0
    BY <1>1, <1>8 DEF preRequestHeader
  <2>2. mTotalSize' = Len(binaryData') % UintMod
    BY <1>2, <1>3, <1>5, <1>8
  <2>3. SizesFit' /\ idx' < Len(horcruxes')
    BY <1>1, <1>2, <2>1 DEF SizesFit
  <2> QED BY <1>6, <2>1, <2>2, <2>3 DEF ClientInv
<1>9. CASE idx + 1 # mNumSplits
  <2>1. main' = "preRequestHeader" /\ idx' = idx + 1
    BY <1>1, <1>9 DEF preRequestHeader
  <2>2. offset(idx)' = offset(idx + 1)
    BY <1>2, <2>1 DEF offset, horcruxSize
  <2>3. mTotalSize' = (offset(idx) % UintMod)'
    BY <1>5, <2>2
  <2>4. idx' < mNumSplits' /\ Len(horcruxes') = mNumSplits' /\ requests' = <<>>
    BY <1>1, <1>2, <1>9, <2>1
  <2> QED BY <1>2, <1>6, <1>7, <2>1, <2>3, <2>4 DEF ClientInv
<1> QED BY <1>8, <1>9

\* A request is given the size of its content.
LEMMA FromHorcruxesInv == ClientInv /\ fromHorcruxes => ClientInv'
<1> SUFFICES ASSUME ClientInv, fromHorcruxes PROVE ClientInv'
  OBVIOUS
<1>1. /\ main = "requests" /\ idx \in Nat /\ idx < Len(horcruxes) /\ SizesFit
      /\ mTotalSize = Len(binaryData) % UintMod
      /\ horcruxes \in Seq(Seq(Byte)) /\ UintMod \in Nat \ {0}
      /\ requests \in Seq([mIndex : Nat, mContentSize : Nat, mContent : Seq(Byte)])
  BY SplitterAssumption DEF ClientInv, ClientType, fromHorcruxes
<1>2. UNCHANGED <<binaryData, mNumSplits, mTotalSize>> /\ idx' = idx + 1 /\ main' \in {"requests", "send"}
  BY <1>1 DEF fromHorcruxes
<1>3. idx + 1 \in 1..Len(horcruxes) /\ horcruxes[idx + 1] \in Seq(Byte)
  BY <1>1
<1>4. Request \in [mIndex : Nat, mContentSize : Nat, mContent : Seq(Byte)]
  <2>1. Len(requests) \in Nat /\ Len(horcruxes[idx + 1]) \in Nat
    BY <1>1, <1>3
  <2>2. (Len(requests) % UintMod) \in Nat /\ (Len(horcruxes[idx + 1]) % UintMod) \in Nat
    BY <1>1, <2>1, ModLe
  <2> QED BY <1>3, <2>2 DEF Request
<1>5. Request.mContentSize = Len(Request.mContent) % UintMod
  BY DEF Request
<1>6. /\ requests' = Append(requests, Request)
      /\ horcruxes' = [horcruxes EXCEPT ![idx + 1] = <<>>]
      /\ main' = IF idx + 1 = Len(horcruxes) THEN "send" ELSE "requests"
  BY <1>1 DEF fromHorcruxes
<1> HIDE DEF Request
<1>7. /\ requests' \in Seq([mIndex : Nat, mContentSize : Nat, mContent : Seq(Byte)])
      /\ Len(requests') = Len(requests) + 1
      /\ \A k \in 1..Len(requests) : requests'[k] = requests[k]
      /\ requests'[Len(requests) + 1] = Request
  BY <1>1, <1>4, <1>6, AppendProperties
<1>8. horcruxes' \in Seq(Seq(Byte)) /\ Len(horcruxes') = Len(horcruxes)
  <2>1. <<>> \in Seq(Byte)
    OBVIOUS
  <2> QED BY <1>1, <1>3, <1>6, <2>1, ExceptSeq
<1>9. SizesFit'
  <2> SUFFICES ASSUME NEW i \in 1..(Len(requests) + 1)
               PROVE  requests'[i].mContentSize = Len(requests'[i].mContent) % UintMod
    BY <1>7 DEF SizesFit
  <2>1. CASE i \in 1..Len(requests)
    BY <1>1, <1>7, <2>1 DEF SizesFit
  <2>2. CASE i = Len(requests) + 1
    BY <1>5, <1>7, <2>2
  <2>3. Len(requests) \in Nat
    BY <1>1
  <2> QED BY <2>1, <2>2, <2>3
<1>10. ClientType'
  BY <1>1, <1>2, <1>7, <1>8 DEF ClientInv, ClientType
<1>11. main' = "requests" => idx' < Len(horcruxes')
  <2>1. \A n \in Nat : idx < n /\ idx + 1 # n => idx + 1 < n
    BY <1>1
  <2>2. Len(horcruxes) \in Nat /\ (main' = "requests" => idx + 1 # Len(horcruxes))
    BY <1>1, <1>6
  <2>3. main' = "requests" => idx + 1 < Len(horcruxes)
    BY <1>1, <2>1, <2>2
  <2> QED BY <1>2, <1>8, <2>3
<1> QED BY <1>1, <1>2, <1>9, <1>10, <1>11 DEF ClientInv

LEMMA ClientNextInv == ClientInv /\ [ClientNext]_clientVars => ClientInv'
<1> SUFFICES ASSUME ClientInv, [ClientNext]_clientVars PROVE ClientInv'
  OBVIOUS
<1>1. CASE parseHorcruxCommand
  BY <1>1, ParseInv
<1>2. CASE getHorcruxes
  BY <1>2, GetHorcruxesInv
<1>3. CASE Split
  BY <1>3, SplitBeginsInv, SplitIteratesInv DEF Split
<1>4. CASE SplitOverflows
  <2>1. ClientType'
    BY <1>4 DEF ClientInv, ClientType, SplitOverflows, vars
  <2> QED BY <1>4, <2>1 DEF ClientInv, SplitOverflows
<1>5. CASE preRequestHeader
  BY <1>5, PreRequestHeaderInv
<1>6. CASE fromHorcruxes
  BY <1>6, FromHorcruxesInv
<1>7. CASE UNCHANGED clientVars
  <2>1. UNCHANGED <<binaryData, mNumSplits, idx, horcruxes, requests, mTotalSize, main, pc>>
    BY <1>7 DEF clientVars, ownVars, vars
  <2>2. (\A i : offset(i)' = offset(i)) /\ (canSplit' <=> canSplit)
    BY <2>1, OffsetUnchanged
  <2>3. offset(idx)' = offset(idx)
    BY <2>1 DEF offset, horcruxSize
  <2>4. ClientType'
    BY <2>1 DEF ClientInv, ClientType
  <2>5. Cut' <=> Cut
    BY <2>1, <2>2 DEF Cut
  <2>6. SizesFit' <=> SizesFit
    BY <2>1 DEF SizesFit
  <2> QED BY <2>1, <2>2, <2>3, <2>4, <2>5, <2>6 DEF ClientInv
<1> QED BY <1>1, <1>2, <1>3, <1>4, <1>5, <1>6, <1>7 DEF ClientNext, Ended

(***************************************************************************)
(* The pre-request header announces the size of the file and each request  *)
(* header that of its content (Requests.cpp), modulo the width of          *)
(* uint32_t, for every file, number of splits and width.                   *)
(***************************************************************************)
THEOREM ClientAnnounces == ClientSpec => []AnnouncedModulo
<1>1. ClientInv => AnnouncedModulo
  <2> SUFFICES ASSUME ClientInv PROVE AnnouncedModulo
    OBVIOUS
  <2>1. DOMAIN requests = 1..Len(requests)
    BY DEF ClientInv, ClientType
  <2> QED BY <2>1 DEF ClientInv, AnnouncedModulo, SizesFit
<1> QED BY <1>1, ClientInitInv, ClientNextInv, PTL DEF ClientSpec

-----------------------------------------------------------------------------
(***************************************************************************)
(* What the requests are made of.  A Horcrux is the part of the file       *)
(* between two offsets, until its content is moved into a request; with no *)
(* more Horcruxes than uint32_t has values, none of the conversions loses  *)
(* anything.                                                               *)
(***************************************************************************)
Part(k) == SubSeq(binaryData, offset(k - 1) + 1, offset(k))

CarryInv ==
  /\ mNumSplits < UintMod
  /\ main = "split" => \A k \in 1..Len(horcruxes) : horcruxes[k] = Part(k)
  /\ main \in {"preRequestHeader", "requests", "send"} =>
       /\ canSplit
       /\ Len(horcruxes) = mNumSplits
       /\ mNumHorcruxes = mNumSplits
       /\ \A k \in 1..mNumSplits : offset(k - 1) <= offset(k)
  /\ main = "preRequestHeader" => \A k \in 1..mNumSplits : horcruxes[k] = Part(k)
  /\ main = "requests" =>
       /\ Len(requests) = idx
       /\ \A k \in (idx + 1)..mNumSplits : horcruxes[k] = Part(k)
  /\ main \in {"requests", "send"} =>
       \A i \in 1..Len(requests) : requests[i].mIndex = i - 1 /\ requests[i].mContent = Part(i)
  /\ main = "send" => Len(requests) = mNumSplits

LEMMA SmallMod ==
  ASSUME NEW m \in Nat \ {0}, NEW x \in Nat, x < m
  PROVE  x % m = x
BY SMT

LEMMA PartUnchanged ==
  ASSUME UNCHANGED <<binaryData, mNumSplits>>
  PROVE  (\A k : Part(k)' = Part(k)) /\ (\A k : offset(k)' = offset(k)) /\ (canSplit' <=> canSplit)
BY OffsetUnchanged DEF Part, offset, horcruxSize

LEMMA CarryInit == ClientInit => CarryInv
BY SplitterAssumption DEF ClientInit, CarryInv

LEMMA ParseCarries == ClientInv /\ CarryInv /\ parseHorcruxCommand => CarryInv'
<1> SUFFICES ASSUME ClientInv, CarryInv, parseHorcruxCommand PROVE CarryInv'
  OBVIOUS
<1>1. mNumSplits' < UintMod
  <2>1. CASE UNCHANGED mNumSplits
    BY <2>1 DEF CarryInv
  <2>2. CASE count \in Int32 /\ mNumSplits' = toUint32(count)
    <3>1. count \in Int
      BY <2>2, SplitterAssumption DEF Int32, IntMax
    <3>2. UintMod \in Nat \ {0}
      BY SplitterAssumption
    <3> QED BY <2>2, <3>1, <3>2, SMT DEF toUint32
  <2> QED BY <2>1, <2>2 DEF parseHorcruxCommand
<1>2. main' \in {"exit", "terminate", "getHorcruxes"}
  BY DEF parseHorcruxCommand
<1> QED BY <1>1, <1>2 DEF CarryInv

LEMMA SplitBeginsCarries == ClientInv /\ CarryInv /\ Split /\ split => CarryInv'
<1> SUFFICES ASSUME ClientInv, CarryInv, Split, split PROVE CarryInv'
  OBVIOUS
<1>1. horcruxes = <<>> /\ pc' \in {"splitting", "empty"}
  BY DEF ClientInv, Split, split
<1>2. UNCHANGED <<mNumSplits, horcruxes>>
  BY DEF split
<1>3. main' \in {"split", "exit"}
  BY <1>1 DEF Split
<1> QED BY <1>1, <1>2, <1>3 DEF CarryInv

\* An iteration of split adds the part between two offsets.
LEMMA SplitIteratesCarries == ClientInv /\ CarryInv /\ Split /\ splitIteration => CarryInv'
<1> SUFFICES ASSUME ClientInv, CarryInv, Split, splitIteration PROVE CarryInv'
  OBVIOUS
<1>1. /\ main = "split" /\ pc = "splitting" /\ canSplit /\ idx \in 0..(mNumSplits - 1)
      /\ Len(horcruxes) = idx /\ Cut
      /\ mNumSplits \in Nat \ {0} /\ binaryData \in Data /\ horcruxes \in Seq(Seq(Byte))
      /\ mNumSplits < UintMod /\ \A k \in 1..idx : horcruxes[k] = Part(k)
  BY DEF ClientInv, ClientType, Split, splitIteration, canSplit, CarryInv
<1>2. UNCHANGED <<binaryData, mNumSplits>>
  BY DEF splitIteration
<1>3. (\A k : Part(k)' = Part(k)) /\ (\A k : offset(k)' = offset(k)) /\ canSplit'
  BY <1>1, <1>2, PartUnchanged
<1>4. offset(idx) \in Nat /\ offset(idx + 1) \in Nat
  BY <1>1, OffsetBounds
<1>5. CASE offset(idx + 1) < offset(idx)
  <2>1. pc' = "length_error"
    BY <1>4, <1>5 DEF splitIteration
  <2>2. main' = "caught"
    BY <2>1 DEF Split
  <2> QED BY <1>1, <1>2, <2>2 DEF CarryInv
<1>6. CASE offset(idx + 1) >= offset(idx)
  <2>1. /\ horcruxes' = Append(horcruxes, SubSeq(binaryData, offset(idx) + 1, offset(idx + 1)))
        /\ IF idx + 1 = mNumSplits THEN pc' = "joining" ELSE pc' = "splitting"
    BY <1>1, <1>4, <1>6 DEF splitIteration
  <2>2. SubSeq(binaryData, offset(idx) + 1, offset(idx + 1)) = Part(idx + 1)
    <3>1. (idx + 1) - 1 = idx
      BY <1>1
    <3> QED BY <3>1 DEF Part
  <2>3. Part(idx + 1) \in Seq(Byte)
    <3>1. binaryData \in Seq(Byte) /\ offset(idx + 1) <= Len(binaryData)
      BY <1>1, OffsetBounds, SplitterAssumption
    <3> QED BY <1>4, <1>6, <2>2, <3>1, PartOf, Zenon
  <2>4. /\ Len(horcruxes') = idx + 1
        /\ \A k \in 1..idx : horcruxes'[k] = horcruxes[k]
        /\ horcruxes'[idx + 1] = Part(idx + 1)
    <3>1. horcruxes' = Append(horcruxes, Part(idx + 1))
      BY <2>1, <2>2
    <3>2. /\ Len(horcruxes') = Len(horcruxes) + 1
          /\ \A k \in 1..Len(horcruxes) : horcruxes'[k] = horcruxes[k]
          /\ horcruxes'[Len(horcruxes) + 1] = Part(idx + 1)
      BY <1>1, <2>3, <3>1, AppendProperties
    <3> QED BY <1>1, <3>2
  <2>5. \A k \in 1..(idx + 1) : horcruxes'[k] = Part(k)'
    <3> SUFFICES ASSUME NEW k \in 1..(idx + 1) PROVE horcruxes'[k] = Part(k)
      BY <1>3
    <3>1. k \in 1..idx \/ k = idx + 1
      BY <1>1
    <3> QED BY <1>1, <2>4, <3>1
  <2>6. CASE idx + 1 = mNumSplits
    <3>1. main' = "preRequestHeader" /\ mNumHorcruxes' = mNumSplits % UintMod
      BY <2>1, <2>4, <2>6 DEF Split
    <3>2. mNumHorcruxes' = mNumSplits
      BY <1>1, <3>1, SmallMod, SplitterAssumption
    <3>3. \A k \in 1..mNumSplits : offset(k - 1) <= offset(k)
      <4> SUFFICES ASSUME NEW k \in 1..mNumSplits PROVE offset(k - 1) <= offset(k)
        OBVIOUS
      <4>1. CASE k = idx + 1
        <5>1. k - 1 = idx
          BY <1>1, <4>1
        <5> QED BY <1>4, <1>6, <4>1, <5>1
      <4>2. CASE k \in 1..Len(horcruxes)
        BY <1>1, <4>2 DEF Cut
      <4> QED BY <1>1, <2>6, <4>1, <4>2
    <3> QED BY <1>1, <1>2, <1>3, <2>4, <2>5, <2>6, <3>1, <3>2, <3>3 DEF CarryInv
  <2>7. CASE idx + 1 # mNumSplits
    <3>1. main' = "split"
      BY <2>1, <2>7 DEF Split
    <3> QED BY <1>1, <1>2, <2>4, <2>5, <3>1 DEF CarryInv
  <2> QED BY <2>6, <2>7
<1> QED BY <1>4, <1>5, <1>6

LEMMA PreRequestHeaderCarries == ClientInv /\ CarryInv /\ preRequestHeader => CarryInv'
<1> SUFFICES ASSUME ClientInv, CarryInv, preRequestHeader PROVE CarryInv'
  OBVIOUS
<1>1. /\ main = "preRequestHeader" /\ requests = <<>> /\ Len(requests) = 0 /\ mNumSplits \in Nat
      /\ UNCHANGED <<binaryData, mNumSplits, horcruxes, requests, mNumHorcruxes>>
  BY DEF ClientInv, ClientType, preRequestHeader
<1>2. (\A k : Part(k)' = Part(k)) /\ (\A k : offset(k)' = offset(k)) /\ (canSplit' <=> canSplit)
  BY <1>1, PartUnchanged
<1>3. main' = "preRequestHeader" \/ (main' = "requests" /\ idx' = 0)
  BY <1>1 DEF preRequestHeader
<1>4. \A k \in (0 + 1)..mNumSplits : k \in 1..mNumSplits
  BY <1>1
<1> QED BY <1>1, <1>2, <1>3, <1>4 DEF CarryInv

\* A request takes the content of the next Horcrux, and the next number.
LEMMA FromHorcruxesCarries == ClientInv /\ CarryInv /\ fromHorcruxes => CarryInv'
<1> SUFFICES ASSUME ClientInv, CarryInv, fromHorcruxes PROVE CarryInv'
  OBVIOUS
<1>1. /\ main = "requests" /\ idx \in Nat /\ Len(horcruxes) = mNumSplits /\ idx < mNumSplits
      /\ mNumSplits \in Nat /\ mNumSplits < UintMod /\ UintMod \in Nat \ {0}
      /\ horcruxes \in Seq(Seq(Byte)) /\ Len(requests) = idx
      /\ requests \in Seq([mIndex : Nat, mContentSize : Nat, mContent : Seq(Byte)])
      /\ canSplit /\ mNumHorcruxes = mNumSplits
  BY SplitterAssumption DEF ClientInv, ClientType, CarryInv, fromHorcruxes
<1>2. /\ \A k \in 1..mNumSplits : offset(k - 1) <= offset(k)
      /\ \A k \in (idx + 1)..mNumSplits : horcruxes[k] = Part(k)
      /\ \A i \in 1..idx : requests[i].mIndex = i - 1 /\ requests[i].mContent = Part(i)
  BY <1>1 DEF CarryInv
<1>3. UNCHANGED <<binaryData, mNumSplits, mNumHorcruxes>> /\ idx' = idx + 1
  BY DEF fromHorcruxes
<1>4. (\A k : Part(k)' = Part(k)) /\ (\A k : offset(k)' = offset(k)) /\ canSplit'
  BY <1>1, <1>3, PartUnchanged
<1>5. idx + 1 \in 1..mNumSplits /\ idx + 1 \in (idx + 1)..mNumSplits /\ (idx + 1) - 1 = idx
  BY <1>1
<1>6. Request.mIndex = idx /\ Request.mContent = Part(idx + 1)
  <2>1. idx % UintMod = idx
    <3>1. idx \in Nat /\ UintMod \in Nat \ {0} /\ idx < UintMod
      BY <1>1
    <3> QED BY <3>1, SmallMod
  <2> QED BY <1>1, <1>2, <1>5, <2>1 DEF Request
<1>7. Request \in [mIndex : Nat, mContentSize : Nat, mContent : Seq(Byte)]
  <2>1. horcruxes[idx + 1] \in Seq(Byte)
    BY <1>1, <1>5
  <2>2. Len(requests) \in Nat /\ Len(horcruxes[idx + 1]) \in Nat
    BY <1>1, <2>1
  <2>3. (Len(requests) % UintMod) \in Nat /\ (Len(horcruxes[idx + 1]) % UintMod) \in Nat
    BY <1>1, <2>2, ModLe
  <2> QED BY <2>1, <2>3 DEF Request
<1>8. /\ requests' = Append(requests, Request)
      /\ horcruxes' = [horcruxes EXCEPT ![idx + 1] = <<>>]
      /\ main' = IF idx + 1 = Len(horcruxes) THEN "send" ELSE "requests"
  BY <1>1 DEF fromHorcruxes
<1> HIDE DEF Request
<1>9. /\ Len(requests') = idx + 1
      /\ \A k \in 1..idx : requests'[k] = requests[k]
      /\ requests'[idx + 1] = Request
  <2>1. /\ Len(requests') = Len(requests) + 1
        /\ \A k \in 1..Len(requests) : requests'[k] = requests[k]
        /\ requests'[Len(requests) + 1] = Request
    <3>1. requests \in Seq([mIndex : Nat, mContentSize : Nat, mContent : Seq(Byte)])
      BY <1>1
    <3>2. requests' = Append(requests, Request)
      BY <1>8
    <3> QED BY <1>7, <3>1, <3>2, AppendProperties
  <2>2. Len(requests) = idx
    BY <1>1
  <2> QED BY <2>1, <2>2
<1>10. Len(horcruxes') = mNumSplits /\ \A k \in 1..mNumSplits : k # idx + 1 => horcruxes'[k] = horcruxes[k]
  <2>1. <<>> \in Seq(Byte)
    OBVIOUS
  <2> QED BY <1>1, <1>5, <1>8, <2>1, ExceptSeq
<1>11. \A i \in 1..(idx + 1) : requests'[i].mIndex = i - 1 /\ requests'[i].mContent = Part(i)'
  <2> SUFFICES ASSUME NEW i \in 1..(idx + 1)
               PROVE  requests'[i].mIndex = i - 1 /\ requests'[i].mContent = Part(i)
    BY <1>4
  <2>1. i \in 1..idx \/ i = idx + 1
    BY <1>1
  <2> QED BY <1>2, <1>5, <1>6, <1>9, <2>1
<1>12. \A k \in (idx' + 1)..mNumSplits : horcruxes'[k] = Part(k)'
  <2> SUFFICES ASSUME NEW k \in (idx' + 1)..mNumSplits PROVE horcruxes'[k] = Part(k)
    BY <1>4
  <2>1. k \in 1..mNumSplits /\ k \in (idx + 1)..mNumSplits /\ k # idx + 1
    BY <1>1, <1>3
  <2> QED BY <1>2, <1>10, <2>1
<1>13. \A k \in 1..mNumSplits' : offset(k - 1)' <= offset(k)'
  BY <1>2, <1>3, <1>4
<1>14. main' = "send" => Len(requests') = mNumSplits'
  BY <1>1, <1>3, <1>8, <1>9
<1>15. main' \in {"requests", "send"}
  BY <1>8
<1> QED BY <1>1, <1>3, <1>4, <1>9, <1>10, <1>11, <1>12, <1>13, <1>14, <1>15 DEF CarryInv

LEMMA NextCarries == ClientInv /\ CarryInv /\ [ClientNext]_clientVars => CarryInv'
<1> SUFFICES ASSUME ClientInv, CarryInv, [ClientNext]_clientVars PROVE CarryInv'
  OBVIOUS
<1>1. CASE parseHorcruxCommand
  BY <1>1, ParseCarries
<1>2. CASE getHorcruxes
  <2>1. mNumSplits' = mNumSplits /\ horcruxes' = <<>> /\ main' \in {"split", "exit"}
    BY <1>2 DEF ClientInv, getHorcruxes, vars
  <2> QED BY <2>1 DEF CarryInv
<1>3. CASE Split
  BY <1>3, SplitBeginsCarries, SplitIteratesCarries DEF Split
<1>4. CASE SplitOverflows
  <2>1. mNumSplits' = mNumSplits /\ main' = "undefined"
    BY <1>4 DEF SplitOverflows, vars
  <2> QED BY <2>1 DEF CarryInv
<1>5. CASE preRequestHeader
  BY <1>5, PreRequestHeaderCarries
<1>6. CASE fromHorcruxes
  BY <1>6, FromHorcruxesCarries
<1>7. CASE UNCHANGED clientVars
  <2>1. UNCHANGED <<binaryData, mNumSplits, idx, horcruxes, requests, mNumHorcruxes, main>>
    BY <1>7 DEF clientVars, ownVars, vars
  <2>2. (\A k : Part(k)' = Part(k)) /\ (\A k : offset(k)' = offset(k)) /\ (canSplit' <=> canSplit)
    BY <2>1, PartUnchanged
  <2> QED BY <2>1, <2>2 DEF CarryInv
<1> QED BY <1>1, <1>2, <1>3, <1>4, <1>5, <1>6, <1>7 DEF ClientNext, Ended

\* The contents, one after the other, are the parts the file was cut into.
LEMMA PayloadIsFile ==
  ASSUME ClientInv, CarryInv, main = "send"
  PROVE  Payload = binaryData
<1> DEFINE N == Len(requests)
           part == [n \in 1..N |-> requests[n].mContent]
           off == [n \in 0..N |-> offset(n)]
           Def(f) == f = [i \in 0..N |-> IF i = 0 THEN <<>> ELSE f[i - 1] \o requests[i].mContent]
           w == CHOOSE f : Def(f)
<1>1. Payload = w[N]
  BY DEF Payload
<1>2. /\ N = mNumSplits /\ N \in Nat /\ canSplit /\ mNumSplits \in Nat
      /\ binaryData \in Data /\ binaryData \in Seq(Byte)
      /\ \A k \in 1..N : offset(k - 1) <= offset(k)
      /\ \A k \in 1..N : requests[k].mContent = Part(k)
  BY SplitterAssumption DEF ClientInv, ClientType, CarryInv
<1>3. /\ offset(0) = 0 /\ offset(N) = Len(binaryData)
      /\ \A n \in 0..N : offset(n) \in 0..Len(binaryData)
  BY <1>2, OffsetBounds
<1> HIDE DEF N
<1>4. /\ off \in [0..N -> Nat] /\ off[0] = 0 /\ off[N] = Len(binaryData)
      /\ \A n \in 0..N : off[n] <= Len(binaryData)
  BY <1>2, <1>3
<1>5. \A n \in 1..N : off[n - 1] <= off[n]
  BY <1>2
<1>6. \A n \in 1..N : part[n] = SubSeq(binaryData, off[n - 1] + 1, off[n])
  <2> SUFFICES ASSUME NEW n \in 1..N PROVE part[n] = SubSeq(binaryData, off[n - 1] + 1, off[n])
    OBVIOUS
  <2>1. n \in 0..N /\ n - 1 \in 0..N
    BY <1>2
  <2>2. part[n] = Part(n)
    BY <1>2
  <2> QED BY <2>1, <2>2 DEF Part
<1>7. \A n \in 0..N : n # 0 => part[n] = requests[n].mContent
  BY <1>2
<1> HIDE DEF part, off
<1>8. ASSUME NEW f PROVE Def(f) <=> Concatenates(f, N, <<>>, part)
  <2>1. [n \in 0..N |-> IF n = 0 THEN <<>> ELSE f[n - 1] \o part[n]]
          = [n \in 0..N |-> IF n = 0 THEN <<>> ELSE f[n - 1] \o requests[n].mContent]
    BY <1>7
  <2> QED BY <2>1, Zenon DEF Concatenates
<1>9. \E f : Concatenates(f, N, <<>>, part)
  BY <1>2, ConcatenationExists
<1> HIDE DEF Def
<1>10. Def(w)
  BY <1>8, <1>9
<1>11. Concatenates(w, N, <<>>, part)
  BY <1>8, <1>10
<1> HIDE DEF w
<1>12. IsCut(binaryData, N, off, part)
  BY <1>4, <1>5, <1>6, Zenon DEF IsCut
<1>13. w[N] = binaryData
  <2>1. N \in Nat /\ binaryData \in Seq(Byte)
    BY <1>2
  <2> QED BY <1>11, <1>12, <2>1, ConcatenationOfCuts
<1> QED BY <1>1, <1>13

(***************************************************************************)
(* The requests the client sends carry the file, in order and numbered     *)
(* from 0 without a gap (Request::fromHorcruxes over what split returned), *)
(* for every file, number of splits and width, also where offsets and      *)
(* sizes wrap.                                                             *)
(***************************************************************************)
THEOREM ClientCarriesFile == ClientSpec => []RequestsCarryFile
<1>1. ClientInv /\ CarryInv => RequestsCarryFile
  <2> SUFFICES ASSUME ClientInv, CarryInv, main = "send"
               PROVE  /\ Payload = binaryData
                      /\ mNumHorcruxes = Len(requests)
                      /\ \A i \in DOMAIN requests : requests[i].mIndex = i - 1
    BY DEF RequestsCarryFile
  <2>1. DOMAIN requests = 1..Len(requests)
    BY DEF ClientInv, ClientType
  <2> QED BY <2>1, PayloadIsFile DEF CarryInv
<1> QED BY <1>1, ClientInitInv, ClientNextInv, CarryInit, NextCarries, PTL DEF ClientSpec
=============================================================================
