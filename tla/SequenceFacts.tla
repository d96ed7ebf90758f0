----------------------------- MODULE SequenceFacts -----------------------------
(***************************************************************************)
(* What the proofs need of numbers and sequences: induction over a set of  *)
(* numbers, parts of a sequence, and sequences that are put together from  *)
(* a sequence of parts by a recursive function.                            *)
(***************************************************************************)
EXTENDS Integers, Sequences, WellFoundedInduction, TLAPS

(***************************************************************************)
(* Induction, in the form of sets of numbers.                              *)
(***************************************************************************)
LEMMA LeastNat ==
  ASSUME NEW T \in SUBSET Nat, T # {}
  PROVE  \E x \in T : \A y \in T : x <= y
<1> DEFINE R == {p \in Nat \X Nat : p[1] < p[2]}
<1>1. IsWellFoundedOn(R, Nat)
  BY NatLessThanWellFounded DEF OpToRel
<1>2. \E x \in T : \A y \in T : ~ (<<y, x>> \in R)
  <2> HIDE DEF R
  <2> QED BY <1>1, WFMin
<1>3. \A x, y \in Nat : <<y, x>> \notin R => x <= y
  OBVIOUS
<1> QED BY <1>2, <1>3

LEMMA SetInduction ==
  ASSUME NEW T, 0 \in T, \A n \in Nat : n \in T => n + 1 \in T
  PROVE  Nat \subseteq T
<1> SUFFICES ASSUME Nat \ T # {} PROVE FALSE
  OBVIOUS
<1>1. PICK x \in Nat \ T : \A y \in Nat \ T : x <= y
  BY LeastNat
<1>2. x # 0 /\ x - 1 \in Nat
  OBVIOUS
<1>3. x - 1 \in T
  BY <1>1, <1>2
<1> QED BY <1>2, <1>3

\* The function that puts the parts together exists, and so satisfies its definition.
Concatenates(f, N, base, part) == f = [n \in 0..N |-> IF n = 0 THEN base ELSE f[n - 1] \o part[n]]

LEMMA ConcatenationExists ==
  ASSUME NEW N \in Nat, NEW base, NEW part
  PROVE  \E f : Concatenates(f, N, base, part)
<1> DEFINE Def(f, m) == f = [n \in 0..m |-> IF n = 0 THEN base ELSE f[n - 1] \o part[n]]
           T == {m \in Nat : \E f : Def(f, m)}
<1>1. 0 \in T
  <2> DEFINE f == [n \in 0..0 |-> base]
  <2>1. Def(f, 0)
    OBVIOUS
  <2> QED BY <2>1
<1>2. ASSUME NEW m \in Nat, m \in T PROVE m + 1 \in T
  <2>1. PICK f : Def(f, m)
    BY <1>2
  <2> DEFINE g == [n \in 0..(m + 1) |-> IF n = m + 1 THEN f[m] \o part[m + 1] ELSE f[n]]
  <2>2. ASSUME NEW n \in 0..(m + 1)
        PROVE  g[n] = IF n = 0 THEN base ELSE g[n - 1] \o part[n]
    <3>1. CASE n = m + 1
      <4>1. n # 0 /\ n - 1 = m /\ m \in 0..(m + 1) /\ m # m + 1
        BY <3>1
      <4> QED BY <3>1, <4>1
    <3>2. CASE n = 0
      <4>1. f[0] = base
        BY <2>1
      <4>2. 0 \in 0..(m + 1) /\ 0 # m + 1
        OBVIOUS
      <4>3. g[0] = f[0]
        BY <4>2
      <4> QED BY <3>2, <4>1, <4>3
    <3>3. CASE n # 0 /\ n # m + 1
      <4>1. n \in 0..m /\ n - 1 \in 0..(m + 1) /\ n - 1 # m + 1
        BY <3>3
      <4>2. f[n] = f[n - 1] \o part[n]
        BY <2>1, <3>3, <4>1
      <4> QED BY <3>3, <4>1, <4>2
    <3> QED BY <3>1, <3>2, <3>3
  <2>3. Def(g, m + 1)
    <3> HIDE DEF g
    <3>1. g = [n \in 0..(m + 1) |-> g[n]]
      BY DEF g
    <3> QED BY <2>2, <3>1
  <2>4. \E h : Def(h, m + 1)
    BY <2>3
  <2> QED BY <2>4
<1> HIDE DEF T
<1>3. Nat \subseteq T
  BY <1>1, <1>2, SetInduction
<1>4. \E f : Def(f, N)
  BY <1>3 DEF T
<1>5. \A f : Def(f, N) <=> Concatenates(f, N, base, part)
  BY DEF Concatenates
<1> HIDE DEF Def
<1> QED BY <1>4, <1>5

-----------------------------------------------------------------------------
\* Sequences are equal element by element.
LEMMA SameSeq ==
  ASSUME NEW S, NEW s \in Seq(S), NEW t \in Seq(S), Len(s) = Len(t), \A i \in 1..Len(s) : s[i] = t[i]
  PROVE  s = t
OBVIOUS

\* One sequence after another.
LEMMA JoinOf ==
  ASSUME NEW S, NEW s \in Seq(S), NEW t \in Seq(S)
  PROVE  /\ s \o t \in Seq(S)
         /\ Len(s \o t) = Len(s) + Len(t)
         /\ \A i \in 1..(Len(s) + Len(t)) :
              (s \o t)[i] = IF i <= Len(s) THEN s[i] ELSE t[i - Len(s)]
OBVIOUS

\* Parts of a sequence: a beginning of a part, what is left of it, and two parts in a row.
LEMMA PartOf ==
  ASSUME NEW S, NEW F \in Seq(S), NEW a \in Nat, NEW b \in Nat, a <= b, b <= Len(F)
  PROVE  /\ SubSeq(F, a + 1, b) \in Seq(S)
         /\ Len(SubSeq(F, a + 1, b)) = b - a
         /\ \A i \in 1..(b - a) : SubSeq(F, a + 1, b)[i] = F[a + i]
<1>1. a + 1 \in Int /\ b \in Int /\ \A i \in (a + 1)..b : F[i] \in S
  OBVIOUS
<1>2. /\ SubSeq(F, a + 1, b) \in Seq(S)
      /\ Len(SubSeq(F, a + 1, b)) = IF a + 1 <= b THEN b - (a + 1) + 1 ELSE 0
      /\ \A i \in 1..(b - (a + 1) + 1) : SubSeq(F, a + 1, b)[i] = F[a + 1 + i - 1]
  BY <1>1
<1>3. b - (a + 1) + 1 = b - a /\ \A i \in 1..(b - a) : a + 1 + i - 1 = a + i
  OBVIOUS
<1> QED BY <1>2, <1>3

LEMMA PartOfPart ==
  ASSUME NEW S, NEW F \in Seq(S), NEW a \in Nat, NEW b \in Nat, NEW n \in Nat,
         a + n <= b, b <= Len(F)
  PROVE  LET s == SubSeq(F, a + 1, b) IN
         /\ SubSeq(s, 1, n) = SubSeq(F, a + 1, a + n)
         /\ SubSeq(s, n + 1, Len(s)) = SubSeq(F, a + n + 1, b)
<1> DEFINE s == SubSeq(F, a + 1, b)
<1>1. s \in Seq(S) /\ Len(s) = b - a /\ \A i \in 1..(b - a) : s[i] = F[a + i]
  BY PartOf
<1> HIDE DEF s
<1>2. SubSeq(s, 1, n) = SubSeq(F, a + 1, a + n)
  <2> DEFINE x == SubSeq(s, 0 + 1, n)
             y == SubSeq(F, a + 1, a + n)
  <2>1. x \in Seq(S) /\ Len(x) = n - 0 /\ \A i \in 1..(n - 0) : x[i] = s[0 + i]
    <3>1. n <= Len(s)
      BY <1>1
    <3> QED BY <1>1, <3>1, PartOf
  <2>2. y \in Seq(S) /\ Len(y) = (a + n) - a /\ \A i \in 1..((a + n) - a) : y[i] = F[a + i]
    <3>1. a + n \in Nat /\ a <= a + n /\ a + n <= Len(F)
      OBVIOUS
    <3> QED BY <3>1, PartOf
  <2> HIDE DEF x, y
  <2>3. x = y
    <3>1. Len(x) = n /\ Len(y) = n
      BY <2>1, <2>2
    <3>2. ASSUME NEW i \in 1..n PROVE x[i] = y[i]
      <4>1. i \in 1..(n - 0) /\ 0 + i = i /\ i \in 1..((a + n) - a) /\ i \in 1..(b - a)
        OBVIOUS
      <4> QED BY <1>1, <2>1, <2>2, <4>1
    <3> QED BY <2>1, <2>2, <3>1, <3>2, SameSeq
  <2> QED BY <2>3 DEF x, y
<1>3. SubSeq(s, n + 1, Len(s)) = SubSeq(F, a + n + 1, b)
  <2> DEFINE x == SubSeq(s, n + 1, b - a)
             y == SubSeq(F, (a + n) + 1, b)
  <2>1. x \in Seq(S) /\ Len(x) = (b - a) - n /\ \A i \in 1..((b - a) - n) : x[i] = s[n + i]
    <3>1. b - a \in Nat /\ n <= b - a /\ b - a <= Len(s)
      BY <1>1
    <3> QED BY <1>1, <3>1, PartOf
  <2>2. y \in Seq(S) /\ Len(y) = b - (a + n) /\ \A i \in 1..(b - (a + n)) : y[i] = F[(a + n) + i]
    <3>1. a + n \in Nat
      OBVIOUS
    <3> QED BY <3>1, PartOf
  <2> HIDE DEF x, y
  <2>3. x = y
    <3>1. Len(x) = b - a - n /\ Len(y) = b - a - n
      BY <2>1, <2>2
    <3>2. ASSUME NEW i \in 1..(b - a - n) PROVE x[i] = y[i]
      <4>1. x[i] = s[n + i] /\ y[i] = F[(a + n) + i]
        BY <2>1, <2>2
      <4>2. n + i \in 1..(b - a) /\ a + (n + i) = (a + n) + i
        OBVIOUS
      <4> QED BY <1>1, <4>1, <4>2
    <3> QED BY <2>1, <2>2, <3>1, <3>2, SameSeq
  <2> QED BY <1>1, <2>3 DEF x, y
<1> QED BY <1>2, <1>3 DEF s

LEMMA PartsInARow ==
  ASSUME NEW S, NEW F \in Seq(S), NEW a \in Nat, NEW b \in Nat, NEW e \in Nat,
         a <= b, b <= e, e <= Len(F)
  PROVE  SubSeq(F, a + 1, b) \o SubSeq(F, b + 1, e) = SubSeq(F, a + 1, e)
<1> DEFINE x == SubSeq(F, a + 1, b)
           y == SubSeq(F, b + 1, e)
           z == SubSeq(F, a + 1, e)
<1>1. x \in Seq(S) /\ Len(x) = b - a /\ \A i \in 1..(b - a) : x[i] = F[a + i]
  <2>1. b <= Len(F)
    OBVIOUS
  <2> QED BY <2>1, PartOf
<1>2. y \in Seq(S) /\ Len(y) = e - b /\ \A i \in 1..(e - b) : y[i] = F[b + i]
  BY PartOf
<1>3. z \in Seq(S) /\ Len(z) = e - a /\ \A i \in 1..(e - a) : z[i] = F[a + i]
  <2>1. a <= e
    OBVIOUS
  <2> QED BY <2>1, PartOf
<1> HIDE DEF x, y, z
<1>4. /\ x \o y \in Seq(S)
      /\ Len(x \o y) = Len(x) + Len(y)
      /\ \A i \in 1..(Len(x) + Len(y)) : (x \o y)[i] = IF i <= Len(x) THEN x[i] ELSE y[i - Len(x)]
  BY <1>1, <1>2, JoinOf
<1>5. Len(x) + Len(y) = e - a
  BY <1>1, <1>2
<1>6. ASSUME NEW i \in 1..(e - a) PROVE (x \o y)[i] = z[i]
  <2>1. CASE i <= b - a
    <3>1. i \in 1..(b - a) /\ i <= Len(x)
      BY <1>1, <2>1
    <3> QED BY <1>1, <1>3, <1>4, <1>5, <3>1
  <2>2. CASE i > b - a
    <3>1. i - (b - a) \in 1..(e - b) /\ b + (i - (b - a)) = a + i
      BY <2>2
    <3>2. (x \o y)[i] = y[i - (b - a)]
      BY <1>1, <1>4, <1>5, <2>2
    <3> QED BY <1>2, <1>3, <3>1, <3>2
  <2>3. i <= b - a \/ i > b - a
    OBVIOUS
  <2> QED BY <2>1, <2>2, <2>3
<1>7. x \o y = z
  BY <1>3, <1>4, <1>5, <1>6, SameSeq
<1> QED BY <1>7 DEF x, y, z

BeginsWith(F, w) == Len(w) <= Len(F) /\ SubSeq(F, 1, Len(w)) = w

\* A beginning of the first of two sequences in a row.
LEMMA Beginning ==
  ASSUME NEW S, NEW x \in Seq(S), NEW y \in Seq(S), NEW l \in Nat, l <= Len(x)
  PROVE  SubSeq(x \o y, 1, l) = SubSeq(x, 1, l) /\ l <= Len(x \o y)
<1> DEFINE z == x \o y
<1>1. /\ z \in Seq(S)
      /\ Len(z) = Len(x) + Len(y)
      /\ \A i \in 1..(Len(x) + Len(y)) : z[i] = IF i <= Len(x) THEN x[i] ELSE y[i - Len(x)]
  BY JoinOf
<1>2. Len(x) \in Nat /\ Len(y) \in Nat
  OBVIOUS
<1> HIDE DEF z
<1>3. l <= Len(z)
  BY <1>1, <1>2
<1> DEFINE p == SubSeq(z, 0 + 1, l)
           q == SubSeq(x, 0 + 1, l)
<1>4. p \in Seq(S) /\ Len(p) = l - 0 /\ \A i \in 1..(l - 0) : p[i] = z[0 + i]
  BY <1>1, <1>3, PartOf
<1>5. q \in Seq(S) /\ Len(q) = l - 0 /\ \A i \in 1..(l - 0) : q[i] = x[0 + i]
  BY PartOf
<1> HIDE DEF p, q
<1>6. ASSUME NEW i \in 1..l PROVE p[i] = q[i]
  <2>1. i \in 1..(l - 0) /\ 0 + i = i /\ i <= Len(x) /\ i \in 1..(Len(x) + Len(y))
    BY <1>2
  <2>2. z[i] = x[i]
    BY <1>1, <2>1
  <2> QED BY <1>4, <1>5, <2>1, <2>2
<1>7. Len(p) = l /\ Len(q) = l
  BY <1>4, <1>5
<1>8. p = q
  BY <1>4, <1>5, <1>6, <1>7, SameSeq
<1> QED BY <1>3, <1>8 DEF p, q, z

(***************************************************************************)
(* What has been put together after n parts is a beginning of the whole.   *)
(***************************************************************************)
LEMMA ConcatenationGrows ==
  ASSUME NEW S, NEW N \in Nat, NEW base \in Seq(S), NEW part \in [1..N -> Seq(S)],
         NEW w, Concatenates(w, N, base, part)
  PROVE  /\ w[0] = base
         /\ \A n \in 0..(N - 1) : w[n + 1] = w[n] \o part[n + 1]
         /\ \A n \in 0..N : w[n] \in Seq(S)
         /\ \A n \in 0..N : BeginsWith(w[N], w[n])
<1>1. \A n \in 0..N : w[n] = IF n = 0 THEN base ELSE w[n - 1] \o part[n]
  BY DEF Concatenates
<1>2. w[0] = base
  BY <1>1
<1>3. ASSUME NEW n \in 0..(N - 1) PROVE w[n + 1] = w[n] \o part[n + 1]
  <2>1. n + 1 \in 0..N /\ n + 1 # 0 /\ (n + 1) - 1 = n
    OBVIOUS
  <2> QED BY <1>1, <2>1
<1>4. ASSUME NEW n \in 0..N PROVE w[n] \in Seq(S)
  <2> DEFINE T == {i \in Nat : i <= N => w[i] \in Seq(S)}
  <2>1. 0 \in T
    BY <1>2
  <2>2. ASSUME NEW i \in Nat, i \in T PROVE i + 1 \in T
    <3> SUFFICES ASSUME i + 1 <= N PROVE w[i + 1] \in Seq(S)
      OBVIOUS
    <3>1. i \in 0..(N - 1) /\ i + 1 \in 1..N /\ i <= N
      OBVIOUS
    <3>2. w[i] \in Seq(S) /\ part[i + 1] \in Seq(S)
      BY <2>2, <3>1
    <3>3. w[i] \o part[i + 1] \in Seq(S)
      BY <3>2, JoinOf
    <3> QED BY <1>3, <3>1, <3>3
  <2> HIDE DEF T
  <2>3. Nat \subseteq T
    BY <2>1, <2>2, SetInduction
  <2> QED BY <2>3 DEF T
<1>5. ASSUME NEW n \in 0..N PROVE BeginsWith(w[N], w[n])
  <2> DEFINE T == {i \in Nat : n <= i /\ i <= N => BeginsWith(w[i], w[n])}
  <2>1. BeginsWith(w[n], w[n])
    BY <1>4 DEF BeginsWith
  <2>2. 0 \in T
    <3> SUFFICES ASSUME n <= 0 PROVE BeginsWith(w[0], w[n])
      OBVIOUS
    <3>1. n = 0
      OBVIOUS
    <3> QED BY <2>1, <3>1
  <2>3. ASSUME NEW i \in Nat, i \in T PROVE i + 1 \in T
    <3> SUFFICES ASSUME n <= i + 1, i + 1 <= N PROVE BeginsWith(w[i + 1], w[n])
      OBVIOUS
    <3>1. CASE n = i + 1
      BY <2>1, <3>1
    <3>2. CASE n # i + 1
      <4>1. n <= i /\ i <= N /\ i \in 0..(N - 1) /\ i \in 0..N /\ i + 1 \in 1..N
        BY <3>2
      <4>2. BeginsWith(w[i], w[n])
        BY <2>3, <4>1
      <4>3. w[i] \in Seq(S) /\ w[n] \in Seq(S) /\ part[i + 1] \in Seq(S) /\ Len(w[n]) \in Nat
        BY <1>4, <4>1
      <4>4. w[i + 1] = w[i] \o part[i + 1]
        BY <1>3, <4>1
      <4>5. /\ SubSeq(w[i] \o part[i + 1], 1, Len(w[n])) = SubSeq(w[i], 1, Len(w[n]))
            /\ Len(w[n]) <= Len(w[i] \o part[i + 1])
        BY <4>2, <4>3, Beginning DEF BeginsWith
      <4> QED BY <4>2, <4>4, <4>5 DEF BeginsWith
    <3> QED BY <3>1, <3>2
  <2> HIDE DEF T
  <2>4. Nat \subseteq T
    BY <2>2, <2>3, SetInduction
  <2>5. N \in T /\ n <= N /\ N <= N
    BY <2>4
  <2> QED BY <2>5 DEF T
<1> QED BY <1>2, <1>3, <1>4, <1>5

LEMMA ConcatParts ==
  ASSUME NEW S, NEW F \in Seq(S), NEW x \in Seq(S), NEW y \in Seq(S), NEW z \in Seq(S),
         BeginsWith(F, x \o (y \o z))
  PROVE  /\ Len(x \o (y \o z)) = Len(x) + Len(y) + Len(z)
         /\ SubSeq(F, Len(x) + 1, Len(x) + Len(y)) = y
         /\ SubSeq(F, Len(x) + Len(y) + 1, Len(x) + Len(y) + Len(z)) = z
<1> DEFINE yz == y \o z
           w == x \o yz
           lx == Len(x)
           ly == Len(y)
           lz == Len(z)
<1>1. lx \in Nat /\ ly \in Nat /\ lz \in Nat
  OBVIOUS
<1>2. /\ yz \in Seq(S)
      /\ Len(yz) = ly + lz
      /\ \A i \in 1..(ly + lz) : yz[i] = IF i <= ly THEN y[i] ELSE z[i - ly]
  BY JoinOf
<1> HIDE DEF yz, lx
<1>3. /\ w \in Seq(S)
      /\ Len(w) = lx + Len(yz)
      /\ \A i \in 1..(lx + Len(yz)) : w[i] = IF i <= lx THEN x[i] ELSE yz[i - lx]
  <2>1. yz \in Seq(S)
    BY <1>2
  <2> QED BY <2>1, JoinOf DEF lx
<1>4. Len(w) <= Len(F) /\ SubSeq(F, 0 + 1, Len(w)) = w
  BY DEF yz, BeginsWith
<1> HIDE DEF w
<1>5. Len(w) = lx + ly + lz /\ lx + ly + lz <= Len(F)
  BY <1>1, <1>2, <1>3, <1>4
<1>6. ASSUME NEW i \in 1..Len(w) PROVE F[i] = w[i]
  <2>1. \A j \in 1..(Len(w) - 0) : SubSeq(F, 0 + 1, Len(w))[j] = F[0 + j]
    BY <1>3, <1>4, PartOf
  <2>2. i \in 1..(Len(w) - 0) /\ 0 + i = i
    BY <1>3
  <2> QED BY <1>4, <2>1, <2>2
<1> HIDE DEF lx, ly, lz
<1>7. SubSeq(F, lx + 1, lx + ly) = y
  <2> DEFINE p == SubSeq(F, lx + 1, lx + ly)
  <2>1. p \in Seq(S) /\ Len(p) = (lx + ly) - lx /\ \A i \in 1..((lx + ly) - lx) : p[i] = F[lx + i]
    <3>1. lx + ly \in Nat /\ lx <= lx + ly /\ lx + ly <= Len(F)
      BY <1>1, <1>5
    <3> QED BY <1>1, <3>1, PartOf
  <2> HIDE DEF p
  <2>2. Len(p) = Len(y)
    BY <1>1, <2>1 DEF ly
  <2>3. ASSUME NEW i \in 1..Len(y) PROVE p[i] = y[i]
    <3>1. i \in 1..ly
      BY DEF ly
    <3>2. i \in 1..((lx + ly) - lx) /\ lx + i \in 1..(lx + ly + lz) /\ ~(lx + i <= lx)
            /\ (lx + i) - lx = i /\ i \in 1..(ly + lz) /\ i <= ly
      BY <1>1, <3>1
    <3>3. w[lx + i] = yz[i]
      BY <1>2, <1>3, <1>5, <3>2
    <3>4. yz[i] = y[i]
      BY <1>2, <3>2
    <3> QED BY <1>5, <1>6, <2>1, <3>2, <3>3, <3>4
  <2>4. p = y
    BY <2>1, <2>2, <2>3, SameSeq
  <2> QED BY <2>4 DEF p
<1>8. SubSeq(F, lx + ly + 1, lx + ly + lz) = z
  <2> DEFINE p == SubSeq(F, (lx + ly) + 1, lx + ly + lz)
  <2>1. /\ p \in Seq(S)
        /\ Len(p) = (lx + ly + lz) - (lx + ly)
        /\ \A i \in 1..((lx + ly + lz) - (lx + ly)) : p[i] = F[(lx + ly) + i]
    <3>1. lx + ly \in Nat /\ lx + ly + lz \in Nat /\ lx + ly <= lx + ly + lz
      BY <1>1
    <3> QED BY <1>5, <3>1, PartOf
  <2> HIDE DEF p
  <2>2. Len(p) = Len(z)
    BY <1>1, <2>1 DEF lz
  <2>3. ASSUME NEW i \in 1..Len(z) PROVE p[i] = z[i]
    <3>1. i \in 1..lz
      BY DEF lz
    <3>2. /\ i \in 1..((lx + ly + lz) - (lx + ly))
          /\ (lx + ly) + i \in 1..(lx + ly + lz)
          /\ ~((lx + ly) + i <= lx)
          /\ ((lx + ly) + i) - lx = ly + i
          /\ ly + i \in 1..(ly + lz) /\ ~(ly + i <= ly) /\ (ly + i) - ly = i
      BY <1>1, <3>1
    <3>3. w[(lx + ly) + i] = yz[ly + i]
      BY <1>2, <1>3, <1>5, <3>2
    <3>4. yz[ly + i] = z[i]
      BY <1>2, <3>2
    <3> QED BY <1>5, <1>6, <2>1, <3>2, <3>3, <3>4
  <2>4. p = z
    BY <2>1, <2>2, <2>3, SameSeq
  <2> QED BY <2>4 DEF p
<1> QED BY <1>5, <1>7, <1>8 DEF lx, ly, lz, w, yz

LEMMA BeginningGrows ==
  ASSUME NEW S, NEW F \in Seq(S), NEW b \in Nat, NEW e \in Nat, b <= e, e <= Len(F)
  PROVE  SubSeq(F, 1, b) \o SubSeq(F, b + 1, e) = SubSeq(F, 1, e)
<1>1. PICK a \in Nat : a = 0
  OBVIOUS
<1>2. a <= b /\ a + 1 = 1
  BY <1>1
<1>3. SubSeq(F, a + 1, b) \o SubSeq(F, b + 1, e) = SubSeq(F, a + 1, e)
  BY <1>2, PartsInARow
<1> QED BY <1>2, <1>3

\* A sequence that is cut into parts in a row is their concatenation.
IsCut(F, N, off, part) ==
  /\ off \in [0..N -> Nat]
  /\ off[0] = 0 /\ off[N] = Len(F)
  /\ \A n \in 0..N : off[n] <= Len(F)
  /\ \A n \in 1..N : off[n - 1] <= off[n] /\ part[n] = SubSeq(F, off[n - 1] + 1, off[n])

LEMMA ConcatenationOfCuts ==
  ASSUME NEW S, NEW F \in Seq(S), NEW N \in Nat, NEW off, NEW part, NEW w,
         IsCut(F, N, off, part), Concatenates(w, N, <<>>, part)
  PROVE  w[N] = F
<1>0. /\ off \in [0..N -> Nat] /\ off[0] = 0 /\ off[N] = Len(F)
      /\ \A n \in 1..N : off[n - 1] <= off[n]
      /\ \A n \in 0..N : off[n] <= Len(F)
      /\ \A n \in 1..N : part[n] = SubSeq(F, off[n - 1] + 1, off[n])
  BY DEF IsCut
<1> DEFINE T == {m \in Nat : m <= N => w[m] = SubSeq(F, 1, off[m])}
<1>1. 0 \in T
  <2>1. SubSeq(F, 1, 0) = <<>> /\ 0 \in 0..N
    OBVIOUS
  <2>2. w[0] = <<>>
    BY <2>1 DEF Concatenates
  <2> QED BY <1>0, <2>1, <2>2, Zenon
<1>2. ASSUME NEW m \in Nat, m \in T PROVE m + 1 \in T
  <2> SUFFICES ASSUME m + 1 <= N PROVE w[m + 1] = SubSeq(F, 1, off[m + 1])
    OBVIOUS
  <2>1. m \in 0..N /\ m + 1 \in 0..N /\ m + 1 \in 1..N /\ (m + 1) - 1 = m /\ m + 1 # 0 /\ m <= N
    OBVIOUS
  <2>2. w[m + 1] = w[m] \o part[m + 1]
    BY <2>1 DEF Concatenates
  <2>3. /\ off[m] \in Nat /\ off[m + 1] \in Nat /\ off[m] <= off[m + 1] /\ off[m + 1] <= Len(F)
        /\ part[m + 1] = SubSeq(F, off[m] + 1, off[m + 1])
    BY <1>0, <2>1, Zenon
  <2>4. w[m] = SubSeq(F, 1, off[m])
    BY <1>2, <2>1, Zenon
  <2>5. SubSeq(F, 1, off[m]) \o SubSeq(F, off[m] + 1, off[m + 1]) = SubSeq(F, 1, off[m + 1])
    BY <2>3, BeginningGrows, Zenon
  <2> QED BY <2>2, <2>3, <2>4, <2>5, Zenon
<1>3. N \in T
  <2> HIDE DEF T
  <2> QED BY <1>1, <1>2, SetInduction
<1>4. N <= N /\ SubSeq(F, 1, Len(F)) = F
  OBVIOUS
<1>5. w[N] = SubSeq(F, 1, off[N])
  BY <1>3, <1>4, Zenon
<1> QED BY <1>0, <1>4, <1>5, Zenon
=============================================================================
