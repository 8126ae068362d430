--------------------------- MODULE SequenceFacts ---------------------------
(***************************************************************************)
(* Facts about sequences that several components' proofs use: how often a  *)
(* value occurs in a queue when a message is appended at its end or taken  *)
(* from its front, and what a function defined by recursion over the       *)
(* naturals is.                                                            *)
(***************************************************************************)
EXTENDS Integers, Sequences, SequencesExt, FiniteSetTheorems, FunctionTheorems,
        SequenceTheorems, WellFoundedInduction, TLAPS

(* A set of naturals that is not empty has a least element: what stands in  *)
(* for induction below.                                                    *)
LEMMA LeastNat ==
  ASSUME NEW T \in SUBSET Nat, T # {}
  PROVE  \E x \in T : \A y \in T : x <= y
<1> DEFINE R == OpToRel(<, Nat)
<1>1. R = {ss \in Nat \X Nat : ss[1] < ss[2]}
  BY DEF OpToRel
<1>2. IsWellFoundedOn(R, Nat)
  BY NatLessThanWellFounded
<1> HIDE DEF R
<1>3. PICK x \in T : \A y \in T : ~(<<y, x>> \in R)
  BY <1>2, WFMin
<1>4. \A y \in T : y < x => <<y, x>> \in R
  BY <1>1
<1>5. ASSUME NEW y \in T  PROVE x <= y
  <2>1. x \in Nat /\ y \in Nat /\ ~(y < x)
    BY <1>3, <1>4
  <2> QED  BY <2>1
<1> QED  BY <1>5

(* A function that satisfies the recursion of FlattenSeq is the one it      *)
(* denotes: at the least index where two differ, they do not.              *)
LEMMA FlattenIs ==
  ASSUME NEW n \in Nat, n > 0, NEW seqs, Len(seqs) = n, NEW g,
         \A i \in 1..n : g[i] = IF i = 1 THEN seqs[i] ELSE g[i - 1] \o seqs[i]
  PROVE  FlattenSeq(seqs) = g[n]
<1> DEFINE Flat(f) == f = [i \in 1..n |-> IF i = 1 THEN seqs[i] ELSE f[i - 1] \o seqs[i]]
           h == [i \in 1..n |-> g[i]]
<1>1. FlattenSeq(seqs) = (CHOOSE f : Flat(f))[n]
  BY DEF FlattenSeq
<1>2. Flat(h)
  <2>1. \A i \in 1..n : i # 1 => i - 1 \in 1..n
    OBVIOUS
  <2> QED  BY <2>1
<1>3. \A f : Flat(f) => f[n] = g[n]
  <2> SUFFICES ASSUME NEW f, Flat(f), f[n] # g[n]  PROVE FALSE
    OBVIOUS
  <2> DEFINE T == {i \in 1..n : f[i] # g[i]}
  <2>1. T \in SUBSET Nat /\ n \in T
    OBVIOUS
  <2>2. PICK x \in T : \A y \in T : x <= y
    BY <2>1, LeastNat
  <2>3. x # 1
    OBVIOUS
  <2>4. x - 1 \in 1..n /\ f[x - 1] = g[x - 1]
    BY <2>2, <2>3
  <2>5. f[x] = f[x - 1] \o seqs[x] /\ g[x] = g[x - 1] \o seqs[x]
    BY <2>3
  <2> QED  BY <2>4, <2>5
<1>4. Flat(CHOOSE f : Flat(f))
  <2> HIDE DEF Flat
  <2> QED  BY <1>2
<1> QED  BY <1>1, <1>3, <1>4

-----------------------------------------------------------------------------
(* How many of the first n elements of s are y.                              *)
Occ(s, n, y) == Cardinality({i \in 1..n : s[i] = y})
One(b) == IF b THEN 1 ELSE 0

LEMMA OneValue == \A x, y : One(x = y) \in Nat
  BY DEF One

LEMMA OccFinite ==
  ASSUME NEW s, NEW y, NEW n \in Nat
  PROVE  IsFiniteSet({i \in 1..n : s[i] = y}) /\ Occ(s, n, y) \in Nat
<1>1. IsFiniteSet(1..n)
  BY FS_Interval
<1>2. {i \in 1..n : s[i] = y} \in SUBSET (1..n)
  OBVIOUS
<1> QED  BY <1>1, <1>2, FS_Subset, FS_CardinalityType DEF Occ

LEMMA OccZero == ASSUME NEW s, NEW y  PROVE Occ(s, 0, y) = 0
<1>1. {i \in 1..0 : s[i] = y} = {}
  OBVIOUS
<1> QED  BY <1>1, FS_EmptySet DEF Occ

LEMMA OccNext ==
  ASSUME NEW s, NEW y, NEW n \in Nat
  PROVE  Occ(s, n + 1, y) = Occ(s, n, y) + One(s[n + 1] = y)
<1> DEFINE A == {i \in 1..n : s[i] = y}
           B == {i \in 1..(n + 1) : s[i] = y}
<1>1. IsFiniteSet(A) /\ n + 1 \notin A /\ Cardinality(A) \in Nat
  BY OccFinite DEF Occ
<1>2. B = IF s[n + 1] = y THEN A \cup {n + 1} ELSE A
  OBVIOUS
<1>3. Cardinality(A \cup {n + 1}) = Cardinality(A) + 1
  BY <1>1, FS_AddElement
<1> HIDE DEF A, B
<1>4. Cardinality(B) = Cardinality(A) + One(s[n + 1] = y)
  BY <1>1, <1>2, <1>3 DEF One
<1> QED  BY <1>4 DEF Occ, A, B

(* Appending a message changes nothing before it.                            *)
LEMMA OccPrefix ==
  ASSUME NEW S, NEW s \in Seq(S), NEW x \in S, NEW y, NEW n \in 0..Len(s)
  PROVE  Occ(Append(s, x), n, y) = Occ(s, n, y)
<1>1. Len(s) \in Nat /\ \A i \in 1..Len(s) : Append(s, x)[i] = s[i]
  BY LenProperties, AppendProperties
<1>2. \A i \in 1..n : Append(s, x)[i] = s[i]
  BY <1>1
<1>3. {i \in 1..n : Append(s, x)[i] = y} = {i \in 1..n : s[i] = y}
  BY <1>2
<1> QED  BY <1>3 DEF Occ

LEMMA OccAppend ==
  ASSUME NEW S, NEW s \in Seq(S), NEW x \in S, NEW y
  PROVE  Occ(Append(s, x), Len(s) + 1, y) = Occ(s, Len(s), y) + One(x = y)
<1> DEFINE r == Append(s, x)
<1>1. Len(s) \in Nat /\ Len(s) \in 0..Len(s) /\ r[Len(s) + 1] = x
  BY LenProperties, AppendProperties
<1>2. Occ(r, Len(s), y) = Occ(s, Len(s), y)
  BY <1>1, OccPrefix
<1> HIDE DEF r
<1>3. Occ(r, Len(s) + 1, y) = Occ(r, Len(s), y) + One(x = y)
  BY <1>1, OccNext
<1> QED  BY <1>2, <1>3 DEF r

(* Taking the first message moves the others up.                             *)
LEMMA OccTail ==
  ASSUME NEW S, NEW s \in Seq(S), s # <<>>, NEW y, NEW n \in 0..(Len(s) - 1)
  PROVE  Occ(s, n + 1, y) = Occ(Tail(s), n, y) + One(Head(s) = y)
<1> DEFINE r == Tail(s)
           A == {i \in 1..n : r[i] = y}
           B == {i \in 2..(n + 1) : s[i] = y}
           C == {i \in 1..(n + 1) : s[i] = y}
           f == [i \in A |-> i + 1]
<1>1. Len(s) \in Nat /\ Head(s) = s[1] /\ \A i \in 1..n : r[i] = s[i + 1]
  BY LenProperties, HeadTailProperties
<1>2. n \in Nat
  BY <1>1
<1> HIDE DEF r
<1>3. IsFiniteSet(A) /\ Cardinality(A) \in Nat
  BY <1>2, OccFinite DEF Occ
<1>4. f \in Bijection(A, B)
  <2>1. \A i \in A : i \in Nat /\ i + 1 \in B
    BY <1>1, <1>2
  <2>2. \A j \in B : j - 1 \in A /\ f[j - 1] = j
    BY <1>1, <1>2
  <2>3. f \in [A -> B] /\ \A i \in A : f[i] = i + 1
    BY <2>1
  <2> HIDE DEF A, B, f
  <2>4. \A i, j \in A : f[i] = f[j] => i = j
    BY <2>1, <2>3
  <2>5. \A j \in B : \E i \in A : f[i] = j
    BY <2>2
  <2> QED  BY <2>3, <2>4, <2>5, Fun_IsBij
<1>5. IsFiniteSet(B) /\ Cardinality(B) = Cardinality(A)
  BY <1>3, <1>4, FS_Bijection DEF ExistsBijection
<1>6. 1 \notin B /\ C = IF Head(s) = y THEN B \cup {1} ELSE B
  BY <1>1, <1>2
<1>7. Cardinality(B \cup {1}) = Cardinality(B) + 1
  BY <1>5, <1>6, FS_AddElement
<1> HIDE DEF A, B, C
<1>8. Cardinality(C) = Cardinality(A) + One(Head(s) = y)
  BY <1>3, <1>5, <1>6, <1>7 DEF One
<1> QED  BY <1>8 DEF Occ, A, C, r
=============================================================================
