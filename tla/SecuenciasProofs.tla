-------------------------- MODULE SecuenciasProofs --------------------------
(***************************************************************************)
(* Facts about sequences that the proofs of several components rest on:    *)
(* searches by index and removals, the operators that model the lists of   *)
(* the commons library.                                                    *)
(***************************************************************************)
EXTENDS SequencesExt, SequenceTheorems, FiniteSetTheorems, TLAPS

\* A non-empty set of naturals has a minimum: the smallest of the intervals that
\* end at its elements is inside all the others.
LEMMA MinNat ==
  ASSUME NEW S \in SUBSET Nat, S # {}
  PROVE  Min(S) \in S /\ \A y \in S : Min(S) <= y
<1> DEFINE T == {0 .. y : y \in S}
<1>1. T # {} /\ T \subseteq FiniteSubsetsOf(Nat)
  <2>1. \A y \in S : 0 .. y \in SUBSET Nat /\ IsFiniteSet(0 .. y)
    BY FS_Interval
  <2> QED
    BY <2>1 DEF FiniteSubsetsOf
<1>2. PICK x \in T : \A y \in T : ~ (<<y, x>> \in StrictSubsetOrdering(Nat))
  <2> HIDE DEF T
  <2> QED
    BY <1>1, FS_StrictSubsetOrderingWellFounded, WFMin
<1>3. PICK m \in S : x = 0 .. m
  OBVIOUS
<1>4. ASSUME NEW y \in S
      PROVE  m <= y
  <2>1. SUFFICES ASSUME y < m PROVE FALSE
    OBVIOUS
  <2>2. 0 .. y \in SUBSET Nat /\ 0 .. m \in SUBSET Nat
    OBVIOUS
  <2>3. 0 .. y \subseteq 0 .. m /\ 0 .. y # 0 .. m
    <3>1. m \in 0 .. m /\ m \notin 0 .. y
      BY <2>1
    <3>2. 0 .. y \subseteq 0 .. m
      BY <2>1
    <3> QED
      BY <3>1, <3>2
  <2>4. <<0 .. y, 0 .. m>> \in StrictSubsetOrdering(Nat)
    BY <2>2, <2>3 DEF StrictSubsetOrdering
  <2> QED
    BY <2>4, <1>2, <1>3
<1> QED
  BY <1>4 DEF Min

(***************************************************************************)
(* Induction over the naturals, for a set in place of a predicate, and     *)
(* what it gives for the functions defined by recursion over 0 .. n: one   *)
(* exists that satisfies its definition, and it stays in its type.         *)
(***************************************************************************)
LEMMA InduccionNat ==
  ASSUME NEW S \in SUBSET Nat, 0 \in S, \A n \in S : n + 1 \in S
  PROVE  S = Nat
<1> DEFINE F == Nat \ S
<1> SUFFICES ASSUME F # {} PROVE FALSE
  OBVIOUS
<1> DEFINE m == Min(F)
<1>1. m \in F /\ \A y \in F : m <= y
  BY MinNat
<1> HIDE DEF m
<1>2. m \in Nat /\ m # 0
  BY <1>1
<1>3. m - 1 \in Nat /\ m - 1 \notin F
  BY <1>1, <1>2
<1>4. m - 1 \in S /\ m - 1 + 1 = m
  BY <1>2, <1>3
<1> QED
  BY <1>1, <1>4

Itera(g, n, b, F) == g[0] = b /\ \A i \in 1 .. n : g[i] = F[i][g[i - 1]]
Hereda(g, n, T) == g[0] \in T /\ \A i \in 1 .. n : g[i - 1] \in T => g[i] \in T

LEMMA RecursionExiste ==
  ASSUME NEW T, NEW b \in T, NEW n \in Nat, NEW F \in [1 .. n -> [T -> T]]
  PROVE  \E g \in [0 .. n -> T] : Itera(g, n, b, F)
<1> DEFINE Sirve(g, k) == g[0] = b /\ \A i \in 1 .. k : g[i] = F[i][g[i - 1]]
           S == {k \in Nat : k <= n => \E g \in [0 .. k -> T] : Sirve(g, k)}
<1>1. 0 \in S
  <2> DEFINE g == [i \in 0 .. 0 |-> b]
  <2>1. g \in [0 .. 0 -> T] /\ Sirve(g, 0)
    OBVIOUS
  <2> QED
    BY <2>1
<1>2. ASSUME NEW k \in S
      PROVE  k + 1 \in S
  <2>0. k + 1 \in Nat
    OBVIOUS
  <2> SUFFICES ASSUME k + 1 <= n
               PROVE  \E g \in [0 .. k + 1 -> T] : Sirve(g, k + 1)
    BY <2>0
  <2>1. PICK g \in [0 .. k -> T] : Sirve(g, k)
    OBVIOUS
  <2> DEFINE h == [i \in 0 .. k + 1 |-> IF i <= k THEN g[i] ELSE F[k + 1][g[k]]]
  <2>2. k + 1 \in 1 .. n /\ g[k] \in T
    OBVIOUS
  <2>3. F[k + 1][g[k]] \in T
    BY <2>2
  <2>4. h \in [0 .. k + 1 -> T]
    BY <2>3
  <2>5. h[0] = b
    BY <2>1
  <2>6. ASSUME NEW i \in 1 .. k + 1
        PROVE  h[i] = F[i][h[i - 1]]
    <3>1. i - 1 \in 0 .. k /\ h[i - 1] = g[i - 1]
      OBVIOUS
    <3>2. CASE i \in 1 .. k
      BY <2>1, <3>1, <3>2
    <3>3. CASE i = k + 1
      BY <3>1, <3>3
    <3> QED
      BY <3>2, <3>3
  <2>7. Sirve(h, k + 1)
    BY <2>5, <2>6
  <2> HIDE DEF h
  <2> QED
    BY <2>4, <2>7
<1> HIDE DEF Sirve
<1>3. S = Nat
  <2> HIDE DEF S
  <2>1. S \in SUBSET Nat
    BY DEF S
  <2> QED
    BY <1>1, <1>2, <2>1, InduccionNat
<1>4. n \in S
  BY <1>3
<1> QED
  BY <1>4 DEF Sirve, Itera

LEMMA RecursionEnTipo ==
  ASSUME NEW T, NEW n \in Nat, NEW r, Hereda(r, n, T)
  PROVE  \A k \in 0 .. n : r[k] \in T
<1> USE DEF Hereda
<1> DEFINE S == {k \in Nat : k <= n => r[k] \in T}
<1>1. 0 \in S
  OBVIOUS
<1>2. ASSUME NEW k \in S
      PROVE  k + 1 \in S
  <2>1. SUFFICES ASSUME k + 1 <= n PROVE r[k + 1] \in T
    OBVIOUS
  <2>2. k + 1 \in 1 .. n /\ k + 1 - 1 = k /\ r[k] \in T
    BY <2>1
  <2> QED
    BY <2>2
<1>3. S = Nat
  <2> HIDE DEF S
  <2>1. S \in SUBSET Nat
    BY DEF S
  <2> QED
    BY <1>1, <1>2, <2>1, InduccionNat
<1> QED
  BY <1>3

(***************************************************************************)
(* Removing one element of a sequence: length and elements.                *)
(***************************************************************************)
LEMMA RemoveAtElements ==
  ASSUME NEW S, NEW s \in Seq(S), NEW k \in 1 .. Len(s)
  PROVE  /\ RemoveAt(s, k) \in Seq(S)
         /\ Len(RemoveAt(s, k)) = Len(s) - 1
         /\ \A i \in 1 .. Len(s) - 1 :
              RemoveAt(s, k)[i] = IF i < k THEN s[i] ELSE s[i + 1]
<1> DEFINE a == SubSeq(s, 1, k - 1)
           b == SubSeq(s, k + 1, Len(s))
<1>0. Len(s) \in Nat /\ \A i \in 1 .. Len(s) : s[i] \in S
  BY ElementOfSeq, LenProperties
<1>1. /\ a \in Seq(S)
      /\ Len(a) = k - 1
      /\ \A i \in 1 .. k - 1 : a[i] = s[i]
  <2>1. \A i \in 1 .. k - 1 : s[i] \in S
    BY <1>0
  <2>2. 1 \in Int /\ k - 1 \in Int
    BY <1>0
  <2> QED
    BY <2>1, <2>2, SubSeqProperties
<1>2. /\ b \in Seq(S)
      /\ Len(b) = Len(s) - k
      /\ \A i \in 1 .. Len(s) - k : b[i] = s[k + i]
  <2>1. \A i \in k + 1 .. Len(s) : s[i] \in S
    BY <1>0
  <2>2. k + 1 \in Int /\ Len(s) \in Int
    BY <1>0
  <2> QED
    BY <2>1, <2>2, <1>0, SubSeqProperties
<1> HIDE DEF a, b
<1>3. /\ a \o b \in Seq(S)
      /\ Len(a \o b) = Len(a) + Len(b)
      /\ \A i \in 1 .. Len(a) + Len(b) :
           (a \o b)[i] = IF i <= Len(a) THEN a[i] ELSE b[i - Len(a)]
  BY <1>1, <1>2, ConcatProperties
<1>4. RemoveAt(s, k) = a \o b
  BY DEF RemoveAt, a, b
<1>5. Len(a \o b) = Len(s) - 1
  BY <1>0, <1>1, <1>2, <1>3
<1>6. ASSUME NEW i \in 1 .. Len(s) - 1
      PROVE  (a \o b)[i] = IF i < k THEN s[i] ELSE s[i + 1]
  <2>1. i \in 1 .. Len(a) + Len(b)
    BY <1>0, <1>1, <1>2
  <2>2. CASE i < k
    BY <2>1, <2>2, <1>0, <1>1, <1>3
  <2>3. CASE i >= k
    <3>1. i - Len(a) \in 1 .. Len(s) - k /\ k + (i - Len(a)) = i + 1
      BY <2>3, <1>0, <1>1
    <3>2. b[i - Len(a)] = s[i + 1]
      BY <3>1, <1>2
    <3> QED
      BY <2>1, <2>3, <3>2, <1>0, <1>1, <1>3
  <2>4. i < k \/ i >= k
    BY <1>0
  <2> QED
    BY <2>2, <2>3, <2>4, Zenon
<1> QED
  BY <1>3, <1>4, <1>5, <1>6

(***************************************************************************)
(* Putting an element in the place of another.                             *)
(***************************************************************************)
LEMMA ExceptEnSeq ==
  ASSUME NEW S, NEW s \in Seq(S), NEW k \in DOMAIN s, NEW e \in S
  PROVE  /\ [s EXCEPT ![k] = e] \in Seq(S)
         /\ Len([s EXCEPT ![k] = e]) = Len(s)
         /\ DOMAIN [s EXCEPT ![k] = e] = DOMAIN s
BY LenProperties, ExceptSeq

=============================================================================
