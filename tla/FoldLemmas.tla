----------------------------- MODULE FoldLemmas -----------------------------
(***************************************************************************)
(* What a fold over a finite set builds, for the proofs about the models   *)
(* whose loops are folds.  FoldSet and FoldLeft of the community modules   *)
(* are CHOOSE expressions: of a function h on the subsets of S with        *)
(*                                                                         *)
(*     h[T] = IF T = {} THEN b ELSE op(c[T], h[T \ {c[T]}])                *)
(*                                                                         *)
(* where c picks an element of T.  FoldExists gives a function that        *)
(* satisfies the equation, so the CHOOSE is one that does, and FoldInduct  *)
(* shows what holds of any such function.                                  *)
(***************************************************************************)
EXTENDS Integers, FiniteSets, SequencesExt, FiniteSetTheorems, WellFoundedInduction, TLAPS

\* A set of naturals that is not empty has a least element.
LEMMA NatMin ==
    ASSUME NEW T \in SUBSET Nat, T # {}
    PROVE  \E m \in T : \A n \in T : m <= n
<1> DEFINE R == {p \in Nat \X Nat : p[1] < p[2]}
<1>1. IsWellFoundedOn(R, Nat)
  BY NatLessThanWellFounded DEF OpToRel
<1>2. PICK m \in T : \A n \in T : ~ (<<n, m>> \in R)
  <2> HIDE DEF R
  <2> QED BY <1>1, WFMin
<1>3. \A n \in T : ~ (n < m)
  BY <1>2
<1> QED BY <1>3

\* A set of places of a sequence that is not empty has a last one.
LEMMA NatMax ==
    ASSUME NEW n \in Nat, NEW T \in SUBSET (1 .. n), T # {}
    PROVE  \E m \in T : \A k \in T : m >= k
<1> DEFINE U == {n - k : k \in T}
<1>1. U \in SUBSET Nat /\ U # {}
  <2>1. \A k \in T : n - k \in Nat
    OBVIOUS
  <2> QED BY <2>1
<1>2. PICK u \in U : \A v \in U : u <= v
  <2> HIDE DEF U
  <2> QED BY <1>1, NatMin
<1>3. PICK m \in T : u = n - m
  OBVIOUS
<1>4. \A k \in T : n - m <= n - k
  BY <1>2, <1>3
<1> QED BY <1>4

\* c picks an element of every subset of S that is not empty.
Picks(c, S) == \A T \in SUBSET S : T # {} => c[T] \in T

\* g satisfies the equation of a fold with the step F.
Folds(g, S, c, b, F) ==
    \A T \in SUBSET S : g[T] = IF T = {} THEN b ELSE F[<<c[T], g[T \ {c[T]}]>>]

\* What holds of the empty set, and of a set when it holds of the set without
\* the element that is picked, holds of every subset of a finite set.
LEMMA SubsetInduction ==
    ASSUME NEW S, IsFiniteSet(S), NEW c, NEW P,
           Picks(c, S),
           P[{}],
           \A T \in SUBSET S : T # {} /\ P[T \ {c[T]}] => P[T]
    PROVE  \A T \in SUBSET S : P[T]
<1> DEFINE Bad == {n \in Nat : \E T \in SUBSET S : Cardinality(T) = n /\ ~P[T]}
<1>1. \A T \in SUBSET S : IsFiniteSet(T) /\ Cardinality(T) \in Nat
  BY FS_Subset, FS_CardinalityType
<1>2. SUFFICES ASSUME Bad # {} PROVE FALSE
  BY <1>1
<1>3. PICK n \in Bad : \A m \in Bad : n <= m
  <2>1. Bad \in SUBSET Nat
    OBVIOUS
  <2> HIDE DEF Bad
  <2> QED BY <1>2, <2>1, NatMin
<1>4. PICK T \in SUBSET S : Cardinality(T) = n /\ ~P[T]
  OBVIOUS
<1>5. T # {}
  BY <1>4
<1>6. c[T] \in T /\ ~P[T \ {c[T]}]
  BY <1>4, <1>5 DEF Picks
<1> DEFINE U == T \ {c[T]}
<1>7. U \in SUBSET S /\ ~P[U] /\ Cardinality(U) = n - 1 /\ Cardinality(U) \in Nat
  BY <1>1, <1>4, <1>6, FS_RemoveElement
<1>8. n - 1 \in Bad
  <2> HIDE DEF U
  <2> QED BY <1>7
<1> QED BY <1>3, <1>8

\* The values of a fold stay in the sets W[T] when each step does.
LEMMA FoldInduct ==
    ASSUME NEW S, IsFiniteSet(S), NEW c, NEW h, NEW W,
           Picks(c, S),
           h[{}] \in W[{}],
           \A T \in SUBSET S : T # {} /\ h[T \ {c[T]}] \in W[T \ {c[T]}] => h[T] \in W[T]
    PROVE  h[S] \in W[S]
<1> DEFINE P == [T \in SUBSET S |-> h[T] \in W[T]]
<1>1. P[{}]
  OBVIOUS
<1>2. ASSUME NEW T \in SUBSET S, T # {}, P[T \ {c[T]}] PROVE P[T]
  <2>1. T \ {c[T]} \in SUBSET S
    OBVIOUS
  <2> QED BY <1>2, <2>1
<1>3. \A T \in SUBSET S : P[T]
  <2> HIDE DEF P
  <2> QED BY <1>1, <1>2, SubsetInduction
<1> QED BY <1>3

\* The equation of a fold has a solution.
LEMMA FoldExists ==
    ASSUME NEW S, IsFiniteSet(S), NEW c, NEW W, NEW b \in W, NEW F \in [S \X W -> W],
           Picks(c, S)
    PROVE  \E g \in [SUBSET S -> W] : Folds(g, S, c, b, F)
<1> DEFINE Sub(n) == {T \in SUBSET S : Cardinality(T) <= n}
           Sol(n) == {g \in [Sub(n) -> W] : \A T \in Sub(n) :
                        g[T] = IF T = {} THEN b ELSE F[<<c[T], g[T \ {c[T]}]>>]}
           Bad == {n \in Nat : Sol(n) = {}}
<1>1. \A T \in SUBSET S : IsFiniteSet(T) /\ Cardinality(T) \in Nat
  BY FS_Subset, FS_CardinalityType
<1>2. \A T \in SUBSET S : Cardinality(T) = 0 <=> T = {}
  BY <1>1, FS_EmptySet
<1>3. \A T \in SUBSET S : T # {} =>
         T \ {c[T]} \in SUBSET S /\ Cardinality(T \ {c[T]}) = Cardinality(T) - 1
  BY <1>1, FS_RemoveElement DEF Picks
<1>4. Bad = {}
  <2>1. SUFFICES ASSUME Bad # {} PROVE FALSE
    OBVIOUS
  <2>2. PICK n \in Bad : \A m \in Bad : n <= m
    <3>1. Bad \in SUBSET Nat
      OBVIOUS
    <3> HIDE DEF Bad
    <3> QED BY <2>1, <3>1, NatMin
  <2>3. n # 0
    <3>1. SUFFICES ASSUME n = 0 PROVE FALSE
      OBVIOUS
    <3>2. \A T \in Sub(0) : T = {}
      BY <1>1, <1>2
    <3>3. [T \in Sub(0) |-> b] \in Sol(0)
      BY <3>2
    <3> QED BY <3>1, <3>3
  <2>4. n - 1 \in Nat /\ n - 1 \notin Bad
    <3>1. n \in Nat
      OBVIOUS
    <3>2. n - 1 \in Nat /\ ~ (n <= n - 1)
      BY <2>3, <3>1
    <3> HIDE DEF Bad
    <3> QED BY <2>2, <3>2
  <2>5. PICK g : g \in Sol(n - 1)
    BY <2>4
  <2> DEFINE f == [T \in Sub(n) |-> IF T \in Sub(n - 1) THEN g[T] ELSE F[<<c[T], g[T \ {c[T]}]>>]]
  <2>6. ASSUME NEW T \in Sub(n), T # {}
        PROVE  c[T] \in S /\ T \ {c[T]} \in Sub(n - 1) /\ T \ {c[T]} \in Sub(n)
    <3>1. T \in SUBSET S /\ Cardinality(T) \in Nat /\ Cardinality(T) <= n /\ n \in Nat
      BY <1>1
    <3>2. T \ {c[T]} \in SUBSET S /\ Cardinality(T \ {c[T]}) = Cardinality(T) - 1
      BY <1>3, <2>6, <3>1
    <3>3. c[T] \in T
      BY <2>6, <3>1 DEF Picks
    <3> QED BY <3>1, <3>2, <3>3
  <2>7. \A T \in Sub(n - 1) : T \in Sub(n)
    <3>1. \A T \in SUBSET S : Cardinality(T) <= n - 1 => Cardinality(T) <= n
      BY <1>1, <2>4
    <3> QED BY <3>1
  <2>8. {} \in Sub(n - 1)
    <3>1. Cardinality({}) = 0
      BY FS_EmptySet
    <3> QED BY <2>4, <3>1
  <2>9. g \in [Sub(n - 1) -> W] /\ \A T \in Sub(n - 1) :
            g[T] = IF T = {} THEN b ELSE F[<<c[T], g[T \ {c[T]}]>>]
    BY <2>5
  <2> HIDE DEF Sub
  <2>10. ASSUME NEW T \in Sub(n) PROVE f[T] \in W
    <3>1. CASE T \in Sub(n - 1)
      BY <2>9, <3>1
    <3>2. CASE T \notin Sub(n - 1)
      <4>1. T # {}
        BY <2>8, <3>2
      <4>2. <<c[T], g[T \ {c[T]}]>> \in S \X W
        BY <2>6, <2>9, <4>1
      <4> QED BY <3>2, <4>2
    <3> QED BY <3>1, <3>2
  <2>11. ASSUME NEW T \in Sub(n)
         PROVE  f[T] = IF T = {} THEN b ELSE F[<<c[T], f[T \ {c[T]}]>>]
    <3>1. CASE T = {}
      BY <2>8, <2>9, <3>1
    <3>2. CASE T # {}
      <4>1. f[T \ {c[T]}] = g[T \ {c[T]}]
        BY <2>6, <3>2
      <4>2. f[T] = F[<<c[T], g[T \ {c[T]}]>>]
        BY <2>9, <3>2
      <4> QED BY <3>2, <4>1, <4>2
    <3> QED BY <3>1, <3>2
  <2>12. f \in [Sub(n) -> W]
    BY <2>10
  <2>13. f \in Sol(n)
    <3> HIDE DEF f
    <3> QED BY <2>11, <2>12
  <2> QED BY <2>13
<1>5. PICK g : g \in Sol(Cardinality(S))
  <2>1. Cardinality(S) \in Nat
    BY FS_CardinalityType
  <2> QED BY <1>4, <2>1
<1>6. Sub(Cardinality(S)) = SUBSET S
  BY FS_Subset
<1>7. g \in [SUBSET S -> W] /\ \A T \in SUBSET S :
         g[T] = IF T = {} THEN b ELSE F[<<c[T], g[T \ {c[T]}]>>]
  BY <1>5, <1>6
<1> HIDE DEF Sub, Sol
<1> QED BY <1>7 DEF Folds

\* The steps G of a fold keep what W says of the elements that it went through.
StepsKeep(S, c, A, W, G) ==
    /\ \A T \in SUBSET S : W[T] \subseteq A
    /\ \A T \in SUBSET S : T # {} => \A v \in W[T \ {c[T]}] : G[<<c[T], v>>] \in W[T]

\* The equation of such a fold has a solution that keeps it.
LEMMA FoldStays ==
    ASSUME NEW S, IsFiniteSet(S), NEW c, Picks(c, S), NEW A, NEW W, NEW b, NEW G,
           StepsKeep(S, c, A, W, G), b \in W[{}]
    PROVE  \E g \in [SUBSET S -> A] : Folds(g, S, c, b, G) /\ \A T \in SUBSET S : g[T] \in W[T]
<1> DEFINE F == [p \in S \X A |-> IF G[p] \in A THEN G[p] ELSE p[2]]
<1>0. /\ \A T \in SUBSET S : W[T] \subseteq A
      /\ \A T \in SUBSET S : T # {} => \A v \in W[T \ {c[T]}] : G[<<c[T], v>>] \in W[T]
  BY DEF StepsKeep
<1>1. b \in A /\ F \in [S \X A -> A]
  BY <1>0
<1> HIDE DEF F
<1>2. PICK g \in [SUBSET S -> A] : Folds(g, S, c, b, F)
  BY <1>1, FoldExists
<1> DEFINE P == [T \in SUBSET S |-> g[T] \in W[T] /\ (T # {} => g[T] = G[<<c[T], g[T \ {c[T]}]>>])]
<1>3. P[{}]
  BY <1>2 DEF Folds
<1>4. ASSUME NEW T \in SUBSET S, T # {}, P[T \ {c[T]}] PROVE P[T]
  <2> DEFINE u == g[T \ {c[T]}]
  <2>1. T \ {c[T]} \in SUBSET S /\ c[T] \in S /\ u \in A
    BY <1>2, <1>4 DEF Picks
  <2>2. u \in W[T \ {c[T]}]
    BY <1>4, <2>1
  <2>3. G[<<c[T], u>>] \in W[T] /\ G[<<c[T], u>>] \in A
    BY <1>0, <1>4, <2>2
  <2>4. g[T] = F[<<c[T], u>>]
    BY <1>2, <1>4 DEF Folds
  <2> HIDE DEF u
  <2>5. F[<<c[T], u>>] = G[<<c[T], u>>]
    BY <2>1, <2>3 DEF F
  <2> QED BY <1>4, <2>3, <2>4, <2>5 DEF u
<1>5. \A T \in SUBSET S : P[T]
  <2> HIDE DEF P
  <2> QED BY <1>3, <1>4, SubsetInduction
<1>6. \A T \in SUBSET S : T = {} => g[T] = b
  BY <1>2 DEF Folds
<1> QED BY <1>5, <1>6 DEF Folds
-----------------------------------------------------------------------------
(***************************************************************************)
(* Lists without repetitions.                                              *)
(***************************************************************************)

\* Something new at the head of a list.
LEMMA AtHead ==
    ASSUME NEW S, NEW q \in Seq(S), IsInjective(q), NEW a \in S, a \notin ToSet(q)
    PROVE  /\ <<a>> \o q \in Seq(S) /\ IsInjective(<<a>> \o q)
           /\ ToSet(<<a>> \o q) = ToSet(q) \cup {a}
<1> DEFINE r == <<a>> \o q
<1>1. /\ r \in Seq(S) /\ r[1] = a
      /\ \A i \in 1 .. Len(q) : r[i + 1] = q[i]
      /\ DOMAIN r = 1 .. Len(q) + 1 /\ DOMAIN q = 1 .. Len(q) /\ Len(q) \in Nat
  OBVIOUS
<1> HIDE DEF r
<1>2. ASSUME NEW i \in DOMAIN r, i # 1
      PROVE  i - 1 \in DOMAIN q /\ r[i] = q[i - 1]
  <2>1. i - 1 \in 1 .. Len(q) /\ (i - 1) + 1 = i
    BY <1>1, <1>2
  <2> QED BY <1>1, <2>1
<1>3. \A i \in DOMAIN q : i + 1 \in DOMAIN r /\ r[i + 1] = q[i]
  BY <1>1
<1>4. 1 \in DOMAIN r
  BY <1>1
<1>5. ToSet(r) \subseteq ToSet(q) \cup {a}
  <2> SUFFICES ASSUME NEW i \in DOMAIN r PROVE r[i] \in ToSet(q) \cup {a}
    BY DEF ToSet
  <2>1. CASE i = 1
    BY <1>1, <2>1
  <2>2. CASE i # 1
    BY <1>2, <2>2 DEF ToSet
  <2> QED BY <2>1, <2>2
<1>6. ToSet(q) \cup {a} \subseteq ToSet(r)
  <2>1. ToSet(q) \subseteq ToSet(r)
    BY <1>3 DEF ToSet
  <2>2. a \in ToSet(r)
    BY <1>1, <1>4 DEF ToSet
  <2> QED BY <2>1, <2>2
<1>7. IsInjective(r)
  <2> SUFFICES ASSUME NEW i \in DOMAIN r, NEW j \in DOMAIN r, r[i] = r[j] PROVE i = j
    BY DEF IsInjective
  <2>1. \A k \in DOMAIN q : q[k] # a
    BY DEF ToSet
  <2>2. CASE i = 1 /\ j = 1
    BY <2>2
  <2>3. CASE i = 1 /\ j # 1
    BY <1>1, <1>2, <2>1, <2>3
  <2>4. CASE i # 1 /\ j = 1
    BY <1>1, <1>2, <2>1, <2>4
  <2>5. CASE i # 1 /\ j # 1
    <3>1. i - 1 = j - 1
      BY <1>2, <2>5 DEF IsInjective
    <3> QED BY <1>1, <3>1
  <2> QED BY <2>2, <2>3, <2>4, <2>5
<1> QED BY <1>1, <1>5, <1>6, <1>7 DEF r

\* One element less.
LEMMA Removed ==
    ASSUME NEW S, NEW q \in Seq(S), IsInjective(q), NEW k \in DOMAIN q
    PROVE  /\ RemoveAt(q, k) \in Seq(S) /\ IsInjective(RemoveAt(q, k))
           /\ ToSet(RemoveAt(q, k)) = ToSet(q) \ {q[k]}
<1> DEFINE r == RemoveAt(q, k)
           at == [i \in 1 .. Len(q) - 1 |-> IF i < k THEN i ELSE i + 1]
<1>1. Len(q) \in Nat /\ DOMAIN q = 1 .. Len(q) /\ k \in 1 .. Len(q)
  OBVIOUS
<1>2. \A i \in 1 .. Len(q) - 1 : at[i] \in DOMAIN q \ {k}
  BY <1>1
<1>3. \A i, j \in 1 .. Len(q) - 1 : at[i] = at[j] => i = j
  BY <1>1
<1>4. \A j \in DOMAIN q \ {k} : \E i \in 1 .. Len(q) - 1 : at[i] = j
  <2> SUFFICES ASSUME NEW j \in DOMAIN q \ {k} PROVE \E i \in 1 .. Len(q) - 1 : at[i] = j
    OBVIOUS
  <2>1. CASE j < k
    <3>1. j \in 1 .. Len(q) - 1 /\ at[j] = j
      BY <1>1, <2>1
    <3> QED BY <3>1
  <2>2. CASE ~(j < k)
    <3>1. j - 1 \in 1 .. Len(q) - 1 /\ at[j - 1] = j
      BY <1>1, <2>2
    <3> QED BY <3>1
  <2> QED BY <2>1, <2>2
<1> HIDE DEF at
<1>5. r \in Seq(S) /\ DOMAIN r = 1 .. Len(q) - 1 /\ \A i \in 1 .. Len(q) - 1 : r[i] = q[at[i]]
  <2> DEFINE head == SubSeq(q, 1, k - 1)  tail == SubSeq(q, k + 1, Len(q))
  <2>1. r = head \o tail
    BY DEF RemoveAt
  <2>2. head \in Seq(S) /\ Len(head) = k - 1 /\ \A i \in 1 .. k - 1 : head[i] = q[i]
    BY <1>1
  <2>3. tail \in Seq(S) /\ Len(tail) = Len(q) - k /\ \A i \in 1 .. Len(q) - k : tail[i] = q[i + k]
    BY <1>1
  <2> HIDE DEF head, tail
  <2> HIDE DEF r
  <2>4. /\ r \in Seq(S) /\ Len(r) = Len(head) + Len(tail)
        /\ \A i \in 1 .. Len(head) : r[i] = head[i]
        /\ \A i \in Len(head) + 1 .. Len(head) + Len(tail) : r[i] = tail[i - Len(head)]
    <3>1. head \in Seq(S) /\ tail \in Seq(S) /\ Len(head) \in Nat /\ Len(tail) \in Nat
      BY <2>2, <2>3
    <3>2. r \in Seq(S) /\ Len(r) = Len(head) + Len(tail)
      BY <2>1, <3>1
    <3>3. \A i \in 1 .. Len(head) : r[i] = head[i]
      BY <2>1, <3>1
    <3>4. \A i \in Len(head) + 1 .. Len(head) + Len(tail) : r[i] = tail[i - Len(head)]
      BY <2>1, <3>1
    <3> QED BY <3>2, <3>3, <3>4
  <2>5. Len(r) = Len(q) - 1 /\ DOMAIN r = 1 .. Len(q) - 1
    BY <1>1, <2>2, <2>3, <2>4
  <2>6. ASSUME NEW i \in 1 .. Len(q) - 1 PROVE r[i] = q[at[i]]
    <3>1. CASE i < k
      <4>1. i \in 1 .. k - 1 /\ i \in 1 .. Len(head) /\ at[i] = i
        BY <1>1, <2>2, <3>1 DEF at
      <4>2. r[i] = head[i]
        BY <2>4, <4>1
      <4> QED BY <2>2, <4>1, <4>2
    <3>2. CASE ~(i < k)
      <4>1. i - (k - 1) \in 1 .. Len(q) - k /\ at[i] = i + 1 /\ (i - (k - 1)) + k = i + 1
        BY <1>1, <3>2 DEF at
      <4>2. r[i] = tail[i - (k - 1)]
        <5>1. i \in Len(head) + 1 .. Len(head) + Len(tail)
          BY <1>1, <2>2, <2>3, <3>2
        <5> QED BY <2>2, <2>4, <5>1
      <4> QED BY <2>3, <4>1, <4>2
    <3> QED BY <3>1, <3>2
  <2> QED BY <2>4, <2>5, <2>6
<1> HIDE DEF r
<1>6. IsInjective(r)
  <2> SUFFICES ASSUME NEW i \in 1 .. Len(q) - 1, NEW j \in 1 .. Len(q) - 1, r[i] = r[j] PROVE i = j
    BY <1>5 DEF IsInjective
  <2>1. q[at[i]] = q[at[j]] /\ at[i] \in DOMAIN q /\ at[j] \in DOMAIN q
    BY <1>2, <1>5
  <2> QED BY <1>3, <2>1 DEF IsInjective
<1>7. ToSet(r) = ToSet(q) \ {q[k]}
  <2>1. ASSUME NEW i \in DOMAIN r PROVE r[i] \in ToSet(q) \ {q[k]}
    <3>1. r[i] = q[at[i]] /\ at[i] \in DOMAIN q /\ at[i] # k
      BY <1>2, <1>5
    <3>2. q[at[i]] # q[k]
      BY <3>1 DEF IsInjective
    <3> QED BY <3>1, <3>2 DEF ToSet
  <2>2. ASSUME NEW j \in DOMAIN q, q[j] # q[k] PROVE q[j] \in ToSet(r)
    <3>1. PICK i \in 1 .. Len(q) - 1 : at[i] = j
      BY <1>4, <2>2
    <3>2. r[i] = q[j] /\ i \in DOMAIN r
      BY <1>5, <3>1
    <3> QED BY <3>2 DEF ToSet
  <2>3. ToSet(r) \subseteq ToSet(q) \ {q[k]}
    BY <2>1 DEF ToSet
  <2>4. ToSet(q) \ {q[k]} \subseteq ToSet(r)
    BY <2>2 DEF ToSet
  <2> QED BY <2>3, <2>4
<1> QED BY <1>5, <1>6, <1>7 DEF r

\* The first of some places is one of them.
LEMMA FirstIs ==
    ASSUME NEW n \in Nat, NEW I \in SUBSET (1 .. n), I # {}
    PROVE  Min(I) \in I
<1>1. I \in SUBSET Nat
  OBVIOUS
<1>2. \E m \in I : \A k \in I : m <= k
  BY <1>1, NatMin
<1> QED BY <1>2 DEF Min

\* A set of places of a list has a last one.
LEMMA LastPlace ==
    ASSUME NEW B, NEW q \in Seq(B), NEW T \in SUBSET DOMAIN q, T # {}
    PROVE  Max(T) \in T
<1>1. T \in SUBSET (1 .. Len(q)) /\ Len(q) \in Nat
  OBVIOUS
<1>2. \E m \in T : \A k \in T : m >= k
  BY <1>1, NatMax
<1> QED BY <1>2 DEF Max

\* h satisfies the equation of a fold over the list q with the step F.
FoldsList(h, q, b, F) ==
    \A T \in SUBSET DOMAIN q : h[T] = IF T = {} THEN b ELSE F[<<h[T \ {Max(T)}], q[Max(T)]>>]

\* The equation of a fold over a list has a solution.
LEMMA ListExists ==
    ASSUME NEW A, NEW B, NEW b \in A, NEW q \in Seq(B), NEW F \in [A \X B -> A]
    PROVE  \E h \in [SUBSET DOMAIN q -> A] : FoldsList(h, q, b, F)
<1> DEFINE S == DOMAIN q
           pick == [T \in SUBSET S |-> Max(T)]
           G == [x \in S \X A |-> F[<<x[2], q[x[1]]>>]]
<1>1. S = 1 .. Len(q) /\ Len(q) \in Nat /\ \A i \in S : q[i] \in B
  OBVIOUS
<1>2. IsFiniteSet(S)
  BY <1>1, FS_Interval
<1>3. \A T \in SUBSET S : T # {} => Max(T) \in T
  BY LastPlace
<1> HIDE DEF S
<1>4. Picks(pick, S)
  BY <1>3 DEF Picks
<1>5. G \in [S \X A -> A]
  <2>1. ASSUME NEW x \in S \X A PROVE F[<<x[2], q[x[1]]>>] \in A
    <3>1. <<x[2], q[x[1]]>> \in A \X B
      BY <1>1
    <3> QED BY <3>1
  <2> QED BY <2>1
<1>6. PICK g \in [SUBSET S -> A] : Folds(g, S, pick, b, G)
  <2> HIDE DEF pick, G
  <2> QED BY <1>2, <1>4, <1>5, FoldExists
<1>7. \A T \in SUBSET S : g[T] = IF T = {} THEN b ELSE F[<<g[T \ {Max(T)}], q[Max(T)]>>]
  <2>1. ASSUME NEW T \in SUBSET S, T # {}
        PROVE  G[<<pick[T], g[T \ {pick[T]}]>>] = F[<<g[T \ {Max(T)}], q[Max(T)]>>]
    <3>1. pick[T] = Max(T) /\ Max(T) \in S /\ g[T \ {Max(T)}] \in A
      BY <1>3, <2>1
    <3> HIDE DEF pick
    <3>2. <<Max(T), g[T \ {Max(T)}]>> \in S \X A
      BY <3>1
    <3> QED BY <3>1, <3>2
  <2> HIDE DEF G
  <2> QED BY <1>6, <2>1 DEF Folds
<1> QED BY <1>7 DEF S, FoldsList

\* The first i places of a list: the last of them and those before it.
LEMMA FirstPlaces ==
    ASSUME NEW B, NEW q \in Seq(B), NEW i \in 1 .. Len(q)
    PROVE  1 .. i \in SUBSET DOMAIN q /\ 1 .. i # {} /\ Max(1 .. i) = i /\ (1 .. i) \ {i} = 1 .. (i - 1)
<1>0. i \in Nat /\ DOMAIN q = 1 .. Len(q) /\ Len(q) \in Nat
  OBVIOUS
<1>1. i \in 1 .. i /\ \A j \in 1 .. i : i >= j
  BY <1>0
<1>2. \A x \in 1 .. i : (\A j \in 1 .. i : x >= j) => x = i
  BY <1>0
<1>3. Max(1 .. i) = i
  BY <1>1, <1>2 DEF Max
<1>4. 1 .. i \in SUBSET DOMAIN q /\ 1 .. i # {} /\ (1 .. i) \ {i} = 1 .. (i - 1)
  BY <1>0, <1>1
<1> QED BY <1>3, <1>4

\* Two functions that satisfy the equation of the same fold end alike.
LEMMA SameFold ==
    ASSUME NEW S, IsFiniteSet(S), NEW c, Picks(c, S), NEW g, NEW h, g[{}] = h[{}],
           \A T \in SUBSET S : T # {} /\ g[T \ {c[T]}] = h[T \ {c[T]}] => g[T] = h[T]
    PROVE  g[S] = h[S]
<1> DEFINE P == [T \in SUBSET S |-> g[T] = h[T]]
<1>1. P[{}]
  OBVIOUS
<1>2. ASSUME NEW T \in SUBSET S, T # {}, P[T \ {c[T]}] PROVE P[T]
  <2>1. T \ {c[T]} \in SUBSET S
    OBVIOUS
  <2> QED BY <1>2, <2>1
<1>3. \A T \in SUBSET S : P[T]
  <2> HIDE DEF P
  <2> QED BY <1>1, <1>2, SubsetInduction
<1> QED BY <1>3

\* The steps G of a fold over the list q keep what W says of the places gone through.
StepsGo(q, A, W, G) ==
    /\ \A T \in SUBSET DOMAIN q : W[T] \subseteq A
    /\ \A T \in SUBSET DOMAIN q : T # {} => \A v \in W[T \ {Max(T)}] : G[<<v, q[Max(T)]>>] \in W[T]

\* The places of a list are finitely many, and Max picks one of some of them.
LEMMA ListPicks ==
    ASSUME NEW B, NEW q \in Seq(B)
    PROVE  IsFiniteSet(DOMAIN q) /\ Picks([T \in SUBSET DOMAIN q |-> Max(T)], DOMAIN q)
<1>1. DOMAIN q = 1 .. Len(q) /\ Len(q) \in Nat
  OBVIOUS
<1>2. IsFiniteSet(DOMAIN q)
  BY <1>1, FS_Interval
<1> QED BY <1>2, LastPlace DEF Picks

\* The equation of such a fold has a solution that keeps it.
LEMMA ListStays ==
    ASSUME NEW B, NEW q \in Seq(B), NEW A, NEW W, NEW b, NEW G, StepsGo(q, A, W, G), b \in W[{}]
    PROVE  \E g \in [SUBSET DOMAIN q -> A] : FoldsList(g, q, b, G) /\ \A T \in SUBSET DOMAIN q : g[T] \in W[T]
<1> DEFINE S == DOMAIN q
           pick == [T \in SUBSET S |-> Max(T)]
           H == [x \in S \X A |-> G[<<x[2], q[x[1]]>>]]
<1>1. IsFiniteSet(S) /\ Picks(pick, S)
  BY ListPicks
<1>2. \A T \in SUBSET S : pick[T] = Max(T) /\ W[T] \subseteq A
  BY DEF StepsGo
<1> HIDE DEF pick
<1>3. ASSUME NEW T \in SUBSET S, T # {}, NEW v \in W[T \ {pick[T]}]
      PROVE  H[<<pick[T], v>>] \in W[T] /\ H[<<pick[T], v>>] = G[<<v, q[Max(T)]>>]
  <2>1. pick[T] = Max(T) /\ Max(T) \in S /\ T \ {pick[T]} \in SUBSET S
    BY <1>2, <1>3, LastPlace
  <2>2. <<Max(T), v>> \in S \X A
    BY <1>2, <1>3, <2>1
  <2>3. H[<<pick[T], v>>] = G[<<v, q[Max(T)]>>]
    BY <2>1, <2>2
  <2> HIDE DEF H
  <2> QED BY <1>3, <2>1, <2>3 DEF StepsGo
<1> HIDE DEF H
<1>4. PICK g \in [SUBSET S -> A] : Folds(g, S, pick, b, H) /\ \A T \in SUBSET S : g[T] \in W[T]
  <2>1. StepsKeep(S, pick, A, W, H)
    BY <1>2, <1>3 DEF StepsKeep
  <2> HIDE DEF S
  <2> QED BY <1>1, <2>1, FoldStays
<1>5. ASSUME NEW T \in SUBSET S, T # {}
      PROVE  g[T] = G[<<g[T \ {Max(T)}], q[Max(T)]>>]
  <2>1. T \ {pick[T]} \in SUBSET S
    OBVIOUS
  <2>2. g[T \ {pick[T]}] \in W[T \ {pick[T]}]
    BY <1>4, <2>1
  <2>3. g[T] = H[<<pick[T], g[T \ {pick[T]}]>>]
    BY <1>4, <1>5 DEF Folds
  <2> QED BY <1>2, <1>3, <1>5, <2>2, <2>3
<1>6. g[{}] = b
  <2>1. {} \in SUBSET S
    OBVIOUS
  <2> QED BY <1>4, <2>1 DEF Folds
<1> QED BY <1>4, <1>5, <1>6 DEF FoldsList

\* Two functions that satisfy the equation of the same fold over a list end alike.
LEMMA SameList ==
    ASSUME NEW B, NEW q \in Seq(B), NEW g, NEW h, g[{}] = h[{}],
           \A T \in SUBSET DOMAIN q : T # {} /\ g[T \ {Max(T)}] = h[T \ {Max(T)}] => g[T] = h[T]
    PROVE  g[DOMAIN q] = h[DOMAIN q]
<1> DEFINE pick == [T \in SUBSET DOMAIN q |-> Max(T)]
<1>1. IsFiniteSet(DOMAIN q) /\ Picks(pick, DOMAIN q)
  BY ListPicks
<1>2. \A T \in SUBSET DOMAIN q : pick[T] = Max(T)
  OBVIOUS
<1> HIDE DEF pick
<1>3. \A T \in SUBSET DOMAIN q : T # {} /\ g[T \ {pick[T]}] = h[T \ {pick[T]}] => g[T] = h[T]
  BY <1>2
<1>4. ASSUME NEW S, S = DOMAIN q PROVE g[S] = h[S]
  <2>1. IsFiniteSet(S) /\ Picks(pick, S)
    BY <1>1, <1>4
  <2>2. \A T \in SUBSET S : T # {} /\ g[T \ {pick[T]}] = h[T \ {pick[T]}] => g[T] = h[T]
    BY <1>3, <1>4
  <2> DEFINE P == [T \in SUBSET S |-> g[T] = h[T]]
  <2>3. P[{}]
    OBVIOUS
  <2>4. ASSUME NEW T \in SUBSET S, T # {}, P[T \ {pick[T]}] PROVE P[T]
    <3>1. T \ {pick[T]} \in SUBSET S
      OBVIOUS
    <3> QED BY <2>2, <2>4, <3>1
  <2>5. \A T \in SUBSET S : P[T]
    <3> HIDE DEF P
    <3> QED BY <2>1, <2>3, <2>4, SubsetInduction
  <2> QED BY <2>5
<1> QED BY <1>4

\* What is at a place of a list.
LEMMA PlaceOf ==
    ASSUME NEW S, NEW q \in Seq(S), NEW k \in 1 .. Len(q)
    PROVE  q[k] \in S
  OBVIOUS

\* The place SelectInSeq() finds.
LEMMA PlaceIs ==
    ASSUME NEW S, NEW q \in Seq(S), NEW I \in SUBSET (1 .. Len(q)),
           NEW k, k = IF I # {} THEN Min(I) ELSE 0
    PROVE  /\ k \in 0 .. Len(q) /\ (k # 0 <=> I # {}) /\ (k # 0 => k \in I)
<1>1. Len(q) \in Nat
  OBVIOUS
<1>2. I # {} => Min(I) \in I
  BY <1>1, FirstIs
<1>3. \A i \in I : i \in 0 .. Len(q) /\ i # 0
  BY <1>1
<1>4. CASE I # {}
  <2>1. k = Min(I) /\ k \in I
    BY <1>2, <1>4
  <2> QED BY <1>3, <1>4, <2>1
<1>5. CASE I = {}
  BY <1>1, <1>5
<1> QED BY <1>4, <1>5

\* The list without one of its places.
LEMMA RemoveIs ==
    ASSUME NEW S, NEW q \in Seq(S), NEW k \in 1 .. Len(q)
    PROVE  RemoveAt(q, k) \in Seq(S)
<1>1. SubSeq(q, 1, k - 1) \in Seq(S) /\ SubSeq(q, k + 1, Len(q)) \in Seq(S)
  <2>1. Len(q) \in Nat /\ k \in Nat
    OBVIOUS
  <2> QED BY <2>1
<1> QED BY <1>1 DEF RemoveAt
=============================================================================
