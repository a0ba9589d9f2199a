------------------------------- MODULE SetFolds -------------------------------
(* What the folds of the community modules compute, for all finite sets: by *)
(* induction over the subsets of a finite set.  The set of those of which   *)
(* the claim holds stands for the claim.                                    *)
EXTENDS Naturals, FiniteSets, FiniteSetsExt, FiniteSetTheorems, WellFoundedInduction, TLAPS

(* A set of subsets of S that has each one whose proper subsets it has is   *)
(* the set of all of them.                                                  *)
LEMMA SubsetInduction ==
  ASSUME NEW S, IsFiniteSet(S), NEW P \in SUBSET (SUBSET S),
         \A T \in SUBSET S : (\A U \in SUBSET T : U # T => U \in P) => T \in P
  PROVE  SUBSET S \subseteq P
<1> SUFFICES ASSUME NEW Q \in SUBSET S, Q \notin P PROVE FALSE
  OBVIOUS
<1> DEFINE Bad == (SUBSET S) \ P
<1>1. IsWellFoundedOn(StrictSubsetOrdering(S), SUBSET S)
  <2>1. FiniteSubsetsOf(S) = SUBSET S
    BY FS_FiniteSubsetsOfFinite
  <2>2. IsWellFoundedOn(StrictSubsetOrdering(S), FiniteSubsetsOf(S))
    BY FS_StrictSubsetOrderingWellFounded
  <2> QED BY <2>1, <2>2
<1>2. Bad \subseteq SUBSET S /\ Bad # {}
  OBVIOUS
<1>3. PICK T \in Bad : \A U \in Bad : ~ (<<U, T>> \in StrictSubsetOrdering(S))
  <2> HIDE DEF Bad
  <2> QED BY <1>1, <1>2, WFMin
<1>4. ASSUME NEW U \in SUBSET T, U # T PROVE U \in P
  BY <1>3 DEF StrictSubsetOrdering
<1>5. T \in P
  BY <1>3, <1>4
<1> QED BY <1>3, <1>5

(* Recursion over the subsets of a finite set: `next` chooses, `F` adds.    *)
Solves(it, U, base, next, F, V) ==
  /\ it \in [SUBSET U -> V]
  /\ \A T \in SUBSET U : it[T] = IF T = {} THEN base ELSE F[<<next[T], it[T \ {next[T]}]>>]

(* There is one: the recursive definition of a fold defines something.      *)
LEMMA FoldExists ==
  ASSUME NEW S, IsFiniteSet(S), NEW V, NEW base \in V, NEW next,
         \A T \in SUBSET S : T # {} => next[T] \in T,
         NEW F \in [S \X V -> V]
  PROVE  \E it : Solves(it, S, base, next, F, V)
<1> DEFINE Sol(h, U) == Solves(h, U, base, next, F, V)
<1> DEFINE P == {U \in SUBSET S : \E h : Sol(h, U)}
<1> DEFINE H(T) == CHOOSE h : Sol(h, T)
<1>0. ASSUME NEW U \in SUBSET S, NEW W \in SUBSET S, NEW g, NEW h, Sol(g, U), Sol(h, W),
             NEW T \in SUBSET (U \cap W)
      PROVE  g[T] = h[T]
  <2> DEFINE M == {Q \in SUBSET S : Q \subseteq U \cap W => g[Q] = h[Q]}
  <2>1. ASSUME NEW Q \in SUBSET S, \A R \in SUBSET Q : R # Q => R \in M
        PROVE  Q \in M
    <3> SUFFICES ASSUME Q \subseteq U \cap W, Q # {} PROVE g[Q] = h[Q]
      BY <1>0 DEF Solves
    <3>1. next[Q] \in Q
      OBVIOUS
    <3>2. Q \ {next[Q]} \in M
      BY <2>1, <3>1
    <3>3. g[Q \ {next[Q]}] = h[Q \ {next[Q]}]
      BY <3>2
    <3> QED BY <1>0, <3>3 DEF Solves
  <2>2. SUBSET S \subseteq M
    <3>1. M \in SUBSET (SUBSET S)
      OBVIOUS
    <3> HIDE DEF M
    <3> QED BY <2>1, <3>1, SubsetInduction
  <2> QED BY <2>2
<1>1. ASSUME NEW U \in SUBSET S, \A W \in SUBSET U : W # U => W \in P
      PROVE  U \in P
  <2> DEFINE g == [T \in SUBSET U |->
        IF T = {} THEN base ELSE F[<<next[T], H(T \ {next[T]})[T \ {next[T]}]>>]]
  <2>1. ASSUME NEW W \in SUBSET U, W # U PROVE Sol(H(W), W)
    <3>1. \E h : Sol(h, W)
      BY <1>1, <2>1
    <3> HIDE DEF Sol
    <3> QED BY <3>1
  <2>2. ASSUME NEW T \in SUBSET U, T # {}
        PROVE  /\ next[T] \in T /\ T \ {next[T]} \in SUBSET U /\ T \ {next[T]} # U
               /\ Sol(H(T \ {next[T]}), T \ {next[T]})
    <3>1. next[T] \in T
      BY <2>2
    <3>2. T \ {next[T]} \in SUBSET U /\ T \ {next[T]} # U
      BY <3>1
    <3> QED BY <3>1, <3>2, <2>1
  <2>3. g \in [SUBSET U -> V]
    <3> SUFFICES ASSUME NEW T \in SUBSET U, T # {}
                 PROVE  F[<<next[T], H(T \ {next[T]})[T \ {next[T]}]>>] \in V
      OBVIOUS
    <3>1. H(T \ {next[T]})[T \ {next[T]}] \in V
      <4> DEFINE D == T \ {next[T]}
      <4>1. Sol(H(D), D)
        BY <2>2
      <4> HIDE DEF D, H
      <4>2. H(D)[D] \in V
        BY <4>1 DEF Solves
      <4> QED BY <4>2 DEF D
    <3> HIDE DEF H
    <3> QED BY <3>1, <2>2
  <2>4. ASSUME NEW W \in SUBSET U, W # U
        PROVE  g[W] = H(W)[W]
    <3>1. CASE W = {}
      <4> HIDE DEF H
      <4> QED BY <3>1, <2>1, <2>4 DEF Solves
    <3>2. CASE W # {}
      <4> DEFINE D == W \ {next[W]}
      <4>1. Sol(H(W), W) /\ Sol(H(D), D) /\ D \in SUBSET W
        BY <2>1, <2>2, <2>4, <3>2
      <4>2. H(W)[D] = H(D)[D]
        <5>1. D \in SUBSET (W \cap D) /\ W \in SUBSET S /\ D \in SUBSET S
          BY <4>1
        <5> HIDE DEF D, H, Sol
        <5>2. ASSUME NEW p, NEW q, Sol(p, W), Sol(q, D) PROVE p[D] = q[D]
          BY <5>1, <5>2, <1>0
        <5> QED BY <4>1, <5>2
      <4>3. H(W)[W] = F[<<next[W], H(W)[D]>>]
        <5> HIDE DEF H
        <5> QED BY <4>1, <3>2 DEF Solves
      <4>4. g[W] = F[<<next[W], H(D)[D]>>]
        BY <3>2
      <4> QED BY <4>2, <4>3, <4>4
    <3> QED BY <3>1, <3>2
  <2>5. ASSUME NEW T \in SUBSET U
        PROVE  g[T] = IF T = {} THEN base ELSE F[<<next[T], g[T \ {next[T]}]>>]
    <3>1. CASE T = {}
      BY <3>1
    <3>2. CASE T # {}
      <4>1. g[T \ {next[T]}] = H(T \ {next[T]})[T \ {next[T]}]
        BY <2>2, <2>4, <3>2
      <4>2. g[T] = F[<<next[T], H(T \ {next[T]})[T \ {next[T]}]>>]
        BY <3>2
      <4> HIDE DEF g, H
      <4> QED BY <3>2, <4>1, <4>2
    <3> QED BY <3>1, <3>2
  <2>6. Sol(g, U)
    <3> HIDE DEF g
    <3> QED BY <2>3, <2>5 DEF Solves
  <2> QED BY <2>6
<1>2. S \in P
  <2>1. P \in SUBSET (SUBSET S)
    OBVIOUS
  <2> HIDE DEF P
  <2> QED BY <1>1, <2>1, SubsetInduction
<1>3. PICK it : Sol(it, S)
  BY <1>2
<1> QED BY <1>3

-----------------------------------------------------------------------------
(* The sum of a function over a set, in whatever order CHOOSE takes it.     *)
SumOf(f, S) == MapThenSumSet(LAMBDA e : f[e], S)
Chosen(T) == CHOOSE x \in T : TRUE
Adds(f, it, S) ==
  it = [T \in SUBSET S |-> IF T = {} THEN 0 ELSE f[Chosen(T)] + it[T \ {Chosen(T)}]]
LEMMA SumIs == ASSUME NEW f, NEW S PROVE SumOf(f, S) = (CHOOSE it : Adds(f, it, S))[S]
BY DEF SumOf, MapThenSumSet, MapThenFoldSet, Adds, Chosen


LEMMA SumExists ==
  ASSUME NEW D, IsFiniteSet(D), NEW f \in [D -> Nat]
  PROVE  \E total \in [SUBSET D -> Nat] :
           /\ \A S \in SUBSET D : SumOf(f, S) = total[S]
           /\ Adds(f, total, D)
<1> DEFINE next == [T \in SUBSET D |-> Chosen(T)]
           F == [p \in D \X Nat |-> f[p[1]] + p[2]]
<1>1. \A T \in SUBSET D : T # {} => next[T] \in T
  BY DEF Chosen
<1>2. F \in [D \X Nat -> Nat]
  OBVIOUS
<1>3. PICK it : Solves(it, D, 0, next, F, Nat)
  <2> HIDE DEF next, F
  <2>1. 0 \in Nat
    OBVIOUS
  <2> QED BY <1>1, <1>2, <2>1, FoldExists
<1>4. it \in [SUBSET D -> Nat]
  BY <1>3 DEF Solves
<1>5. ASSUME NEW T \in SUBSET D
      PROVE  it[T] = IF T = {} THEN 0 ELSE f[Chosen(T)] + it[T \ {Chosen(T)}]
  <2>1. CASE T = {}
    BY <1>3, <2>1 DEF Solves
  <2>2. CASE T # {}
    <3>1. it[T] = F[<<next[T], it[T \ {next[T]}]>>]
      <4> HIDE DEF next, F
      <4> QED BY <1>3, <2>2 DEF Solves
    <3>2. next[T] = Chosen(T) /\ Chosen(T) \in D /\ it[T \ {Chosen(T)}] \in Nat
      BY <1>1, <1>4, <2>2
    <3> QED BY <2>2, <3>1, <3>2
  <2> QED BY <2>1, <2>2
<1>6. ASSUME NEW S \in SUBSET D
      PROVE  SumOf(f, S) = it[S]
  <2>1. \E j : Adds(f, j, S)
    <3>1. Adds(f, [T \in SUBSET S |-> it[T]], S)
      BY <1>5 DEF Adds
    <3> QED BY <3>1
  <2> DEFINE j == CHOOSE h : Adds(f, h, S)
             M == {T \in SUBSET S : j[T] = it[T]}
  <2>2. Adds(f, j, S) /\ SumOf(f, S) = j[S]
    BY <2>1, SumIs
  <2>3. ASSUME NEW T \in SUBSET S, \A U \in SUBSET T : U # T => U \in M
        PROVE  T \in M
    <3> HIDE DEF j
    <3>1. j[T] = IF T = {} THEN 0 ELSE f[Chosen(T)] + j[T \ {Chosen(T)}]
      BY <2>2 DEF Adds
    <3>2. CASE T = {}
      BY <1>5, <3>1, <3>2
    <3>3. CASE T # {}
      <4>1. Chosen(T) \in T
        BY <3>3 DEF Chosen
      <4>2. j[T \ {Chosen(T)}] = it[T \ {Chosen(T)}]
        BY <2>3, <4>1
      <4> QED BY <1>5, <3>1, <3>3, <4>2
    <3> QED BY <3>2, <3>3
  <2>4. IsFiniteSet(S) /\ M \in SUBSET (SUBSET S)
    BY FS_Subset
  <2>5. SUBSET S \subseteq M
    <3> HIDE DEF M
    <3> QED BY <2>3, <2>4, SubsetInduction
  <2> QED BY <2>2, <2>5
<1>7. Adds(f, it, D)
  BY <1>4, <1>5 DEF Adds
<1> QED BY <1>4, <1>6, <1>7

(* The size of a set and of one more entry.                                 *)
LEMMA SumOfMore ==
  ASSUME NEW D, IsFiniteSet(D), NEW f \in [D -> Nat]
  PROVE  /\ SumOf(f, {}) = 0
         /\ \A S \in SUBSET D : SumOf(f, S) \in Nat
         /\ \A S \in SUBSET D : \A e \in D \ S :
              SumOf(f, S \cup {e}) = SumOf(f, S) + f[e]
<1>1. PICK total \in [SUBSET D -> Nat] :
        (\A S \in SUBSET D : SumOf(f, S) = total[S]) /\ Adds(f, total, D)
  BY SumExists
<1>2. total[{}] = 0
  BY <1>1 DEF Adds
<1> DEFINE M == {S \in SUBSET D : \A e \in S : total[S] = f[e] + total[S \ {e}]}
<1>3. ASSUME NEW S \in SUBSET D, \A U \in SUBSET S : U # S => U \in M
      PROVE  S \in M
  <2> SUFFICES ASSUME NEW e \in S PROVE total[S] = f[e] + total[S \ {e}]
    OBVIOUS
  <2> DEFINE a == Chosen(S)
  <2>1. a \in S /\ total[S] = f[a] + total[S \ {a}]
    BY <1>1 DEF Adds, Chosen
  <2>2. CASE e = a
    BY <2>1, <2>2
  <2>3. CASE e # a
    <3>1. S \ {a} \in M /\ S \ {e} \in M /\ a \in S \ {e} /\ e \in S \ {a}
      BY <1>3, <2>1, <2>3
    <3>2. total[S \ {a}] = f[e] + total[(S \ {a}) \ {e}]
      BY <3>1
    <3>3. total[S \ {e}] = f[a] + total[(S \ {e}) \ {a}]
      BY <3>1
    <3>4. (S \ {a}) \ {e} = (S \ {e}) \ {a} /\ (S \ {a}) \ {e} \in SUBSET D
      OBVIOUS
    <3>5. PICK rest \in Nat : total[(S \ {a}) \ {e}] = rest /\ total[(S \ {e}) \ {a}] = rest
      BY <3>4
    <3>6. f[a] \in Nat /\ f[e] \in Nat
      BY <2>1
    <3>7. total[S] = f[a] + (f[e] + rest)
      BY <2>1, <3>2, <3>5
    <3>8. total[S \ {e}] = f[a] + rest
      BY <3>3, <3>5
    <3> HIDE DEF a
    <3> QED BY <3>6, <3>7, <3>8
  <2> QED BY <2>2, <2>3
<1>4. SUBSET D \subseteq M
  <2>1. M \in SUBSET (SUBSET D)
    OBVIOUS
  <2> HIDE DEF M
  <2> QED BY <1>3, <2>1, SubsetInduction
<1>5. ASSUME NEW S \in SUBSET D, NEW e \in D \ S
      PROVE  SumOf(f, S \cup {e}) = SumOf(f, S) + f[e]
  <2>1. S \cup {e} \in M /\ (S \cup {e}) \ {e} = S
    BY <1>4
  <2>2. total[S \cup {e}] = f[e] + total[S]
    BY <2>1
  <2>3. f[e] \in Nat /\ total[S] \in Nat
    OBVIOUS
  <2> QED BY <1>1, <2>2, <2>3
<1> QED BY <1>1, <1>2, <1>5

-----------------------------------------------------------------------------
(* A function over the subsets of a set that is defined from the subset     *)
(* with one element less keeps its type.                                    *)
LEMMA TypeOfFold ==
  ASSUME NEW D, IsFiniteSet(D), NEW V, NEW next, \A S \in SUBSET D : S # {} => next[S] \in S,
         NEW it, it = [S \in SUBSET D |-> it[S]], it[{}] \in V,
         \A S \in SUBSET D : S # {} /\ it[S \ {next[S]}] \in V => it[S] \in V
  PROVE  it \in [SUBSET D -> V]
<1> DEFINE M == {S \in SUBSET D : it[S] \in V}
<1>1. ASSUME NEW S \in SUBSET D, \A U \in SUBSET S : U # S => U \in M
      PROVE  S \in M
  <2>1. CASE S = {}
    BY <2>1
  <2>2. CASE S # {}
    <3>1. S \ {next[S]} \in SUBSET S /\ S \ {next[S]} # S
      BY <2>2
    <3>2. it[S \ {next[S]}] \in V
      BY <1>1, <3>1
    <3> QED BY <2>2, <3>2
  <2> QED BY <2>1, <2>2
<1>2. SUBSET D \subseteq M
  <2>1. M \in SUBSET (SUBSET D)
    OBVIOUS
  <2> HIDE DEF M
  <2> QED BY <1>1, <2>1, SubsetInduction
<1> QED BY <1>2

(* Induction from 0 to n.                                                   *)
LEMMA StepInduction ==
  ASSUME NEW n \in Nat, NEW M \in SUBSET Nat, 0 \in M,
         \A i \in 0 .. n - 1 : i \in M => i + 1 \in M
  PROVE  0 .. n \subseteq M
<1> SUFFICES ASSUME NEW k \in 0 .. n, k \notin M PROVE FALSE
  OBVIOUS
<1> DEFINE Bad == (0 .. n) \ M
<1>1. PICK x \in Bad : \A y \in Bad : ~ (<<y, x>> \in OpToRel(<, Nat))
  <2>1. Bad \subseteq Nat /\ Bad # {}
    OBVIOUS
  <2> HIDE DEF Bad
  <2> QED BY <2>1, NatLessThanWellFounded, WFMin
<1>2. x \in Nat /\ x # 0 /\ x <= n
  OBVIOUS
<1>3. x - 1 \in M
  <2> SUFFICES ASSUME x - 1 \notin M PROVE FALSE
    OBVIOUS
  <2>1. x - 1 \in Bad /\ x - 1 \in Nat /\ x - 1 < x
    BY <1>2
  <2> DEFINE p == <<x - 1, x>>
  <2>2. p \in OpToRel(<, Nat)
    <3>1. p \in Nat \X Nat /\ p[1] < p[2]
      BY <1>2, <2>1
    <3> HIDE DEF p
    <3> QED BY <3>1 DEF OpToRel
  <2> QED BY <1>1, <2>1, <2>2
<1> QED BY <1>2, <1>3

(* A finite set of numbers has a least and a greatest one.                  *)
LEMMA ExtremesExist ==
  ASSUME NEW S \in SUBSET Nat, IsFiniteSet(S), S # {}
  PROVE  /\ Min(S) \in S /\ \A n \in S : Min(S) <= n
         /\ Max(S) \in S /\ \A n \in S : n <= Max(S)
<1> DEFINE M == {T \in SUBSET S : T # {} => /\ \E m \in T : \A n \in T : m <= n
                                            /\ \E m \in T : \A n \in T : n <= m}
<1>1. ASSUME NEW T \in SUBSET S, \A U \in SUBSET T : U # T => U \in M
      PROVE  T \in M
  <2> SUFFICES ASSUME NEW x \in T
               PROVE  (\E m \in T : \A n \in T : m <= n) /\ (\E m \in T : \A n \in T : n <= m)
    OBVIOUS
  <2>1. CASE T \ {x} = {}
    <3>1. \A n \in T : n = x
      BY <2>1
    <3> QED BY <3>1
  <2>2. CASE T \ {x} # {}
    <3>1. T \ {x} \in M
      BY <1>1
    <3>2. PICK m \in T \ {x} : \A n \in T \ {x} : m <= n
      BY <2>2, <3>1
    <3>3. PICK k \in T \ {x} : \A n \in T \ {x} : n <= k
      BY <2>2, <3>1
    <3>4. \A n \in T : n \in Nat /\ (n = x \/ n \in T \ {x})
      OBVIOUS
    <3>5. \E j \in T : \A n \in T : j <= n
      <4>1. CASE x <= m
        <5>1. \A n \in T : x <= n
          BY <3>2, <3>4, <4>1
        <5> QED BY <5>1
      <4>2. CASE m <= x
        <5>1. \A n \in T : m <= n
          BY <3>2, <3>4, <4>2
        <5> QED BY <5>1
      <4> QED BY <3>4, <4>1, <4>2
    <3>6. \E j \in T : \A n \in T : n <= j
      <4>1. CASE k <= x
        <5>1. \A n \in T : n <= x
          BY <3>3, <3>4, <4>1
        <5> QED BY <5>1
      <4>2. CASE x <= k
        <5>1. \A n \in T : n <= k
          BY <3>3, <3>4, <4>2
        <5> QED BY <5>1
      <4> QED BY <3>4, <4>1, <4>2
    <3> QED BY <3>5, <3>6
  <2> QED BY <2>1, <2>2
<1>2. SUBSET S \subseteq M
  <2>1. M \in SUBSET (SUBSET S)
    OBVIOUS
  <2> HIDE DEF M
  <2> QED BY <1>1, <2>1, SubsetInduction
<1>3. (\E m \in S : \A n \in S : m <= n) /\ (\E m \in S : \A n \in S : n <= m)
  BY <1>2
<1>4. \A n, m \in S : n >= m <=> m <= n
  OBVIOUS
<1> QED BY <1>3, <1>4 DEF Min, Max

(* A sequence is folded from the left by taking the last element off the    *)
(* set of its positions.                                                    *)
Largest(n) == [S \in SUBSET (1 .. n) |-> Max(S)]
LEMMA LargestIs ==
  ASSUME NEW n \in Nat
  PROVE  /\ \A S \in SUBSET (1 .. n) : S # {} => Max(S) \in S /\ Largest(n)[S] \in S
         /\ \A i \in 1 .. n : Max(1 .. i) = i /\ Largest(n)[1 .. i] = i
<1>1. ASSUME NEW S \in SUBSET (1 .. n), S # {}
      PROVE  Max(S) \in S /\ \A i \in S : i <= Max(S)
  <2>1. IsFiniteSet(S) /\ S \in SUBSET Nat
    <3>1. IsFiniteSet(1 .. n)
      BY FS_Interval
    <3>2. IsFiniteSet(S)
      BY <3>1, FS_Subset
    <3> QED BY <3>2
  <2> QED BY <1>1, <2>1, ExtremesExist
<1>2. ASSUME NEW i \in 1 .. n
      PROVE  Max(1 .. i) = i
  <2> DEFINE S == 1 .. i
  <2>1. S \in SUBSET (1 .. n) /\ i \in S /\ \A k \in S : k <= i /\ k \in Nat
    OBVIOUS
  <2>2. Max(S) \in S /\ i <= Max(S)
    BY <1>1, <2>1
  <2>3. Max(S) <= i /\ Max(S) \in Nat
    BY <2>1, <2>2
  <2>4. Max(S) = i
    <3> HIDE DEF S
    <3> QED BY <2>2, <2>3
  <2> QED BY <2>4
<1> QED BY <1>1, <1>2 DEF Largest

LEMMA StepsOfFold ==
  ASSUME NEW n \in Nat, NEW V, NEW base, NEW F, NEW it, Solves(it, 1 .. n, base, Largest(n), F, V)
  PROVE  /\ it[1 .. 0] = base
         /\ \A i \in 0 .. n : it[1 .. i] \in V
         /\ \A i \in 1 .. n : it[1 .. i] = F[<<i, it[1 .. i - 1]>>]
<1>1. 1 .. 0 = {} /\ {} \in SUBSET (1 .. n)
  OBVIOUS
<1>2. it[1 .. 0] = base
  BY <1>1 DEF Solves
<1>3. ASSUME NEW i \in 0 .. n PROVE it[1 .. i] \in V
  <2>1. 1 .. i \in SUBSET (1 .. n)
    OBVIOUS
  <2> QED BY <2>1 DEF Solves
<1>4. ASSUME NEW i \in 1 .. n PROVE it[1 .. i] = F[<<i, it[1 .. i - 1]>>]
  <2> DEFINE S == 1 .. i
             R == 1 .. i - 1
  <2>1. S \in SUBSET (1 .. n) /\ S # {} /\ Largest(n)[S] = i
    <3>1. S \in SUBSET (1 .. n) /\ i \in S
      OBVIOUS
    <3>2. Largest(n)[S] = i
      BY LargestIs
    <3> QED BY <3>1, <3>2
  <2>2. S \ {i} = R
    OBVIOUS
  <2>3. it[S] = F[<<Largest(n)[S], it[S \ {Largest(n)[S]}]>>]
    <3> HIDE DEF S
    <3> QED BY <2>1 DEF Solves
  <2> QED BY <2>1, <2>2, <2>3
<1> QED BY <1>2, <1>3, <1>4

-----------------------------------------------------------------------------
(* Whatever adds the elements up one by one gives the sum.                  *)
LEMMA SumIsUnique ==
  ASSUME NEW D, IsFiniteSet(D), NEW f \in [D -> Nat]
  PROVE  /\ \E it : Adds(f, it, D)
         /\ \A it : Adds(f, it, D) => it[D] = SumOf(f, D)
<1>1. PICK total \in [SUBSET D -> Nat] :
        (\A S \in SUBSET D : SumOf(f, S) = total[S]) /\ Adds(f, total, D)
  BY SumExists
<1>2. ASSUME NEW it, Adds(f, it, D)
      PROVE  it[D] = SumOf(f, D)
  <2> DEFINE M == {T \in SUBSET D : it[T] = total[T]}
  <2>1. ASSUME NEW T \in SUBSET D, \A U \in SUBSET T : U # T => U \in M
        PROVE  T \in M
    <3>1. it[T] = IF T = {} THEN 0 ELSE f[Chosen(T)] + it[T \ {Chosen(T)}]
      BY <1>2 DEF Adds
    <3>2. total[T] = IF T = {} THEN 0 ELSE f[Chosen(T)] + total[T \ {Chosen(T)}]
      BY <1>1 DEF Adds
    <3>3. CASE T = {}
      BY <3>1, <3>2, <3>3
    <3>4. CASE T # {}
      <4>1. Chosen(T) \in T
        BY <3>4 DEF Chosen
      <4>2. it[T \ {Chosen(T)}] = total[T \ {Chosen(T)}]
        BY <2>1, <4>1
      <4> QED BY <3>1, <3>2, <3>4, <4>2
    <3> QED BY <3>3, <3>4
  <2>2. SUBSET D \subseteq M
    <3>1. M \in SUBSET (SUBSET D)
      OBVIOUS
    <3> HIDE DEF M
    <3> QED BY <2>1, <3>1, SubsetInduction
  <2> QED BY <1>1, <2>2
<1> QED BY <1>1, <1>2

(* The sizes of sets that have nothing in common add up to that of all.     *)
UnionOf(X, D) == UNION {X[d] : d \in D}
LEMMA SumOfSizes ==
  ASSUME NEW D, IsFiniteSet(D), NEW X, \A d \in D : IsFiniteSet(X[d]),
         \A c, d \in D : c # d => X[c] \cap X[d] = {},
         NEW f \in [D -> Nat], \A d \in D : f[d] = Cardinality(X[d])
  PROVE  IsFiniteSet(UnionOf(X, D)) /\ SumOf(f, D) = Cardinality(UnionOf(X, D))
<1> DEFINE All(S) == UnionOf(X, S)
           M == {S \in SUBSET D : IsFiniteSet(All(S)) /\ SumOf(f, S) = Cardinality(All(S))}
<1>1. ASSUME NEW S \in SUBSET D, \A U \in SUBSET S : U # S => U \in M
      PROVE  S \in M
  <2>1. CASE S = {}
    <3>1. All(S) = {}
      BY <2>1 DEF UnionOf
    <3>2. SumOf(f, S) = 0
      BY <2>1, SumOfMore
    <3> HIDE DEF All
    <3> QED BY <3>1, <3>2, FS_EmptySet
  <2>2. CASE S # {}
    <3>1. PICK e \in S : TRUE
      BY <2>2
    <3> DEFINE R == S \ {e}
    <3>2. R \in SUBSET D /\ e \in D \ R /\ S = R \cup {e} /\ R \in M
      BY <1>1
    <3>3. SumOf(f, S) = SumOf(f, R) + f[e]
      <4> HIDE DEF R
      <4> QED BY <3>2, SumOfMore
    <3>4. All(S) = All(R) \cup X[e] /\ All(R) \cap X[e] = {}
      BY <3>1 DEF UnionOf
    <3>5. IsFiniteSet(All(R)) /\ IsFiniteSet(X[e]) /\ SumOf(f, R) = Cardinality(All(R)) /\ f[e] = Cardinality(X[e])
      BY <3>2
    <3> HIDE DEF All, R
    <3>6. /\ IsFiniteSet(All(R) \cup X[e])
          /\ Cardinality(All(R) \cup X[e])
               = Cardinality(All(R)) + Cardinality(X[e]) - Cardinality(All(R) \cap X[e])
      BY <3>5, FS_Union
    <3>7. Cardinality(All(R)) \in Nat /\ Cardinality(X[e]) \in Nat /\ Cardinality({}) = 0
      BY <3>5, FS_CardinalityType, FS_EmptySet
    <3>8. IsFiniteSet(All(S)) /\ SumOf(f, S) = Cardinality(All(S))
      <4>1. Cardinality(All(S)) = Cardinality(All(R)) + Cardinality(X[e])
        <5>1. Cardinality(All(R) \cap X[e]) = 0
          BY <3>4, <3>7
        <5>2. Cardinality(All(S)) = Cardinality(All(R)) + Cardinality(X[e]) - Cardinality(All(R) \cap X[e])
          BY <3>4, <3>6
        <5>3. PICK a \in Nat, b \in Nat : Cardinality(All(R)) = a /\ Cardinality(X[e]) = b
          BY <3>7
        <5>4. a + b - 0 = a + b
          OBVIOUS
        <5> QED BY <5>1, <5>2, <5>3, <5>4
      <4>2. IsFiniteSet(All(S))
        BY <3>4, <3>6
      <4> QED BY <3>3, <3>5, <4>1, <4>2
    <3> QED BY <3>8
  <2> QED BY <2>1, <2>2
<1>2. SUBSET D \subseteq M
  <2>1. M \in SUBSET (SUBSET D)
    OBVIOUS
  <2> HIDE DEF M
  <2> QED BY <1>1, <2>1, SubsetInduction
<1> QED BY <1>2

(* What sets have in common with sets that are apart is no more than they   *)
(* have, and all that they have when these are the same sets.  `P` has the  *)
(* pairs of those that have something in common.                            *)
Overlapping(I, J, A, B, P, f, g) ==
  /\ IsFiniteSet(I) /\ IsFiniteSet(J)
  /\ \A i \in I : IsFiniteSet(A[i])
  /\ \A j, k \in J : j # k => B[j] \cap B[k] = {}
  /\ P \in SUBSET (I \X J)
  /\ \A i \in I : \A j \in J : A[i] \cap B[j] # {} => <<i, j>> \in P
  /\ f \in [P -> Nat] /\ \A p \in P : f[p] = Cardinality(A[p[1]] \cap B[p[2]])
  /\ g \in [I -> Nat] /\ \A i \in I : g[i] = Cardinality(A[i])
LEMMA SumOfOverlaps ==
  ASSUME NEW I, NEW J, NEW A, NEW B, NEW P, NEW f, NEW g, Overlapping(I, J, A, B, P, f, g)
  PROVE  /\ SumOf(f, P) <= SumOf(g, I)
         /\ I = J /\ A = B => SumOf(f, P) = SumOf(g, I)
<1> DEFINE X == [p \in P |-> {p[1]} \X (A[p[1]] \cap B[p[2]])]
           Y == [i \in I |-> {i} \X A[i]]
           Parts == UnionOf(X, P)
           All == UnionOf(Y, I)
<1> USE DEF Overlapping
<1>1. IsFiniteSet(P)
  <2>1. IsFiniteSet(I \X J)
    BY FS_Product
  <2> QED BY <2>1, FS_Subset
<1>2. ASSUME NEW x, NEW S, IsFiniteSet(S)
      PROVE  IsFiniteSet({x} \X S) /\ Cardinality({x} \X S) = Cardinality(S)
  <2>1. IsFiniteSet({x}) /\ Cardinality({x}) = 1
    BY FS_Singleton
  <2>2. IsFiniteSet({x} \X S) /\ Cardinality({x} \X S) = Cardinality({x}) * Cardinality(S)
    BY <1>2, <2>1, FS_Product
  <2>3. Cardinality(S) \in Nat
    BY <1>2, FS_CardinalityType
  <2> QED BY <2>1, <2>2, <2>3
<1>3. IsFiniteSet(All) /\ SumOf(g, I) = Cardinality(All)
  <2>1. ASSUME NEW i \in I PROVE IsFiniteSet(Y[i]) /\ g[i] = Cardinality(Y[i])
    <3>1. IsFiniteSet(A[i]) /\ Y[i] = {i} \X A[i] /\ g[i] = Cardinality(A[i])
      OBVIOUS
    <3>2. IsFiniteSet({i} \X A[i]) /\ Cardinality({i} \X A[i]) = Cardinality(A[i])
      BY <1>2, <3>1
    <3> HIDE DEF Y
    <3> QED BY <3>1, <3>2
  <2>2. \A i, j \in I : i # j => Y[i] \cap Y[j] = {}
    OBVIOUS
  <2> HIDE DEF Y
  <2> QED BY <2>1, <2>2, SumOfSizes
<1>4. IsFiniteSet(Parts) /\ SumOf(f, P) = Cardinality(Parts)
  <2>1. ASSUME NEW p \in P PROVE IsFiniteSet(X[p]) /\ f[p] = Cardinality(X[p])
    <3>1. IsFiniteSet(A[p[1]] \cap B[p[2]])
      <4>1. IsFiniteSet(A[p[1]]) /\ A[p[1]] \cap B[p[2]] \in SUBSET A[p[1]]
        OBVIOUS
      <4> QED BY <4>1, FS_Subset
    <3> DEFINE S == A[p[1]] \cap B[p[2]]
    <3>2. X[p] = {p[1]} \X S /\ f[p] = Cardinality(S)
      OBVIOUS
    <3> HIDE DEF X, S
    <3>3. IsFiniteSet({p[1]} \X S) /\ Cardinality({p[1]} \X S) = Cardinality(S)
      BY <1>2, <3>1 DEF S
    <3> QED BY <3>2, <3>3
  <2>2. ASSUME NEW p \in P, NEW q \in P, p # q PROVE X[p] \cap X[q] = {}
    <3>1. p[1] # q[1] \/ p[2] # q[2]
      BY <2>2
    <3>2. CASE p[1] # q[1]
      BY <3>2
    <3>3. CASE p[2] # q[2]
      <4>1. B[p[2]] \cap B[q[2]] = {}
        BY <3>3
      <4> QED BY <4>1
    <3> QED BY <3>1, <3>2, <3>3
  <2> HIDE DEF X
  <2> QED BY <1>1, <2>1, <2>2, SumOfSizes
<1>5. Parts \in SUBSET All
  <2> SUFFICES ASSUME NEW p \in P PROVE X[p] \subseteq All
    BY DEF UnionOf
  <2>1. p[1] \in I /\ X[p] \subseteq Y[p[1]]
    OBVIOUS
  <2> HIDE DEF X, Y
  <2> QED BY <2>1 DEF UnionOf
<1>6. ASSUME I = J, A = B PROVE All \subseteq Parts
  <2> SUFFICES ASSUME NEW i \in I, NEW x \in A[i] PROVE <<i, x>> \in Parts
    BY DEF UnionOf
  <2> DEFINE p == <<i, i>>
  <2>1. p \in P
    BY <1>6
  <2>2. <<i, x>> \in X[p]
    BY <1>6, <2>1
  <2> HIDE DEF X, p
  <2> QED BY <2>1, <2>2 DEF UnionOf
<1> HIDE DEF Parts, All
<1>7. Cardinality(Parts) <= Cardinality(All)
  BY <1>3, <1>5, FS_Subset
<1>8. I = J /\ A = B => Parts = All
  BY <1>5, <1>6
<1> QED BY <1>3, <1>4, <1>7, <1>8

(* What is counted for pairs is at most what is counted for the first of    *)
(* each pair, as many times as there are seconds; and no less, when it is   *)
(* that for the pairs of an element with itself.                            *)
CountedForPairs(I, J, P, f, g) ==
  /\ IsFiniteSet(I) /\ IsFiniteSet(J) /\ P \in SUBSET (I \X J)
  /\ f \in [P -> Nat] /\ g \in [I -> Nat]
  /\ \A p \in P : f[p] <= g[p[1]]
LEMMA SumOverPairs ==
  ASSUME NEW I, NEW J, NEW P, NEW f, NEW g, CountedForPairs(I, J, P, f, g)
  PROVE  /\ SumOf(f, P) <= Cardinality(J) * SumOf(g, I)
         /\ (\A i \in I : <<i, i>> \in P /\ f[<<i, i>>] = g[i]) => SumOf(g, I) <= SumOf(f, P)
<1> DEFINE X == [p \in P |-> {p[2]} \X ({p[1]} \X (1 .. f[p]))]
           Y == [i \in I |-> {i} \X (1 .. g[i])]
           Z == [i \in I |-> {i} \X ({i} \X (1 .. g[i]))]
           Parts == UnionOf(X, P)
           All == UnionOf(Y, I)
           Own == UnionOf(Z, I)
<1>1. IsFiniteSet(I) /\ IsFiniteSet(J) /\ P \in SUBSET (I \X J) /\ f \in [P -> Nat] /\ g \in [I -> Nat]
  BY DEF CountedForPairs
<1>2. IsFiniteSet(P)
  <2>1. IsFiniteSet(I \X J)
    BY <1>1, FS_Product
  <2> QED BY <1>1, <2>1, FS_Subset
<1>3. ASSUME NEW x, NEW S, IsFiniteSet(S)
      PROVE  IsFiniteSet({x} \X S) /\ Cardinality({x} \X S) = Cardinality(S)
  <2>1. IsFiniteSet({x}) /\ Cardinality({x}) = 1
    BY FS_Singleton
  <2>2. IsFiniteSet({x} \X S) /\ Cardinality({x} \X S) = Cardinality({x}) * Cardinality(S)
    BY <1>3, <2>1, FS_Product
  <2>3. Cardinality(S) \in Nat
    BY <1>3, FS_CardinalityType
  <2> QED BY <2>1, <2>2, <2>3
<1>4. ASSUME NEW x, NEW n \in Nat
      PROVE  IsFiniteSet({x} \X (1 .. n)) /\ Cardinality({x} \X (1 .. n)) = n
  <2>1. IsFiniteSet(1 .. n) /\ Cardinality(1 .. n) = n
    BY FS_Interval
  <2> QED BY <1>3, <2>1
<1>5. IsFiniteSet(All) /\ SumOf(g, I) = Cardinality(All)
  <2>1. ASSUME NEW i \in I PROVE IsFiniteSet(Y[i]) /\ g[i] = Cardinality(Y[i])
    <3> DEFINE S == {i} \X (1 .. g[i])
    <3>1. Y[i] = S
      OBVIOUS
    <3>2. IsFiniteSet(S) /\ Cardinality(S) = g[i]
      BY <1>1, <1>4
    <3> HIDE DEF Y, S
    <3> QED BY <3>1, <3>2
  <2>2. \A i, j \in I : i # j => Y[i] \cap Y[j] = {}
    OBVIOUS
  <2> HIDE DEF Y
  <2> QED BY <1>1, <2>1, <2>2, SumOfSizes
<1>6. IsFiniteSet(Own) /\ SumOf(g, I) = Cardinality(Own)
  <2>1. ASSUME NEW i \in I PROVE IsFiniteSet(Z[i]) /\ g[i] = Cardinality(Z[i])
    <3> DEFINE S == {i} \X (1 .. g[i])
    <3>1. Z[i] = {i} \X S
      OBVIOUS
    <3>2. IsFiniteSet(S) /\ Cardinality(S) = g[i]
      BY <1>1, <1>4
    <3> HIDE DEF Z, S
    <3>3. IsFiniteSet({i} \X S) /\ Cardinality({i} \X S) = Cardinality(S)
      BY <1>3, <3>2
    <3> QED BY <3>1, <3>2, <3>3
  <2>2. \A i, j \in I : i # j => Z[i] \cap Z[j] = {}
    OBVIOUS
  <2> HIDE DEF Z
  <2> QED BY <1>1, <2>1, <2>2, SumOfSizes
<1>7. IsFiniteSet(Parts) /\ SumOf(f, P) = Cardinality(Parts)
  <2>1. ASSUME NEW p \in P PROVE IsFiniteSet(X[p]) /\ f[p] = Cardinality(X[p])
    <3> DEFINE S == {p[1]} \X (1 .. f[p])
    <3>1. X[p] = {p[2]} \X S
      OBVIOUS
    <3>2. IsFiniteSet(S) /\ Cardinality(S) = f[p]
      BY <1>1, <1>4
    <3> HIDE DEF X, S
    <3>3. IsFiniteSet({p[2]} \X S) /\ Cardinality({p[2]} \X S) = Cardinality(S)
      BY <1>3, <3>2
    <3> QED BY <3>1, <3>2, <3>3
  <2>2. ASSUME NEW p \in P, NEW q \in P, p # q PROVE X[p] \cap X[q] = {}
    <3>1. p[1] # q[1] \/ p[2] # q[2]
      BY <1>1, <2>2
    <3> QED BY <3>1
  <2> HIDE DEF X
  <2> QED BY <1>1, <1>2, <2>1, <2>2, SumOfSizes
<1>8. Parts \in SUBSET (J \X All)
  <2> SUFFICES ASSUME NEW p \in P PROVE X[p] \subseteq J \X All
    BY DEF UnionOf
  <2>1. p[1] \in I /\ p[2] \in J
    BY <1>1
  <2>2. f[p] <= g[p[1]] /\ f[p] \in Nat /\ g[p[1]] \in Nat
    BY <1>1, <2>1 DEF CountedForPairs
  <2>3. 1 .. f[p] \subseteq 1 .. g[p[1]]
    BY <2>2
  <2>4. {p[1]} \X (1 .. f[p]) \subseteq All
    <3>1. {p[1]} \X (1 .. f[p]) \subseteq Y[p[1]]
      BY <2>1, <2>3
    <3> HIDE DEF Y
    <3> QED BY <2>1, <3>1 DEF UnionOf
  <2> HIDE DEF All
  <2> QED BY <2>1, <2>4
<1>9. ASSUME \A i \in I : <<i, i>> \in P /\ f[<<i, i>>] = g[i] PROVE Own \in SUBSET Parts
  <2> SUFFICES ASSUME NEW i \in I PROVE Z[i] \subseteq Parts
    BY DEF UnionOf
  <2> DEFINE p == <<i, i>>
  <2>1. p \in P /\ Z[i] = X[p]
    BY <1>9
  <2> HIDE DEF X, Z, p
  <2> QED BY <2>1 DEF UnionOf
<1> HIDE DEF Parts, All, Own
<1>10. IsFiniteSet(J \X All) /\ Cardinality(J \X All) = Cardinality(J) * Cardinality(All)
  BY <1>1, <1>5, FS_Product
<1>11. Cardinality(Parts) <= Cardinality(J \X All)
  BY <1>8, <1>10, FS_Subset
<1>12. Own \in SUBSET Parts => Cardinality(Own) <= Cardinality(Parts)
  BY <1>7, FS_Subset
<1> QED BY <1>5, <1>6, <1>7, <1>9, <1>10, <1>11, <1>12

-----------------------------------------------------------------------------
(* A fold over a sequence, whose steps are those of F as long as the states *)
(* are in V: it leads from state to state.                                  *)
Follows(it, n, V, base, F) ==
  /\ it = [S \in SUBSET (1 .. n) |-> it[S]]
  /\ it[{}] = base
  /\ \A S \in SUBSET (1 .. n) :
       S # {} /\ Max(S) \in 1 .. n /\ it[S \ {Max(S)}] \in V => it[S] = F[<<Max(S), it[S \ {Max(S)}]>>]
Computes(h, n, V, base, F) ==
  /\ h \in [SUBSET (1 .. n) -> V]
  /\ h[{}] = base
  /\ \A S \in SUBSET (1 .. n) :
       S # {} => /\ Max(S) \in 1 .. n /\ h[S \ {Max(S)}] \in V
                 /\ h[S] = F[<<Max(S), h[S \ {Max(S)}]>>]
Leads(r, n, V, base, F, end) ==
  /\ r \in [0 .. n -> V]
  /\ r[0] = base
  /\ \A i \in 1 .. n : r[i] = F[<<i, r[i - 1]>>]
  /\ r[n] = end

LEMMA FoldIsDefined ==
  ASSUME NEW n \in Nat, NEW V, NEW base \in V, NEW F \in [(1 .. n) \X V -> V]
  PROVE  \E h : Computes(h, n, V, base, F)
<1>1. IsFiniteSet(1 .. n) /\ \A S \in SUBSET (1 .. n) : S # {} => Largest(n)[S] \in S /\ Max(S) \in S
  <2>1. IsFiniteSet(1 .. n)
    BY FS_Interval
  <2> QED BY <2>1, LargestIs
<1>2. PICK h : Solves(h, 1 .. n, base, Largest(n), F, V)
  <2>1. \A S \in SUBSET (1 .. n) : S # {} => Largest(n)[S] \in S
    BY <1>1
  <2> QED BY <1>1, <2>1, FoldExists
<1>3. \A S \in SUBSET (1 .. n) : Largest(n)[S] = Max(S)
  BY DEF Largest
<1>4. h \in [SUBSET (1 .. n) -> V] /\ h[{}] = base
  BY <1>2 DEF Solves
<1>5. ASSUME NEW S \in SUBSET (1 .. n), S # {}
      PROVE  /\ Max(S) \in 1 .. n /\ h[S \ {Max(S)}] \in V
             /\ h[S] = F[<<Max(S), h[S \ {Max(S)}]>>]
  <2>1. h[S] = F[<<Largest(n)[S], h[S \ {Largest(n)[S]}]>>]
    BY <1>2, <1>5 DEF Solves
  <2> QED BY <1>1, <1>3, <1>4, <1>5, <2>1
<1> QED BY <1>4, <1>5 DEF Computes

LEMMA FoldLeads ==
  ASSUME NEW n \in Nat, NEW V, NEW base \in V, NEW F \in [(1 .. n) \X V -> V], NEW it,
         Follows(it, n, V, base, F)
  PROVE  \E r : Leads(r, n, V, base, F, it[1 .. n])
<1>1. IsFiniteSet(1 .. n) /\ \A S \in SUBSET (1 .. n) : S # {} => Largest(n)[S] \in S /\ Max(S) \in 1 .. n
  <2>1. \A S \in SUBSET (1 .. n) : S # {} => Largest(n)[S] \in S /\ Max(S) \in S
    BY LargestIs
  <2>2. IsFiniteSet(1 .. n)
    BY FS_Interval
  <2> QED BY <2>1, <2>2
<1>2. \A S \in SUBSET (1 .. n) : Largest(n)[S] = Max(S)
  BY DEF Largest
<1>3. ASSUME NEW S \in SUBSET (1 .. n), S # {}, it[S \ {Largest(n)[S]}] \in V
      PROVE  it[S] \in V /\ it[S] = F[<<Max(S), it[S \ {Max(S)}]>>]
  <2>1. it[S] = F[<<Max(S), it[S \ {Max(S)}]>>]
    BY <1>1, <1>2, <1>3 DEF Follows
  <2> QED BY <1>1, <1>2, <1>3, <2>1
<1>4. it \in [SUBSET (1 .. n) -> V]
  <2>1. it = [S \in SUBSET (1 .. n) |-> it[S]] /\ it[{}] \in V
    BY DEF Follows
  <2>2. \A S \in SUBSET (1 .. n) : S # {} /\ it[S \ {Largest(n)[S]}] \in V => it[S] \in V
    BY <1>3
  <2>3. \A S \in SUBSET (1 .. n) : S # {} => Largest(n)[S] \in S
    BY <1>1
  <2> QED BY <1>1, <2>1, <2>2, <2>3, TypeOfFold
<1> DEFINE r == [i \in 0 .. n |-> it[1 .. i]]
<1>5. \A i \in 0 .. n : (1 .. i) \in SUBSET (1 .. n)
  OBVIOUS
<1>6. r \in [0 .. n -> V]
  BY <1>4, <1>5
<1>7. r[0] = base /\ r[n] = it[1 .. n]
  <2>1. 1 .. 0 = {} /\ 0 \in 0 .. n /\ n \in 0 .. n
    OBVIOUS
  <2> QED BY <2>1 DEF Follows
<1>8. ASSUME NEW i \in 1 .. n PROVE r[i] = F[<<i, r[i - 1]>>]
  <2> DEFINE S == 1 .. i
             R == 1 .. i - 1
  <2>1. S \in SUBSET (1 .. n) /\ S # {} /\ Max(S) = i /\ S \ {i} = R /\ R \in SUBSET (1 .. n)
    <3>1. Max(S) = i
      BY LargestIs
    <3>2. S \in SUBSET (1 .. n) /\ i \in S
      OBVIOUS
    <3>3. S \ {i} = R /\ R \in SUBSET (1 .. n)
      OBVIOUS
    <3> QED BY <3>1, <3>2, <3>3
  <2>2. it[S] = F[<<i, it[R]>>]
    <3>1. it[S \ {Largest(n)[S]}] \in V
      <4> HIDE DEF S, R
      <4> QED BY <1>2, <1>4, <2>1
    <3> HIDE DEF S, R
    <3> QED BY <1>3, <2>1, <3>1
  <2>3. r[i] = it[S] /\ r[i - 1] = it[R]
    <3>1. i \in 0 .. n /\ i - 1 \in 0 .. n
      OBVIOUS
    <3> QED BY <3>1
  <2> QED BY <2>2, <2>3
<1>9. Leads(r, n, V, base, F, it[1 .. n])
  <2> HIDE DEF r
  <2> QED BY <1>6, <1>7, <1>8 DEF Leads
<1> QED BY <1>9

(* A function that is defined by recursion on its argument, from 0 to n.    *)
Recurs(r, n, V, base, F) ==
  /\ r \in [0 .. n -> V]
  /\ r = [i \in 0 .. n |-> IF i = 0 THEN base ELSE F[<<i, r[i - 1]>>]]
  /\ r[0] = base
  /\ \A i \in 1 .. n : r[i - 1] \in V /\ r[i] = F[<<i, r[i - 1]>>]
LEMMA RecursionExists ==
  ASSUME NEW n \in Nat, NEW V, NEW base \in V, NEW F \in [(1 .. n) \X V -> V]
  PROVE  \E r : Recurs(r, n, V, base, F)
<1>1. PICK h : Computes(h, n, V, base, F)
  BY FoldIsDefined
<1>2. Follows(h, n, V, base, F)
  BY <1>1 DEF Computes, Follows
<1>3. PICK r : Leads(r, n, V, base, F, h[1 .. n])
  BY <1>2, FoldLeads
<1>4. r \in [0 .. n -> V] /\ r[0] = base /\ \A i \in 1 .. n : r[i] = F[<<i, r[i - 1]>>]
  BY <1>3 DEF Leads
<1>5. \A i \in 0 .. n : r[i] = IF i = 0 THEN base ELSE F[<<i, r[i - 1]>>]
  BY <1>4
<1>6. r = [i \in 0 .. n |-> IF i = 0 THEN base ELSE F[<<i, r[i - 1]>>]]
  BY <1>4, <1>5
<1>7. \A i \in 1 .. n : r[i - 1] \in V
  BY <1>4
<1> QED BY <1>4, <1>6, <1>7 DEF Recurs

-----------------------------------------------------------------------------
(* Whatever the elements of a finite set are, a total order lists them: each *)
(* once, and each before those that are after it.                           *)
Orders(R, S) ==
  /\ \A x, y \in S : x # y => <<x, y>> \in R \/ <<y, x>> \in R
  /\ \A x, y, z \in S : <<x, y>> \in R /\ <<y, z>> \in R => <<x, z>> \in R
  /\ \A x \in S : <<x, x>> \notin R
InOrder(f, R, S) ==
  /\ f \in [1 .. Cardinality(S) -> S]
  /\ \A i, j \in 1 .. Cardinality(S) : i < j => <<f[i], f[j]>> \in R

LEMMA GreatestExists ==
  ASSUME NEW S, IsFiniteSet(S), NEW R, Orders(R, S), S # {}
  PROVE  \E g \in S : \A x \in S : x # g => <<x, g>> \in R
<1> DEFINE M == {T \in SUBSET S : T # {} => \E g \in T : \A x \in T : x # g => <<x, g>> \in R}
<1>1. ASSUME NEW T \in SUBSET S, \A U \in SUBSET T : U # T => U \in M
      PROVE  T \in M
  <2> SUFFICES ASSUME NEW a \in T PROVE \E g \in T : \A x \in T : x # g => <<x, g>> \in R
    OBVIOUS
  <2>1. CASE T \ {a} = {}
    BY <2>1
  <2>2. CASE T \ {a} # {}
    <3>1. T \ {a} \in M
      BY <1>1
    <3>2. PICK h \in T \ {a} : \A x \in T \ {a} : x # h => <<x, h>> \in R
      BY <2>2, <3>1
    <3>3. CASE <<h, a>> \in R
      <4>1. \A x \in T : x # a => <<x, a>> \in R
        BY <3>2, <3>3 DEF Orders
      <4> QED BY <4>1
    <3>4. CASE <<a, h>> \in R
      <4>1. \A x \in T : x # h => <<x, h>> \in R
        BY <3>2, <3>4
      <4> QED BY <4>1
    <3> QED BY <3>3, <3>4 DEF Orders
  <2> QED BY <2>1, <2>2
<1>2. S \in M
  <2>1. M \in SUBSET (SUBSET S)
    OBVIOUS
  <2> HIDE DEF M
  <2> QED BY <1>1, <2>1, SubsetInduction
<1> QED BY <1>2

LEMMA ListExists ==
  ASSUME NEW S, IsFiniteSet(S), NEW R, Orders(R, S)
  PROVE  \E f : InOrder(f, R, S)
<1> DEFINE M == {T \in SUBSET S : \E f : InOrder(f, R, T)}
<1>1. ASSUME NEW T \in SUBSET S, \A U \in SUBSET T : U # T => U \in M
      PROVE  T \in M
  <2>1. CASE T = {}
    <3>1. Cardinality(T) = 0
      BY <2>1, FS_EmptySet
    <3>2. 1 .. Cardinality(T) = {}
      BY <3>1
    <3> DEFINE f == [i \in 1 .. Cardinality(T) |-> i]
    <3>3. InOrder(f, R, T)
      BY <3>2 DEF InOrder
    <3> QED BY <3>3
  <2>2. CASE T # {}
    <3>1. IsFiniteSet(T) /\ Orders(R, T)
      <4>1. IsFiniteSet(T)
        BY FS_Subset
      <4> QED BY <4>1 DEF Orders
    <3>2. PICK g \in T : \A x \in T : x # g => <<x, g>> \in R
      BY <2>2, <3>1, GreatestExists
    <3> DEFINE U == T \ {g}
               n == Cardinality(U)
    <3>3. PICK h : InOrder(h, R, U)
      BY <1>1
    <3>4. n \in Nat /\ Cardinality(T) = n + 1
      <4>1. IsFiniteSet(U) /\ Cardinality(U) = Cardinality(T) - 1
        BY <3>1, FS_RemoveElement
      <4>2. Cardinality(U) \in Nat /\ Cardinality(T) \in Nat
        BY <3>1, <4>1, FS_CardinalityType
      <4> HIDE DEF U
      <4> QED BY <4>1, <4>2
    <3> DEFINE f == [i \in 1 .. n + 1 |-> IF i = n + 1 THEN g ELSE h[i]]
    <3>5. f \in [1 .. n + 1 -> T]
      <4>1. \A i \in 1 .. n + 1 : i # n + 1 => i \in 1 .. n
        <5> HIDE DEF n
        <5> QED BY <3>4
      <4>2. \A i \in 1 .. n : h[i] \in T
        <5> HIDE DEF n
        <5> QED BY <3>3 DEF InOrder, n
      <4> HIDE DEF n, U
      <4> QED BY <4>1, <4>2
    <3>6. ASSUME NEW i \in 1 .. n + 1, NEW j \in 1 .. n + 1, i < j
          PROVE  <<f[i], f[j]>> \in R
      <4>1. i \in 1 .. n
        <5> HIDE DEF n
        <5> QED BY <3>4, <3>6
      <4>2. i # n + 1
        <5> HIDE DEF n
        <5> QED BY <3>4, <4>1
      <4>3. f[i] = h[i]
        BY <4>2
      <4>4. CASE j = n + 1
        <5>1. h[i] \in U
          BY <3>3, <4>1 DEF InOrder
        <5> QED BY <3>2, <4>3, <4>4, <5>1
      <4>5. CASE j # n + 1
        <5>1. j \in 1 .. n
          <6> HIDE DEF n
          <6> QED BY <3>4, <4>5
        <5> QED BY <3>3, <3>6, <4>1, <4>3, <4>5, <5>1 DEF InOrder
      <4> QED BY <4>4, <4>5
    <3>7. InOrder(f, R, T)
      <4> HIDE DEF f, n, U
      <4> QED BY <3>4, <3>5, <3>6 DEF InOrder
    <3> QED BY <3>7
  <2> QED BY <2>1, <2>2
<1>2. S \in M
  <2>1. M \in SUBSET (SUBSET S)
    OBVIOUS
  <2> HIDE DEF M
  <2> QED BY <1>1, <2>1, SubsetInduction
<1> QED BY <1>2

LEMMA ListHasAll ==
  ASSUME NEW S, IsFiniteSet(S), NEW R, Orders(R, S), NEW f, InOrder(f, R, S)
  PROVE  /\ \A i, j \in 1 .. Cardinality(S) : f[i] = f[j] => i = j
         /\ \A x \in S : \E i \in 1 .. Cardinality(S) : f[i] = x
<1> DEFINE n == Cardinality(S)
           D == 1 .. n
<1>1. n \in Nat /\ IsFiniteSet(D) /\ Cardinality(D) = n
  <2>1. n \in Nat
    BY FS_CardinalityType
  <2>2. 1 \in Int /\ n \in Int
    BY <2>1
  <2> HIDE DEF n
  <2> QED BY <2>1, FS_Interval
<1>2. ASSUME NEW i \in D, NEW j \in D, f[i] = f[j], i # j PROVE FALSE
  <2>1. f[i] \in S
    BY DEF InOrder
  <2>2. i < j \/ j < i
    <3> HIDE DEF n
    <3> QED BY <1>1, <1>2
  <2> QED BY <1>2, <2>1, <2>2 DEF InOrder, Orders
<1>3. f \in Injection(D, S)
  BY <1>2 DEF Injection, IsInjective, InOrder
<1>4. f \in Surjection(D, S)
  <2> HIDE DEF D
  <2> QED BY <1>1, <1>3, FS_Injection DEF n
<1>5. \A x \in S : \E i \in D : f[i] = x
  BY <1>4 DEF Surjection
<1> QED BY <1>2, <1>5
=============================================================================
