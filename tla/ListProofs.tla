------------------------------ MODULE ListProofs ------------------------------
(***************************************************************************)
(* Facts about numbers, sums and filtered lists that the proofs about the  *)
(* components share.                                                       *)
(*                                                                         *)
(* A principle of induction that quantifies over an operator cannot be     *)
(* used by the provers at hand.  Here it is stated for a set, of those     *)
(* numbers or subsets of which the claim holds, and it rests on the        *)
(* library's theorem that < on the naturals is well founded.               *)
(***************************************************************************)
EXTENDS Lists, FiniteSets, SequencesExt, FiniteSetTheorems,
        WellFoundedInduction, SequenceTheorems, TLAPS

(***************************************************************************)
(* Part 1: induction                                                       *)
(***************************************************************************)

\* A set of naturals that is not empty has a least member.
LEMMA LeastMember ==
  ASSUME NEW T \in SUBSET Nat, T # {}
  PROVE  \E m \in T : \A k \in T : m <= k
  <1>1. PICK m \in T : \A y \in T : ~(<<y, m>> \in OpToRel(<, Nat))
    BY WFMin, NatLessThanWellFounded
  <1>2. ASSUME NEW y \in T
        PROVE  ~(y < m)
    <2>1. <<y, m>> \in Nat \X Nat
      OBVIOUS
    <2>2. QED
      BY <1>1, <2>1 DEF OpToRel
  <1>3. QED
    BY <1>2

\* A set that holds 0 and the successor of each of its members holds them all.
LEMMA SetInduction ==
  ASSUME NEW T \in SUBSET Nat, 0 \in T, \A k \in T : k + 1 \in T
  PROVE  T = Nat
  <1> SUFFICES ASSUME Nat \ T # {} PROVE FALSE
    OBVIOUS
  <1>1. PICK m \in Nat \ T : \A k \in Nat \ T : m <= k
    BY LeastMember
  <1>2. m - 1 \in T
    BY <1>1
  <1>3. QED
    BY <1>1, <1>2

\* The same up to a number.
LEMMA BoundedInduction ==
  ASSUME NEW n \in Nat, NEW T \in SUBSET (0..n), 0 \in T,
         \A k \in 0..(n - 1) : k \in T => k + 1 \in T
  PROVE  T = 0..n
  <1> DEFINE U == T \cup {k \in Nat : k > n}
  <1>0. \A k \in T : k \in Nat /\ k <= n
    OBVIOUS
  <1>1. U \in SUBSET Nat /\ 0 \in U
    BY <1>0
  <1>2. \A k \in U : k + 1 \in U
    BY <1>0
  <1>3. U = Nat
    <2> HIDE DEF U
    <2>1. QED
      BY <1>1, <1>2, SetInduction
  <1>4. \A k \in 0..n : k \in T
    BY <1>3
  <1>5. QED
    BY <1>4

\* What holds of a finite set when it holds of all that lack one more member
\* holds of every finite set.
LEMMA SubsetInduction ==
  ASSUME NEW S, IsFiniteSet(S), NEW C \in SUBSET (SUBSET S),
         \A u \in SUBSET S : (\A x \in u : u \ {x} \in C) => u \in C
  PROVE  C = SUBSET S
  <1> SUFFICES ASSUME (SUBSET S) \ C # {} PROVE FALSE
    OBVIOUS
  <1> DEFINE sizes == {k \in Nat : \E u \in (SUBSET S) \ C : Cardinality(u) = k}
  <1>1. \A u \in SUBSET S : IsFiniteSet(u) /\ Cardinality(u) \in Nat
    BY FS_Subset, FS_CardinalityType
  <1>2. sizes \in SUBSET Nat /\ sizes # {}
    BY <1>1
  <1>3. PICK k \in sizes : \A l \in sizes : k <= l
    <2> HIDE DEF sizes
    <2>1. QED
      BY <1>2, LeastMember
  <1>4. PICK u \in (SUBSET S) \ C : Cardinality(u) = k
    BY <1>3
  <1>5. ASSUME NEW x \in u
        PROVE  u \ {x} \in C
    <2>1. Cardinality(u \ {x}) = k - 1
      BY <1>1, <1>4, FS_RemoveElement
    <2>2. u \ {x} \in SUBSET S /\ k \in Nat /\ k - 1 \in Nat
      BY <1>1, <1>2, <1>3, <1>4, <2>1
    <2>3. k - 1 \notin sizes
      BY <1>3, <2>2
    <2>4. QED
      BY <2>1, <2>2, <2>3
  <1>6. QED
    BY <1>4, <1>5

(***************************************************************************)
(* Part 2: the least and the greatest member                               *)
(***************************************************************************)

\* Min of naturals is one of them and the least.
LEMMA MinIs ==
  ASSUME NEW T \in SUBSET Nat, T # {}
  PROVE  Min(T) \in T /\ \A k \in T : Min(T) <= k
  <1>1. \E m \in T : \A k \in T : m <= k
    BY LeastMember
  <1>2. QED
    BY <1>1 DEF Min

\* Max of bounded naturals is one of them and the greatest.
LEMMA MaxIs ==
  ASSUME NEW T \in SUBSET Nat, T # {}, NEW bound \in Nat, \A k \in T : k <= bound
  PROVE  Max(T) \in T /\ \A k \in T : k <= Max(T)
  <1> DEFINE U == {k \in Nat : \E t \in T : k = bound - t}
  <1>1. U \in SUBSET Nat /\ U # {}
    <2>1. PICK t \in T : t \in Nat /\ t <= bound
      OBVIOUS
    <2>2. bound - t \in U
      BY <2>1
    <2>3. QED
      BY <2>2
  <1>2. PICK m \in U : \A k \in U : m <= k
    <2> HIDE DEF U
    <2>1. QED
      BY <1>1, LeastMember
  <1>3. PICK t \in T : m = bound - t
    BY <1>2
  <1>4. \A k \in T : k <= t
    BY <1>2, <1>3
  <1>5. \E x \in T : \A y \in T : x >= y
    BY <1>4
  <1>6. QED
    BY <1>5 DEF Max

\* Two sets whose members correspond have as many.
LEMMA AsMany ==
  ASSUME NEW S, NEW T, IsFiniteSet(S), NEW f \in [S -> T],
         \A a, b \in S : f[a] = f[b] => a = b,
         \A t \in T : \E a \in S : f[a] = t
  PROVE  IsFiniteSet(T) /\ Cardinality(T) = Cardinality(S)
  <1>1. f \in Injection(S, T)
    BY DEF Injection, IsInjective
  <1>2. f \in Surjection(S, T)
    BY DEF Surjection
  <1>3. ExistsBijection(S, T)
    BY <1>1, <1>2 DEF Bijection, ExistsBijection
  <1>4. QED
    BY <1>3, FS_Bijection

(***************************************************************************)
(* Part 3: sums.  SumFunctionOnSet folds a set by taking out a member that *)
(* nobody can know.                                                        *)
(***************************************************************************)
Taken(u) == CHOOSE x \in u : TRUE

SumStep(f, u, g) == IF u = {} THEN 0 ELSE f[Taken(u)] + g[u \ {Taken(u)}]

\* g adds up f over the subsets of S.
AddsUp(f, S, g) == g = [u \in SUBSET S |-> SumStep(f, u, g)]

\* The fold is the value of a function that adds up, if there is one.
LEMMA SumIsFold ==
  ASSUME NEW f, NEW S
  PROVE  SumFunctionOnSet(f, S) = (CHOOSE g : AddsUp(f, S, g))[S]
  BY DEF SumFunctionOnSet, FoldFunctionOnSet, MapThenFoldSet, AddsUp, SumStep, Taken

\* The set that lacks what was taken is a smaller one.
LEMMA TakenIsIn == \A u : u # {} => Taken(u) \in u
  BY DEF Taken

\* There is only one.
LEMMA AddsUpOnce ==
  ASSUME NEW f, NEW S, IsFiniteSet(S), NEW g, NEW h,
         AddsUp(f, S, g), AddsUp(f, S, h)
  PROVE  g = h
  <1> DEFINE C == {u \in SUBSET S : g[u] = h[u]}
  <1>1. ASSUME NEW u \in SUBSET S, \A x \in u : u \ {x} \in C
        PROVE  g[u] = h[u]
    <2>1. g[u] = SumStep(f, u, g) /\ h[u] = SumStep(f, u, h)
      BY DEF AddsUp
    <2>2. CASE u = {}
      BY <2>1, <2>2 DEF SumStep
    <2>3. CASE u # {}
      <3>1. g[u \ {Taken(u)}] = h[u \ {Taken(u)}]
        BY <1>1, <2>3, TakenIsIn
      <3>2. QED
        BY <2>1, <2>3, <3>1 DEF SumStep
    <2>4. QED
      BY <2>2, <2>3
  <1>2. C = SUBSET S
    <2>1. C \in SUBSET (SUBSET S)
      OBVIOUS
    <2>2. \A u \in SUBSET S : (\A x \in u : u \ {x} \in C) => u \in C
      BY <1>1
    <2> HIDE DEF C
    <2>3. QED
      BY <2>1, <2>2, SubsetInduction
  <1>3. \A u \in SUBSET S : g[u] = h[u]
    BY <1>2
  <1>4. QED
    BY <1>3 DEF AddsUp

\* There is one: the fold itself.
LEMMA SumAddsUp ==
  ASSUME NEW f, NEW S, IsFiniteSet(S)
  PROVE  AddsUp(f, S, [u \in SUBSET S |-> SumFunctionOnSet(f, u)])
  <1> DEFINE F(s) == [u \in SUBSET s |-> SumFunctionOnSet(f, u)]
             C == {s \in SUBSET S : AddsUp(f, s, F(s))}
  <1>1. ASSUME NEW s \in SUBSET S, \A x \in s : s \ {x} \in C
        PROVE  AddsUp(f, s, F(s))
    <2> DEFINE g == [u \in SUBSET s |->
                       IF u = s THEN SumStep(f, s, F(s)) ELSE SumFunctionOnSet(f, u)]
    <2>1. \A u \in SUBSET s : u # s =>
             SumFunctionOnSet(f, u) = SumStep(f, u, F(s))
      <3> SUFFICES ASSUME NEW u \in SUBSET s, u # s
                   PROVE  SumFunctionOnSet(f, u) = SumStep(f, u, F(s))
        OBVIOUS
      <3>1. PICK x \in s : x \notin u
        OBVIOUS
      <3>2. AddsUp(f, s \ {x}, F(s \ {x})) /\ u \in SUBSET (s \ {x})
        BY <1>1, <3>1
      <3>3. F(s \ {x})[u] = SumStep(f, u, F(s \ {x}))
        BY <3>2 DEF AddsUp
      <3>4. u # {} => u \ {Taken(u)} \in SUBSET (s \ {x})
        BY <3>2
      <3>5. SumStep(f, u, F(s \ {x})) = SumStep(f, u, F(s))
        BY <3>4 DEF SumStep
      <3>6. QED
        BY <3>2, <3>3, <3>5
    <2>2. \A u \in SUBSET s : SumStep(f, u, g) = SumStep(f, u, F(s))
      <3> SUFFICES ASSUME NEW u \in SUBSET s, u # {}
                   PROVE  g[u \ {Taken(u)}] = F(s)[u \ {Taken(u)}]
        BY DEF SumStep
      <3>1. Taken(u) \in u
        BY TakenIsIn
      <3>2. u \ {Taken(u)} \in SUBSET s /\ u \ {Taken(u)} # s
        BY <3>1
      <3>3. QED
        BY <3>2
    <2>3. AddsUp(f, s, g)
      BY <2>1, <2>2 DEF AddsUp
    <2>4. IsFiniteSet(s)
      BY FS_Subset
    <2>5. SumFunctionOnSet(f, s) = g[s]
      <3>1. AddsUp(f, s, CHOOSE h : AddsUp(f, s, h))
        BY <2>3
      <3>2. g = CHOOSE h : AddsUp(f, s, h)
        BY <2>3, <2>4, <3>1, AddsUpOnce
      <3>3. QED
        BY <3>2, SumIsFold
    <2>6. g = F(s)
      BY <2>5
    <2>7. QED
      BY <2>3, <2>6
  <1>2. C = SUBSET S
    <2>1. C \in SUBSET (SUBSET S)
      OBVIOUS
    <2>2. \A s \in SUBSET S : (\A x \in s : s \ {x} \in C) => s \in C
      BY <1>1
    <2> HIDE DEF C
    <2>3. QED
      BY <2>1, <2>2, SubsetInduction
  <1>3. QED
    BY <1>2

\* The sum over a set, by what is taken out of it.
LEMMA SumUnfolds ==
  ASSUME NEW f, NEW S, IsFiniteSet(S)
  PROVE  SumFunctionOnSet(f, S) =
           IF S = {} THEN 0
           ELSE f[Taken(S)] + SumFunctionOnSet(f, S \ {Taken(S)})
  <1> DEFINE F == [u \in SUBSET S |-> SumFunctionOnSet(f, u)]
  <1>1. AddsUp(f, S, F)
    BY SumAddsUp
  <1>2. F[S] = SumStep(f, S, F)
    BY <1>1 DEF AddsUp
  <1>3. S # {} => S \ {Taken(S)} \in SUBSET S
    OBVIOUS
  <1>4. QED
    BY <1>2, <1>3 DEF SumStep

\* Nothing adds up to nothing.
LEMMA SumOfNone == \A f : SumFunctionOnSet(f, {}) = 0
  <1> TAKE f
  <1>1. IsFiniteSet({})
    BY FS_EmptySet
  <1>2. QED
    BY <1>1, SumUnfolds

\* f counts something at each member of S.
Counts(f, S) == \A x \in S : f[x] \in Nat

\* The sum of what is counted is a number.
LEMMA SumTyped ==
  ASSUME NEW f, NEW S, IsFiniteSet(S), Counts(f, S)
  PROVE  \A u \in SUBSET S : SumFunctionOnSet(f, u) \in Nat
  <1> DEFINE C == {u \in SUBSET S : SumFunctionOnSet(f, u) \in Nat}
  <1>1. ASSUME NEW u \in SUBSET S, \A x \in u : u \ {x} \in C
        PROVE  SumFunctionOnSet(f, u) \in Nat
    <2>1. IsFiniteSet(u)
      BY FS_Subset
    <2>2. CASE u = {}
      BY <2>2, SumOfNone
    <2>3. CASE u # {}
      <3>1. Taken(u) \in u
        BY <2>3, TakenIsIn
      <3>2. SumFunctionOnSet(f, u \ {Taken(u)}) \in Nat /\ f[Taken(u)] \in Nat
        BY <1>1, <3>1 DEF Counts
      <3>3. QED
        BY <2>1, <2>3, <3>2, SumUnfolds
    <2>4. QED
      BY <2>2, <2>3
  <1>2. C = SUBSET S
    <2>1. C \in SUBSET (SUBSET S)
      OBVIOUS
    <2>2. \A u \in SUBSET S : (\A x \in u : u \ {x} \in C) => u \in C
      BY <1>1
    <2> HIDE DEF C
    <2>3. QED
      BY <2>1, <2>2, SubsetInduction
  <1>3. QED
    BY <1>2

\* Any member may be taken out of it.
LEMMA SumTakesOut ==
  ASSUME NEW f, NEW S, IsFiniteSet(S), Counts(f, S)
  PROVE  \A x \in S :
            SumFunctionOnSet(f, S) = f[x] + SumFunctionOnSet(f, S \ {x})
  <1> DEFINE F(u) == SumFunctionOnSet(f, u)
             Good(u) == \A x \in u : F(u) = f[x] + F(u \ {x})
             C == {u \in SUBSET S : Good(u)}
  <1>0. \A u \in SUBSET S : F(u) \in Nat
    BY SumTyped
  <1>1. ASSUME NEW u \in SUBSET S, \A x \in u : u \ {x} \in C
        PROVE  Good(u)
    <2> SUFFICES ASSUME NEW x \in u
                 PROVE  F(u) = f[x] + F(u \ {x})
      OBVIOUS
    <2> DEFINE p == Taken(u)
    <2>1. IsFiniteSet(u)
      BY FS_Subset
    <2>2. p \in u
      BY TakenIsIn
    <2>3. F(u) = f[p] + F(u \ {p})
      BY <2>1, SumUnfolds
    <2> HIDE DEF p, F
    <2>4. CASE x = p
      BY <2>3, <2>4
    <2>5. CASE x # p
      <3>1. F(u \ {p}) = f[x] + F((u \ {p}) \ {x})
        BY <1>1, <2>2, <2>5
      <3>2. F(u \ {x}) = f[p] + F((u \ {x}) \ {p})
        BY <1>1, <2>2, <2>5
      <3>3. F((u \ {p}) \ {x}) = F((u \ {x}) \ {p})
        <4>1. (u \ {p}) \ {x} = (u \ {x}) \ {p}
          OBVIOUS
        <4>2. QED
          BY <4>1
      <3>4. f[p] \in Nat /\ f[x] \in Nat /\ F((u \ {x}) \ {p}) \in Nat
        BY <1>0, <2>2 DEF Counts
      <3>5. QED
        BY <2>3, <3>1, <3>2, <3>3, <3>4
    <2>6. QED
      BY <2>4, <2>5
  <1>2. C = SUBSET S
    <2>1. C \in SUBSET (SUBSET S)
      OBVIOUS
    <2>2. \A u \in SUBSET S : (\A x \in u : u \ {x} \in C) => u \in C
      BY <1>1
    <2> HIDE DEF C
    <2>3. QED
      BY <2>1, <2>2, SubsetInduction
  <1>3. S \in C
    BY <1>2
  <1>4. QED
    BY <1>3

\* It depends on what is counted at the members only, and grows with it.
LEMMA SumGrows ==
  ASSUME NEW f, NEW g, NEW S, IsFiniteSet(S), Counts(f, S), Counts(g, S),
         \A x \in S : f[x] <= g[x]
  PROVE  SumFunctionOnSet(f, S) <= SumFunctionOnSet(g, S)
  <1> DEFINE C == {u \in SUBSET S :
                     SumFunctionOnSet(f, u) <= SumFunctionOnSet(g, u)}
  <1>1. ASSUME NEW u \in SUBSET S, \A x \in u : u \ {x} \in C
        PROVE  SumFunctionOnSet(f, u) <= SumFunctionOnSet(g, u)
    <2>1. IsFiniteSet(u)
      BY FS_Subset
    <2>2. CASE u = {}
      BY <2>2, SumOfNone
    <2>3. CASE u # {}
      <3>1. PICK x \in u : u \ {x} \in C
        BY <1>1, <2>3
      <3>2. /\ SumFunctionOnSet(f, u) = f[x] + SumFunctionOnSet(f, u \ {x})
            /\ SumFunctionOnSet(g, u) = g[x] + SumFunctionOnSet(g, u \ {x})
        BY <2>1, SumTakesOut DEF Counts
      <3>3. /\ SumFunctionOnSet(f, u \ {x}) \in Nat
            /\ SumFunctionOnSet(g, u \ {x}) \in Nat
        BY SumTyped
      <3>4. f[x] \in Nat /\ g[x] \in Nat /\ f[x] <= g[x]
        BY DEF Counts
      <3>5. QED
        BY <3>1, <3>2, <3>3, <3>4
    <2>4. QED
      BY <2>2, <2>3
  <1>2. C = SUBSET S
    <2>1. C \in SUBSET (SUBSET S)
      OBVIOUS
    <2>2. \A u \in SUBSET S : (\A x \in u : u \ {x} \in C) => u \in C
      BY <1>1
    <2> HIDE DEF C
    <2>3. QED
      BY <2>1, <2>2, SubsetInduction
  <1>3. QED
    BY <1>2

\* Two that agree on the members have the same sum.
LEMMA SumSame ==
  ASSUME NEW f, NEW g, NEW S, IsFiniteSet(S), Counts(f, S),
         \A x \in S : f[x] = g[x]
  PROVE  SumFunctionOnSet(f, S) = SumFunctionOnSet(g, S)
  <1>1. Counts(g, S) /\ \A x \in S : f[x] <= g[x] /\ g[x] <= f[x]
    BY DEF Counts
  <1>2. /\ SumFunctionOnSet(f, S) <= SumFunctionOnSet(g, S)
        /\ SumFunctionOnSet(g, S) <= SumFunctionOnSet(f, S)
    BY <1>1, SumGrows
  <1>3. SumFunctionOnSet(f, S) \in Nat /\ SumFunctionOnSet(g, S) \in Nat
    BY <1>1, SumTyped
  <1>4. QED
    BY <1>2, <1>3

\* A smaller set has the smaller sum.
LEMMA SumOfSubset ==
  ASSUME NEW f, NEW S, IsFiniteSet(S), Counts(f, S), NEW T \in SUBSET S
  PROVE  SumFunctionOnSet(f, T) <= SumFunctionOnSet(f, S)
  <1> DEFINE C == {u \in SUBSET S :
                     SumFunctionOnSet(f, T \cap u) <= SumFunctionOnSet(f, u)}
  <1>1. ASSUME NEW u \in SUBSET S, \A x \in u : u \ {x} \in C
        PROVE  SumFunctionOnSet(f, T \cap u) <= SumFunctionOnSet(f, u)
    <2>1. CASE u = {}
      <3>1. T \cap u = {} /\ u = {}
        BY <2>1
      <3>2. QED
        BY <3>1, SumOfNone
    <2>2. CASE u # {}
      <3>1. PICK x \in u : u \ {x} \in C
        BY <1>1, <2>2
      <3>2. (T \cap u) \ {x} = T \cap (u \ {x})
        OBVIOUS
      <3>3. IsFiniteSet(u) /\ IsFiniteSet(T \cap u)
        BY FS_Subset
      <3>4. SumFunctionOnSet(f, u) = f[x] + SumFunctionOnSet(f, u \ {x})
        BY <3>3, SumTakesOut DEF Counts
      <3>5. x \in T => SumFunctionOnSet(f, T \cap u) =
                         f[x] + SumFunctionOnSet(f, T \cap (u \ {x}))
        BY <3>2, <3>3, SumTakesOut DEF Counts
      <3>6. x \notin T => T \cap u = T \cap (u \ {x})
        OBVIOUS
      <3>7. /\ SumFunctionOnSet(f, u \ {x}) \in Nat
            /\ SumFunctionOnSet(f, T \cap (u \ {x})) \in Nat /\ f[x] \in Nat
        BY SumTyped DEF Counts
      <3>8. SumFunctionOnSet(f, T \cap (u \ {x})) <= SumFunctionOnSet(f, u \ {x})
        BY <3>1
      <3>9. QED
        BY <3>4, <3>5, <3>6, <3>7, <3>8
    <2>3. QED
      BY <2>1, <2>2
  <1>2. C = SUBSET S
    <2>1. C \in SUBSET (SUBSET S)
      OBVIOUS
    <2>2. \A u \in SUBSET S : (\A x \in u : u \ {x} \in C) => u \in C
      BY <1>1
    <2> HIDE DEF C
    <2>3. QED
      BY <2>1, <2>2, SubsetInduction
  <1>3. SumFunctionOnSet(f, T \cap S) <= SumFunctionOnSet(f, S)
    BY <1>2
  <1>4. T \cap S = T
    OBVIOUS
  <1>5. QED
    BY <1>3, <1>4

\* The members of a sequence of numbers that are summed up are 1..Len.
LEMMA SumOfSequence ==
  ASSUME NEW c, NEW n \in Nat, DOMAIN c = 1..n, \A i \in 1..n : c[i] \in Nat
  PROVE  /\ SumFunction(c) = SumFunctionOnSet(c, 1..n)
         /\ IsFiniteSet(1..n) /\ Counts(c, 1..n)
         /\ SumFunction(c) \in Nat
  <1>1. SumFunction(c) = SumFunctionOnSet(c, 1..n)
    BY DEF SumFunction
  <1>2. IsFiniteSet(1..n)
    BY FS_Interval
  <1>3. Counts(c, 1..n)
    BY DEF Counts
  <1>4. QED
    BY <1>1, <1>2, <1>3, SumTyped

\* Of two that agree as far as the first goes, the longer has the greater sum.
LEMMA SumOfPrefix ==
  ASSUME NEW c, NEW m \in Nat, DOMAIN c = 1..m, NEW d, NEW n \in Nat, DOMAIN d = 1..n,
         \A i \in 1..n : d[i] \in Nat, m <= n, \A i \in 1..m : c[i] = d[i]
  PROVE  SumFunction(c) <= SumFunction(d)
  <1>1. 1..m \in SUBSET (1..n) /\ \A i \in 1..m : c[i] \in Nat
    OBVIOUS
  <1>2. /\ SumFunction(c) = SumFunctionOnSet(c, 1..m)
        /\ IsFiniteSet(1..m) /\ Counts(c, 1..m)
    BY <1>1, SumOfSequence
  <1>3. /\ SumFunction(d) = SumFunctionOnSet(d, 1..n)
        /\ IsFiniteSet(1..n) /\ Counts(d, 1..n)
    BY SumOfSequence
  <1>4. SumFunctionOnSet(d, 1..m) <= SumFunctionOnSet(d, 1..n)
    BY <1>1, <1>3, SumOfSubset
  <1>5. SumFunctionOnSet(c, 1..m) = SumFunctionOnSet(d, 1..m)
    BY <1>2, SumSame
  <1>6. QED
    BY <1>2, <1>3, <1>4, <1>5

\* What is added at the end is added to the sum.
LEMMA SumOfLonger ==
  ASSUME NEW c, NEW n \in Nat, DOMAIN c = 1..n, \A i \in 1..n : c[i] \in Nat,
         NEW d, DOMAIN d = 1..(n + 1), \A i \in 1..n : d[i] = c[i], d[n + 1] \in Nat
  PROVE  SumFunction(d) = SumFunction(c) + d[n + 1]
  <1>1. \A i \in 1..(n + 1) : d[i] \in Nat
    OBVIOUS
  <1>2. /\ SumFunction(d) = SumFunctionOnSet(d, 1..(n + 1))
        /\ IsFiniteSet(1..(n + 1)) /\ Counts(d, 1..(n + 1))
    BY <1>1, SumOfSequence
  <1>3. /\ SumFunction(c) = SumFunctionOnSet(c, 1..n)
        /\ IsFiniteSet(1..n) /\ Counts(c, 1..n) /\ SumFunction(c) \in Nat
    BY SumOfSequence
  <1>4. (1..(n + 1)) \ {n + 1} = 1..n /\ n + 1 \in 1..(n + 1)
    OBVIOUS
  <1>5. SumFunctionOnSet(d, 1..(n + 1)) = d[n + 1] + SumFunctionOnSet(d, 1..n)
    BY <1>2, <1>4, SumTakesOut
  <1>6. SumFunctionOnSet(d, 1..n) = SumFunctionOnSet(c, 1..n)
    BY <1>3, SumSame
  <1>7. QED
    BY <1>2, <1>3, <1>5, <1>6

(***************************************************************************)
(* Part 4: filtered lists                                                  *)
(***************************************************************************)
OnlyStep(s, S, g, i) ==
    IF i = 0 THEN <<>>
    ELSE IF s[i] \in S THEN Append(g[i - 1], s[i])
    ELSE g[i - 1]

\* g is the loop's list after each of its rounds.
Filters(s, S, n, g) == g = [i \in 0..n |-> OnlyStep(s, S, g, i)]

\* The loop has such a list, and Only is the last of them.
LEMMA OnlyFilters ==
  ASSUME NEW s, Len(s) \in Nat, NEW S
  PROVE  \E g : Filters(s, S, Len(s), g) /\ Only(s, S) = g[Len(s)]
  <1> DEFINE C == {k \in 0..Len(s) : \E g : Filters(s, S, k, g)}
  <1>1. 0 \in C
    <2>1. Filters(s, S, 0, [i \in 0..0 |-> <<>>])
      BY DEF Filters, OnlyStep
    <2>2. QED
      BY <2>1
  <1>2. ASSUME NEW k \in 0..(Len(s) - 1), k \in C
        PROVE  k + 1 \in C
    <2>1. PICK g : Filters(s, S, k, g)
      BY <1>2
    <2> DEFINE h == [i \in 0..(k + 1) |->
                       IF i <= k THEN g[i] ELSE OnlyStep(s, S, g, k + 1)]
    <2>2. ASSUME NEW i \in 0..(k + 1)
          PROVE  h[i] = OnlyStep(s, S, h, i)
      <3>1. i # 0 => i - 1 \in 0..k /\ h[i - 1] = g[i - 1]
        BY <1>2
      <3>2. OnlyStep(s, S, h, i) = OnlyStep(s, S, g, i)
        BY <3>1 DEF OnlyStep
      <3>3. i <= k => g[i] = OnlyStep(s, S, g, i)
        BY <1>2, <2>1 DEF Filters
      <3>4. i <= k \/ i = k + 1
        BY <1>2
      <3>5. QED
        BY <3>2, <3>3, <3>4
    <2>3. Filters(s, S, k + 1, h)
      <3>1. h = [i \in 0..(k + 1) |-> h[i]]
        OBVIOUS
      <3> HIDE DEF h
      <3>2. QED
        BY <2>2, <3>1 DEF Filters
    <2>4. k + 1 \in 0..Len(s)
      BY <1>2
    <2>5. QED
      BY <2>3, <2>4
  <1>3. C = 0..Len(s)
    <2>1. C \in SUBSET (0..Len(s))
      OBVIOUS
    <2> HIDE DEF C
    <2>2. QED
      BY <1>1, <1>2, <2>1, BoundedInduction
  <1>4. \E g : Filters(s, S, Len(s), g)
    BY <1>3
  <1>5. Filters(s, S, Len(s), CHOOSE g : Filters(s, S, Len(s), g))
    BY <1>4
  <1>6. Only(s, S) = (CHOOSE g : Filters(s, S, Len(s), g))[Len(s)]
    BY DEF Only, Filters, OnlyStep
  <1>7. QED
    BY <1>5, <1>6

\* What filtering has kept of the first k members.
KeptOf(A, s, S, k, t) ==
    /\ t \in Seq(A \cap S) /\ Len(t) <= k
    /\ \A i \in 1..k : s[i] \in S => \E j \in DOMAIN t : t[j] = s[i]
    /\ (\A i \in 1..k : s[i] \in S) => Len(t) = k /\ \A i \in 1..k : t[i] = s[i]

\* The list after each round: what has passed so far, all of it, and no more
\* than has been looked at.
LEMMA FilterRounds ==
  ASSUME NEW A, NEW s \in Seq(A), NEW S, NEW g, Filters(s, S, Len(s), g)
  PROVE  \A k \in 0..Len(s) : KeptOf(A, s, S, k, g[k])
  <1> USE DEF KeptOf
  <1> DEFINE Good(k) == KeptOf(A, s, S, k, g[k])
             C == {k \in 0..Len(s) : Good(k)}
  <1>0. Len(s) \in Nat /\ \A k \in 0..Len(s) : g[k] = OnlyStep(s, S, g, k)
    BY DEF Filters
  <1>1. Good(0)
    <2>1. g[0] = <<>>
      BY <1>0 DEF OnlyStep
    <2>2. QED
      BY <2>1
  <1>2. ASSUME NEW k \in 0..(Len(s) - 1), Good(k)
        PROVE  Good(k + 1)
    <2>1. k \in Nat /\ k + 1 \in 1..Len(s) /\ s[k + 1] \in A
      BY <1>0
    <2>2. g[k + 1] = IF s[k + 1] \in S THEN Append(g[k], s[k + 1]) ELSE g[k]
      BY <1>0, <2>1 DEF OnlyStep
    <2>3. \A i \in 1..(k + 1) : i \in 1..k \/ i = k + 1
      BY <2>1
    <2>4. CASE s[k + 1] \in S
      <3>1. /\ g[k + 1] \in Seq(A \cap S) /\ Len(g[k + 1]) = Len(g[k]) + 1
            /\ g[k + 1][Len(g[k]) + 1] = s[k + 1]
            /\ \A j \in 1..Len(g[k]) : g[k + 1][j] = g[k][j]
        BY <1>2, <2>1, <2>2, <2>4
      <3>2. Len(g[k]) \in Nat /\ Len(g[k]) <= k
        BY <1>2
      <3>3. ASSUME NEW i \in 1..(k + 1), s[i] \in S
            PROVE  \E j \in DOMAIN g[k + 1] : g[k + 1][j] = s[i]
        <4>1. CASE i = k + 1
          BY <3>1, <3>2, <4>1
        <4>2. CASE i \in 1..k
          <5>1. PICK j \in DOMAIN g[k] : g[k][j] = s[i]
            BY <1>2, <3>3, <4>2
          <5>a. DOMAIN g[k] = 1..Len(g[k]) /\ DOMAIN g[k + 1] = 1..(Len(g[k]) + 1)
            BY <1>2, <3>1
          <5>2. j \in 1..Len(g[k]) /\ j \in DOMAIN g[k + 1]
            BY <3>2, <5>1, <5>a
          <5>3. QED
            BY <3>1, <5>1, <5>2
        <4>3. QED
          BY <2>3, <4>1, <4>2
      <3>4. ASSUME \A i \in 1..(k + 1) : s[i] \in S
            PROVE  Len(g[k + 1]) = k + 1 /\ \A i \in 1..(k + 1) : g[k + 1][i] = s[i]
        <4>1. Len(g[k]) = k /\ \A i \in 1..k : g[k][i] = s[i]
          BY <1>2, <2>1, <3>4
        <4>2. QED
          BY <2>1, <2>3, <3>1, <4>1
      <3>5. QED
        BY <2>1, <3>1, <3>2, <3>3, <3>4
    <2>5. CASE s[k + 1] \notin S
      <3>1. g[k + 1] = g[k]
        BY <2>2, <2>5
      <3>2. Len(g[k + 1]) <= k + 1
        BY <1>2, <2>1, <3>1
      <3>3. \A i \in 1..(k + 1) : s[i] \in S => i \in 1..k
        BY <2>3, <2>5
      <3>4. ~(\A i \in 1..(k + 1) : s[i] \in S)
        BY <2>1, <2>5
      <3>5. QED
        BY <1>2, <3>1, <3>2, <3>3, <3>4
    <2>6. QED
      BY <2>4, <2>5
  <1>3. C = 0..Len(s)
    <2> HIDE DEF Good
    <2>1. C \in SUBSET (0..Len(s)) /\ 0 \in C
      BY <1>0, <1>1
    <2>2. \A k \in 0..(Len(s) - 1) : k \in C => k + 1 \in C
      BY <1>0, <1>2
    <2> HIDE DEF C
    <2>3. QED
      BY <1>0, <2>1, <2>2, BoundedInduction
  <1>4. QED
    BY <1>3

\* What is filtered out of a list is in it and passes; all that passes is
\* there; and if all passes nothing changes.
LEMMA OnlyKeeps ==
  ASSUME NEW A, NEW s \in Seq(A), NEW S
  PROVE  /\ Only(s, S) \in Seq(A \cap S)
         /\ Only(s, S) \in Seq(A)
         /\ Len(Only(s, S)) <= Len(s)
         /\ \A i \in DOMAIN s :
               s[i] \in S => \E j \in DOMAIN Only(s, S) : Only(s, S)[j] = s[i]
         /\ (\A i \in DOMAIN s : s[i] \in S) => Only(s, S) = s
  <1>1. Len(s) \in Nat /\ DOMAIN s = 1..Len(s)
    OBVIOUS
  <1>2. PICK g : Filters(s, S, Len(s), g) /\ Only(s, S) = g[Len(s)]
    BY <1>1, OnlyFilters
  <1>3. Len(s) \in 0..Len(s)
    BY <1>1
  <1> DEFINE last == g[Len(s)]
  <1>4. /\ last \in Seq(A \cap S) /\ Len(last) <= Len(s)
        /\ \A i \in 1..Len(s) : s[i] \in S => \E j \in DOMAIN last : last[j] = s[i]
        /\ (\A i \in 1..Len(s) : s[i] \in S) =>
              Len(last) = Len(s) /\ \A i \in 1..Len(s) : last[i] = s[i]
    <2> HIDE DEF last
    <2>1. KeptOf(A, s, S, Len(s), last)
      BY <1>2, <1>3, FilterRounds DEF last
    <2>2. QED
      BY <2>1 DEF KeptOf
  <1> HIDE DEF last
  <1>l. Only(s, S) = last
    BY <1>2 DEF last
  <1>5. last \in Seq(A)
    BY <1>4
  <1>6. ASSUME Len(last) = Len(s), \A i \in 1..Len(s) : last[i] = s[i]
        PROVE  last = s
    BY <1>5, <1>6, SeqEqual
  <1>7. QED
    BY <1>1, <1>4, <1>5, <1>6, <1>l

\* No member that passes is missing.
LEMMA OnlyHasAll ==
  ASSUME NEW A, NEW s \in Seq(A), NEW S
  PROVE  \A i \in DOMAIN s :
            s[i] \in S => \E j \in DOMAIN Only(s, S) : Only(s, S)[j] = s[i]
  <1>1. Len(s) \in Nat /\ DOMAIN s = 1..Len(s)
    OBVIOUS
  <1>2. PICK g : Filters(s, S, Len(s), g) /\ Only(s, S) = g[Len(s)]
    BY <1>1, OnlyFilters
  <1>3. Len(s) \in 0..Len(s)
    BY <1>1
  <1> DEFINE last == g[Len(s)]
  <1>4. KeptOf(A, s, S, Len(s), last)
    BY <1>2, <1>3, FilterRounds
  <1> HIDE DEF last
  <1>5. \A i \in DOMAIN s : s[i] \in S => \E j \in DOMAIN last : last[j] = s[i]
    BY <1>1, <1>4 DEF KeptOf
  <1>6. QED
    BY <1>2, <1>5 DEF last

\* If all but the first passes, the rest of the list remains.
LEMMA OnlyDropsFirst ==
  ASSUME NEW A, NEW s \in Seq(A), NEW S, s # <<>>, s[1] \notin S,
         \A i \in 2..Len(s) : s[i] \in S
  PROVE  /\ Len(Only(s, S)) = Len(s) - 1
         /\ \A i \in 1..(Len(s) - 1) : Only(s, S)[i] = s[i + 1]
  <1>1. Len(s) \in Nat /\ Len(s) > 0 /\ DOMAIN s = 1..Len(s)
    OBVIOUS
  <1>2. PICK g : Filters(s, S, Len(s), g) /\ Only(s, S) = g[Len(s)]
    BY <1>1, OnlyFilters
  <1>3. /\ \A k \in 0..Len(s) : g[k] = OnlyStep(s, S, g, k)
        /\ \A k \in 0..Len(s) : g[k] \in Seq(A \cap S)
    BY <1>1, <1>2, FilterRounds DEF Filters, KeptOf
  <1> DEFINE Good(k) == Len(g[k + 1]) = k /\ \A i \in 1..k : g[k + 1][i] = s[i + 1]
             C == {k \in 0..(Len(s) - 1) : Good(k)}
  <1>4. Good(0)
    <2>1. g[1] = OnlyStep(s, S, g, 1) /\ g[0] = OnlyStep(s, S, g, 0)
      BY <1>1, <1>3
    <2>2. g[0] = <<>> /\ g[1] = g[0]
      BY <1>1, <2>1 DEF OnlyStep
    <2>3. QED
      BY <2>2
  <1>5. ASSUME NEW k \in 0..(Len(s) - 1 - 1), Good(k)
        PROVE  Good(k + 1)
    <2>1. k \in Nat /\ k + 1 \in 0..Len(s) /\ k + 2 \in 2..Len(s)
      BY <1>1
    <2>2. g[k + 2] = Append(g[k + 1], s[k + 2])
      <3>1. k + 2 \in 0..Len(s) /\ k + 2 # 0 /\ (k + 2) - 1 = k + 1
        BY <1>1, <2>1
      <3>2. g[k + 2] = OnlyStep(s, S, g, k + 2)
        BY <1>3, <3>1
      <3>3. s[k + 2] \in S
        BY <2>1
      <3>4. OnlyStep(s, S, g, k + 2) = Append(g[(k + 2) - 1], s[k + 2])
        BY <3>1, <3>3 DEF OnlyStep
      <3>5. QED
        BY <3>1, <3>2, <3>4
    <2>3. g[k + 1] \in Seq(A \cap S) /\ Len(g[k + 1]) = k
      BY <1>3, <1>5, <2>1
    <2>4. /\ Len(g[k + 2]) = k + 1 /\ g[k + 2][k + 1] = s[k + 2]
          /\ \A i \in 1..k : g[k + 2][i] = g[k + 1][i]
      BY <2>1, <2>2, <2>3
    <2>5. \A i \in 1..(k + 1) : i \in 1..k \/ i = k + 1
      BY <2>1
    <2>6. (k + 1) + 1 = k + 2
      BY <2>1
    <2>7. QED
      BY <1>5, <2>1, <2>4, <2>5, <2>6
  <1>6. C = 0..(Len(s) - 1)
    <2> HIDE DEF Good
    <2>1. C \in SUBSET (0..(Len(s) - 1)) /\ 0 \in C /\ Len(s) - 1 \in Nat
      BY <1>1, <1>4
    <2>2. \A k \in 0..(Len(s) - 1 - 1) : k \in C => k + 1 \in C
      BY <1>1, <1>5
    <2> HIDE DEF C
    <2>3. QED
      BY <2>1, <2>2, BoundedInduction
  <1>7. Good(Len(s) - 1) /\ (Len(s) - 1) + 1 = Len(s)
    <2> HIDE DEF Good
    <2>1. QED
      BY <1>1, <1>6
  <1>8. /\ Len(g[Len(s)]) = Len(s) - 1
        /\ \A i \in 1..(Len(s) - 1) : g[Len(s)][i] = s[i + 1]
    BY <1>7, Zenon
  <1>9. QED
    BY <1>2, <1>8, Zenon

\* Of what is counted at the members, the filtered list counts no more.
LEMMA OnlySums ==
  ASSUME NEW A, NEW s \in Seq(A), NEW S, NEW v \in [A -> Nat]
  PROVE  SumFunction([j \in DOMAIN Only(s, S) |-> v[Only(s, S)[j]]])
           <= SumFunction([i \in DOMAIN s |-> v[s[i]]])
  <1>1. Len(s) \in Nat /\ DOMAIN s = 1..Len(s)
    OBVIOUS
  <1>2. PICK g : Filters(s, S, Len(s), g) /\ Only(s, S) = g[Len(s)]
    BY <1>1, OnlyFilters
  <1>3. /\ \A k \in 0..Len(s) : g[k] = OnlyStep(s, S, g, k)
        /\ \A k \in 0..Len(s) : g[k] \in Seq(A \cap S)
    BY <1>1, <1>2, FilterRounds DEF Filters, KeptOf
  <1> DEFINE upto(k) == [i \in 1..k |-> v[s[i]]]
             kept(k) == [j \in DOMAIN g[k] |-> v[g[k][j]]]
             Good(k) == SumFunction(kept(k)) <= SumFunction(upto(k))
             C == {k \in 0..Len(s) : Good(k)}
  <1>4. Good(0)
    <2>1. g[0] = <<>>
      BY <1>1, <1>3 DEF OnlyStep
    <2>2. DOMAIN kept(0) = {} /\ DOMAIN upto(0) = {}
      BY <2>1
    <2> HIDE DEF kept, upto
    <2>3. SumFunction(kept(0)) = 0 /\ SumFunction(upto(0)) = 0
      BY <2>2, SumOfNone DEF SumFunction
    <2>4. QED
      BY <2>3
  <1>5. ASSUME NEW k \in 0..(Len(s) - 1), Good(k)
        PROVE  Good(k + 1)
    <2>1. /\ k \in Nat /\ k + 1 \in 1..Len(s) /\ k + 1 \in 0..Len(s) /\ k \in 0..Len(s)
          /\ s[k + 1] \in A
      BY <1>1
    <2>2. g[k + 1] = IF s[k + 1] \in S THEN Append(g[k], s[k + 1]) ELSE g[k]
      BY <1>3, <2>1 DEF OnlyStep
    <2>3. v[s[k + 1]] \in Nat
      BY <2>1
    <2>4. SumFunction(upto(k + 1)) = SumFunction(upto(k)) + v[s[k + 1]]
      <3>1. /\ DOMAIN upto(k) = 1..k /\ DOMAIN upto(k + 1) = 1..(k + 1)
            /\ \A i \in 1..k : upto(k)[i] \in Nat /\ upto(k + 1)[i] = upto(k)[i]
            /\ upto(k + 1)[k + 1] = v[s[k + 1]]
        BY <1>1, <2>1
      <3> DEFINE c == upto(k)
                 d == upto(k + 1)
      <3>2. /\ DOMAIN c = 1..k /\ \A i \in 1..k : c[i] \in Nat
            /\ DOMAIN d = 1..(k + 1) /\ \A i \in 1..k : d[i] = c[i]
            /\ d[k + 1] = v[s[k + 1]] /\ d[k + 1] \in Nat /\ k \in Nat
        BY <2>1, <2>3, <3>1
      <3>3. SumFunction(d) = SumFunction(c) + d[k + 1]
        <4> HIDE DEF c, d
        <4>1. QED
          BY <3>2, SumOfLonger
      <3>4. QED
        BY <3>2, <3>3
    <2>5. SumFunction(upto(k)) \in Nat
      <3>1. DOMAIN upto(k) = 1..k /\ \A i \in 1..k : upto(k)[i] \in Nat
        BY <1>1, <2>1
      <3> HIDE DEF upto
      <3>2. QED
        BY <2>1, <3>1, SumOfSequence
    <2> DEFINE m == Len(g[k])
    <2>6. /\ g[k] \in Seq(A) /\ m \in Nat /\ DOMAIN g[k] = 1..m
      BY <1>3, <2>1
    <2>7. DOMAIN kept(k) = 1..m /\ \A j \in 1..m : kept(k)[j] \in Nat
      BY <2>6
    <2>8. SumFunction(kept(k)) \in Nat
      <3> HIDE DEF kept, m
      <3>1. QED
        BY <2>6, <2>7, SumOfSequence
    <2>9. CASE s[k + 1] \in S
      <3>1. /\ Len(g[k + 1]) = m + 1 /\ DOMAIN g[k + 1] = 1..(m + 1)
            /\ g[k + 1][m + 1] = s[k + 1]
            /\ \A j \in 1..m : g[k + 1][j] = g[k][j]
        BY <2>1, <2>2, <2>6, <2>9
      <3> HIDE DEF m
      <3>2. DOMAIN kept(k + 1) = 1..(m + 1)
        BY <3>1
      <3>a. ASSUME NEW j \in 1..m PROVE kept(k + 1)[j] = kept(k)[j]
        <4>1. j \in DOMAIN g[k + 1] /\ j \in DOMAIN g[k] /\ g[k + 1][j] = g[k][j]
          BY <2>6, <3>1
        <4>2. QED
          BY <4>1
      <3>b. kept(k + 1)[m + 1] = v[s[k + 1]]
        <4>1. m + 1 \in DOMAIN g[k + 1] /\ g[k + 1][m + 1] = s[k + 1]
          BY <2>6, <3>1
        <4>2. QED
          BY <4>1
      <3> HIDE DEF kept
      <3>3. SumFunction(kept(k + 1)) = SumFunction(kept(k)) + v[s[k + 1]]
        <4>1. kept(k + 1)[m + 1] \in Nat
          BY <2>3, <3>b
        <4>2. SumFunction(kept(k + 1)) = SumFunction(kept(k)) + kept(k + 1)[m + 1]
          BY <2>6, <2>7, <3>2, <3>a, <4>1, SumOfLonger, Zenon
        <4>3. QED
          BY <3>b, <4>2
      <3> HIDE DEF upto
      <3>4. QED
        BY <1>5, <2>3, <2>4, <2>5, <2>8, <3>3
    <2>10. CASE s[k + 1] \notin S
      <3>1. kept(k + 1) = kept(k)
        BY <2>2, <2>10
      <3> HIDE DEF kept, upto
      <3>2. QED
        BY <1>5, <2>3, <2>4, <2>5, <2>8, <3>1
    <2>11. QED
      BY <2>9, <2>10
  <1>6. C = 0..Len(s)
    <2> HIDE DEF Good
    <2>1. C \in SUBSET (0..Len(s)) /\ 0 \in C
      BY <1>1, <1>4
    <2>2. \A k \in 0..(Len(s) - 1) : k \in C => k + 1 \in C
      BY <1>1, <1>5
    <2> HIDE DEF C
    <2>3. QED
      BY <1>1, <2>1, <2>2, BoundedInduction
  <1>7. Good(Len(s))
    <2> HIDE DEF Good
    <2>1. QED
      BY <1>1, <1>6
  <1>8. QED
    BY <1>1, <1>2, <1>7

(***************************************************************************)
(* Part 5: what the members of a list count                                *)
(***************************************************************************)
Tally(s, v) == SumFunction([i \in DOMAIN s |-> v[s[i]]])

\* It is a number.
LEMMA TallyTyped ==
  ASSUME NEW A, NEW s \in Seq(A), NEW v \in [A -> Nat]
  PROVE  Tally(s, v) \in Nat
  <1> DEFINE c == [i \in DOMAIN s |-> v[s[i]]]
  <1>1. Len(s) \in Nat /\ DOMAIN c = 1..Len(s) /\ \A i \in 1..Len(s) : c[i] \in Nat
    OBVIOUS
  <1> HIDE DEF c
  <1>2. SumFunction(c) \in Nat
    BY <1>1, SumOfSequence
  <1>3. QED
    BY <1>2 DEF Tally, c

\* An empty list counts nothing.
LEMMA TallyOfNone ==
  ASSUME NEW v
  PROVE  Tally(<<>>, v) = 0
  <1> DEFINE c == [i \in DOMAIN <<>> |-> v[<<>>[i]]]
  <1>1. DOMAIN c = {}
    OBVIOUS
  <1> HIDE DEF c
  <1>2. SumFunction(c) = 0
    BY <1>1, SumOfNone DEF SumFunction
  <1>3. QED
    BY <1>2 DEF Tally, c

\* The members up to some point count no more than all of them; the next one
\* makes up for no more than the difference, and the last for all of it.
LEMMA TallyOfLonger ==
  ASSUME NEW A, NEW s \in Seq(A), NEW t \in Seq(A), NEW v \in [A -> Nat],
         Len(t) <= Len(s), \A i \in 1..Len(t) : t[i] = s[i]
  PROVE  /\ Tally(t, v) <= Tally(s, v)
         /\ Len(t) < Len(s) => Tally(t, v) + v[s[Len(t) + 1]] <= Tally(s, v)
         /\ Len(s) = Len(t) + 1 => Tally(s, v) = Tally(t, v) + v[s[Len(s)]]
  <1> DEFINE c == [i \in DOMAIN t |-> v[t[i]]]
             d == [i \in DOMAIN s |-> v[s[i]]]
             n == Len(t)
             e == [i \in 1..(n + 1) |-> v[s[i]]]
  <1>1. /\ n \in Nat /\ Len(s) \in Nat /\ n <= Len(s)
        /\ DOMAIN c = 1..n /\ \A i \in 1..n : c[i] \in Nat
        /\ DOMAIN d = 1..Len(s) /\ \A i \in 1..Len(s) : d[i] \in Nat
        /\ \A i \in 1..n : c[i] = d[i]
    OBVIOUS
  <1>2. SumFunction(c) <= SumFunction(d)
    <2> HIDE DEF c, d, n
    <2>1. QED
      BY <1>1, SumOfPrefix
  <1>3. ASSUME n < Len(s)
        PROVE  SumFunction(c) + v[s[n + 1]] <= SumFunction(d)
    <2>0. /\ n + 1 \in Nat /\ n + 1 <= Len(s) /\ n + 1 \in 1..Len(s)
          /\ \A i \in 1..n : i \in 1..(n + 1)
          /\ \A i \in 1..(n + 1) : i \in 1..Len(s)
          /\ n + 1 \in 1..(n + 1)
      BY <1>1, <1>3
    <2>1. /\ DOMAIN e = 1..(n + 1)
          /\ \A i \in 1..(n + 1) : e[i] = d[i]
          /\ e[n + 1] = v[s[n + 1]]
      <3> HIDE DEF n
      <3>1. QED
        BY <2>0
    <2> HIDE DEF c, d, e, n
    <2>a. /\ \A i \in 1..(n + 1) : e[i] \in Nat
          /\ \A i \in 1..n : e[i] = c[i]
      BY <1>1, <2>0, <2>1
    <2>2. SumFunction(e) <= SumFunction(d)
      BY <1>1, <2>0, <2>1, <2>a, SumOfPrefix
    <2>3. e[n + 1] \in Nat
      BY <2>0, <2>a
    <2>4. SumFunction(e) = SumFunction(c) + e[n + 1]
      <3>1. n \in Nat /\ DOMAIN c = 1..n /\ \A i \in 1..n : c[i] \in Nat
        BY <1>1
      <3>2. DOMAIN e = 1..(n + 1) /\ \A i \in 1..n : e[i] = c[i]
        BY <2>1, <2>a
      <3>3. QED
        BY <2>3, <3>1, <3>2, SumOfLonger, Zenon
    <2>5. QED
      BY <2>1, <2>2, <2>4
  <1>4. ASSUME Len(s) = n + 1
        PROVE  SumFunction(d) = SumFunction(c) + v[s[Len(s)]]
    <2>1. /\ DOMAIN d = 1..(n + 1) /\ d[n + 1] \in Nat
          /\ \A i \in 1..n : d[i] = c[i]
          /\ d[n + 1] = v[s[Len(s)]]
      BY <1>1, <1>4
    <2>2. SumFunction(d) = SumFunction(c) + d[n + 1]
      <3>1. /\ n \in Nat /\ DOMAIN c = 1..n /\ \A i \in 1..n : c[i] \in Nat
            /\ DOMAIN d = 1..(n + 1) /\ \A i \in 1..n : d[i] = c[i]
            /\ d[n + 1] \in Nat
        BY <1>1, <2>1, Zenon
      <3> HIDE DEF c, d, n
      <3>2. QED
        BY <3>1, SumOfLonger, Zenon
    <2> HIDE DEF c, d, n
    <2>3. QED
      BY <2>1, <2>2
  <1>5. Tally(t, v) = SumFunction(c) /\ Tally(s, v) = SumFunction(d)
    BY DEF Tally
  <1> HIDE DEF c, d
  <1>6. QED
    BY <1>2, <1>3, <1>4, <1>5

\* What is appended counts what it counts.
LEMMA TallyAppended ==
  ASSUME NEW A, NEW s \in Seq(A), NEW x \in A, NEW v \in [A -> Nat]
  PROVE  Tally(Append(s, x), v) = Tally(s, v) + v[x]
  <1> DEFINE t == Append(s, x)
  <1>1. /\ t \in Seq(A) /\ Len(t) = Len(s) + 1 /\ t[Len(t)] = x
        /\ Len(s) <= Len(t) /\ \A i \in 1..Len(s) : s[i] = t[i]
    OBVIOUS
  <1> HIDE DEF t
  <1>2. Tally(t, v) = Tally(s, v) + v[t[Len(t)]]
    BY <1>1, TallyOfLonger
  <1>3. QED
    BY <1>1, <1>2 DEF t

\* A filtered list counts no more.
LEMMA TallyOfOnly ==
  ASSUME NEW A, NEW s \in Seq(A), NEW S, NEW v \in [A -> Nat]
  PROVE  Tally(Only(s, S), v) <= Tally(s, v)
  BY OnlySums DEF Tally

=============================================================================
