---------------------------- MODULE TrainerProofs ----------------------------
(***************************************************************************)
(* Proofs about Trainer and Rollout, for every number of runs, particles   *)
(* and iterations, every size of the archive and all averages.             *)
(***************************************************************************)
EXTENDS Rollout, ListProofs

(***************************************************************************)
(* Part 1: objectives                                                      *)
(***************************************************************************)

\* Both parts of an objective are whole numbers.
LEMMA ObjectivesTyped ==
  \A obj \in Objectives : obj.imbalance \in Int /\ obj.peak \in Int
  <1> SUFFICES ASSUME NEW a \in Averages, NEW b \in Averages
               PROVE  /\ ObjectiveOf(a, b).imbalance \in Int
                      /\ ObjectiveOf(a, b).peak \in Int
    BY DEF Objectives
  <1>1. a \in Int /\ b \in Int /\ a + b \in Int /\ a + b > 0
    BY TrainerAssumption
  <1>2. Diff(a, b) \in Int
    BY <1>1 DEF Diff
  <1>3. /\ (2000 * Diff(a, b)) \div (a + b) \in Int
        /\ (1000 * Diff(a, b)) \div (a + b) \in Int
    BY <1>1, <1>2
  <1>4. QED
    BY <1>3 DEF ObjectiveOf

\* The score of an objective is a whole number.
LEMMA ScoreTyped == \A obj \in Objectives : ScoreOf(obj) \in Int
  BY ObjectivesTyped DEF ScoreOf

\* What is dominated has the greater score: the two orders by which a personal
\* best is replaced agree.
LEMMA DominatedScoresMore ==
  \A a, b \in Objectives : Dominates(a, b) => ScoreOf(a) < ScoreOf(b)
  BY ObjectivesTyped DEF Dominates, ScoreOf

(***************************************************************************)
(* Part 2: personal bests                                                  *)
(***************************************************************************)
\* A particle has one best once it has evaluated anything, and it has the
\* least score.
BestInv ==
    /\ particle \in Particles
    /\ pbest \in [Particles -> SUBSET Objectives]
    /\ seen \in [Particles -> SUBSET Objectives]
    /\ \A p \in Particles :
          /\ \A a, b \in pbest[p] : a = b
          /\ pbest[p] = {} => seen[p] = {}
    /\ BestScoresLeast

\* A best that is replaced, or kept, scores no more than the newcomer and the
\* best before it.
LEMMA UpdateKeepsLeast ==
  ASSUME BestInv, NEW p \in Particles, NEW obj \in Objectives
  PROVE  /\ UpdateBest(p, obj) \in [Particles -> SUBSET Objectives]
         /\ \A q \in Particles \ {p} : UpdateBest(p, obj)[q] = pbest[q]
         /\ \E best \in Objectives :
               /\ UpdateBest(p, obj)[p] = {best}
               /\ ScoreOf(best) <= ScoreOf(obj)
               /\ \A o \in pbest[p] : ScoreOf(best) <= ScoreOf(o)
  <1> DEFINE Replaces == \A o \in pbest[p] :
                 \/ Dominates(obj, o)
                 \/ ~Dominates(o, obj) /\ ScoreOf(obj) < ScoreOf(o)
  <1>1. CASE Replaces
    <2>1. UpdateBest(p, obj) = [pbest EXCEPT ![p] = {obj}]
      BY <1>1 DEF UpdateBest
    <2>2. \A o \in pbest[p] : ScoreOf(obj) <= ScoreOf(o)
      BY <1>1, DominatedScoresMore, ScoreTyped DEF BestInv
    <2>3. UpdateBest(p, obj) \in [Particles -> SUBSET Objectives]
      BY <2>1 DEF BestInv
    <2>4. \A q \in Particles \ {p} : UpdateBest(p, obj)[q] = pbest[q]
      BY <2>1 DEF BestInv
    <2>5. UpdateBest(p, obj)[p] = {obj} /\ ScoreOf(obj) <= ScoreOf(obj)
      BY <2>1, ScoreTyped DEF BestInv
    <2>6. QED
      BY <2>2, <2>3, <2>4, <2>5
  <1>2. CASE ~Replaces
    <2>1. UpdateBest(p, obj) = pbest
      BY <1>2 DEF UpdateBest
    <2>2. PICK best \in pbest[p] :
             /\ ~Dominates(obj, best)
             /\ Dominates(best, obj) \/ ~(ScoreOf(obj) < ScoreOf(best))
      BY <1>2
    <2>3. best \in Objectives /\ pbest[p] = {best}
      BY <2>2 DEF BestInv
    <2>4. ScoreOf(best) <= ScoreOf(obj) /\ ScoreOf(best) <= ScoreOf(best)
      BY <2>2, <2>3, DominatedScoresMore, ScoreTyped
    <2>5. QED
      BY <2>1, <2>3, <2>4 DEF BestInv
  <1>3. QED
    BY <1>1, <1>2

\* One evaluation preserves the invariant.
LEMMA BestEvaluate == BestInv /\ Evaluate => BestInv'
  <1> SUFFICES ASSUME BestInv, Evaluate PROVE BestInv'
    OBVIOUS
  <1>1. PICK sol \in Solutions :
           /\ pbest' = UpdateBest(particle, sol.obj)
           /\ seen' = [seen EXCEPT ![particle] = @ \cup {sol.obj}]
    BY DEF Evaluate
  <1>2. sol.obj \in Objectives /\ particle \in Particles
    BY <1>1 DEF Solutions, BestInv
  <1>3. PICK best \in Objectives :
           /\ pbest'[particle] = {best}
           /\ ScoreOf(best) <= ScoreOf(sol.obj)
           /\ \A o \in pbest[particle] : ScoreOf(best) <= ScoreOf(o)
    <2>1. \E best \in Objectives :
             /\ UpdateBest(particle, sol.obj)[particle] = {best}
             /\ ScoreOf(best) <= ScoreOf(sol.obj)
             /\ \A o \in pbest[particle] : ScoreOf(best) <= ScoreOf(o)
      BY <1>2, UpdateKeepsLeast
    <2>2. QED
      BY <1>1, <2>1
  <1>4. /\ pbest' \in [Particles -> SUBSET Objectives]
        /\ \A q \in Particles \ {particle} : pbest'[q] = pbest[q]
    <2>1. /\ UpdateBest(particle, sol.obj) \in [Particles -> SUBSET Objectives]
          /\ \A q \in Particles \ {particle} :
                UpdateBest(particle, sol.obj)[q] = pbest[q]
      BY <1>2, UpdateKeepsLeast
    <2>2. QED
      BY <1>1, <2>1, Zenon
  <1>5. /\ seen' \in [Particles -> SUBSET Objectives]
        /\ seen'[particle] = seen[particle] \cup {sol.obj}
        /\ \A q \in Particles \ {particle} : seen'[q] = seen[q]
    BY <1>1, <1>2 DEF BestInv
  <1>6. particle' \in Particles
    BY TrainerAssumption DEF Evaluate, BestInv, Particles
  <1>7. ASSUME NEW obj \in seen[particle]
        PROVE  ScoreOf(best) <= ScoreOf(obj)
    <2>1. PICK o \in pbest[particle] : TRUE
      BY <1>2, <1>7 DEF BestInv
    <2>2. ScoreOf(best) <= ScoreOf(o) /\ ScoreOf(o) <= ScoreOf(obj)
      BY <1>2, <1>3, <1>7, <2>1 DEF BestInv, BestScoresLeast
    <2>3. o \in Objectives /\ obj \in Objectives
      BY <1>2, <1>7, <2>1 DEF BestInv
    <2>4. QED
      BY <2>2, <2>3, <1>3, ScoreTyped
  <1>8. BestScoresLeast'
    <2> SUFFICES ASSUME NEW p \in Particles, NEW b \in pbest'[p], NEW o \in seen'[p]
                 PROVE  ScoreOf(b) <= ScoreOf(o)
      BY DEF BestScoresLeast
    <2>1. CASE p = particle
      BY <2>1, <1>3, <1>5, <1>7
    <2>2. CASE p # particle
      BY <2>2, <1>4, <1>5 DEF BestInv, BestScoresLeast
    <2>3. QED
      BY <2>1, <2>2
  <1>9. \A p \in Particles :
           /\ \A a, b \in pbest'[p] : a = b
           /\ pbest'[p] = {} => seen'[p] = {}
    BY <1>3, <1>4, <1>5 DEF BestInv
  <1>10. QED
    BY <1>4, <1>5, <1>6, <1>8, <1>9 DEF BestInv

\* A particle that starts anew has neither a best nor a past.
LEMMA BestFresh ==
  ASSUME particle' = 1,
         pbest' = [p \in Particles |-> {}], seen' = [p \in Particles |-> {}]
  PROVE  BestInv'
  BY TrainerAssumption DEF BestInv, BestScoresLeast, Particles

\* The invariant is inductive.
LEMMA BestInductive == BestInv /\ [Next]_vars => BestInv'
  <1> SUFFICES ASSUME BestInv, [Next]_vars PROVE BestInv'
    OBVIOUS
  <1>1. CASE Evaluate
    BY <1>1, BestEvaluate
  <1>2. CASE Finish
    BY <1>2, BestFresh DEF Finish, NextRun
  <1>3. CASE FailRun
    BY <1>3, BestFresh DEF FailRun, NextRun
  <1>4. CASE Move \/ Save \/ GiveUp \/ UNCHANGED vars
    <2>1. UNCHANGED <<particle, pbest, seen>>
      BY <1>4 DEF Move, Save, GiveUp, vars
    <2>2. QED
      BY <2>1 DEF BestInv, BestScoresLeast
  <1>5. QED
    BY <1>1, <1>2, <1>3, <1>4 DEF Next

\* A particle's best has the least score of all it has evaluated.
THEOREM BestsScoreLeast == Spec => []BestScoresLeast
  <1>1. Init => BestInv
    BY TrainerAssumption DEF Init, BestInv, BestScoresLeast, Particles
  <1>2. BestInv => BestScoresLeast
    BY DEF BestInv
  <1>3. QED
    BY <1>1, <1>2, BestInductive, PTL DEF Spec

(***************************************************************************)
(* Part 3: the archive                                                     *)
(***************************************************************************)
\* Both parts of an objective count something, so does its score.
LEMMA ObjectivesCount ==
  \A obj \in Objectives :
     obj.imbalance \in Nat /\ obj.peak \in Nat /\ ScoreOf(obj) \in Nat
  <1> SUFFICES ASSUME NEW a \in Averages, NEW b \in Averages
               PROVE  /\ ObjectiveOf(a, b).imbalance \in Nat
                      /\ ObjectiveOf(a, b).peak \in Nat
    BY DEF Objectives, ScoreOf
  <1> DEFINE d == Diff(a, b)
             sum == a + b
  <1>1. a \in Int /\ b \in Int /\ sum \in Int /\ sum > 0
    BY TrainerAssumption
  <1>2. d \in Nat
    BY <1>1 DEF Diff
  <1>3. 2000 * d \in Nat /\ 1000 * d \in Nat
    BY <1>2
  <1>4. \A x \in Nat, y \in Nat \ {0} : x \div y \in Nat
    OBVIOUS
  <1>5. (2000 * d) \div sum \in Nat /\ (1000 * d) \div sum \in Nat
    BY <1>1, <1>3, <1>4
  <1>6. QED
    BY <1>5 DEF ObjectiveOf

\* Dominance is a strict order.
LEMMA DominanceOrders ==
  \A a, b, c \in Objectives :
     ~Dominates(a, a) /\ (Dominates(a, b) /\ Dominates(b, c) => Dominates(a, c))
  BY ObjectivesTyped DEF Dominates

\* Neither of two members of a front dominates the other.
IsFront(a) == \A i, j \in DOMAIN a : ~Dominates(a[i].obj, a[j].obj)

\* A list in another order is one of the same members.
Permuted(s, p) == [i \in DOMAIN s |-> s[p[i]]]

\* It is as long, and no member is left out or added.
LEMMA PermutedKeeps ==
  ASSUME NEW s \in Seq(Solutions), NEW p \in Bijection(DOMAIN s, DOMAIN s)
  PROVE  LET t == Permuted(s, p)
         IN  /\ t \in Seq(Solutions) /\ Len(t) = Len(s)
             /\ \A i \in DOMAIN t : p[i] \in DOMAIN s /\ t[i] = s[p[i]]
             /\ \A k \in DOMAIN s : \E i \in DOMAIN t : p[i] = k /\ t[i] = s[k]
  <1> DEFINE t == Permuted(s, p)
  <1> USE DEF Permuted
  <1>1. DOMAIN s = 1..Len(s) /\ Len(s) \in Nat /\ \A i \in DOMAIN s : s[i] \in Solutions
    OBVIOUS
  <1>2. p \in [DOMAIN s -> DOMAIN s] /\ \A k \in DOMAIN s : \E i \in DOMAIN s : p[i] = k
    BY DEF Bijection, Surjection
  <1>3. \A i \in 1..Len(s) : p[i] \in DOMAIN s /\ t[i] = s[p[i]] /\ t[i] \in Solutions
    BY <1>1, <1>2
  <1>4. t = [i \in 1..Len(s) |-> t[i]]
    BY <1>1
  <1>5. t \in Seq(Solutions) /\ Len(t) = Len(s) /\ DOMAIN t = DOMAIN s
    BY <1>1, <1>3, <1>4
  <1>6. QED
    BY <1>1, <1>2, <1>3, <1>5

\* Sorted by peak, a list begins with one of the least peak.
LEMMA SortedByPeak ==
  ASSUME NEW s \in Seq(Solutions), NEW p \in Bijection(DOMAIN s, DOMAIN s),
         \A i, j \in DOMAIN s : i < j => ByPeak(s[p[i]], s[p[j]])
  PROVE  LET t == Permuted(s, p)
         IN  /\ t \in Seq(Solutions) /\ Len(t) = Len(s)
             /\ \A i \in DOMAIN t : \E k \in DOMAIN s : t[i] = s[k]
             /\ \A k \in DOMAIN s : t[1].obj.peak <= s[k].obj.peak
  <1> DEFINE t == Permuted(s, p)
  <1>1. \A i, j \in DOMAIN s : i < j => ByPeak(s[p[i]], s[p[j]])
    OBVIOUS
  <1>2. /\ t \in Seq(Solutions) /\ Len(t) = Len(s)
        /\ \A i \in DOMAIN t : p[i] \in DOMAIN s /\ t[i] = s[p[i]]
        /\ \A k \in DOMAIN s : \E i \in DOMAIN t : p[i] = k /\ t[i] = s[k]
    BY PermutedKeeps
  <1>3. /\ DOMAIN t = DOMAIN s
        /\ \A k \in DOMAIN s : 1 \in DOMAIN s /\ (k = 1 \/ 1 < k)
    BY <1>2
  <1>4. ASSUME NEW k \in DOMAIN s
        PROVE  t[1].obj.peak <= s[k].obj.peak
    <2>1. PICK i \in DOMAIN t : t[i] = s[k]
      BY <1>2
    <2>2. i = 1 \/ ByPeak(t[1], t[i])
      <3> HIDE DEF t
      <3>1. i \in DOMAIN s /\ 1 \in DOMAIN s /\ (i = 1 \/ 1 < i)
        BY <1>3
      <3>2. i = 1 \/ ByPeak(s[p[1]], s[p[i]])
        BY <1>1, <3>1
      <3>3. t[1] = s[p[1]] /\ t[i] = s[p[i]]
        BY <1>2, <1>3
      <3>4. QED
        BY <3>2, <3>3
    <2>3. s[k] \in Solutions /\ t[1] \in Solutions
      BY <1>2, <1>3
    <2>5. i = 1 \/ t[1].obj.peak < t[i].obj.peak \/ t[1].obj.peak = t[i].obj.peak
      BY <2>2, Zenon DEF ByPeak
    <2>4. s[k].obj.peak \in Int /\ t[1].obj.peak \in Int
      BY <2>3, ObjectivesTyped DEF Solutions
    <2>6. QED
      BY <2>1, <2>4, <2>5
  <1>5. QED
    BY <1>2, <1>4

\* Sorted by score, a list has the lesser scores first.
LEMMA SortedByScore ==
  ASSUME NEW s \in Seq(Solutions), NEW p \in Bijection(DOMAIN s, DOMAIN s),
         \A i, j \in DOMAIN s : i < j => ByScore(s[p[i]], s[p[j]])
  PROVE  LET t == Permuted(s, p)
         IN  /\ t \in Seq(Solutions) /\ Len(t) = Len(s)
             /\ \A i, j \in DOMAIN t : i < j => ScoreOf(t[i].obj) <= ScoreOf(t[j].obj)
  <1> DEFINE t == Permuted(s, p)
  <1>1. \A i, j \in DOMAIN s : i < j => ByScore(s[p[i]], s[p[j]])
    OBVIOUS
  <1>2. /\ t \in Seq(Solutions) /\ Len(t) = Len(s)
        /\ \A i \in DOMAIN t : p[i] \in DOMAIN s /\ t[i] = s[p[i]]
    BY PermutedKeeps
  <1>3. DOMAIN t = DOMAIN s
    BY <1>2
  <1>4. QED
    BY <1>1, <1>2, <1>3 DEF ByScore

\* What a candidate that nobody dominates leaves of a front is, with it, a
\* front again, and whatever is left out was dominated.
LEMMA KeepIsFront ==
  ASSUME NEW a \in Seq(Solutions), IsFront(a), NEW cand \in Solutions, NEW keep,
         keep = Append(Only(a, Undominated(a, cand)), cand),
         \A i \in DOMAIN a : ~Dominates(a[i].obj, cand.obj)
  PROVE  /\ keep \in Seq(Solutions) /\ keep # <<>> /\ IsFront(keep)
         /\ \A i \in DOMAIN a : \E j \in DOMAIN keep :
               keep[j].obj.peak <= a[i].obj.peak
         /\ \E j \in DOMAIN keep : keep[j] = cand
  <1> DEFINE U == Undominated(a, cand)
             left == Only(a, U)
  <1>1. a \in Seq(Range(a))
    BY DEF Range
  <1>2. left \in Seq(Solutions) /\ left \in Seq(U)
    <2>1. left \in Seq(Solutions)
      BY OnlyKeeps, Zenon
    <2>2. left \in Seq(Range(a) \cap U)
      BY <1>1, OnlyKeeps, Zenon
    <2>3. QED
      BY <2>1, <2>2
  <1>3. \A i \in DOMAIN a : a[i] \in U => \E j \in DOMAIN left : left[j] = a[i]
    <2> HIDE DEF U
    <2>1. QED
      BY OnlyHasAll
  <1>4. \A x \in U : /\ \E i \in DOMAIN a : x = a[i]
                     /\ ~Dominates(cand.obj, x.obj)
    BY DEF Undominated, Range
  <1> HIDE DEF U, left
  <1>5. keep = Append(left, cand)
    BY DEF U, left
  <1>6. /\ keep \in Seq(Solutions) /\ keep # <<>> /\ Len(keep) = Len(left) + 1
        /\ \A j \in 1..Len(left) : keep[j] = left[j] /\ left[j] \in U
        /\ keep[Len(left) + 1] = cand
        /\ DOMAIN left = 1..Len(left) /\ DOMAIN keep = 1..(Len(left) + 1)
        /\ Len(left) \in Nat
    BY <1>2, <1>5
  <1>7. \A j \in DOMAIN keep : keep[j] = cand \/ keep[j] \in U
    BY <1>6
  <1>8. ASSUME NEW i \in DOMAIN keep, NEW j \in DOMAIN keep
        PROVE  ~Dominates(keep[i].obj, keep[j].obj)
    <2>1. CASE keep[i] \in U /\ keep[j] \in U
      BY <2>1, <1>4 DEF IsFront
    <2>2. CASE keep[i] = cand /\ keep[j] \in U
      BY <2>2, <1>4
    <2>3. CASE keep[i] \in U /\ keep[j] = cand
      BY <2>3, <1>4
    <2>4. CASE keep[i] = cand /\ keep[j] = cand
      BY <2>4, DominanceOrders DEF Solutions
    <2>5. QED
      BY <1>7, <2>1, <2>2, <2>3, <2>4
  <1>9. ASSUME NEW i \in DOMAIN a
        PROVE  \E j \in DOMAIN keep : keep[j].obj.peak <= a[i].obj.peak
    <2>1. a[i] \in Solutions
      OBVIOUS
    <2>2. a[i].obj.peak \in Int
      BY <2>1, ObjectivesTyped DEF Solutions
    <2>3. CASE a[i] \in U
      <3>1. PICK j \in DOMAIN left : left[j] = a[i]
        BY <1>3, <2>3
      <3>2. j \in DOMAIN keep /\ keep[j] = a[i]
        BY <1>6, <3>1
      <3>3. QED
        BY <3>2, <2>2
    <2>4. CASE a[i] \notin U
      <3>1. Dominates(cand.obj, a[i].obj)
        BY <2>4 DEF U, Undominated, Range
      <3>2. QED
        BY <3>1, <1>6 DEF Dominates
    <2>5. QED
      BY <2>3, <2>4
  <1>10. QED
    BY <1>6, <1>8, <1>9 DEF IsFront

\* Adding to a front that has room for one gives such a front, and it has
\* members of no greater peak than those before and the candidate.  Of a front
\* nothing is dropped when the loop stops half way: a member dominated by the
\* candidate would be dominated by the one the loop stops at.
LEMMA AddKeepsFront ==
  ASSUME NEW a \in Seq(Solutions), IsFront(a), Len(a) <= MaxArchive,
         NEW cand \in Solutions, NEW b \in AddToArchive(a, cand)
  PROVE  /\ b \in Seq(Solutions) /\ b # <<>> /\ IsFront(b) /\ Len(b) <= MaxArchive
         /\ \A i \in DOMAIN a : \E j \in DOMAIN b : b[j].obj.peak <= a[i].obj.peak
         /\ \E j \in DOMAIN b : b[j].obj.peak <= cand.obj.peak
  <1> DEFINE better == {i \in DOMAIN a : Dominates(a[i].obj, cand.obj)}
             first == Min(better)
             U == Undominated(a, cand)
             keep == Append(Only(a, U), cand)
  <1>0. /\ DOMAIN a = 1..Len(a) /\ Len(a) \in Nat /\ MaxArchive \in Nat \ {0}
        /\ \A i \in DOMAIN a : a[i] \in Solutions
    BY TrainerAssumption
  <1>p. \A s \in Solutions : s.obj \in Objectives /\ s.obj.peak \in Int
    BY ObjectivesTyped DEF Solutions
  <1>1. CASE better # {}
    <2>1. first \in better
      <3>1. better \in SUBSET Nat
        BY <1>0
      <3>2. QED
        BY <1>1, <3>1, MinIs, Zenon
    <2>2. b = Only(SubSeq(a, 1, first - 1), U) \o SubSeq(a, first, Len(a))
      BY <1>1 DEF AddToArchive
    <2>3. ASSUME NEW k \in DOMAIN a
          PROVE  a[k] \in U
      <3>1. ~Dominates(cand.obj, a[k].obj)
        BY <2>1, <1>0, <1>p, DominanceOrders DEF IsFront
      <3>2. QED
        BY <3>1 DEF Undominated, Range
    <2> HIDE DEF U, better, first
    <2>4. /\ first \in 1..Len(a) /\ Dominates(a[first].obj, cand.obj)
      BY <2>1, <1>0 DEF better
    <2>5. DEFINE front == SubSeq(a, 1, first - 1)
    <2>6. /\ front \in Seq(Solutions) /\ Len(front) = first - 1
          /\ \A i \in 1..(first - 1) : front[i] = a[i]
      BY <1>0, <2>4
    <2>7. Only(front, U) = front
      <3>1. \A i \in DOMAIN front : front[i] \in U
        BY <1>0, <2>3, <2>4, <2>6
      <3>2. front \in Seq(Solutions)
        BY <2>6
      <3> HIDE DEF front
      <3>3. QED
        BY <3>1, <3>2, OnlyKeeps, Zenon
    <2>8. b = front \o SubSeq(a, first, Len(a))
      BY <2>2, <2>7
    <2>9. b = a
      BY <2>8, <1>0, <2>4
    <2>10. /\ \A i \in DOMAIN a : a[i].obj.peak <= a[i].obj.peak
           /\ a[first].obj.peak <= cand.obj.peak
      BY <1>0, <1>p, <2>4 DEF Dominates
    <2>11. QED
      BY <1>0, <2>4, <2>9, <2>10
  <1>2. CASE better = {}
    <2>1. \A i \in DOMAIN a : ~Dominates(a[i].obj, cand.obj)
      BY <1>2
    <2>2. b \in IF Len(keep) <= MaxArchive THEN {keep}
                ELSE {SubSeq(s, 1, MaxArchive) : s \in Sorted(keep, ByPeak)}
      BY <1>2 DEF AddToArchive
    <2> HIDE DEF better
    <2>3. /\ keep \in Seq(Solutions) /\ keep # <<>> /\ IsFront(keep)
          /\ \A i \in DOMAIN a : \E j \in DOMAIN keep :
                keep[j].obj.peak <= a[i].obj.peak
          /\ \E j \in DOMAIN keep : keep[j] = cand
      BY <2>1, KeepIsFront
    <2> HIDE DEF keep
    <2>4. CASE Len(keep) <= MaxArchive
      BY <2>2, <2>3, <2>4, <1>p
    <2>5. CASE ~(Len(keep) <= MaxArchive)
      <3>1. PICK s \in Sorted(keep, ByPeak) : b = SubSeq(s, 1, MaxArchive)
        BY <2>2, <2>5
      <3>2. /\ s \in Seq(Solutions) /\ Len(s) = Len(keep)
            /\ \A i \in DOMAIN s : \E k \in DOMAIN keep : s[i] = keep[k]
            /\ \A k \in DOMAIN keep : s[1].obj.peak <= keep[k].obj.peak
        <4>1. PICK p \in Bijection(DOMAIN keep, DOMAIN keep) :
                 /\ \A i, j \in DOMAIN keep : i < j => ByPeak(keep[p[i]], keep[p[j]])
                 /\ s = Permuted(keep, p)
          BY <3>1 DEF Sorted, Permuted
        <4>2. QED
          BY <2>3, <4>1, SortedByPeak
      <3>3. /\ b \in Seq(Solutions) /\ Len(b) = MaxArchive /\ DOMAIN b = 1..MaxArchive
            /\ \A i \in 1..MaxArchive : b[i] = s[i] /\ i \in DOMAIN s
        BY <3>1, <3>2, <2>3, <2>5, <1>0
      <3>4. \A i \in DOMAIN b : \E k \in DOMAIN keep : b[i] = keep[k]
        BY <3>2, <3>3
      <3>5. IsFront(b)
        BY <3>4, <2>3 DEF IsFront
      <3>6. 1 \in DOMAIN b /\ \A k \in DOMAIN keep : b[1].obj.peak <= keep[k].obj.peak
        BY <3>2, <3>3, <1>0
      <3>7. b[1].obj.peak \in Int
        BY <3>3, <3>6, <1>p
      <3>8. ASSUME NEW i \in DOMAIN a
            PROVE  b[1].obj.peak <= a[i].obj.peak
        <4>1. PICK j \in DOMAIN keep : keep[j].obj.peak <= a[i].obj.peak
          BY <2>3
        <4>2. keep[j].obj.peak \in Int /\ a[i].obj.peak \in Int
          BY <2>3, <1>0, <1>p
        <4>3. QED
          BY <3>6, <3>7, <4>1, <4>2
      <3>9. QED
        BY <3>3, <3>5, <3>6, <3>8, <2>3, <1>0
    <2>6. QED
      BY <2>4, <2>5
  <1>3. QED
    BY <1>1, <1>2

(***************************************************************************)
(* Part 4: the choice                                                      *)
(***************************************************************************)
\* The lesser scores come first.
ScoresRise(r) ==
    \A i, j \in DOMAIN r : i < j => ScoreOf(r[i].obj) <= ScoreOf(r[j].obj)

\* What a run reports.
Reports == {r \in Seq(Solutions) : r # <<>> /\ ScoresRise(r)}

\* The first of the best candidates is a candidate of the least score.
LEMMA FirstBestIs ==
  ASSUME NEW c, NEW n \in Nat \ {0}, DOMAIN c = 1..n,
         \A i \in 1..n : c[i] \in Solutions
  PROVE  /\ FirstBest(c) \in 1..n
         /\ \A j \in 1..n : ScoreOf(c[FirstBest(c)].obj) <= ScoreOf(c[j].obj)
  <1> DEFINE score(i) == ScoreOf(c[i].obj)
             scores == {score(i) : i \in 1..n}
  <1>1. \A i \in 1..n : score(i) \in Nat
    BY ObjectivesCount DEF Solutions
  <1>2. scores \in SUBSET Nat /\ scores # {}
    BY <1>1
  <1>3. PICK m \in scores : \A k \in scores : m <= k
    BY <1>2, LeastMember, Zenon
  <1> DEFINE bests == {i \in 1..n : score(i) = m}
  <1>4. bests \in SUBSET Nat /\ bests # {}
    BY <1>3
  <1>5. PICK i \in bests : \A j \in bests : i <= j
    BY <1>4, LeastMember, Zenon
  <1>6. i \in 1..n /\ score(i) = m
    BY <1>5
  <1>7. ASSUME NEW j \in 1..n
        PROVE  score(i) <= score(j) /\ (j < i => score(i) < score(j))
    <2>1. m <= score(j)
      BY <1>3
    <2>2. j < i => score(j) # m
      BY <1>5, <1>6
    <2>3. score(i) \in Nat /\ score(j) \in Nat /\ score(i) = m
      BY <1>1, <1>6
    <2> HIDE DEF score
    <2>4. QED
      BY <2>1, <2>2, <2>3
  <1>8. \E f \in DOMAIN c : \A j \in DOMAIN c :
           /\ ScoreOf(c[f].obj) <= ScoreOf(c[j].obj)
           /\ j < f => ScoreOf(c[f].obj) < ScoreOf(c[j].obj)
    BY <1>6, <1>7
  <1>9. QED
    BY <1>8 DEF FirstBest

\* Of a report with a sane entry, the candidate is sane and scores no more than
\* any sane entry.
LEMMA CandidateOfReport ==
  ASSUME NEW r \in Reports, NEW j \in SaneEntries(r)
  PROVE  /\ ChooseSaneCandidate(r) \in Solutions
         /\ ChooseSaneCandidate(r).sane
         /\ ScoreOf(ChooseSaneCandidate(r).obj) <= ScoreOf(r[j].obj)
  <1> DEFINE first == Min(SaneEntries(r))
  <1>1. r \in Seq(Solutions) /\ ScoresRise(r)
    BY DEF Reports
  <1>2. SaneEntries(r) \in SUBSET Nat
    BY <1>1 DEF SaneEntries
  <1>3. first \in SaneEntries(r) /\ \A k \in SaneEntries(r) : first <= k
    BY <1>2, MinIs, Zenon
  <1> HIDE DEF first
  <1>4. first \in DOMAIN r /\ r[first].sane /\ j \in DOMAIN r
    BY <1>3 DEF SaneEntries
  <1>5. r[first] \in Solutions /\ r[j] \in Solutions
    BY <1>1, <1>4
  <1>6. first = j \/ first < j
    BY <1>1, <1>3, <1>4
  <1>7. ScoreOf(r[first].obj) \in Nat
    BY <1>5, ObjectivesCount DEF Solutions
  <1>8. ScoreOf(r[first].obj) <= ScoreOf(r[j].obj)
    BY <1>1, <1>4, <1>6, <1>7 DEF ScoresRise
  <1>9. ChooseSaneCandidate(r) = r[first]
    BY DEF ChooseSaneCandidate, first
  <1>10. QED
    BY <1>4, <1>5, <1>8, <1>9

\* Where any run reports a sane entry, there is one candidate; it is sane and
\* scores no more than any of them.
LEMMA CandidateIsLeast ==
  ASSUME results \in Seq(Reports), NEW i \in DOMAIN results,
         NEW j \in SaneEntries(results[i])
  PROVE  /\ SaneResults # <<>>
         /\ \A candidate \in Candidates :
               /\ candidate \in Solutions /\ candidate.sane
               /\ ScoreOf(candidate.obj) <= ScoreOf(results[i][j].obj)
  <1> DEFINE S == {r \in Range(results) : SaneEntries(r) # {}}
             R == Only(results, S)
  <1>1. results[i] \in S /\ results[i] \in Reports
    BY DEF Range
  <1>2. R \in Seq(Reports \cap S)
    BY OnlyKeeps, Zenon
  <1>3. PICK k \in DOMAIN R : R[k] = results[i]
    <2> HIDE DEF S
    <2>1. QED
      BY <1>1, OnlyHasAll
  <1>4. \A q \in S : SaneEntries(q) # {}
    OBVIOUS
  <1>5. SaneResults = R
    BY DEF SaneResults
  <1> HIDE DEF S, R
  <1>6. /\ DOMAIN R = 1..Len(R) /\ Len(R) \in Nat \ {0} /\ R # <<>>
        /\ \A q \in DOMAIN R : R[q] \in Reports /\ SaneEntries(R[q]) # {}
    BY <1>2, <1>3, <1>4
  <1> DEFINE c == SaneCandidates
             f == FirstBest(c)
  <1>7. c = [q \in DOMAIN R |-> ChooseSaneCandidate(R[q])]
    BY <1>5 DEF SaneCandidates
  <1>8. \A q \in 1..Len(R) : c[q] \in Solutions /\ c[q].sane
    BY <1>6, <1>7, CandidateOfReport
  <1>9. DOMAIN c = 1..Len(R)
    BY <1>6, <1>7
  <1> HIDE DEF c
  <1>10. f \in 1..Len(R) /\ \A q \in 1..Len(R) : ScoreOf(c[f].obj) <= ScoreOf(c[q].obj)
    BY <1>6, <1>8, <1>9, FirstBestIs
  <1> HIDE DEF f
  <1>11. Candidates = {c[f]}
    BY <1>5, <1>6 DEF Candidates, f, c
  <1>12. ScoreOf(c[k].obj) <= ScoreOf(results[i][j].obj)
    <2>1. c[k] = ChooseSaneCandidate(results[i])
      BY <1>3, <1>7
    <2>2. QED
      BY <2>1, <1>1, CandidateOfReport
  <1>13. ScoreOf(c[f].obj) <= ScoreOf(results[i][j].obj)
    <2>1. ScoreOf(c[f].obj) <= ScoreOf(c[k].obj)
      BY <1>3, <1>6, <1>10
    <2>2. /\ c[f] \in Solutions /\ c[k] \in Solutions
          /\ results[i][j] \in Solutions
      BY <1>1, <1>3, <1>6, <1>8, <1>10 DEF Reports, SaneEntries
    <2>3. /\ ScoreOf(c[f].obj) \in Nat /\ ScoreOf(c[k].obj) \in Nat
          /\ ScoreOf(results[i][j].obj) \in Nat
      BY <2>2, ObjectivesCount DEF Solutions
    <2>4. QED
      BY <1>12, <2>1, <2>3
  <1>14. QED
    BY <1>5, <1>6, <1>8, <1>10, <1>11, <1>13

(***************************************************************************)
(* Part 5: the training                                                    *)
(***************************************************************************)
\* The state that only a training run is in.
Training == step \in {"evaluate", "move", "finish"}

\* An archive is never reported empty, what is reported is sorted, and nothing
\* is saved before the training is done.
TrainerInv ==
    /\ TypeOK
    /\ ArchiveIsAFront
    /\ LeastPeakIsKept
    /\ step \in {"move", "finish"} => archive # <<>>
    /\ Training => runs < NumRuns
    /\ results \in Seq(Reports)
    /\ step # "done" => saved = {}
    /\ OutcomeFollowsTheBase

\* What the archive is after an evaluation.
LEMMA ArchiveEvaluate ==
  ASSUME TrainerInv, Evaluate
  PROVE  /\ archive' \in Seq(Solutions) /\ archive' # <<>>
         /\ ArchiveIsAFront' /\ LeastPeakIsKept'
         /\ seen' \in [Particles -> SUBSET Objectives]
  <1>1. PICK sol \in Solutions :
           /\ archive' \in AddToArchive(archive, sol)
           /\ seen' = [seen EXCEPT ![particle] = @ \cup {sol.obj}]
    BY DEF Evaluate
  <1>2. /\ archive \in Seq(Solutions) /\ IsFront(archive) /\ Len(archive) <= MaxArchive
        /\ particle \in Particles /\ seen \in [Particles -> SUBSET Objectives]
        /\ sol.obj \in Objectives
    BY <1>1 DEF TrainerInv, TypeOK, ArchiveIsAFront, IsFront, Solutions
  <1>3. /\ archive' \in Seq(Solutions) /\ archive' # <<>>
        /\ IsFront(archive') /\ Len(archive') <= MaxArchive
        /\ \A i \in DOMAIN archive : \E j \in DOMAIN archive' :
              archive'[j].obj.peak <= archive[i].obj.peak
        /\ \E j \in DOMAIN archive' : archive'[j].obj.peak <= sol.obj.peak
    BY <1>1, <1>2, AddKeepsFront
  <1>4. ArchiveIsAFront'
    BY <1>3 DEF ArchiveIsAFront, IsFront
  <1>5. /\ seen' \in [Particles -> SUBSET Objectives]
        /\ \A p \in Particles : seen'[p] \subseteq seen[p] \cup {sol.obj}
    BY <1>1, <1>2
  <1>6. ASSUME NEW p \in Particles, NEW obj \in seen'[p]
        PROVE  \E j \in DOMAIN archive' : archive'[j].obj.peak <= obj.peak
    <2>1. CASE obj = sol.obj
      BY <2>1, <1>3
    <2>2. CASE obj \in seen[p]
      <3>1. PICK i \in DOMAIN archive : archive[i].obj.peak <= obj.peak
        BY <2>2 DEF TrainerInv, LeastPeakIsKept, SeenByAll
      <3>2. PICK j \in DOMAIN archive' : archive'[j].obj.peak <= archive[i].obj.peak
        BY <1>3, <3>1
      <3>3. archive[i] \in Solutions /\ archive'[j] \in Solutions /\ obj \in Objectives
        BY <1>2, <1>3, <2>2, <3>1, <3>2
      <3>4. /\ archive[i].obj.peak \in Int /\ archive'[j].obj.peak \in Int
            /\ obj.peak \in Int
        BY <3>3, ObjectivesTyped DEF Solutions
      <3>5. QED
        BY <3>1, <3>2, <3>4
    <2>3. QED
      BY <1>5, <2>1, <2>2
  <1>7. LeastPeakIsKept'
    BY <1>6 DEF LeastPeakIsKept, SeenByAll
  <1>8. QED
    BY <1>3, <1>4, <1>5, <1>7

\* One evaluation preserves the invariant.
LEMMA TrainerEvaluate == TrainerInv /\ BestInv /\ Evaluate => TrainerInv'
  <1> SUFFICES ASSUME TrainerInv, BestInv, Evaluate PROVE TrainerInv'
    OBVIOUS
  <1>1. /\ archive' \in Seq(Solutions) /\ archive' # <<>>
        /\ ArchiveIsAFront' /\ LeastPeakIsKept'
        /\ seen' \in [Particles -> SUBSET Objectives]
    BY ArchiveEvaluate
  <1>2. BestInv'
    BY BestEvaluate
  <1>3. /\ step = "evaluate" /\ step' \in {"evaluate", "move"}
        /\ UNCHANGED <<base, iteration, results, runs, saved>>
        /\ particle' \in Particles
    BY <1>2 DEF Evaluate, TrainerInv, TypeOK, BestInv
  <1>4. TypeOK'
    BY <1>1, <1>2, <1>3 DEF TypeOK, BestInv, TrainerInv
  <1>5. OutcomeFollowsTheBase'
    BY <1>3 DEF OutcomeFollowsTheBase
  <1>6. QED
    BY <1>1, <1>3, <1>4, <1>5 DEF TrainerInv, Training

\* What is reported is the archive in the order of the scores.
LEMMA FinishReports ==
  ASSUME TrainerInv, Finish
  PROVE  /\ results' \in Seq(Reports) /\ Len(results') = Len(results) + 1
         /\ results' \in Seq(Seq(Solutions) \ {<<>>})
  <1>1. PICK s \in Sorted(archive, ByScore) : results' = Append(results, s)
    BY DEF Finish
  <1>2. /\ archive \in Seq(Solutions) /\ archive # <<>> /\ results \in Seq(Reports)
        /\ results \in Seq(Seq(Solutions) \ {<<>>})
    BY DEF TrainerInv, TypeOK, Finish
  <1>3. PICK p \in Bijection(DOMAIN archive, DOMAIN archive) :
           /\ \A i, j \in DOMAIN archive :
                 i < j => ByScore(archive[p[i]], archive[p[j]])
           /\ s = Permuted(archive, p)
    BY <1>1 DEF Sorted, Permuted
  <1>4. s \in Seq(Solutions) /\ Len(s) = Len(archive) /\ ScoresRise(s)
    BY <1>2, <1>3, SortedByScore DEF ScoresRise
  <1>5. s # <<>>
    BY <1>2, <1>4
  <1>6. s \in Reports /\ s \in Seq(Solutions) \ {<<>>}
    BY <1>4, <1>5 DEF Reports
  <1>7. QED
    BY <1>1, <1>2, <1>6

\* A run that is over, and left a report or none, preserves the invariant.
LEMMA TrainerNextRun ==
  ASSUME TrainerInv, Training, NextRun,
         results' \in Seq(Reports), results' \in Seq(Seq(Solutions) \ {<<>>}),
         Len(results') <= runs + 1
  PROVE  TrainerInv'
  <1>1. runs \in 0..NumRuns /\ runs < NumRuns /\ saved = {} /\ base \in Objectives
        /\ NumRuns \in Nat
    BY TrainerAssumption DEF TrainerInv, TypeOK, Training
  <1>2. /\ runs' = runs + 1 /\ step' \in {"evaluate", "choose"}
        /\ step' = "evaluate" => runs + 1 < NumRuns
        /\ iteration' = 1 /\ particle' = 1 /\ archive' = <<>>
        /\ pbest' = [p \in Particles |-> {}] /\ seen' = [p \in Particles |-> {}]
        /\ base' = base /\ saved' = saved
    BY DEF NextRun
  <1>3. BestInv'
    BY <1>2, BestFresh
  <1>4. iteration' \in 1..Iterations
    BY <1>2, TrainerAssumption
  <1>5. runs' \in 0..NumRuns /\ Len(results') <= runs'
    BY <1>1, <1>2
  <1>6. saved' = {} /\ Cardinality(saved') <= 1
    BY <1>1, <1>2, FS_EmptySet
  <1>7. TypeOK'
    BY <1>1, <1>2, <1>3, <1>4, <1>5, <1>6 DEF TypeOK, BestInv
  <1>8. ArchiveIsAFront' /\ LeastPeakIsKept'
    BY <1>2, TrainerAssumption DEF ArchiveIsAFront, LeastPeakIsKept, SeenByAll
  <1>9. OutcomeFollowsTheBase'
    BY <1>2 DEF OutcomeFollowsTheBase
  <1>10. QED
    BY <1>1, <1>2, <1>6, <1>7, <1>8, <1>9 DEF TrainerInv, Training

\* What is saved is no worse than any sane entry, and beats the base unless a
\* regression is allowed.
LEMMA SaveFollows ==
  ASSUME TrainerInv, Save
  PROVE  OutcomeFollowsTheBase' /\ Cardinality(saved') <= 1
  <1>1. PICK candidate \in Candidates, allow \in BOOLEAN :
          \E obj \in TrueObjectives(candidate) :
             /\ allow \/ ScoreOf(obj) < ScoreOf(base)
             /\ saved' = {[obj |-> obj, regression |-> allow]}
    BY DEF Save
  <1>2. PICK obj \in TrueObjectives(candidate) :
          /\ allow \/ ScoreOf(obj) < ScoreOf(base)
          /\ saved' = {[obj |-> obj, regression |-> allow]}
    BY <1>1
  <1>3. base' = base /\ results' = results /\ results \in Seq(Reports)
    BY DEF Save, TrainerInv
  <1>4. \A s \in saved' : s.obj = obj /\ s.regression = allow
    BY <1>2
  <1>5. \A s \in saved' : s.regression \/ ScoreOf(s.obj) < ScoreOf(base)
    BY <1>2, <1>4
  <1>6. ASSUME NEW i \in DOMAIN results, NEW j \in SaneEntries(results[i])
        PROVE  ScoreOf(obj) <= ScoreOf(results[i][j].obj)
    <2>1. /\ SaneResults # <<>>
          /\ ScoreOf(candidate.obj) <= ScoreOf(results[i][j].obj)
      BY <1>3, CandidateIsLeast
    <2>2. obj = candidate.obj
      BY <2>1 DEF TrueObjectives
    <2>3. QED
      BY <2>1, <2>2
  <1>7. Cardinality(saved') <= 1
    <2>1. \A x : Cardinality({x}) = 1
      BY FS_Singleton
    <2>2. PICK x : saved' = {x}
      BY <1>2
    <2>3. Cardinality(saved') = 1
      BY <2>1, <2>2, Zenon
    <2>4. QED
      BY <2>3
  <1>8. OutcomeFollowsTheBase'
    BY <1>2, <1>3, <1>4, <1>5, <1>6
    DEF OutcomeFollowsTheBase, BeatsTheBase, ScoreOf, SaneEntries
  <1>9. QED
    BY <1>7, <1>8

\* Giving up after a run succeeded means that no sane entry beats the base.
LEMMA GiveUpFollows ==
  ASSUME TrainerInv, GiveUp
  PROVE  OutcomeFollowsTheBase'
  <1>1. /\ base' = base /\ results' = results /\ saved' = {}
        /\ results \in Seq(Reports) /\ base \in Objectives
    BY DEF GiveUp, TrainerInv, TypeOK
  <1>2. ASSUME NEW i \in DOMAIN results, NEW j \in SaneEntries(results[i])
        PROVE  ScoreOf(results[i][j].obj) >= ScoreOf(base)
    <2>1. PICK candidate \in Candidates :
            \/ ~candidate.sane
            \/ \E obj \in TrueObjectives(candidate) : ScoreOf(obj) >= ScoreOf(base)
      BY <1>1, <1>2 DEF GiveUp
    <2>2. /\ SaneResults # <<>> /\ candidate \in Solutions /\ candidate.sane
          /\ ScoreOf(candidate.obj) <= ScoreOf(results[i][j].obj)
      BY <1>1, <2>1, CandidateIsLeast
    <2>3. ScoreOf(candidate.obj) >= ScoreOf(base)
      BY <2>1, <2>2 DEF TrueObjectives
    <2>4. results[i][j] \in Solutions
      BY <1>1, <1>2 DEF Reports, SaneEntries
    <2>5. /\ ScoreOf(candidate.obj) \in Nat /\ ScoreOf(base) \in Nat
          /\ ScoreOf(results[i][j].obj) \in Nat
      BY <1>1, <2>2, <2>4, ObjectivesCount DEF Solutions
    <2>6. QED
      BY <2>2, <2>3, <2>5
  <1>3. QED
    BY <1>1, <1>2 DEF OutcomeFollowsTheBase, ScoreOf, SaneEntries

\* The invariant is inductive.
LEMMA TrainerInductive ==
  TrainerInv /\ BestInv /\ [Next]_vars => TrainerInv'
  <1> SUFFICES ASSUME TrainerInv, BestInv, [Next]_vars PROVE TrainerInv'
    OBVIOUS
  <1>1. CASE Evaluate
    BY <1>1, TrainerEvaluate
  <1>2. CASE Move
    <2>1. /\ step = "move" /\ step' \in {"evaluate", "finish"}
          /\ iteration' \in 1..Iterations
          /\ UNCHANGED <<base, particle, archive, pbest, results, runs, saved, seen>>
      BY <1>2, TrainerAssumption DEF Move, TrainerInv, TypeOK
    <2>2. TypeOK'
      BY <2>1 DEF TrainerInv, TypeOK
    <2>3. ArchiveIsAFront' /\ LeastPeakIsKept' /\ OutcomeFollowsTheBase'
      BY <2>1 DEF TrainerInv, ArchiveIsAFront, LeastPeakIsKept, SeenByAll,
                  OutcomeFollowsTheBase
    <2>4. QED
      BY <2>1, <2>2, <2>3 DEF TrainerInv, Training
  <1>3. CASE Finish
    <2>1. /\ results' \in Seq(Reports) /\ Len(results') = Len(results) + 1
          /\ results' \in Seq(Seq(Solutions) \ {<<>>})
      BY <1>3, FinishReports
    <2>2. Len(results') <= runs + 1
      BY <2>1 DEF TrainerInv, TypeOK
    <2>3. QED
      BY <1>3, <2>1, <2>2, TrainerNextRun DEF Finish, Training
  <1>4. CASE FailRun
    <2>1. Len(results) <= runs + 1
      BY DEF TrainerInv, TypeOK
    <2>2. QED
      BY <1>4, <2>1, TrainerNextRun DEF FailRun, Training, TrainerInv, TypeOK
  <1>5. CASE Save \/ GiveUp
    <2>1. /\ step' = "done"
          /\ UNCHANGED <<base, iteration, particle, archive, pbest, results, runs, seen>>
      BY <1>5 DEF Save, GiveUp
    <2>2. Cardinality(saved') <= 1
      BY <1>5, SaveFollows DEF GiveUp, TrainerInv, TypeOK
    <2>3. OutcomeFollowsTheBase'
      BY <1>5, SaveFollows, GiveUpFollows
    <2>4. TypeOK'
      BY <2>1, <2>2 DEF TrainerInv, TypeOK
    <2>5. ArchiveIsAFront' /\ LeastPeakIsKept'
      BY <2>1 DEF TrainerInv, ArchiveIsAFront, LeastPeakIsKept, SeenByAll
    <2>6. QED
      BY <2>1, <2>3, <2>4, <2>5 DEF TrainerInv, Training
  <1>6. CASE UNCHANGED vars
    <2>1. UNCHANGED <<base, step, iteration, particle, archive, pbest, results, runs,
                      saved, seen>>
      BY <1>6 DEF vars
    <2>2. TypeOK'
      BY <2>1 DEF TrainerInv, TypeOK
    <2>3. ArchiveIsAFront' /\ LeastPeakIsKept' /\ OutcomeFollowsTheBase'
      BY <2>1 DEF TrainerInv, ArchiveIsAFront, LeastPeakIsKept, SeenByAll,
                  OutcomeFollowsTheBase, BeatsTheBase
    <2>4. QED
      BY <2>1, <2>2, <2>3 DEF TrainerInv, Training
  <1>7. QED
    BY <1>1, <1>2, <1>3, <1>4, <1>5, <1>6 DEF Next

\* The invariant holds when the training begins.
LEMMA TrainerStarts == Init => TrainerInv /\ BestInv
  <1> SUFFICES ASSUME Init PROVE TrainerInv /\ BestInv
    OBVIOUS
  <1>1. BestInv
    BY TrainerAssumption DEF Init, BestInv, BestScoresLeast, Particles
  <1>2. Cardinality(saved) <= 1
    BY FS_EmptySet DEF Init
  <1>3. TypeOK
    BY <1>1, <1>2, TrainerAssumption DEF Init, TypeOK, BestInv
  <1>4. ArchiveIsAFront /\ LeastPeakIsKept /\ OutcomeFollowsTheBase
    BY TrainerAssumption DEF Init, ArchiveIsAFront, LeastPeakIsKept, SeenByAll,
                             OutcomeFollowsTheBase
  <1>5. runs < NumRuns /\ results \in Seq(Reports)
    BY TrainerAssumption DEF Init
  <1>6. QED
    BY <1>1, <1>3, <1>4, <1>5 DEF Init, TrainerInv, Training

\* The state is always what it should be: a run ends with an archive, a report
\* is never empty, and at most one vector is saved.
THEOREM TrainerTypes == Spec => []TypeOK
  <1>1. TrainerInv => TypeOK
    BY DEF TrainerInv
  <1>2. QED
    BY <1>1, TrainerStarts, TrainerInductive, BestInductive, PTL DEF Spec

\* Whatever is added to it, the archive stays within its capacity and none of
\* its members dominates another.
THEOREM ArchiveStaysAFront == Spec => []ArchiveIsAFront
  <1>1. TrainerInv => ArchiveIsAFront
    BY DEF TrainerInv
  <1>2. QED
    BY <1>1, TrainerStarts, TrainerInductive, BestInductive, PTL DEF Spec

\* Whatever the archive drops when it is full, it has a solution of the least
\* 1 - BCU any particle has evaluated.
THEOREM LeastPeakStays == Spec => []LeastPeakIsKept
  <1>1. TrainerInv => LeastPeakIsKept
    BY DEF TrainerInv
  <1>2. QED
    BY <1>1, TrainerStarts, TrainerInductive, BestInductive, PTL DEF Spec

\* Training saves a vector no worse than any sane one its runs report, and gives
\* up after a run succeeded only if none of them beats the base.
THEOREM BaseDecidesOutcome == Spec => []OutcomeFollowsTheBase
  <1>1. TrainerInv => OutcomeFollowsTheBase
    BY DEF TrainerInv
  <1>2. QED
    BY <1>1, TrainerStarts, TrainerInductive, BestInductive, PTL DEF Spec

(***************************************************************************)
(* Part 6: from the file to the balancer                                   *)
(***************************************************************************)
\* What may serve as the vector of this training, and what was saved.
Worthy == \E s \in saved : BeatsTheBase(s)

\* A file holds the new vector only once a worthy one was saved, which the
\* training does last.
RolloutInv ==
    /\ saved # {} => step = "done" /\ Worthy
    /\ process \in {"writing", "written"} => saved # {}
    /\ artifact = "new" \/ active = "new" => saved # {}
    /\ lb # Down /\ lb.strategy.engine = "new" => saved # {}
    /\ artifact \in {"missing", "torn", "old", "new"}
    /\ active \in {"missing", "torn", "old", "new"}
    /\ ServesWhatItSays

\* What is saved stays, and so does the base it was compared with.
LEMMA SavedStays ==
  ASSUME RolloutInv, RolloutNext \/ UNCHANGED allVars, saved # {}
  PROVE  saved' = saved /\ base' = base /\ step' = "done"
  <1>1. step = "done"
    BY DEF RolloutInv
  <1>2. CASE Train
    BY <1>1, <1>2 DEF Train, Next, Evaluate, Move, Finish, FailRun, Save, GiveUp
  <1>3. CASE CreateFile \/ Encode \/ Exit \/ Push \/ Start \/ UNCHANGED allVars
    BY <1>1, <1>3 DEF CreateFile, Encode, Exit, Push, Start, allVars, trainerVars, vars
  <1>4. QED
    BY <1>2, <1>3 DEF RolloutNext

\* The vector of this training is served only after a worthy one was saved.
LEMMA WorthyServes ==
  ASSUME RolloutInv, RolloutNext \/ UNCHANGED allVars, saved # {}
  PROVE  (saved # {} => step = "done" /\ Worthy)'
  <1>1. saved' = saved /\ base' = base /\ step' = "done"
    BY SavedStays
  <1>2. Worthy
    BY DEF RolloutInv
  <1>3. QED
    BY <1>1, <1>2 DEF Worthy, BeatsTheBase

\* Saving is for a vector that beats the base, or for an allowed regression.
LEMMA SavesTheWorthy ==
  ASSUME RolloutInv, RolloutNext \/ UNCHANGED allVars, saved = {}
  PROVE  (saved # {} => step = "done" /\ Worthy)'
  <1>1. CASE Train
    <2>1. CASE Save
      <3>1. PICK candidate \in Candidates, allow \in BOOLEAN :
              \E obj \in TrueObjectives(candidate) :
                 /\ allow \/ ScoreOf(obj) < ScoreOf(base)
                 /\ saved' = {[obj |-> obj, regression |-> allow]}
        BY <2>1 DEF Save
      <3>2. PICK obj \in TrueObjectives(candidate) :
              /\ allow \/ ScoreOf(obj) < ScoreOf(base)
              /\ saved' = {[obj |-> obj, regression |-> allow]}
        BY <3>1
      <3>3. base' = base /\ step' = "done"
        BY <2>1 DEF Save
      <3>4. QED
        BY <3>2, <3>3 DEF Worthy, BeatsTheBase, ScoreOf
    <2>2. CASE Evaluate \/ Move \/ Finish \/ FailRun \/ GiveUp
      BY <2>2 DEF Evaluate, Move, Finish, FailRun, NextRun, GiveUp
    <2>3. QED
      BY <1>1, <2>1, <2>2 DEF Train, Next
  <1>2. CASE CreateFile \/ Encode \/ Exit \/ Push \/ Start \/ UNCHANGED allVars
    BY <1>2 DEF CreateFile, Encode, Exit, Push, Start, allVars, trainerVars, vars
  <1>3. QED
    BY <1>1, <1>2 DEF RolloutNext

\* What a start makes of its environment and its files.
LEMMA StartServes ==
  ASSUME RolloutInv, Start
  PROVE  /\ lb' # Down /\ lb'.strategy.engine = "new" => active = "new"
         /\ ServesWhatItSays'
  <1>1. PICK env \in Environments :
          lb' = IF Loads(env)
                THEN [strategy |-> ActiveStrategy(env),
                      profile |-> ParamProfile(env)]
                ELSE Down
    BY DEF Start
  <1>2. saved' = saved /\ base' = base
    BY DEF Start, trainerVars, vars
  <1>3. CASE ~Loads(env)
    BY <1>1, <1>3 DEF ServesWhatItSays
  <1>4. CASE Loads(env)
    <2>1. lb'.strategy = ActiveStrategy(env) /\ lb'.profile = ParamProfile(env)
      BY <1>1, <1>4
    <2>2. NeedOptimized(env) => active \in {"old", "new"}
      BY <1>4 DEF Loads, Whole
    <2>3. EnvLowerAliases(env) \in {"rr", "fuzzy", "fmopso"}
      BY <1>4 DEF Loads, EnvLowerAliases, Environments
    <2>4. ActiveStrategy(env).engine = "new" => active = "new"
      BY <2>2, <2>3 DEF ActiveStrategy, MOPSOEngine, NeedOptimized, ParamProfile
    <2>5. ActiveStrategy(env).tag # "RR" =>
             /\ ParamProfile(env) = "BASE" <=> ActiveStrategy(env).tag = "FUZZY_BASE"
             /\ ParamProfile(env) = "BASE" <=> ActiveStrategy(env).engine = "base"
             /\ ActiveStrategy(env).engine \in {"base", "old", "new"}
      BY <2>2, <2>3 DEF ActiveStrategy, MOPSOEngine, NeedOptimized, ParamProfile
    <2>6. active = "new" => \E s \in saved : BeatsTheBase(s)
      BY DEF RolloutInv, Worthy
    <2>7. active = "new" => \E s \in saved' : BeatsTheBase(s)'
      BY <1>2, <2>6 DEF BeatsTheBase
    <2>8. ServesWhatItSays'
      BY <2>1, <2>4, <2>5, <2>7 DEF ServesWhatItSays
    <2>9. QED
      BY <2>1, <2>4, <2>8
  <1>5. QED
    BY <1>3, <1>4

\* A balancer that goes on serving is what it was, and so is what was saved.
LEMMA StillServes ==
  ASSUME RolloutInv, RolloutNext \/ UNCHANGED allVars, lb' = lb
  PROVE  ServesWhatItSays'
  <1> SUFFICES ASSUME lb # Down, lb.strategy.tag # "RR"
               PROVE  /\ lb.profile = "BASE" <=> lb.strategy.tag = "FUZZY_BASE"
                      /\ lb.profile = "BASE" <=> lb.strategy.engine = "base"
                      /\ lb.strategy.engine \in {"base", "old", "new"}
                      /\ lb.strategy.engine = "new" =>
                            \E s \in saved' : BeatsTheBase(s)'
    BY DEF ServesWhatItSays
  <1>1. lb.strategy.engine = "new" => \E s \in saved' : BeatsTheBase(s)'
    BY SavedStays DEF RolloutInv, Worthy, BeatsTheBase
  <1>2. QED
    BY <1>1 DEF RolloutInv, ServesWhatItSays

\* The invariant is inductive.
LEMMA RolloutInductive == RolloutInv /\ [RolloutNext]_allVars => RolloutInv'
  <1> SUFFICES ASSUME RolloutInv, RolloutNext \/ UNCHANGED allVars
               PROVE  RolloutInv'
    OBVIOUS
  <1>1. (saved # {} => step = "done" /\ Worthy)'
    BY WorthyServes, SavesTheWorthy
  <1>2. saved # {} => saved' # {}
    BY SavedStays
  <1>3. CASE Start
    <2>1. UNCHANGED <<process, artifact, active>>
      BY <1>3 DEF Start
    <2>2. QED
      BY <1>1, <1>2, <1>3, <2>1, StartServes DEF RolloutInv
  <1>4. CASE ~Start
    <2>1. lb' = lb
      BY <1>4 DEF RolloutNext, Train, CreateFile, Encode, Exit, Push, rolloutVars,
                  allVars
    <2>2. ServesWhatItSays'
      BY <2>1, StillServes
    <2>3. CASE Train \/ UNCHANGED allVars
      <3>1. UNCHANGED <<process, artifact, active>>
        BY <2>3 DEF Train, rolloutVars, allVars
      <3>2. QED
        BY <1>1, <1>2, <2>1, <2>2, <3>1 DEF RolloutInv
    <2>4. CASE CreateFile \/ Encode \/ Exit
      BY <1>1, <1>2, <2>1, <2>2, <2>4
      DEF RolloutInv, CreateFile, Encode, Exit, rolloutVars
    <2>5. CASE Push
      BY <1>1, <1>2, <2>1, <2>2, <2>5 DEF RolloutInv, Push
    <2>6. QED
      BY <1>4, <2>3, <2>4, <2>5 DEF RolloutNext
  <1>5. QED
    BY <1>3, <1>4

\* A balancer scores with what it says it does, and never with a vector that
\* was written in part or was not worth saving.
THEOREM ServesTrueToItsWord == RolloutSpec => []ServesWhatItSays
  <1>1. RolloutInit => RolloutInv
    BY DEF RolloutInit, Init, RolloutInv, ServesWhatItSays
  <1>2. RolloutInv => ServesWhatItSays
    BY DEF RolloutInv
  <1>3. QED
    BY <1>1, <1>2, RolloutInductive, PTL DEF RolloutSpec

\* The trainer's memory is empty once its process is gone; before, and as long
\* as the file is written, it is what the training left.
LEMMA TrainerRollsOut ==
  TrainerInv /\ BestInv /\ [RolloutNext]_allVars => TrainerInv' /\ BestInv'
  <1> SUFFICES ASSUME TrainerInv, BestInv, [RolloutNext]_allVars
               PROVE  TrainerInv' /\ BestInv'
    OBVIOUS
  <1>1. CASE Exit
    <2>1. /\ step' = "done" /\ iteration' = 1 /\ particle' = 1
          /\ archive' = <<>> /\ results' = <<>> /\ runs' = 0
          /\ pbest' = [p \in Particles |-> {}] /\ seen' = [p \in Particles |-> {}]
          /\ base' = base /\ saved' = saved
      BY <1>1 DEF Exit
    <2>2. BestInv'
      BY <2>1, BestFresh
    <2>3. TypeOK'
      BY <2>1, <2>2, TrainerAssumption DEF TrainerInv, TypeOK, BestInv
    <2>4. ArchiveIsAFront' /\ LeastPeakIsKept'
      BY <2>1, TrainerAssumption DEF ArchiveIsAFront, LeastPeakIsKept, SeenByAll
    <2>5. \A s \in saved : s.regression \/ ScoreOf(s.obj) < ScoreOf(base)
      BY DEF TrainerInv, OutcomeFollowsTheBase, BeatsTheBase
    <2>6. OutcomeFollowsTheBase'
      BY <2>1, <2>5 DEF OutcomeFollowsTheBase, BeatsTheBase, ScoreOf
    <2>7. results' \in Seq(Reports)
      BY <2>1
    <2>8. QED
      BY <2>1, <2>2, <2>3, <2>4, <2>6, <2>7 DEF TrainerInv, Training
  <1>2. CASE ~Exit
    <2>1. [Next]_vars
      BY <1>2 DEF RolloutNext, Train, CreateFile, Encode, Push, Start, trainerVars,
                  allVars
    <2>2. QED
      BY <2>1, TrainerInductive, BestInductive
  <1>3. QED
    BY <1>1, <1>2

\* What the training promises holds until the balancer runs with its result,
\* wherever the trainer ends.
THEOREM TrainingRollsOut ==
  RolloutSpec => [](/\ TypeOK /\ ArchiveIsAFront /\ LeastPeakIsKept
                    /\ BestScoresLeast /\ OutcomeFollowsTheBase)
  <1>1. RolloutInit => TrainerInv /\ BestInv
    BY TrainerStarts DEF RolloutInit
  <1>2. TrainerInv /\ BestInv =>
          /\ TypeOK /\ ArchiveIsAFront /\ LeastPeakIsKept
          /\ BestScoresLeast /\ OutcomeFollowsTheBase
    BY DEF TrainerInv, BestInv
  <1>3. QED
    BY <1>1, <1>2, TrainerRollsOut, PTL DEF RolloutSpec

=============================================================================
