------------------------------ MODULE Trainer ------------------------------
(***************************************************************************)
(* The offline trainer (load-balancer/cmd/mopso-train): several            *)
(* independent runs of MOPSO over one data set (offline_training.go), the  *)
(* Pareto archive of each run (mopso.go), and the choice among their       *)
(* results in main.go, up to the parameters that are saved.                *)
(*                                                                         *)
(* A parameter vector is what the program finds out about it: its          *)
(* objective over the data set and whether isSaneParams accepts it.  How a *)
(* particle gets from one vector to the next (velocities, the leader it    *)
(* follows, repairParams) is left open: it may evaluate to anything.       *)
(***************************************************************************)
EXTENDS Integers, Sequences, FiniteSets, FiniteSetsExt, Functions, Lists

CONSTANTS
    NumRuns,
    NumParticles,
    Iterations,
    MaxArchive,     \* maxArchive
    Averages        \* average CPU of a node, in tenths of a percent, that a
                    \* replay may give; positive, because osIdle is

ASSUME TrainerAssumption ==
    /\ {NumRuns, NumParticles, Iterations, MaxArchive} \subseteq Nat \ {0}
    /\ Averages \subseteq 1..1000

VARIABLES
    base,        \* the objective of the base parameters over the data set
    step,        \* "evaluate", "move", "finish" within a run; "choose", "done"
    iteration, particle,
    archive,     \* of the run: a sequence of solutions
    pbest,       \* pbestO of each particle, as a set of at most one objective
    results,     \* of the runs that succeeded: their sorted archives
    runs,        \* how many runs are over
    saved,       \* the solutions written to the output file: none or one
    \* history of the run
    seen         \* objectives each particle has evaluated

vars == <<base, step, iteration, particle, archive, pbest, results, runs, saved,
          seen>>

Particles == 1..NumParticles

-----------------------------------------------------------------------------
(***************************************************************************)
(* Objectives: both are minimised.  A ratio is counted in thousandths.     *)
(***************************************************************************)
Diff(a, b) == IF a > b THEN a - b ELSE b - a

\* DI and 1 - BCU of two average CPUs; below an average of 1 percent BCU is 1.
\* dev1 + dev2 is the difference of the two.
ObjectiveOf(a, b) ==
    [imbalance |-> (2000 * Diff(a, b)) \div (a + b),
     peak |-> IF a + b < 20 THEN 0 ELSE (1000 * Diff(a, b)) \div (a + b)]

Objectives == {ObjectiveOf(a, b) : a, b \in Averages}
Solutions  == [obj : Objectives, sane : BOOLEAN]

\* objectiveScore, offlineBalancedScore, balancedScore
ScoreOf(obj) == obj.imbalance + obj.peak

Dominates(a, b) ==
    /\ a.imbalance <= b.imbalance /\ a.peak <= b.peak
    /\ a.imbalance < b.imbalance \/ a.peak < b.peak

\* sort.Slice is not stable: any order of equals may come out.
Sorted(s, LessEq(_, _)) ==
    {[i \in DOMAIN s |-> s[p[i]]] :
        p \in {q \in Bijection(DOMAIN s, DOMAIN s) :
                 \A i, j \in DOMAIN s : i < j => LessEq(s[q[i]], s[q[j]])}}

Undominated(a, cand) == {s \in Range(a) : ~Dominates(cand.obj, s.obj)}

\* Mutant: whatever fails against some member is added all the same.
AppendToArchive(a, cand) ==
    LET keep == Append(Only(a, Undominated(a, cand)), cand)
    IN  {SubSeq(keep, 1, Min({Len(keep), MaxArchive}))}

\* Mutant: an archive that is too long is cut where it stands.
CutUnsorted(a, cand) ==
    LET better == {i \in DOMAIN a : Dominates(a[i].obj, cand.obj)}
        keep == Append(Only(a, Undominated(a, cand)), cand)
    IN  IF better # {} THEN {a}
        ELSE {SubSeq(keep, Len(keep) - Min({Len(keep), MaxArchive}) + 1, Len(keep))}

ByPeak(s, t) ==
    \/ s.obj.peak < t.obj.peak
    \/ s.obj.peak = t.obj.peak /\ s.obj.imbalance <= t.obj.imbalance

\* addToArchive compares the candidate with one member after the other, in
\* place.  The first that dominates it ends the loop: what was kept so far and
\* the rest of the archive remain, without the candidate.
AddToArchive(a, cand) ==
    LET better == {i \in DOMAIN a : Dominates(a[i].obj, cand.obj)}
        first  == Min(better)
        keep   == Append(Only(a, Undominated(a, cand)), cand)
    IN  IF better # {}
        THEN {Only(SubSeq(a, 1, first - 1), Undominated(a, cand))
                 \o SubSeq(a, first, Len(a))}
        ELSE IF Len(keep) <= MaxArchive THEN {keep}
        ELSE {SubSeq(s, 1, MaxArchive) : s \in Sorted(keep, ByPeak)}

-----------------------------------------------------------------------------
(***************************************************************************)
(* OptimizeOffline                                                         *)
(***************************************************************************)
Init ==
    /\ base \in Objectives
    /\ step = "evaluate" /\ iteration = 1 /\ particle = 1
    /\ archive = <<>>
    /\ pbest = [p \in Particles |-> {}]
    /\ results = <<>> /\ runs = 0
    /\ saved = {}
    /\ seen = [p \in Particles |-> {}]

\* Mutant: a personal best is replaced by whatever it does not dominate.
UpdateBestLoosely(p, obj) ==
    IF \A o \in pbest[p] : ~Dominates(o, obj)
    THEN [pbest EXCEPT ![p] = {obj}] ELSE pbest

UpdateBest(p, obj) ==
    IF \A o \in pbest[p] : \/ Dominates(obj, o)
                           \/ ~Dominates(o, obj) /\ ScoreOf(obj) < ScoreOf(o)
    THEN [pbest EXCEPT ![p] = {obj}] ELSE pbest

\* Every run reads the same data set: all are refused, or none (FailRun).
Evaluate ==
    /\ step = "evaluate" /\ Len(results) = runs
    /\ \E sol \in Solutions :
          /\ pbest' = UpdateBest(particle, sol.obj)
          /\ archive' \in AddToArchive(archive, sol)
          /\ seen' = [seen EXCEPT ![particle] = @ \cup {sol.obj}]
    /\ IF particle < NumParticles
       THEN particle' = particle + 1 /\ UNCHANGED step
       ELSE particle' = 1 /\ step' = "move"
    /\ UNCHANGED <<base, iteration, results, runs, saved>>

\* Every particle moves; what it moves to shows at its next evaluation.
Move ==
    /\ step = "move"
    /\ IF iteration < Iterations
       THEN iteration' = iteration + 1 /\ step' = "evaluate"
       ELSE iteration' = 1 /\ step' = "finish"
    /\ UNCHANGED <<base, particle, archive, pbest, results, runs, saved, seen>>

ByScore(s, t) == ScoreOf(s.obj) <= ScoreOf(t.obj)

\* The next run starts from scratch, or the choice begins.
NextRun ==
    /\ runs' = runs + 1
    /\ step' = IF runs + 1 < NumRuns THEN "evaluate" ELSE "choose"
    /\ iteration' = 1 /\ particle' = 1
    /\ archive' = <<>>
    /\ pbest' = [p \in Particles |-> {}]
    /\ seen' = [p \in Particles |-> {}]
    /\ UNCHANGED <<base, saved>>

\* Mutant: the archive is reported as it is.
FinishUnsorted ==
    /\ step = "finish"
    /\ results' = Append(results, archive)
    /\ NextRun

\* The archive is sorted by score; its first entry is BestBalanced.
Finish ==
    /\ step = "finish"
    /\ \E s \in Sorted(archive, ByScore) : results' = Append(results, s)
    /\ NextRun

\* Mutant: a run that failed is reported with the others.
FailRunReported ==
    /\ step = "evaluate" /\ archive = <<>> /\ results = <<>>
    /\ results' = Append(results, archive)
    /\ NextRun

\* OptimizeOffline refuses the data set before it evaluates anything.
FailRun ==
    /\ step = "evaluate" /\ archive = <<>> /\ results = <<>>
    /\ UNCHANGED results
    /\ NextRun

-----------------------------------------------------------------------------
(***************************************************************************)
(* main: the best run, the best sane candidate of all runs, the repair     *)
(* that replaces a missing one, and the comparison with the base           *)
(***************************************************************************)
\* The first index for which the score is least.
FirstBest(candidates) ==
    CHOOSE i \in DOMAIN candidates :
        \A j \in DOMAIN candidates :
            /\ ScoreOf(candidates[i].obj) <= ScoreOf(candidates[j].obj)
            /\ j < i => ScoreOf(candidates[i].obj) < ScoreOf(candidates[j].obj)

\* chooseSaneCandidate: BestBalanced if it is sane, else the first sane entry.
SaneEntries(result) == {i \in DOMAIN result : result[i].sane}
ChooseSaneCandidate(result) == result[Min(SaneEntries(result))]

SaneResults == Only(results, {r \in Range(results) : SaneEntries(r) # {}})
SaneCandidates == [i \in DOMAIN SaneResults |-> ChooseSaneCandidate(SaneResults[i])]

\* What main goes on with.  forceSaneParams makes another vector of the best
\* one; the objective it keeps is the old one.  Whether that vector is sane is
\* left open here: Repair shows what becomes of one.
Repaired(sol) == {[obj |-> sol.obj, sane |-> s] : s \in BOOLEAN}
Candidates ==
    IF SaneResults # <<>> THEN {SaneCandidates[FirstBest(SaneCandidates)]}
    ELSE LET best == [i \in DOMAIN results |-> results[i][1]]
         IN  Repaired(best[FirstBest(best)])

\* The objective of the vector over the data set: the candidate's own, or, for
\* a repaired vector, any.
TrueObjectives(candidate) ==
    IF SaneResults # <<>> THEN {candidate.obj} ELSE Objectives

\* Mutant: the objective of the candidate is taken as it is.
SaveUnevaluated ==
    /\ step = "choose" /\ results # <<>>
    /\ \E candidate \in Candidates :
       \E obj \in TrueObjectives(candidate) :
          /\ candidate.sane
          /\ ScoreOf(candidate.obj) < ScoreOf(base)
          /\ saved' = {[obj |-> obj, regression |-> FALSE]}
    /\ step' = "done"
    /\ UNCHANGED <<base, iteration, particle, archive, pbest, results, runs, seen>>

\* The objectives of the candidate and of the base are evaluated afresh; the
\* candidate is saved if it is better, or if a regression is allowed.
Save ==
    /\ step = "choose" /\ results # <<>>
    /\ \E candidate \in Candidates, allow \in BOOLEAN :
       \E obj \in TrueObjectives(candidate) :
          /\ candidate.sane
          /\ allow \/ ScoreOf(obj) < ScoreOf(base)
          /\ saved' = {[obj |-> obj, regression |-> allow]}
    /\ step' = "done"
    /\ UNCHANGED <<base, iteration, particle, archive, pbest, results, runs, seen>>

\* fatalf: no run succeeded, the repair was in vain, or the base is as good.
GiveUp ==
    /\ step = "choose"
    /\ \/ results = <<>>
       \/ /\ results # <<>>
          /\ \E candidate \in Candidates :
                \/ ~candidate.sane
                \/ \E obj \in TrueObjectives(candidate) :
                      ScoreOf(obj) >= ScoreOf(base)
    /\ step' = "done"
    /\ UNCHANGED <<base, iteration, particle, archive, pbest, results, runs,
                   saved, seen>>

-----------------------------------------------------------------------------
Next == Evaluate \/ Move \/ Finish \/ FailRun \/ Save \/ GiveUp

Spec == Init /\ [][Next]_vars

-----------------------------------------------------------------------------
(***************************************************************************)
(* Properties                                                              *)
(***************************************************************************)
TypeOK ==
    /\ base \in Objectives
    /\ step \in {"evaluate", "move", "finish", "choose", "done"}
    /\ iteration \in 1..Iterations /\ particle \in Particles
    /\ archive \in Seq(Solutions)
    /\ pbest \in [Particles -> SUBSET Objectives]
    /\ results \in Seq(Seq(Solutions) \ {<<>>}) /\ Len(results) <= runs
    /\ runs \in 0..NumRuns
    /\ Cardinality(saved) <= 1
    /\ seen \in [Particles -> SUBSET Objectives]

\* The archive never exceeds its capacity, and no member of it dominates
\* another, although members are compared with the newcomer only, in place,
\* and the comparison may stop half way.
ArchiveIsAFront ==
    /\ Len(archive) <= MaxArchive
    /\ \A i, j \in DOMAIN archive : ~Dominates(archive[i].obj, archive[j].obj)

SeenByAll == UNION {seen[p] : p \in Particles}

\* Whatever the archive drops when it is full, it keeps a solution of the
\* least 1 - BCU any particle has evaluated.
LeastPeakIsKept ==
    \A obj \in SeenByAll : \E i \in DOMAIN archive : archive[i].obj.peak <= obj.peak

\* A particle's best has the least score of all it has evaluated, though it is
\* replaced by dominance first.
BestScoresLeast ==
    \A p \in Particles : \A best \in pbest[p], obj \in seen[p] :
        ScoreOf(best) <= ScoreOf(obj)

\* The base is kept only when nothing better was found (main.go:166), and of
\* all successful runs the best sane candidate is chosen (main.go:112).
\* Training gives up, after a run succeeded, only if no sane vector of any
\* archive beats the base.  What it saves scores no worse than any of them, and
\* beats the base unless a regression was allowed, a repaired vector too, whose
\* objective is not the one its run reported.
BeatsTheBase(s) == s.regression \/ ScoreOf(s.obj) < ScoreOf(base)

OutcomeFollowsTheBase ==
    step = "done" =>
        /\ \A s \in saved : BeatsTheBase(s)
        /\ \A i \in DOMAIN results : \A j \in SaneEntries(results[i]) :
              LET sane == ScoreOf(results[i][j].obj)
              IN  /\ saved = {} => sane >= ScoreOf(base)
                  /\ \A s \in saved : ScoreOf(s.obj) <= sane

=============================================================================
