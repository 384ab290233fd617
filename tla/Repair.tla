------------------------------- MODULE Repair -------------------------------
(***************************************************************************)
(* The repairs of a parameter vector: repairParams of the optimiser        *)
(* (load-balancer/cmd/mopso-train/internal/mopso/mopso.go), which every    *)
(* moved particle goes through, and forceSaneParams of the trainer         *)
(* (cmd/mopso-train/main.go), its last resort when no candidate of any run *)
(* is sane.                                                                *)
(*                                                                         *)
(* The 27 parameters are three groups, one per input, that are repaired    *)
(* alike and apart: a group is the triples <<a, b, c>> of Low, Medium and  *)
(* High, Hi the end of the input's range and Gap the distance kept.        *)
(* Parameters are whole numbers; a midpoint is rounded down.               *)
(***************************************************************************)
EXTENDS Integers

CONSTANTS
    Hi,         \* upperBound: 100 for the CPU, 1000 for queue and response
    Gap,        \* minGap: 2 for the CPU, 20 for queue and response
    RawValues   \* what a coordinate of a moved particle may be

ASSUME RepairAssumption ==
    /\ Hi \in Int /\ Gap \in Int
    /\ Gap > 0 /\ Hi >= 4 * Gap
    /\ RawValues \subseteq Int

VARIABLES
    stage,  \* "moved", "repaired" by the optimiser, "forced" by the trainer
    group

vars == <<stage, group>>

Sets == 1..3     \* Low, Medium, High
Triples(values) == [a : values, b : values, c : values]

-----------------------------------------------------------------------------
Lower(x, y) == IF x <= y THEN x ELSE y
Upper(x, y) == IF x <= y THEN y ELSE x
Clamp(v)    == Upper(0, Lower(v, Hi))

Triple(x, y, z) == [a |-> x, b |-> y, c |-> z]

\* Three values in order.
Sorted(x, y, z) ==
    LET first == Lower(x, Lower(y, z))
        last  == Upper(x, Upper(y, z))
    IN  Triple(first, x + y + z - first - last, last)

\* The first part of both repairs of a triple: into the range, in order, then
\* apart, upwards and, where that left the range, down again.
SpreadTriple(t) ==
    LET s  == Sorted(Clamp(t.a), Clamp(t.b), Clamp(t.c))
        b1 == Upper(s.b, s.a + Gap)
        c1 == Upper(s.c, b1 + Gap)
        b2 == Lower(b1, Hi - Gap)
    IN  IF c1 > Hi THEN Triple(Lower(s.a, b2 - Gap), b2, Hi)
        ELSE Triple(s.a, b1, c1)

RepairTriple(t) ==
    LET s == SpreadTriple(t)
        a == Upper(s.a, 0)
        b == Upper(s.b, a + Gap)
    IN  Triple(a, b, Lower(Upper(s.c, b + Gap), Hi))

ForceTriple(t) ==
    LET s == SpreadTriple(t)
    IN  Triple(Clamp(s.a), Clamp(s.b), Clamp(s.c))

\* The peaks of a group in order and apart, likewise.
OrderedPeaks(g) ==
    LET p  == Sorted(g[1].b, g[2].b, g[3].b)
        p1 == Upper(p.b, p.a + Gap)
        p2 == Upper(p.c, p1 + Gap)
        q1 == Lower(p1, Hi - Gap)
    IN  IF p2 > Hi THEN <<Upper(0, Lower(p.a, q1 - Gap)), q1, Hi>>
        ELSE <<Upper(0, p.a), p1, p2>>

\* A triple given a new peak.
Around(a, peak, c) ==
    LET a1 == Clamp(Lower(a, peak - Gap))
        c1 == Clamp(Upper(c, peak + Gap))
    IN  Triple(IF a1 > peak THEN Clamp(peak - Gap) ELSE a1, peak,
               IF c1 < peak THEN Clamp(peak + Gap) ELSE c1)

\* Mutant: a triple is not fitted to its new peak.
MovePeaksOnly(g) ==
    LET peak == OrderedPeaks(g)
        fit(i) == Triple(g[i].a, peak[i], g[i].c)
    IN  <<fit(1), fit(2), fit(3)>>

EnforcePeakOrder(g) ==
    LET peak == OrderedPeaks(g)
        fit(i) == Around(g[i].a, peak[i], g[i].c)
    IN  <<fit(1), fit(2), fit(3)>>

\* Mutant: the peaks stay where they are, and only the triples are mended.
KeepPeaksLocal(g) ==
    LET fit(i) == Around(g[i].a, g[i].b, g[i].c)
    IN  <<fit(1), fit(2), fit(3)>>

EnforceOrderedPeaksLocal(g) ==
    LET peak == OrderedPeaks(g)
        fit(i) == Around(Clamp(g[i].a), Clamp(peak[i]), Clamp(g[i].c))
    IN  <<fit(1), fit(2), fit(3)>>

\* Mutant: neighbours stay apart.
KeepGaps(g) == g

\* Neighbours with a gap between them meet in the middle of it.
CloseGaps(g) ==
    LET mid(i) == (g[i].c + g[i + 1].a) \div 2
        apart(i) == g[i].c < g[i + 1].a
        left(i)  == IF apart(i - 1) THEN mid(i - 1) ELSE g[i].a
        right(i) == IF apart(i) THEN mid(i) ELSE g[i].c
    IN  <<Triple(g[1].a, g[1].b, right(1)),
          Triple(left(2), g[2].b, right(2)),
          Triple(left(3), g[3].b, g[3].c)>>

RepairParams(g) ==
    CloseGaps(EnforcePeakOrder(
        <<RepairTriple(g[1]), RepairTriple(g[2]), RepairTriple(g[3])>>))

ForceSaneParams(g) ==
    EnforceOrderedPeaksLocal(
        <<ForceTriple(g[1]), ForceTriple(g[2]), ForceTriple(g[3])>>)

IsSaneParams(g) ==
    /\ \A i \in Sets : /\ g[i].a <= g[i].b /\ g[i].b <= g[i].c
                       /\ g[i].b - g[i].a >= Gap /\ g[i].c - g[i].b >= Gap
    /\ g[1].b < g[2].b /\ g[2].b < g[3].b

-----------------------------------------------------------------------------
Init ==
    /\ stage = "moved"
    /\ group \in Triples(RawValues) \X Triples(RawValues) \X Triples(RawValues)

\* A particle after its move, in OptimizeOfflineDI.
Repair ==
    /\ stage = "moved"
    /\ stage' = "repaired"
    /\ group' = RepairParams(group)

\* forceSaneSolution takes a candidate, which has been repaired before; of its
\* three groups at least one is not sane.
ForceSaneSolution ==
    /\ stage = "repaired"
    /\ stage' = "forced"
    /\ group' = ForceSaneParams(group)

Next == Repair \/ ForceSaneSolution

Spec == Init /\ [][Next]_vars

-----------------------------------------------------------------------------
(***************************************************************************)
(* Properties                                                              *)
(***************************************************************************)

\* After a repair every triple is in order and in range, and wide enough, but
\* to the right where the range ends; and the peaks are in order and apart.
Ordered(g) ==
    /\ \A i \in Sets :
          LET t == g[i]
          IN  /\ 0 <= t.a /\ t.a + Gap <= t.b /\ t.b <= t.c /\ t.c <= Hi
              /\ t.c - t.b >= Gap \/ t.c = Hi
    /\ g[1].b + Gap <= g[2].b /\ g[2].b + Gap <= g[3].b

RepairedIsOrdered == stage # "moved" => Ordered(group)

\* Where the left shoulder, the triangle and the right shoulder are positive.
InLow(t, v)    == v <= t.b \/ v < t.c
InMedium(t, v) == v = t.b \/ (t.a < v /\ v < t.c)
InHigh(t, v)   == v >= t.b \/ v > t.a

\* After a repair no value of the input lies outside all three sets, so that
\* some rule fires, but for the point in which two sets that were apart now
\* touch: there a node still gets no score.
DeadOnlyWhereTheyTouch ==
    stage # "moved" =>
        \A v \in 0..Hi :
            \/ InLow(group[1], v) \/ InMedium(group[2], v) \/ InHigh(group[3], v)
            \/ v = group[1].c /\ v = group[2].a
            \/ v = group[2].c /\ v = group[3].a

\* The trainer repairs the best candidate "agar tidak langsung gagal total"
\* (main.go:140), so that the training is not lost when no candidate is sane:
\* what it has repaired is sane.
LastResortIsSane ==
    stage = "forced" => IsSaneParams(group)

\* It is sane only if it was before: of what the optimiser has repaired only a
\* High whose peak has run into the end of the range is not sane, and the
\* second repair puts the peaks there again.
ForcingChangesNoVerdict ==
    [][stage = "repaired" => (IsSaneParams(group)' <=> IsSaneParams(group))]_vars


=============================================================================
