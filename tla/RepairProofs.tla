---------------------------- MODULE RepairProofs ----------------------------
(***************************************************************************)
(* Proofs about Repair, for every range, every gap that leaves room in it  *)
(* and every particle.                                                     *)
(***************************************************************************)
EXTENDS Repair, TLAPS

IntTriples == Triples(Int)
IntGroups  == IntTriples \X IntTriples \X IntTriples

\* A triple in order and in range with its peak a gap away from both ends.
Fitted(t) ==
    /\ t \in IntTriples
    /\ 0 <= t.a /\ t.a + Gap <= t.b /\ t.b + Gap <= t.c /\ t.c <= Hi

\* What is clamped lies in the range.
LEMMA ClampsIntoRange ==
    ASSUME NEW v \in Int
    PROVE  Clamp(v) \in Int /\ 0 <= Clamp(v) /\ Clamp(v) <= Hi
BY RepairAssumption DEF Clamp, Lower, Upper

\* Sorted puts three values in order and invents none.
LEMMA SortedOrders ==
    ASSUME NEW x \in Int, NEW y \in Int, NEW z \in Int
    PROVE  /\ Sorted(x, y, z) \in IntTriples
           /\ Sorted(x, y, z).a <= Sorted(x, y, z).b
           /\ Sorted(x, y, z).b <= Sorted(x, y, z).c
           /\ \A v \in {Sorted(x, y, z).a, Sorted(x, y, z).b, Sorted(x, y, z).c} :
                 v \in {x, y, z}
<1> DEFINE low  == Lower(x, Lower(y, z))
           high == Upper(x, Upper(y, z))
           mid  == x + y + z - low - high
<1>1. low \in Int /\ high \in Int /\ mid \in Int /\ low <= mid /\ mid <= high
  BY DEF Lower, Upper
<1>2. low \in {x, y, z} /\ high \in {x, y, z} /\ mid \in {x, y, z}
  BY DEF Lower, Upper
<1>3. Sorted(x, y, z) = [a |-> low, b |-> mid, c |-> high]
  BY DEF Sorted, Triple
<1> HIDE DEF low, mid, high
<1> QED
  BY <1>1, <1>2, <1>3 DEF IntTriples, Triples

\* The first part of a repair does what both are for, so that what the two
\* of them do after it changes nothing.
LEMMA SpreadFits ==
    ASSUME NEW t \in IntTriples
    PROVE  Fitted(SpreadTriple(t))
<1> DEFINE s  == Sorted(Clamp(t.a), Clamp(t.b), Clamp(t.c))
           b1 == Upper(s.b, s.a + Gap)
           c1 == Upper(s.c, b1 + Gap)
           b2 == Lower(b1, Hi - Gap)
           u  == IF c1 > Hi THEN Triple(Lower(s.a, b2 - Gap), b2, Hi)
                 ELSE Triple(s.a, b1, c1)
<1>1. /\ s.a \in Int /\ s.b \in Int /\ s.c \in Int
      /\ 0 <= s.a /\ s.a <= s.b /\ s.b <= s.c /\ s.c <= Hi
  <2>1. t.a \in Int /\ t.b \in Int /\ t.c \in Int
    BY DEF IntTriples, Triples
  <2>2. s \in IntTriples /\ s.a <= s.b /\ s.b <= s.c
        /\ s.a \in {Clamp(t.a), Clamp(t.b), Clamp(t.c)}
        /\ s.c \in {Clamp(t.a), Clamp(t.b), Clamp(t.c)}
    BY <2>1, ClampsIntoRange, SortedOrders
  <2> HIDE DEF s
  <2>3. s.a \in Int /\ s.b \in Int /\ s.c \in Int
    BY <2>2 DEF IntTriples, Triples
  <2> QED
    BY <2>1, <2>2, <2>3, ClampsIntoRange
<1>2. SpreadTriple(t) = u
  BY DEF SpreadTriple
<1> HIDE DEF s
<1>3. Fitted(u)
  <2>1. CASE c1 > Hi
    BY <1>1, <2>1, RepairAssumption
       DEF Fitted, IntTriples, Triples, Triple, Lower, Upper
  <2>2. CASE ~(c1 > Hi)
    BY <1>1, <2>2, RepairAssumption
       DEF Fitted, IntTriples, Triples, Triple, Lower, Upper
  <2> QED
    BY <2>1, <2>2
<1> QED
  BY <1>2, <1>3

\* The first repair of a triple fits it into the range.
LEMMA RepairFits ==
    ASSUME NEW t \in IntTriples
    PROVE  Fitted(RepairTriple(t))
BY SpreadFits, RepairAssumption
   DEF IntTriples, Triples, Triple, Fitted, RepairTriple, Lower, Upper

\* So does the second.
LEMMA ForceFits ==
    ASSUME NEW t \in IntTriples
    PROVE  Fitted(ForceTriple(t))
BY SpreadFits, RepairAssumption
   DEF IntTriples, Triples, Triple, Fitted, ForceTriple, Clamp, Lower, Upper

-----------------------------------------------------------------------------
\* Peaks in order, apart and in range, the first a gap from its start; the
\* last one is nearer than that to the end only when the others pushed it.
Apart(p) ==
    /\ p[1] \in Int /\ p[2] \in Int /\ p[3] \in Int
    /\ Gap <= p[1] /\ p[1] + Gap <= p[2] /\ p[2] + Gap <= p[3] /\ p[3] <= Hi
    /\ p[3] + Gap <= Hi \/ p[3] = p[2] + Gap

\* What becomes of the peaks of three fitted triples.
LEMMA PeaksApart ==
    ASSUME NEW g, Fitted(g[1]), Fitted(g[2]), Fitted(g[3])
    PROVE  Apart(OrderedPeaks(g))
<1> DEFINE p  == Sorted(g[1].b, g[2].b, g[3].b)
           p1 == Upper(p.b, p.a + Gap)
           p2 == Upper(p.c, p1 + Gap)
           q1 == Lower(p1, Hi - Gap)
           q  == IF p2 > Hi THEN <<Upper(0, Lower(p.a, q1 - Gap)), q1, Hi>>
                 ELSE <<Upper(0, p.a), p1, p2>>
<1>1. /\ p.a \in Int /\ p.b \in Int /\ p.c \in Int
      /\ Gap <= p.a /\ p.a <= p.b /\ p.b <= p.c /\ p.c + Gap <= Hi
  <2>1. \A i \in {1, 2, 3} : g[i].b \in Int /\ Gap <= g[i].b /\ g[i].b + Gap <= Hi
    BY RepairAssumption DEF Fitted, IntTriples, Triples
  <2>2. /\ p \in IntTriples /\ p.a <= p.b /\ p.b <= p.c
        /\ p.a \in {g[1].b, g[2].b, g[3].b} /\ p.c \in {g[1].b, g[2].b, g[3].b}
    BY <2>1, SortedOrders
  <2> HIDE DEF p
  <2>3. p.a \in Int /\ p.b \in Int /\ p.c \in Int
    BY <2>2 DEF IntTriples, Triples
  <2> QED
    BY <2>1, <2>2, <2>3
<1>2. OrderedPeaks(g) = q
  BY DEF OrderedPeaks
<1> HIDE DEF p
<1>3. Apart(q)
  <2>1. CASE p2 > Hi
    BY <1>1, <2>1, RepairAssumption DEF Apart, Lower, Upper
  <2>2. CASE ~(p2 > Hi)
    BY <1>1, <2>2, RepairAssumption DEF Apart, Lower, Upper
  <2> QED
    BY <2>1, <2>2
<1> QED
  BY <1>2, <1>3

\* A triple around a peak at least a gap from the start of the range; it
\* reaches at least as far as before.
LEMMA AroundHolds ==
    ASSUME NEW a \in Int, NEW c \in Int, NEW peak \in Int,
           0 <= a, a <= Hi, 0 <= c, c <= Hi, Gap <= peak, peak <= Hi
    PROVE  LET t == Around(a, peak, c)
           IN  /\ t \in IntTriples /\ t.b = peak
               /\ 0 <= t.a /\ t.a + Gap <= t.b /\ t.b <= t.c /\ t.c <= Hi
               /\ t.c - t.b >= Gap \/ t.c = Hi
               /\ t.a <= a /\ c <= t.c
<1> DEFINE a1 == Clamp(Lower(a, peak - Gap))
           c1 == Clamp(Upper(c, peak + Gap))
<1>1. /\ a1 \in Int /\ 0 <= a1 /\ a1 + Gap <= peak /\ a1 <= a
      /\ c1 \in Int /\ c1 <= Hi /\ peak <= c1 /\ c <= c1
      /\ c1 - peak >= Gap \/ c1 = Hi
  BY RepairAssumption DEF Clamp, Lower, Upper
<1>2. Around(a, peak, c) =
        Triple(IF a1 > peak THEN Clamp(peak - Gap) ELSE a1, peak,
               IF c1 < peak THEN Clamp(peak + Gap) ELSE c1)
  BY DEF Around
<1> HIDE DEF a1, c1
<1>3. Around(a, peak, c) = [a |-> a1, b |-> peak, c |-> c1]
  BY <1>1, <1>2, RepairAssumption DEF Triple
<1> QED
  BY <1>1, <1>3 DEF IntTriples, Triples

\* The last peak leaves room to its right, or was pushed by the others.
Pushed(g) == g[3].b + Gap <= Hi \/ g[3].b = g[2].b + Gap

\* Neighbours leave no gap between them.
Meeting(g) == g[1].c >= g[2].a /\ g[2].c >= g[3].a

\* Putting the peaks in order keeps every triple around its own.
LEMMA PeakOrderHolds ==
    ASSUME NEW g, Fitted(g[1]), Fitted(g[2]), Fitted(g[3])
    PROVE  /\ EnforcePeakOrder(g) \in IntGroups
           /\ Ordered(EnforcePeakOrder(g)) /\ Pushed(EnforcePeakOrder(g))
<1> DEFINE peak   == OrderedPeaks(g)
           fit(i) == Around(g[i].a, peak[i], g[i].c)
<1>1. \A i \in Sets : /\ g[i].a \in Int /\ 0 <= g[i].a /\ g[i].a <= Hi
                      /\ g[i].c \in Int /\ 0 <= g[i].c /\ g[i].c <= Hi
  BY RepairAssumption DEF Fitted, IntTriples, Triples, Sets
<1>2. Apart(peak)
  BY PeaksApart
<1> HIDE DEF peak
<1>3. \A i \in Sets : peak[i] \in Int /\ Gap <= peak[i] /\ peak[i] <= Hi
  BY <1>2, RepairAssumption DEF Apart, Sets
<1>4. \A i \in Sets :
          /\ fit(i) \in IntTriples /\ fit(i).b = peak[i]
          /\ 0 <= fit(i).a /\ fit(i).a + Gap <= fit(i).b
          /\ fit(i).b <= fit(i).c /\ fit(i).c <= Hi
          /\ fit(i).c - fit(i).b >= Gap \/ fit(i).c = Hi
  BY <1>1, <1>3, AroundHolds
<1>5. EnforcePeakOrder(g) = <<fit(1), fit(2), fit(3)>>
  BY DEF EnforcePeakOrder, peak
<1> HIDE DEF fit
<1> QED
  BY <1>2, <1>4, <1>5 DEF IntGroups, Ordered, Pushed, Apart, Sets

\* The middle of a gap is between its ends, so that the triples only grow.
LEMMA CloseGapsHolds ==
    ASSUME NEW g \in IntGroups, Ordered(g), Pushed(g)
    PROVE  /\ CloseGaps(g) \in IntGroups /\ Ordered(CloseGaps(g))
           /\ Pushed(CloseGaps(g)) /\ Meeting(CloseGaps(g))
<1> DEFINE mid(i)   == (g[i].c + g[i + 1].a) \div 2
           apart(i) == g[i].c < g[i + 1].a
           left(i)  == IF apart(i - 1) THEN mid(i - 1) ELSE g[i].a
           right(i) == IF apart(i) THEN mid(i) ELSE g[i].c
           h == <<Triple(g[1].a, g[1].b, right(1)),
                  Triple(left(2), g[2].b, right(2)),
                  Triple(left(3), g[3].b, g[3].c)>>
<1>1. \A i \in Sets : g[i].a \in Int /\ g[i].b \in Int /\ g[i].c \in Int
  BY DEF IntGroups, IntTriples, Triples, Sets
<1>2. \A i \in {1, 2} :
          /\ mid(i) \in Int
          /\ apart(i) => g[i].c <= mid(i) /\ mid(i) <= g[i + 1].a
  BY <1>1 DEF Sets
<1>3. /\ right(1) \in Int /\ right(2) \in Int /\ left(2) \in Int /\ left(3) \in Int
      /\ g[1].c <= right(1) /\ g[2].c <= right(2)
      /\ left(2) <= g[2].a /\ left(3) <= g[3].a
      /\ left(2) <= right(1) /\ left(3) <= right(2)
      /\ right(1) = g[1].c \/ right(1) <= g[2].a
      /\ right(2) = g[2].c \/ right(2) <= g[3].a
      /\ left(2) = g[2].a \/ left(2) >= g[1].c
      /\ left(3) = g[3].a \/ left(3) >= g[2].c
  <2>1. 2 - 1 = 1 /\ 3 - 1 = 2 /\ 1 + 1 = 2 /\ 2 + 1 = 3
    OBVIOUS
  <2> QED
    BY <1>1, <1>2, <2>1 DEF Sets
<1>4. CloseGaps(g) = h
  BY DEF CloseGaps
<1> HIDE DEF left, right
<1>5. h \in IntGroups
  BY <1>1, <1>3 DEF IntGroups, IntTriples, Triples, Triple, Sets
<1>6. Ordered(h) /\ Pushed(h) /\ Meeting(h)
  BY <1>1, <1>3, RepairAssumption DEF Ordered, Pushed, Meeting, Triple, Sets
<1> QED
  BY <1>4, <1>5, <1>6

\* What a moved particle is repaired to.
LEMMA RepairHolds ==
    ASSUME NEW g \in IntGroups
    PROVE  /\ RepairParams(g) \in IntGroups /\ Ordered(RepairParams(g))
           /\ Pushed(RepairParams(g)) /\ Meeting(RepairParams(g))
<1> DEFINE h == <<RepairTriple(g[1]), RepairTriple(g[2]), RepairTriple(g[3])>>
<1>1. Fitted(h[1]) /\ Fitted(h[2]) /\ Fitted(h[3])
  BY RepairFits DEF IntGroups
<1>2. RepairParams(g) = CloseGaps(EnforcePeakOrder(h))
  BY DEF RepairParams
<1> HIDE DEF h
<1> QED
  BY <1>1, <1>2, PeakOrderHolds, CloseGapsHolds

-----------------------------------------------------------------------------
\* Where the last peak is decides whether an ordered group is sane.
LEMMA SaneBelowTheTop ==
    ASSUME NEW g \in IntGroups, Ordered(g)
    PROVE  IsSaneParams(g) <=> g[3].b + Gap <= Hi
<1>1. \A i \in Sets : g[i].a \in Int /\ g[i].b \in Int /\ g[i].c \in Int
  BY DEF IntGroups, IntTriples, Triples, Sets
<1> QED
  BY <1>1, RepairAssumption DEF Ordered, IsSaneParams, Sets

\* What the second repair of a triple does to one that was repaired before:
\* the peak stays, or is put a gap below the end, and the triple only grows.
LEMMA ForceKeeps ==
    ASSUME NEW t \in IntTriples,
           0 <= t.a, t.a + Gap <= t.b, t.b <= t.c, t.c <= Hi
    PROVE  /\ ForceTriple(t).a <= t.a /\ t.c <= ForceTriple(t).c
           /\ ForceTriple(t).b = Lower(t.b, Hi - Gap)
<1>1. t.a \in Int /\ t.b \in Int /\ t.c \in Int
  BY DEF IntTriples, Triples
<1>2. Clamp(t.a) = t.a /\ Clamp(t.b) = t.b /\ Clamp(t.c) = t.c
  BY <1>1, RepairAssumption DEF Clamp, Lower, Upper
<1>3. Sorted(t.a, t.b, t.c) = [a |-> t.a, b |-> t.b, c |-> t.c]
  <2> DEFINE low  == Lower(t.a, Lower(t.b, t.c))
             high == Upper(t.a, Upper(t.b, t.c))
  <2>1. low = t.a /\ high = t.c
    BY <1>1, RepairAssumption DEF Lower, Upper
  <2>2. t.a + t.b + t.c - low - high = t.b
    BY <1>1, <2>1
  <2> QED
    BY <2>1, <2>2 DEF Sorted, Triple
<1> DEFINE c1 == Upper(t.c, t.b + Gap)
           b2 == Lower(t.b, Hi - Gap)
<1>4. SpreadTriple(t) = IF c1 > Hi THEN [a |-> Lower(t.a, b2 - Gap), b |-> b2, c |-> Hi]
                        ELSE [a |-> t.a, b |-> t.b, c |-> c1]
  <2>1. Upper(t.b, t.a + Gap) = t.b
    BY <1>1, RepairAssumption DEF Upper
  <2> QED
    BY <1>2, <1>3, <2>1 DEF SpreadTriple, Triple
<1>5. ForceTriple(t) = Triple(Clamp(SpreadTriple(t).a), Clamp(SpreadTriple(t).b),
                              Clamp(SpreadTriple(t).c))
  BY DEF ForceTriple
<1>6. CASE c1 > Hi
  <2>1. ForceTriple(t) = [a |-> Clamp(Lower(t.a, b2 - Gap)), b |-> Clamp(b2), c |-> Clamp(Hi)]
    BY <1>4, <1>5, <1>6 DEF Triple
  <2> QED
    BY <1>1, <2>1, RepairAssumption DEF Clamp, Lower, Upper
<1>7. CASE ~(c1 > Hi)
  <2>1. ForceTriple(t) = [a |-> Clamp(t.a), b |-> Clamp(t.b), c |-> Clamp(c1)]
    BY <1>4, <1>5, <1>7 DEF Triple
  <2> QED
    BY <1>1, <1>7, <2>1, RepairAssumption DEF Clamp, Lower, Upper
<1> QED
  BY <1>6, <1>7

\* The peaks after both repairs: those of a group that is sane stay, and the
\* last of one that is not is too high again.
LEMMA ForcedPeaks ==
    ASSUME NEW g, NEW h,
           \A i \in Sets : /\ g[i].b \in Int /\ h[i].b = Lower(g[i].b, Hi - Gap)
                           /\ Gap <= g[i].b /\ g[i].b <= Hi,
           g[1].b + Gap <= g[2].b, g[2].b + Gap <= g[3].b, Pushed(g)
    PROVE  OrderedPeaks(h)[3] + Gap <= Hi <=> g[3].b + Gap <= Hi
<1> DEFINE p  == Sorted(h[1].b, h[2].b, h[3].b)
           p1 == Upper(p.b, p.a + Gap)
           p2 == Upper(p.c, p1 + Gap)
<1>1. /\ h[1].b = g[1].b /\ h[2].b = g[2].b /\ h[3].b = Lower(g[3].b, Hi - Gap)
      /\ h[1].b \in Int /\ h[2].b \in Int /\ h[3].b \in Int
      /\ h[1].b + Gap <= h[2].b /\ h[2].b <= h[3].b
  BY RepairAssumption DEF Sets, Lower
<1>2. p = [a |-> h[1].b, b |-> h[2].b, c |-> h[3].b]
  <2> DEFINE low  == Lower(h[1].b, Lower(h[2].b, h[3].b))
             high == Upper(h[1].b, Upper(h[2].b, h[3].b))
  <2>1. low = h[1].b /\ high = h[3].b
    BY <1>1, RepairAssumption DEF Lower, Upper
  <2>2. h[1].b + h[2].b + h[3].b - low - high = h[2].b
    BY <1>1, <2>1
  <2> QED
    BY <2>1, <2>2 DEF Sorted, Triple
<1>3. p1 = h[2].b /\ p2 = Upper(h[3].b, h[2].b + Gap)
  BY <1>1, <1>2, RepairAssumption DEF Upper
<1>4. OrderedPeaks(h)[3] = IF p2 > Hi THEN Hi ELSE p2
  BY DEF OrderedPeaks
<1>5. CASE g[3].b + Gap <= Hi
  <2>1. p2 = g[3].b
    BY <1>1, <1>3, <1>5, RepairAssumption DEF Sets, Lower, Upper
  <2> QED
    BY <1>1, <1>4, <1>5, <2>1, RepairAssumption DEF Sets
<1>6. CASE ~(g[3].b + Gap <= Hi)
  <2>1. g[3].b = g[2].b + Gap /\ h[3].b = Hi - Gap
    BY <1>1, <1>6, RepairAssumption DEF Pushed, Sets, Lower
  <2>2. p2 = g[3].b
    BY <1>1, <1>3, <1>6, <2>1, RepairAssumption DEF Sets, Upper
  <2> QED
    BY <1>1, <1>4, <1>6, <2>2, RepairAssumption DEF Sets
<1> QED
  BY <1>5, <1>6

\* What the second repair makes of a group that was repaired before.
LEMMA ForceHolds ==
    ASSUME NEW g \in IntGroups, Ordered(g), Pushed(g), Meeting(g)
    PROVE  /\ ForceSaneParams(g) \in IntGroups /\ Ordered(ForceSaneParams(g))
           /\ Meeting(ForceSaneParams(g))
           /\ IsSaneParams(ForceSaneParams(g)) <=> IsSaneParams(g)
<1> DEFINE h      == <<ForceTriple(g[1]), ForceTriple(g[2]), ForceTriple(g[3])>>
           peak   == OrderedPeaks(h)
           fit(i) == Around(Clamp(h[i].a), Clamp(peak[i]), Clamp(h[i].c))
           f      == <<fit(1), fit(2), fit(3)>>
<1>1. \A i \in Sets :
          /\ g[i] \in IntTriples
          /\ g[i].a \in Int /\ g[i].b \in Int /\ g[i].c \in Int
          /\ 0 <= g[i].a /\ g[i].a + Gap <= g[i].b
          /\ g[i].b <= g[i].c /\ g[i].c <= Hi
  BY DEF Ordered, IntGroups, IntTriples, Triples, Sets
<1>2. \A i \in Sets : h[i] = ForceTriple(g[i])
  BY DEF Sets
<1> HIDE DEF h
<1>3. \A i \in Sets : /\ h[i].a <= g[i].a /\ g[i].c <= h[i].c
                      /\ h[i].b = Lower(g[i].b, Hi - Gap)
                      /\ Fitted(h[i])
  BY <1>1, <1>2, ForceKeeps, ForceFits
<1>4. Apart(peak)
  BY <1>3, PeaksApart DEF Sets
<1>5. peak[3] + Gap <= Hi <=> g[3].b + Gap <= Hi
  <2>1. \A i \in Sets : Gap <= g[i].b /\ g[i].b <= Hi
    BY <1>1, RepairAssumption
  <2>2. g[1].b + Gap <= g[2].b /\ g[2].b + Gap <= g[3].b
    BY DEF Ordered
  <2> QED
    BY <1>1, <1>3, <2>1, <2>2, ForcedPeaks
<1>6. \A i \in Sets : /\ h[i].a \in Int /\ h[i].c \in Int
                      /\ 0 <= h[i].a /\ h[i].a <= Hi
                      /\ 0 <= h[i].c /\ h[i].c <= Hi
                      /\ peak[i] \in Int /\ Gap <= peak[i] /\ peak[i] <= Hi
  <2>1. \A i \in Sets : peak[i] \in Int /\ Gap <= peak[i] /\ peak[i] <= Hi
    BY <1>4, RepairAssumption DEF Apart, Sets
  <2>2. \A i \in Sets : /\ h[i].a \in Int /\ h[i].b \in Int /\ h[i].c \in Int
                        /\ 0 <= h[i].a /\ h[i].a + Gap <= h[i].b
                        /\ h[i].b + Gap <= h[i].c /\ h[i].c <= Hi
    BY <1>3 DEF Fitted, IntTriples, Triples
  <2> QED
    BY <2>1, <2>2, RepairAssumption
<1>7. \A i \in Sets : /\ Clamp(h[i].a) = h[i].a /\ Clamp(h[i].c) = h[i].c
                      /\ Clamp(peak[i]) = peak[i]
  BY <1>6, RepairAssumption DEF Clamp, Lower, Upper
<1>8. \A i \in Sets :
          /\ fit(i) \in IntTriples /\ fit(i).b = peak[i]
          /\ 0 <= fit(i).a /\ fit(i).a + Gap <= fit(i).b
          /\ fit(i).b <= fit(i).c /\ fit(i).c <= Hi
          /\ fit(i).c - fit(i).b >= Gap \/ fit(i).c = Hi
          /\ fit(i).a <= h[i].a /\ h[i].c <= fit(i).c
  <2> TAKE i \in Sets
  <2>1. fit(i) = Around(h[i].a, peak[i], h[i].c)
    BY <1>7
  <2> HIDE DEF fit, peak
  <2> QED
    BY <1>6, <2>1, AroundHolds
<1>9. ForceSaneParams(g) = f
  BY DEF ForceSaneParams, EnforceOrderedPeaksLocal, h
<1> HIDE DEF fit, peak
<1>10. f \in IntGroups
  BY <1>8 DEF IntGroups, Sets
<1>11. Ordered(f)
  BY <1>4, <1>8 DEF Ordered, Apart, Sets
<1>12. Meeting(f)
  <2>1. \A i \in Sets : /\ fit(i).a \in Int /\ fit(i).c \in Int
                        /\ fit(i).a <= g[i].a /\ g[i].c <= fit(i).c
    BY <1>1, <1>3, <1>6, <1>8 DEF IntTriples, Triples
  <2> QED
    BY <1>1, <2>1 DEF Meeting, Sets
<1>13. IsSaneParams(f) <=> IsSaneParams(g)
  <2>1. f[3].b = peak[3]
    BY <1>8 DEF Sets
  <2> QED
    BY <1>5, <1>10, <1>11, <2>1, SaneBelowTheTop
<1> QED
  BY <1>9, <1>10, <1>11, <1>12, <1>13

-----------------------------------------------------------------------------
\* What holds of a group at each stage.
RepairInv ==
    /\ group \in IntGroups
    /\ stage \in {"moved", "repaired", "forced"}
    /\ stage # "moved" => Ordered(group) /\ Meeting(group)
    /\ stage = "repaired" => Pushed(group)

\* At every stage the group is what the stage promises.
LEMMA RepairInvariant == Spec => []RepairInv
<1>1. Init => RepairInv
  <2> SUFFICES ASSUME Init PROVE RepairInv
    OBVIOUS
  <2>1. Triples(RawValues) \subseteq IntTriples
    BY RepairAssumption DEF Triples, IntTriples
  <2> QED
    BY <2>1 DEF Init, RepairInv, IntGroups
<1>2. RepairInv /\ [Next]_vars => RepairInv'
  <2> SUFFICES ASSUME RepairInv, [Next]_vars PROVE RepairInv'
    OBVIOUS
  <2>1. CASE Repair
    BY <2>1, RepairHolds DEF RepairInv, Repair
  <2>2. CASE ForceSaneSolution
    BY <2>2, ForceHolds DEF RepairInv, ForceSaneSolution
  <2>3. CASE UNCHANGED vars
    BY <2>3 DEF RepairInv, vars
  <2> QED
    BY <2>1, <2>2, <2>3 DEF Next
<1> QED
  BY <1>1, <1>2, PTL DEF Spec

\* After either repair the triples are in order and in range with room to the
\* left of every peak, and the peaks are a gap apart.
THEOREM RepairsOrder == Spec => []RepairedIsOrdered
<1>1. RepairInv => RepairedIsOrdered
  BY DEF RepairInv, RepairedIsOrdered
<1> QED
  BY <1>1, RepairInvariant, PTL

\* After either repair no value is outside all three sets but where two touch.
THEOREM RepairsLeaveNoDeadZone == Spec => []DeadOnlyWhereTheyTouch
<1>1. RepairInv => DeadOnlyWhereTheyTouch
  <2> SUFFICES ASSUME RepairInv, stage # "moved", NEW v \in 0..Hi
               PROVE  \/ InLow(group[1], v) \/ InMedium(group[2], v)
                      \/ InHigh(group[3], v)
                      \/ v = group[1].c /\ v = group[2].a
                      \/ v = group[2].c /\ v = group[3].a
    BY DEF DeadOnlyWhereTheyTouch
  <2>1. \A i \in Sets : /\ group[i].a \in Int /\ group[i].b \in Int
                        /\ group[i].c \in Int
    BY DEF RepairInv, IntGroups, IntTriples, Triples, Sets
  <2>2. Meeting(group)
    BY DEF RepairInv
  <2> QED
    BY <2>1, <2>2, RepairAssumption
       DEF Meeting, InLow, InMedium, InHigh, Sets
<1> QED
  BY <1>1, RepairInvariant, PTL

\* The trainer's last resort never makes a candidate sane.
THEOREM LastResortIsNone == Spec => ForcingChangesNoVerdict
<1>1. RepairInv /\ [Next]_vars =>
        [stage = "repaired" => (IsSaneParams(group)' <=> IsSaneParams(group))]_vars
  <2> SUFFICES ASSUME RepairInv, Next, stage = "repaired"
               PROVE  IsSaneParams(group)' <=> IsSaneParams(group)
    BY DEF vars
  <2>1. group' = ForceSaneParams(group)
    BY DEF Next, Repair, ForceSaneSolution
  <2> QED
    BY <2>1, ForceHolds DEF RepairInv
<1> QED
  BY <1>1, RepairInvariant, PTL DEF Spec, ForcingChangesNoVerdict
=============================================================================
