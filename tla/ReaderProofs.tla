---------------------------- MODULE ReaderProofs ----------------------------
(***************************************************************************)
(* Proofs about DatasetReader: what the trainer reads of the worker's file *)
(* is what was sent, for any nodes, any capacities and any way a failed    *)
(* write may cut a line.                                                   *)
(***************************************************************************)
EXTENDS DatasetReader, WorkerProofs

(***************************************************************************)
(* Part 1: the cells of the rows                                           *)
(***************************************************************************)

\* What the trainer reads of a line, if it reads it.
CellsOf(n) == [line \in Written |-> IF line.of = "row" THEN line.cells[n] ELSE 0]

\* The cells of a line are natural numbers.
LEMMA CellsTyped ==
  ASSUME NEW n \in Nodes
  PROVE  CellsOf(n) \in [Written -> Nat]
  <1>1. \A line \in Written : line.cells[n] \in Nat
    BY DEF Written, Lines
  <1>2. QED
    BY <1>1 DEF CellsOf

\* Appending a line adds no more than its cells: of a torn line and what is
\* glued to it the trainer reads the one or the other, or neither.
LEMMA CellsAppended ==
  ASSUME NEW f \in Seq(Written), NEW line \in Written, NEW n \in Nodes
  PROVE  Tally(AppendLine(f, line), CellsOf(n)) <= Tally(f, CellsOf(n)) + CellsOf(n)[line]
  <1> DEFINE v == CellsOf(n)
             g == AppendLine(f, line)
  <1>1. v \in [Written -> Nat]
    BY CellsTyped
  <1>2. Tally(f, v) \in Nat /\ v[line] \in Nat
    BY <1>1, TallyTyped
  <1>3. ASSUME g = Append(f, line)
        PROVE  Tally(g, v) <= Tally(f, v) + v[line]
    <2> HIDE DEF v, g
    <2>1. Tally(g, v) = Tally(f, v) + v[line]
      BY <1>1, <1>3, TallyAppended
    <2>2. QED
      BY <1>2, <2>1
  <1>4. ASSUME f # <<>>, Last(f) \in Written, Last(f) = f[Len(f)],
               Front(f) \in Seq(Written), Len(f) = Len(Front(f)) + 1,
               \A i \in 1..Len(Front(f)) : Front(f)[i] = f[i],
               Glued(Last(f), line) \in Written,
               g = Append(Front(f), Glued(Last(f), line))
        PROVE  Tally(g, v) <= Tally(f, v) + v[line]
    <2> DEFINE t == Last(f)
               l == Glued(t, line)
               fr == Front(f)
    <2>0. /\ t \in Written /\ l \in Written /\ fr \in Seq(Written)
          /\ t = f[Len(f)] /\ Len(f) = Len(fr) + 1 /\ Len(fr) <= Len(f)
          /\ \A i \in 1..Len(fr) : fr[i] = f[i]
          /\ g = Append(fr, l)
      BY <1>4
    <2>1. v[l] <= v[t] + v[line] /\ v[l] \in Nat /\ v[t] \in Nat
      <3>1. /\ v[l] = IF l.of = "row" THEN l.cells[n] ELSE 0
            /\ v[t] = IF t.of = "row" THEN t.cells[n] ELSE 0
            /\ v[line] = IF line.of = "row" THEN line.cells[n] ELSE 0
        BY <2>0 DEF CellsOf
      <3>2. \/ l.of = line.of /\ l.cells = line.cells
            \/ l.of = t.of /\ l.cells = t.cells
            \/ l.of = "mixed"
        BY DEF Glued
      <3>3. v[l] = v[line] \/ v[l] = v[t] \/ v[l] = 0
        <4> HIDE DEF l, t
        <4>1. QED
          BY <3>1, <3>2
      <3>4. v[l] \in Nat /\ v[t] \in Nat
        BY <1>1, <2>0
      <3> HIDE DEF v, l, t
      <3>5. QED
        BY <1>2, <3>3, <3>4
    <2> HIDE DEF v, g, t, l, fr
    <2>2. Tally(f, v) = Tally(fr, v) + v[t]
      BY <1>1, <2>0, TallyOfLonger
    <2>3. Tally(g, v) = Tally(fr, v) + v[l]
      BY <1>1, <2>0, TallyAppended
    <2>4. Tally(fr, v) \in Nat
      BY <1>1, <2>0, TallyTyped
    <2>5. QED
      BY <1>2, <2>1, <2>2, <2>3, <2>4
  <1>5. QED
    BY <1>3, <1>4, AppendedParts

\* A failed write may leave as much, a torn line with all the cells.
LEMMA CellsWritten ==
  ASSUME NEW f \in Seq(Written), NEW line \in Written, NEW n \in Nodes,
         NEW g \in FailedAppends(f, line) \cup {AppendLine(f, line)}
  PROVE  Tally(g, CellsOf(n)) <= Tally(f, CellsOf(n)) + CellsOf(n)[line]
  <1>1. CellsOf(n) \in [Written -> Nat]
    BY CellsTyped
  <1>2. Tally(f, CellsOf(n)) \in Nat /\ CellsOf(n)[line] \in Nat
    BY <1>1, TallyTyped
  <1>3. CASE g = f
    BY <1>2, <1>3
  <1>4. CASE g = AppendLine(f, line)
    BY <1>4, CellsAppended
  <1>5. ASSUME NEW cut \in Cuts, g = AppendLine(f, Torn(line, cut))
        PROVE  Tally(g, CellsOf(n)) <= Tally(f, CellsOf(n)) + CellsOf(n)[line]
    <2>1. Torn(line, cut) \in Written
      BY TornLines
    <2>2. CellsOf(n)[Torn(line, cut)] = CellsOf(n)[line]
      <3>1. Torn(line, cut).of = line.of /\ Torn(line, cut).cells = line.cells
        BY DEF Torn
      <3>2. QED
        BY <2>1, <3>1 DEF CellsOf
    <2>3. QED
      BY <1>5, <2>1, <2>2, CellsAppended
  <1>6. QED
    BY <1>3, <1>4, <1>5 DEF FailedAppends

(***************************************************************************)
(* Until a Sync fails the rows hold no more than was sent.  The window is  *)
(* in a row already, perhaps a torn one, when it has been written or the   *)
(* write has failed.                                                       *)
(***************************************************************************)
Unwritten(n) == IF stage = "sync" \/ werr THEN 0 ELSE req[n]

CellsInv ==
    ~syncFailed => \A n \in Nodes :
        Tally(file, CellsOf(n)) + Queued(decisionC, n) + Unwritten(n) <= accepted[n]

\* Every step keeps the cells of the file within what the channel accepted.
LEMMA CellsInductive ==
  Types /\ MoreTypes /\ CountInv /\ CellsInv /\ [Next]_vars => CellsInv'
  <1> SUFFICES ASSUME Types, MoreTypes, CountInv, CellsInv, [Next]_vars,
                      ~syncFailed', NEW n \in Nodes
               PROVE  Tally(file', CellsOf(n)) + Queued(decisionC', n) + Unwritten(n)'
                        <= accepted'[n]
    BY DEF CellsInv
  <1> USE DEF bufferVars, aggVars, fileVars, history, bounds
  <1> DEFINE a == accepted[n]
             q == Queued(decisionC, n)
             w == req[n]
             a2 == accepted'[n]
             q2 == Queued(decisionC', n)
             w2 == req'[n]
             c == Tally(file, CellsOf(n))
             c2 == Tally(file', CellsOf(n))
             u == Unwritten(n)
             u2 == Unwritten(n)'
  <1>t. Types' /\ MoreTypes'
    BY TypesInductive, MoreTypesInductive
  <1>0. /\ a \in Nat /\ q \in Nat /\ w \in Nat
        /\ a2 \in Nat /\ q2 \in Nat /\ w2 \in Nat
    BY <1>t, QueuedTyped DEF Types, MoreTypes
  <1>f. file \in Seq(Written) /\ file' \in Seq(Written)
    BY <1>t DEF Types
  <1>v. CellsOf(n) \in [Written -> Nat]
    BY CellsTyped
  <1>c. c \in Nat /\ c2 \in Nat
    BY <1>f, <1>v, TallyTyped
  <1>u. /\ u = IF stage = "sync" \/ werr THEN 0 ELSE w
        /\ u2 = IF stage' = "sync" \/ werr' THEN 0 ELSE w2
        /\ u \in Nat /\ u2 \in Nat
    <2>1. /\ u = IF stage = "sync" \/ werr THEN 0 ELSE w
          /\ u2 = IF stage' = "sync" \/ werr' THEN 0 ELSE w2
      BY DEF Unwritten
    <2> HIDE DEF u, u2, w, w2
    <2>2. QED
      BY <1>0, <2>1
  <1>i. ~syncFailed => c + q + u <= a
    BY DEF CellsInv
  <1> SUFFICES c2 + q2 + u2 <= a2
    OBVIOUS
  <1>1. CASE Moves
    <2> DEFINE l == lost[n]
               l2 == lost'[n]
    <2>1. /\ \A m \in Nodes : Balanced(m)
          /\ UNCHANGED <<stage, syncFailed, werr, file>>
      BY <1>1, MovesBalance DEF CountInv
    <2>2. /\ a2 + q + w + l = a + q2 + w2 + l2
          /\ stage = "sync" => w2 = w
          /\ l2 >= l /\ w2 >= w
      BY <2>1 DEF Balanced
    <2>3. l \in Nat /\ l2 \in Nat
      BY <1>t DEF MoreTypes
    <2>4. c2 = c /\ c + q + u <= a
      BY <1>i, <2>1
    <2>5. \/ u = 0 /\ u2 = 0
          \/ u = w /\ u2 = w2
      <3> HIDE DEF u, u2, w, w2
      <3>1. QED
        BY <1>u, <2>1
    <2> HIDE DEF a, q, w, a2, q2, w2, c, c2, u, u2, l, l2
    <2>6. CASE u = 0 /\ u2 = 0
      BY <1>0, <1>c, <2>2, <2>3, <2>4, <2>6
    <2>7. CASE u = w /\ u2 = w2
      BY <1>0, <1>c, <2>2, <2>3, <2>4, <2>7
    <2>8. QED
      BY <2>5, <2>6, <2>7
  <1>2. CASE WriteHeader
    <2>1. /\ file' \in FailedAppends(file, Header) \cup {AppendLine(file, Header)}
          /\ UNCHANGED <<stage, decisionC, req, accepted, syncFailed, werr>>
      BY <1>2 DEF WriteHeader
    <2>2. Header \in Written /\ Header.of = "header"
      BY WholeLines DEF Types, Header, Line
    <2>3. CellsOf(n)[Header] = 0
      BY <2>2 DEF CellsOf
    <2>4. c2 <= c + 0
      BY <1>f, <2>1, <2>2, <2>3, CellsWritten
    <2>5. a2 = a /\ q2 = q /\ u2 = u
      BY <2>1 DEF Unwritten
    <2>6. c + q + u <= a
      BY <1>i, <2>1
    <2> HIDE DEF a, q, w, a2, q2, w2, c, c2, u, u2
    <2>7. QED
      BY <1>0, <1>c, <1>u, <2>4, <2>5, <2>6
  <1>3. CASE WriteRow
    <2>1. /\ \/ /\ ~werr /\ (stage' = "sync" \/ werr')
                /\ file' \in FailedAppends(file, Row) \cup {AppendLine(file, Row)}
             \/ file' = file /\ stage' = stage /\ (werr' <=> werr)
          /\ stage = "select"
          /\ UNCHANGED <<decisionC, req, accepted, syncFailed>>
      <3>1. /\ Selecting /\ UNCHANGED <<mode, bufferVars, aggVars, history>>
            /\ \/ ~werr /\ file' = AppendLine(file, Row) /\ stage' = "sync"
               \/ ~werr /\ file' \in FailedAppends(file, Row) /\ werr' = TRUE
               \/ werr /\ UNCHANGED <<file, stage, werr, failures>>
        BY <1>3 DEF WriteRow
      <3>2. werr' = TRUE => werr'
        OBVIOUS
      <3>3. UNCHANGED <<file, stage, werr, failures>> =>
              file' = file /\ stage' = stage /\ (werr' <=> werr)
        OBVIOUS
      <3>4. stage = "select" /\ UNCHANGED <<decisionC, req, accepted, syncFailed>>
        BY <3>1 DEF Selecting
      <3>5. QED
        BY <3>1, <3>2, <3>3, <3>4
    <2>2. Row \in Written /\ Row.of = "row" /\ Row.cells = req
      BY WholeLines DEF Types, Row, Line
    <2>3. a2 = a /\ q2 = q /\ w2 = w
      BY <2>1
    <2>4. c + q + u <= a
      BY <1>i, <2>1
    <2>5. ASSUME ~werr, stage' = "sync" \/ werr',
                 file' \in FailedAppends(file, Row) \cup {AppendLine(file, Row)}
          PROVE  c2 + q2 + u2 <= a2
      <3>1. CellsOf(n)[Row] = w
        BY <2>2 DEF CellsOf
      <3>2. c2 <= c + w
        BY <1>f, <2>2, <2>5, <3>1, CellsWritten
      <3>3. u = w /\ u2 = 0
        <4> HIDE DEF u, u2, w, w2
        <4>1. QED
          BY <1>u, <2>1, <2>5
      <3> HIDE DEF a, q, w, a2, q2, w2, c, c2, u, u2
      <3>4. QED
        BY <1>0, <1>c, <2>3, <2>4, <3>2, <3>3
    <2>6. ASSUME file' = file, stage' = stage, werr' <=> werr
          PROVE  c2 + q2 + u2 <= a2
      <3>1. c2 = c /\ u2 = u
        <4>1. c2 = c
          BY <2>6
        <4>2. u2 = u
          <5> HIDE DEF u, u2, w, w2
          <5>1. QED
            BY <1>u, <2>3, <2>6
        <4>3. QED
          BY <4>1, <4>2
      <3> HIDE DEF a, q, w, a2, q2, w2, c, c2, u, u2
      <3>2. QED
        BY <2>3, <2>4, <3>1
    <2>7. QED
      BY <2>1, <2>5, <2>6
  <1>4. CASE SyncRow
    <2>1. /\ UNCHANGED <<file, decisionC, accepted>> /\ stage = "sync"
          /\ req' = Zero /\ (syncFailed' <=> syncFailed)
      <3>1. /\ UNCHANGED <<file, decisionC, accepted>> /\ stage = "sync"
            /\ \/ req' = Zero /\ UNCHANGED <<syncFailed, failures>>
               \/ syncFailed' = TRUE
        BY <1>4, Zenon DEF SyncRow
      <3>2. syncFailed' # TRUE
        OBVIOUS
      <3>3. UNCHANGED <<syncFailed, failures>> => (syncFailed' <=> syncFailed)
        OBVIOUS
      <3>4. QED
        BY <3>1, <3>2, <3>3
    <2>2. c2 = c /\ q2 = q /\ a2 = a /\ w2 = 0
      BY <2>1 DEF Zero
    <2>3. c + q + u <= a
      BY <1>i, <2>1
    <2>4. u = 0 /\ u2 = 0
      <3> HIDE DEF u, u2, w, w2
      <3>1. QED
        BY <1>u, <2>1, <2>2
    <2> HIDE DEF a, q, w, a2, q2, w2, c, c2, u, u2
    <2>5. QED
      BY <2>2, <2>3, <2>4
  <1>5. CASE Crash \/ PowerLoss
    <2>1. /\ decisionC' = <<>> /\ req' = Zero /\ UNCHANGED <<accepted, syncFailed>>
      BY <1>5 DEF Crash, PowerLoss, LoseMemory
    <2>2. q2 = 0 /\ w2 = 0 /\ a2 = a
      BY <2>1, NothingQueued DEF Zero
    <2>3. u2 = 0
      <3> HIDE DEF u, u2, w, w2
      <3>1. QED
        BY <1>u, <2>2
    <2>4. c + q + u <= a
      BY <1>i, <2>1
    <2>5. c2 <= c
      <3>1. CASE Crash
        <4>1. file' = file
          BY <3>1 DEF Crash
        <4>2. c2 = c
          BY <4>1
        <4> HIDE DEF c, c2
        <4>3. QED
          BY <1>c, <4>2
      <3>2. CASE PowerLoss
        <4>1. PICK k \in 0..Len(file) :
                \/ file' = SubSeq(file, 1, k)
                \/ /\ k < Len(file) /\ file[k + 1] \in Written
                   /\ \E cut \in Cuts :
                        file' = AppendLine(SubSeq(file, 1, k), Torn(file[k + 1], cut))
          BY <3>2, AfterPowerLoss
        <4> DEFINE kept == SubSeq(file, 1, k)
                   v == CellsOf(n)
        <4>2. /\ kept \in Seq(Written) /\ Len(kept) = k /\ Len(kept) <= Len(file)
              /\ \A i \in 1..Len(kept) : kept[i] = file[i]
          BY <1>f, Prefix
        <4>3. CASE file' = kept
          <5> HIDE DEF kept, v
          <5>1. Tally(kept, CellsOf(n)) <= Tally(file, CellsOf(n))
            BY <1>f, <1>v, <4>2, TallyOfLonger
          <5>2. QED
            BY <4>3, <5>1
        <4>4. CASE file' # kept
          <5>1. /\ k < Len(file) /\ file[k + 1] \in Written
                /\ file' \in FailedAppends(kept, file[k + 1])
            BY <4>1, <4>4 DEF FailedAppends
          <5> HIDE DEF kept, v
          <5>2. Tally(file', CellsOf(n)) <= Tally(kept, CellsOf(n)) + CellsOf(n)[file[k + 1]]
            BY <4>2, <5>1, CellsWritten
          <5>3. Tally(kept, CellsOf(n)) + CellsOf(n)[file[k + 1]] <= Tally(file, CellsOf(n))
            BY <1>f, <1>v, <4>2, <5>1, TallyOfLonger
          <5>4. Tally(kept, CellsOf(n)) \in Nat /\ CellsOf(n)[file[k + 1]] \in Nat
            BY <1>v, <4>2, <5>1, TallyTyped
          <5>5. QED
            BY <1>c, <5>2, <5>3, <5>4
        <4>5. QED
          BY <4>3, <4>4
      <3>3. QED
        BY <1>5, <3>1, <3>2
    <2> HIDE DEF a, q, w, a2, q2, w2, c, c2, u, u2
    <2>6. QED
      BY <1>0, <1>c, <1>u, <2>2, <2>3, <2>4, <2>5
  <1>6. CASE ClearDataset
    <2>1. file' = <<>> /\ UNCHANGED <<stage, decisionC, req, accepted, syncFailed, werr>>
      BY <1>6 DEF ClearDataset
    <2>2. c2 = 0
      BY <2>1, TallyOfNone
    <2>3. a2 = a /\ q2 = q /\ u2 = u
      BY <2>1 DEF Unwritten
    <2>4. c + q + u <= a
      BY <1>i, <2>1
    <2> HIDE DEF a, q, w, a2, q2, w2, c, c2, u, u2
    <2>5. QED
      BY <1>0, <1>c, <1>u, <2>2, <2>3, <2>4
  <1>7. QED
    BY <1>1, <1>2, <1>3, <1>4, <1>5, <1>6 DEF Next, Moves

(***************************************************************************)
(* Part 2: whole lines                                                     *)
(***************************************************************************)
\* What a whole line is: a header, and then it is the first line, or a row.
WholeLine(line, first) ==
    /\ line.width = Columns /\ line.cells = line.req
    /\ line.of = "row" \/ (line.of = "header" /\ first)

WellFormed(f) == \A i \in DOMAIN f : f[i].kind = "whole" => WholeLine(f[i], i = 1)

\* A file begins with a header, unless it was emptied under the worker.
WholeInv ==
    /\ WellFormed(file)
    /\ clears = 0 =>
          /\ file # <<>> /\ file[1].kind = "whole" => file[1].of = "header"
          /\ mode = "recording" => file # <<>>

\* A line that is whole after an append was there, or is the one appended, and
\* then stands after all that was there.
LEMMA WholeAppended ==
  ASSUME NEW f \in Seq(Written), NEW line \in Written, NEW i \in DOMAIN AppendLine(f, line),
         AppendLine(f, line)[i].kind = "whole"
  PROVE  \/ i \in DOMAIN f /\ AppendLine(f, line)[i] = f[i]
         \/ i = Len(f) + 1 /\ AppendLine(f, line)[i] = line
  <1> DEFINE g == AppendLine(f, line)
  <1>i. i \in DOMAIN g /\ g[i].kind = "whole"
    OBVIOUS
  <1>1. CASE g = Append(f, line)
    <2>1. i \in 1..Len(f) \/ i = Len(f) + 1
      BY <1>1
    <2>2. i \in 1..Len(f) => i \in DOMAIN f /\ Append(f, line)[i] = f[i]
      OBVIOUS
    <2>3. Append(f, line)[Len(f) + 1] = line
      OBVIOUS
    <2>4. QED
      BY <1>1, <2>1, <2>2, <2>3
  <1>2. ASSUME f # <<>>, Last(f) \in Written,
               Front(f) \in Seq(Written), Len(f) = Len(Front(f)) + 1,
               \A j \in 1..Len(Front(f)) : Front(f)[j] = f[j],
               Glued(Last(f), line) \in Written,
               g = Append(Front(f), Glued(Last(f), line))
        PROVE  i \in DOMAIN f /\ g[i] = f[i]
    <2> DEFINE l == Glued(Last(f), line)
               fr == Front(f)
    <2>1. l.kind # "whole"
      BY DEF Glued
    <2>2. /\ fr \in Seq(Written) /\ Len(f) = Len(fr) + 1
          /\ \A j \in 1..Len(fr) : fr[j] = f[j]
          /\ l \in Written /\ g = Append(fr, l)
      BY <1>2
    <2> HIDE DEF g, l, fr
    <2>3. /\ Len(fr) \in Nat /\ DOMAIN g = 1..(Len(fr) + 1) /\ g[Len(fr) + 1] = l
          /\ \A j \in 1..Len(fr) : g[j] = fr[j]
      BY <2>2
    <2>4. i \in 1..Len(fr)
      BY <1>i, <2>1, <2>3
    <2>5. i \in DOMAIN f
      BY <2>2, <2>3, <2>4
    <2>6. QED
      BY <2>2, <2>3, <2>4, <2>5
  <1>3. QED
    BY <1>1, <1>2, AppendedParts

\* A write leaves the whole lines well formed.
LEMMA WellFormedWritten ==
  ASSUME NEW f \in Seq(Written), WellFormed(f), NEW line \in Written,
         line.kind = "whole", WholeLine(line, f = <<>>),
         NEW g \in FailedAppends(f, line) \cup {AppendLine(f, line)}
  PROVE  /\ WellFormed(g)
         /\ f # <<>> /\ g # <<>> /\ g[1].kind = "whole" => f[1].kind = "whole" /\ g[1] = f[1]
         /\ f = <<>> /\ g # <<>> /\ g[1].kind = "whole" => g[1] = line
         /\ g # <<>> \/ g = f
  <1>1. CASE g = f
    BY <1>1
  <1>2. ASSUME NEW l \in Written, l = line \/ l.kind # "whole", g = AppendLine(f, l)
        PROVE  /\ WellFormed(g)
               /\ f # <<>> /\ g # <<>> /\ g[1].kind = "whole" =>
                     f[1].kind = "whole" /\ g[1] = f[1]
               /\ f = <<>> /\ g # <<>> /\ g[1].kind = "whole" => g[1] = line
               /\ g # <<>> \/ g = f
    <2>0. g \in Seq(Written) /\ Len(g) > 0
      BY <1>2, Appending
    <2>1. \A i \in DOMAIN g : g[i].kind = "whole" =>
             \/ i \in DOMAIN f /\ g[i] = f[i]
             \/ i = Len(f) + 1 /\ g[i] = l
      BY <1>2, WholeAppended
    <2>2. ASSUME NEW i \in DOMAIN g, g[i].kind = "whole"
          PROVE  WholeLine(g[i], i = 1)
      <3>1. CASE i \in DOMAIN f /\ g[i] = f[i]
        BY <2>2, <3>1 DEF WellFormed
      <3>2. CASE i = Len(f) + 1 /\ g[i] = l
        <4>1. l = line
          BY <1>2, <2>2, <3>2
        <4>2. f = <<>> => i = 1
          BY <3>2
        <4>3. QED
          BY <3>2, <4>1, <4>2 DEF WholeLine
      <3>3. QED
        BY <2>1, <2>2, <3>1, <3>2
    <2>3. ASSUME g[1].kind = "whole"
          PROVE  /\ f # <<>> => f[1].kind = "whole" /\ g[1] = f[1]
                 /\ f = <<>> => g[1] = line
      <3>1. 1 \in DOMAIN g
        BY <2>0
      <3>2. CASE 1 \in DOMAIN f /\ g[1] = f[1]
        BY <2>3, <3>2
      <3>3. CASE 1 = Len(f) + 1 /\ g[1] = l
        <4>1. f = <<>> /\ l = line
          BY <1>2, <2>3, <3>3
        <4>2. QED
          BY <3>3, <4>1
      <3>4. QED
        BY <2>1, <2>3, <3>1, <3>2, <3>3
    <2>4. g # <<>>
      BY <2>0
    <2>5. QED
      BY <2>2, <2>3, <2>4 DEF WellFormed
  <1>3. ASSUME NEW cut \in Cuts, g = AppendLine(f, Torn(line, cut))
        PROVE  \E l \in Written : l.kind # "whole" /\ g = AppendLine(f, l)
    <2>1. Torn(line, cut) \in Written /\ Torn(line, cut).kind # "whole"
      BY TornLines DEF Torn
    <2>2. QED
      BY <1>3, <2>1
  <1>4. QED
    BY <1>1, <1>2, <1>3 DEF FailedAppends

\* Every step keeps the lines well formed.
LEMMA WholeInductive ==
  Types /\ MoreTypes /\ CountInv /\ WholeInv /\ [Next]_vars => WholeInv'
  <1> SUFFICES ASSUME Types, MoreTypes, CountInv, WholeInv, [Next]_vars
               PROVE  WholeInv'
    OBVIOUS
  <1> USE DEF bufferVars, aggVars, fileVars, history, bounds
  <1>f. file \in Seq(Written) /\ WellFormed(file)
    BY DEF Types, WholeInv
  <1>1. CASE Moves
    <2>1. file' = file /\ clears' = clears /\ (mode' = "recording" => mode = "recording" \/ file # <<>>)
      <3>1. CASE \E n \in Nodes : SendDecision(n) \/ \E ms \in Latencies : SendSample(n, ms)
        BY <3>1 DEF SendDecision, SendSample
      <3>2. CASE StartDraining \/ OpenExisting
        BY <3>2 DEF StartDraining, OpenExisting
      <3>3. CASE AccumulateSnapshot \/ AccumulateResponseSample
        BY <3>3 DEF AccumulateSnapshot, AccumulateResponseSample
      <3>4. CASE DrainSnapshot \/ DrainSample \/ Tick \/ UNCHANGED vars
        BY <3>4 DEF DrainSnapshot, DrainSample, Tick, vars
      <3>5. QED
        BY <1>1, <3>1, <3>2, <3>3, <3>4 DEF Moves
    <2>2. QED
      BY <2>1 DEF WholeInv
  <1>2. CASE WriteHeader
    <2>1. /\ file = <<>> /\ clears' = clears
          /\ file' \in FailedAppends(file, Header) \cup {AppendLine(file, Header)}
          /\ mode' = "recording" => file' = AppendLine(file, Header)
      BY <1>2 DEF WriteHeader
    <2>2. Header \in Written /\ Header.of = "header" /\ Header.kind = "whole"
      BY WholeLines DEF Types, Header, Line
    <2>3. WholeLine(Header, file = <<>>)
      BY <2>1 DEF WholeLine, Header, Line
    <2>4. /\ WellFormed(file')
          /\ file' # <<>> /\ file'[1].kind = "whole" => file'[1] = Header
      BY <1>f, <2>1, <2>2, <2>3, WellFormedWritten
    <2>5. mode' = "recording" => file' # <<>>
      <3>1. AppendLine(file, Header) # <<>>
        BY <1>f, <2>2, Appending
      <3>2. QED
        BY <2>1, <3>1
    <2>6. QED
      BY <2>2, <2>4, <2>5 DEF WholeInv
  <1>3. CASE WriteRow
    <2>1. /\ \/ file' = file
             \/ file' \in FailedAppends(file, Row) \cup {AppendLine(file, Row)}
          /\ mode = "recording" /\ mode' = mode /\ clears' = clears
      BY <1>3 DEF WriteRow, Selecting
    <2>2. CASE file' = file
      BY <2>1, <2>2 DEF WholeInv
    <2>3. CASE file' \in FailedAppends(file, Row) \cup {AppendLine(file, Row)}
      <3>1. Row \in Written /\ Row.kind = "whole"
        BY WholeLines DEF Types
      <3>2. WholeLine(Row, file = <<>>)
        BY DEF WholeLine, Row, Line
      <3>3. /\ WellFormed(file')
            /\ file # <<>> /\ file' # <<>> /\ file'[1].kind = "whole" =>
                  file[1].kind = "whole" /\ file'[1] = file[1]
            /\ file' # <<>> \/ file' = file
        BY <1>f, <2>3, <3>1, <3>2, WellFormedWritten
      <3>4. QED
        BY <2>1, <3>3 DEF WholeInv
    <2>4. QED
      BY <2>1, <2>2, <2>3
  <1>4. CASE SyncRow \/ Crash
    <2>1. file' = file /\ clears' = clears /\ (mode' = "recording" => mode' = mode)
      BY <1>4 DEF SyncRow, Crash, LoseMemory
    <2>2. QED
      BY <2>1 DEF WholeInv
  <1>5. CASE PowerLoss
    <2>1. mode' = "starting" /\ clears' = clears
      BY <1>5 DEF PowerLoss, LoseMemory
    <2>2. PICK k \in 0..Len(file) :
            \/ file' = SubSeq(file, 1, k)
            \/ /\ k < Len(file) /\ file[k + 1] \in Written
               /\ \E cut \in Cuts :
                    file' = AppendLine(SubSeq(file, 1, k), Torn(file[k + 1], cut))
      BY <1>5, AfterPowerLoss
    <2> DEFINE kept == SubSeq(file, 1, k)
    <2>3. /\ kept \in Seq(Written) /\ Len(kept) = k /\ \A i \in 1..k : kept[i] = file[i]
          /\ \A i \in DOMAIN kept : i \in DOMAIN file /\ kept[i] = file[i]
      <3>1. kept \in Seq(Written) /\ Len(kept) = k /\ \A i \in 1..k : kept[i] = file[i]
        BY <1>f, Prefix
      <3> HIDE DEF kept
      <3>2. QED
        BY <1>f, <3>1
    <2> HIDE DEF kept
    <2>4. \A i \in DOMAIN file' : file'[i].kind = "whole" => i \in DOMAIN file /\ file'[i] = file[i]
      <3>1. CASE file' = kept
        BY <2>3, <3>1
      <3>2. ASSUME NEW cut \in Cuts, k < Len(file), file[k + 1] \in Written,
                   file' = AppendLine(kept, Torn(file[k + 1], cut)),
                   NEW i \in DOMAIN file', file'[i].kind = "whole"
            PROVE  i \in DOMAIN file /\ file'[i] = file[i]
        <4>1. Torn(file[k + 1], cut) \in Written /\ Torn(file[k + 1], cut).kind # "whole"
          BY <3>2, TornLines DEF Torn
        <4>2. i \in DOMAIN kept /\ file'[i] = kept[i]
          BY <2>3, <3>2, <4>1, WholeAppended
        <4>3. QED
          BY <2>3, <4>2
      <3>3. QED
        BY <2>2, <3>1, <3>2 DEF kept
    <2>5. WellFormed(file')
      BY <1>f, <2>4 DEF WellFormed
    <2>6. ASSUME file' # <<>>, file'[1].kind = "whole"
          PROVE  file # <<>> /\ file'[1] = file[1]
      <3>1. file' \in Seq(Written)
        BY TypesInductive DEF Types
      <3>2. 1 \in DOMAIN file'
        BY <2>6, <3>1
      <3>3. 1 \in DOMAIN file /\ file'[1] = file[1]
        BY <2>4, <2>6, <3>2
      <3>4. QED
        BY <3>3
    <2>7. QED
      BY <2>1, <2>5, <2>6 DEF WholeInv
  <1>6. CASE ClearDataset
    <2>1. file' = <<>> /\ clears' = clears + 1 /\ clears \in Nat
      BY <1>6 DEF ClearDataset, MoreTypes
    <2>2. clears' # 0 /\ WellFormed(file')
      BY <2>1 DEF WellFormed
    <2>3. QED
      BY <2>2 DEF WholeInv
  <1>7. QED
    BY <1>1, <1>2, <1>3, <1>4, <1>5, <1>6 DEF Next, Moves

(***************************************************************************)
(* Part 3: what the trainer reads                                          *)
(***************************************************************************)
RowsOf(f) == {line \in Range(f) : line.of = "row"}

\* The requests in the cells of a list of rows are their tally.
LEMMA SamplesTally ==
  ASSUME NEW o \in Seq(Written), \A i \in DOMAIN o : o[i].of = "row", NEW n \in Nodes
  PROVE  /\ SumFor([i \in 1..Len(o) |-> o[i].cells], n) = Tally(o, CellsOf(n))
         /\ Tally(o, CellsOf(n)) \in Nat
  <1> DEFINE s == [i \in 1..Len(o) |-> o[i].cells]
  <1>1. \A i \in DOMAIN o : o[i] \in Written /\ CellsOf(n)[o[i]] = o[i].cells[n]
    BY DEF CellsOf
  <1>2. DOMAIN s = DOMAIN o /\ DOMAIN o = 1..Len(o)
    OBVIOUS
  <1>3. [i \in DOMAIN s |-> s[i][n]] = [i \in DOMAIN o |-> CellsOf(n)[o[i]]]
    BY <1>1, <1>2
  <1>4. QED
    <2>1. CellsOf(n) \in [Written -> Nat]
      BY CellsTyped
    <2>2. Tally(o, CellsOf(n)) \in Nat
      BY <2>1, TallyTyped
    <2>3. QED
      BY <1>3, <2>2 DEF SumFor, Tally

\* What is read of any file, and of its captured copy, is no more than the
\* cells of its rows.
LEMMA ReadNoMore ==
  ASSUME NEW f \in Seq(Written), NEW n \in Nodes
  PROVE  /\ SumFor(LoadOfflineSamples(f), n) \in 0..Tally(f, CellsOf(n))
         /\ SumFor(LoadOfflineSamples(Captured(f)), n) \in 0..Tally(f, CellsOf(n))
  <1>v. CellsOf(n) \in [Written -> Nat] /\ Tally(f, CellsOf(n)) \in Nat
    BY CellsTyped, TallyTyped
  <1>0. SumFor(<<>>, n) = 0
    <2> DEFINE c == [i \in DOMAIN <<>> |-> <<>>[i][n]]
    <2>1. DOMAIN c = {}
      OBVIOUS
    <2> HIDE DEF c
    <2>2. SumFunction(c) = 0
      BY <2>1, SumOfNone DEF SumFunction
    <2>3. QED
      BY <2>2 DEF SumFor, c
  <1>1. SumFor(LoadOfflineSamples(f), n) \in 0..Tally(f, CellsOf(n))
    <2>1. CASE LoadOfflineSamples(f) = <<>>
      BY <1>0, <1>v, <2>1
    <2>2. CASE LoadOfflineSamples(f) # <<>>
      <3>1. /\ f # <<>> /\ f[1].of = "header"
            /\ \A i \in 2..Len(f) : f[i].of = "row"
            /\ LoadOfflineSamples(f) = [i \in 1..(Len(f) - 1) |-> f[i + 1].cells]
        BY <2>2 DEF LoadOfflineSamples, Names, Parses
      <3> DEFINE o == Only(f, RowsOf(f))
      <3>2. f[1] \notin RowsOf(f) /\ \A i \in 2..Len(f) : f[i] \in RowsOf(f)
        BY <3>1 DEF RowsOf, Range
      <3>3. Len(o) = Len(f) - 1 /\ \A i \in 1..(Len(f) - 1) : o[i] = f[i + 1]
        BY <3>1, <3>2, OnlyDropsFirst
      <3>4. o \in Seq(Written \cap RowsOf(f)) /\ o \in Seq(Written)
        BY OnlyKeeps
      <3>5. Tally(o, CellsOf(n)) <= Tally(f, CellsOf(n))
        BY <1>v, TallyOfOnly
      <3> HIDE DEF o
      <3>6. \A i \in DOMAIN o : o[i].of = "row"
        BY <3>4 DEF RowsOf
      <3>7. LoadOfflineSamples(f) = [i \in 1..Len(o) |-> o[i].cells]
        BY <3>1, <3>3
      <3>8. /\ SumFor([i \in 1..Len(o) |-> o[i].cells], n) = Tally(o, CellsOf(n))
            /\ Tally(o, CellsOf(n)) \in Nat
        BY <3>4, <3>6, SamplesTally
      <3>9. Tally(o, CellsOf(n)) \in 0..Tally(f, CellsOf(n))
        BY <1>v, <3>5, <3>8
      <3>10. QED
        BY <3>7, <3>8, <3>9
    <2>3. QED
      BY <2>1, <2>2
  <1>2. SumFor(LoadOfflineSamples(Captured(f)), n) \in 0..Tally(f, CellsOf(n))
    <2> DEFINE S == {line \in Range(f) : ~IsHeader(line)}
               o == Only(f, S)
               g == Captured(f)
    <2>1. CASE LoadOfflineSamples(g) = <<>>
      BY <1>0, <1>v, <2>1
    <2>2. CASE LoadOfflineSamples(g) # <<>>
      <3>1. o \in Seq(Written) /\ g = <<Header>> \o o
        BY OnlyKeeps DEF Captured
      <3>5. Tally(o, CellsOf(n)) <= Tally(f, CellsOf(n))
        BY <1>v, TallyOfOnly
      <3>2. /\ \A i \in 2..Len(g) : g[i].of = "row"
            /\ LoadOfflineSamples(g) = [i \in 1..(Len(g) - 1) |-> g[i + 1].cells]
        BY <2>2 DEF LoadOfflineSamples, Names, Parses
      <3> HIDE DEF o, g
      <3>3. /\ Len(o) \in Nat /\ DOMAIN o = 1..Len(o)
            /\ Len(g) = Len(o) + 1 /\ \A i \in 1..Len(o) : g[i + 1] = o[i]
        BY <3>1
      <3>4. Len(g) - 1 = Len(o)
        BY <3>3
      <3>6. \A i \in DOMAIN o : o[i].of = "row"
        <4>1. \A i \in DOMAIN o : i + 1 \in 2..Len(g)
          BY <3>3
        <4>2. QED
          BY <3>2, <3>3, <4>1
      <3>7. LoadOfflineSamples(g) = [i \in 1..Len(o) |-> o[i].cells]
        BY <3>2, <3>3, <3>4
      <3>8. /\ SumFor([i \in 1..Len(o) |-> o[i].cells], n) = Tally(o, CellsOf(n))
            /\ Tally(o, CellsOf(n)) \in Nat
        BY <3>1, <3>6, SamplesTally
      <3>9. Tally(o, CellsOf(n)) \in 0..Tally(f, CellsOf(n))
        BY <1>v, <3>5, <3>8
      <3>10. QED
        BY <3>7, <3>8, <3>9 DEF g
    <2>3. QED
      BY <2>1, <2>2
  <1>3. QED
    BY <1>1, <1>2

\* A file of whole lines is read whole once it is captured; and as it is, if it
\* begins with a header.
LEMMA WholeFilesAreRead ==
  ASSUME NEW f \in Seq(Written), WellFormed(f), \A i \in DOMAIN f : f[i].kind = "whole"
  PROVE  /\ LoadOfflineSamples(Captured(f)) = Rows(f)
         /\ f = <<>> \/ f[1].of = "header" => LoadOfflineSamples(f) = Rows(f)
  <1> DEFINE o == Only(f, RowsOf(f))
  <1>1. /\ o \in Seq(Written) /\ o \in Seq(Written \cap RowsOf(f))
        /\ Len(o) \in Nat /\ DOMAIN o = 1..Len(o)
    <2>1. o \in Seq(Written) /\ o \in Seq(Written \cap RowsOf(f))
      BY OnlyKeeps
    <2> HIDE DEF o
    <2>2. QED
      BY <2>1
  <1>2. \A i \in DOMAIN f : WholeLine(f[i], i = 1)
    BY DEF WellFormed
  <1>3. \A i \in DOMAIN o : o[i].of = "row" /\ o[i].width = Columns /\ o[i].cells = o[i].req
    <2>1. \A i \in DOMAIN o : o[i] \in RowsOf(f)
      <3> HIDE DEF o
      <3>1. QED
        BY <1>1
    <2>2. \A line \in RowsOf(f) :
            line.of = "row" /\ line.width = Columns /\ line.cells = line.req
      BY <1>2 DEF RowsOf, Range, WholeLine
    <2>3. QED
      BY <2>1, <2>2
  <1>4. Rows(f) = [i \in 1..Len(o) |-> o[i].req]
    <2>1. Rows(f) = [i \in DOMAIN o |-> o[i].req]
      BY DEF Rows, RowsOf
    <2>2. QED
      BY <1>1, <2>1
  <1>5. [i \in 1..Len(o) |-> o[i].cells] = [i \in 1..Len(o) |-> o[i].req]
    <2> HIDE DEF o
    <2>1. QED
      BY <1>1, <1>3
  <1>6. LoadOfflineSamples(Captured(f)) = Rows(f)
    <2> DEFINE g == <<Header>> \o o
    <2>1. Captured(f) = g
      <3>1. {line \in Range(f) : ~IsHeader(line)} = RowsOf(f)
        <4>1. \A line \in Range(f) : IsHeader(line) <=> line.of # "row"
          BY <1>2 DEF Range, WholeLine, IsHeader
        <4>2. QED
          BY <4>1 DEF RowsOf
      <3>2. QED
        BY <3>1 DEF Captured
    <2> HIDE DEF o
    <2>2. Header \in Written /\ Header.of = "header" /\ Header.width = Columns
      BY DEF Header, Line, Written, Lines, Columns, Zero
    <2>3. /\ g # <<>> /\ g[1] = Header /\ Len(g) = Len(o) + 1
          /\ \A i \in 1..Len(o) : g[i + 1] = o[i]
      BY <1>1, <2>2
    <2>4. \A i \in 2..Len(g) : i - 1 \in DOMAIN o /\ g[i] = o[i - 1]
      <3> HIDE DEF g
      <3>1. \A i \in 2..Len(g) : i - 1 \in 1..Len(o) /\ (i - 1) + 1 = i
        BY <1>1, <2>3
      <3>2. QED
        BY <1>1, <2>3, <3>1
    <2> HIDE DEF g
    <2>5. \A i \in 2..Len(g) : Parses(g[i], g[1].width)
      BY <1>3, <2>2, <2>3, <2>4 DEF Parses
    <2>6. Names(g[1])
      BY <2>2, <2>3 DEF Names, Columns, Needed
    <2>7. LoadOfflineSamples(g) = [i \in 1..(Len(g) - 1) |-> g[i + 1].cells]
      BY <2>3, <2>5, <2>6 DEF LoadOfflineSamples
    <2>8. Len(g) - 1 = Len(o)
      BY <1>1, <2>3
    <2>9. LoadOfflineSamples(g) = [i \in 1..Len(o) |-> o[i].cells]
      BY <2>3, <2>7, <2>8
    <2>10. QED
      BY <1>4, <1>5, <2>1, <2>9
  <1>7. ASSUME f # <<>>, f[1].of = "header"
        PROVE  LoadOfflineSamples(f) = Rows(f)
    <2>0. Len(f) \in Nat \ {0} /\ DOMAIN f = 1..Len(f)
      BY <1>7
    <2>1. f[1] \notin RowsOf(f) /\ \A i \in 2..Len(f) : f[i].of = "row" /\ f[i] \in RowsOf(f)
      <3>1. f[1] \notin RowsOf(f)
        BY <1>7 DEF RowsOf
      <3>2. ASSUME NEW i \in 2..Len(f)
            PROVE  f[i].of = "row" /\ f[i] \in RowsOf(f)
        <4>1. i \in DOMAIN f /\ ~(i = 1)
          BY <2>0
        <4>2. f[i].of = "row"
          BY <1>2, <4>1 DEF WholeLine
        <4>3. QED
          BY <4>1, <4>2 DEF RowsOf, Range
      <3>3. QED
        BY <3>1, <3>2
    <2>2. Len(o) = Len(f) - 1 /\ \A i \in 1..(Len(f) - 1) : o[i] = f[i + 1]
      BY <1>7, <2>1, OnlyDropsFirst
    <2>3. \A i \in DOMAIN f : f[i].width = Columns
      BY <1>2 DEF WholeLine
    <2>4. Names(f[1]) /\ \A i \in 2..Len(f) : Parses(f[i], f[1].width)
      <3>1. 1 \in DOMAIN f /\ \A i \in 2..Len(f) : i \in DOMAIN f
        BY <2>0
      <3>2. f[1].width = Columns /\ \A i \in 2..Len(f) : f[i].width = Columns
        BY <2>3, <3>1
      <3>3. Columns > Needed
        BY DEF Columns, Needed
      <3>4. QED
        BY <1>7, <2>1, <3>2, <3>3 DEF Names, Parses
    <2> HIDE DEF o
    <2>5. LoadOfflineSamples(f) = [i \in 1..(Len(f) - 1) |-> f[i + 1].cells]
      BY <1>7, <2>4 DEF LoadOfflineSamples
    <2>6. LoadOfflineSamples(f) = [i \in 1..Len(o) |-> o[i].cells]
      BY <2>2, <2>5
    <2>7. QED
      BY <1>4, <1>5, <2>6
  <1>8. CASE f = <<>>
    <2>1. Len(o) = 0
      <3>1. Len(o) <= Len(f) /\ Len(f) = 0
        BY <1>8, OnlyKeeps
      <3> HIDE DEF o
      <3>2. QED
        BY <1>1, <3>1
    <2> HIDE DEF o
    <2>2. [i \in 1..Len(o) |-> o[i].req] = <<>>
      BY <2>1
    <2>3. LoadOfflineSamples(f) = <<>>
      BY <1>8 DEF LoadOfflineSamples
    <2>4. QED
      BY <1>4, <1>6, <2>2, <2>3
  <1>9. QED
    BY <1>6, <1>7, <1>8

\* A file without a damaged line is read whole; and until a Sync fails the
\* trainer never reads, of any file, a request that was not sent or one twice.
THEOREM ReadsWhatWasSent == Spec => []TrainerReadsWhatWasSent
  <1> DEFINE Inv == Types /\ MoreTypes /\ CountInv /\ CellsInv /\ WholeInv
  <1>1. Init => Inv
    <2>1. ASSUME Init PROVE CountInv /\ CellsInv /\ WholeInv
      <3>1. /\ file = <<>> /\ decisionC = <<>> /\ stage = "select" /\ mode = "starting"
            /\ req = Zero /\ accepted = Zero
        BY <2>1 DEF Init
      <3>2. TornEmpty(file) /\ WellFormed(file)
        BY <3>1 DEF TornEmpty, WellFormed
      <3>3. \A n \in Nodes :
              /\ Requests(file, n) = 0 /\ Queued(decisionC, n) = 0 /\ Unsynced(n) = 0
              /\ Unwritten(n) = 0 /\ accepted[n] = 0
        BY <3>1, NothingQueued, NothingRequested DEF Unsynced, Unwritten, Zero
      <3>4. \A n \in Nodes : Tally(file, CellsOf(n)) = 0
        BY <3>1, TallyOfNone
      <3>5. QED
        BY <3>1, <3>2, <3>3, <3>4 DEF CountInv, CellsInv, WholeInv
    <2>2. QED
      BY <2>1, TypesInit, MoreTypesInit
  <1>2. Inv /\ [Next]_vars => Inv'
    BY TypesInductive, MoreTypesInductive, CountInductive, CellsInductive, WholeInductive
  <1>3. Inv => TrainerReadsWhatWasSent
    <2>1. ASSUME Inv PROVE TrainerReadsWhatWasSent
      <3>1. file \in Seq(Written) /\ WellFormed(file)
        BY <2>1 DEF Types, WholeInv
      <3>2. ASSUME \A i \in DOMAIN file : file[i].kind = "whole"
            PROVE  /\ LoadOfflineSamples(Captured(file)) = Rows(file)
                   /\ clears = 0 => LoadOfflineSamples(file) = Rows(file)
        <4>1. clears = 0 => file = <<>> \/ file[1].of = "header"
          <5>1. file # <<>> => 1 \in DOMAIN file
            BY <3>1
          <5>2. QED
            BY <2>1, <3>2, <5>1 DEF WholeInv
        <4>2. QED
          BY <3>1, <3>2, <4>1, WholeFilesAreRead
      <3>3. ASSUME ~syncFailed, NEW f \in {file, Captured(file)}, NEW n \in Nodes
            PROVE  SumFor(LoadOfflineSamples(f), n) <= accepted[n]
        <4> DEFINE c == Tally(file, CellsOf(n))
                   q == Queued(decisionC, n)
                   u == Unwritten(n)
                   a == accepted[n]
                   r == SumFor(LoadOfflineSamples(f), n)
        <4>1. r \in 0..c
          BY <3>1, <3>3, ReadNoMore
        <4>2. c + q + u <= a
          BY <2>1, <3>3 DEF CellsInv
        <4>3. /\ c \in Nat /\ q \in Nat /\ u \in Nat /\ a \in Nat
          BY <2>1, <3>1, CellsTyped, TallyTyped, AccountsTyped DEF Unwritten
        <4> HIDE DEF c, q, u, a, r
        <4>5. r <= a
          BY <4>1, <4>2, <4>3
        <4>6. QED
          BY <4>5 DEF r, a
      <3>4. QED
        BY <3>2, <3>3 DEF TrainerReadsWhatWasSent
    <2>2. QED
      BY <2>1
  <1>4. QED
    BY <1>1, <1>2, <1>3, PTL DEF Spec

=============================================================================
