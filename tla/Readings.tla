------------------------------ MODULE Readings ------------------------------
(***************************************************************************)
(* What the load balancer promises of the CPU readings it decides by,      *)
(* without rounds, goroutines, answers or locks: a reading is learned      *)
(* while it is fresh by its backend's clock, nothing is decided before     *)
(* every node has one, and how much of a reading counts in a decision is   *)
(* settled in one moment, which no lapse of time and no reset splits.      *)
(*                                                                         *)
(* Which reading that is stays open: one that is learned during a decision *)
(* may vouch for the one it replaces.  A telemetry reset makes the         *)
(* balancer forget readings and their times (forgotten); from then on a    *)
(* reading may be without its time, and counts in full until it is learned *)
(* again, and a gauge may show what was left at no moment.                 *)
(***************************************************************************)
EXTENDS Integers

CONSTANTS
    Nodes,
    NoNode,
    TTL,          \* a reading is learned within this age,
    Lead,         \* told by a clock that may be ahead by this
    StaleAfter,   \* it counts in full for so long,
    DecayWindow,  \* and for so long in part
    MaxAge        \* ages beyond it are not told apart

VARIABLES
    open,       \* decisions are made
    reading,    \* age of the reading of each node, or Never
    since,      \* how long ago it was learned, or Never
    consulted,  \* the node a decision has consulted, or NoNode
    chosen,     \* how much of its reading counts there
    shown,      \* how much of it the gauge shows
    forgotten   \* a reset has happened

rvars == <<open, reading, since, consulted, chosen, shown, forgotten>>

Never == -1
Shares == {"zero", "partial", "full"}

Left(n) ==
    IF reading[n] = Never THEN "zero"
    ELSE IF since[n] <= StaleAfter THEN "full"
    ELSE IF since[n] < StaleAfter + DecayWindow THEN "partial"
    ELSE "zero"

Init ==
    /\ open = FALSE
    /\ reading = [n \in Nodes |-> Never]
    /\ since = [n \in Nodes |-> Never]
    /\ consulted = NoNode /\ chosen = "zero"
    /\ shown = [n \in Nodes |-> "zero"]
    /\ forgotten = FALSE

After(age) == IF age = Never \/ age = MaxAge THEN age ELSE age + 1

Undecided == consulted = NoNode

Pass ==
    /\ Undecided
    /\ reading' = [n \in Nodes |-> After(reading[n])]
    /\ since' = [n \in Nodes |-> After(since[n])]
    /\ UNCHANGED <<open, consulted, chosen, shown, forgotten>>

Learn(n) ==
    /\ \E age \in 0..(TTL + Lead) : reading' = [reading EXCEPT ![n] = age]
    /\ since' = [since EXCEPT ![n] = 0]
    /\ UNCHANGED <<open, consulted, chosen, shown, forgotten>>

Open ==
    /\ \A n \in Nodes : reading[n] # Never /\ since[n] # Never
    /\ open' = TRUE
    /\ UNCHANGED <<reading, since, consulted, chosen, shown, forgotten>>

Consult(n) ==
    /\ open /\ Undecided
    /\ consulted' = n
    /\ chosen' = Left(n)
    /\ UNCHANGED <<open, reading, since, shown, forgotten>>

Decide ==
    /\ ~Undecided
    /\ shown' = [shown EXCEPT ![consulted] = chosen]
    /\ consulted' = NoNode /\ chosen' = "zero"
    /\ UNCHANGED <<open, reading, since, forgotten>>

Show(n) ==
    /\ \E share \in Shares :
          /\ shown' = [shown EXCEPT ![n] = share]
          /\ share = Left(n) \/ forgotten
    /\ UNCHANGED <<open, reading, since, consulted, chosen, forgotten>>

Forget(n) ==
    /\ open /\ Undecided
    /\ forgotten' = TRUE
    /\ reading' = [reading EXCEPT ![n] = Never]
    /\ UNCHANGED <<open, since, consulted, chosen, shown>>

ForgetTime(n) ==
    /\ forgotten /\ Undecided
    /\ since' = [since EXCEPT ![n] = Never]
    /\ UNCHANGED <<open, reading, consulted, chosen, shown, forgotten>>

Next ==
    \/ Pass
    \/ Open
    \/ Decide
    \/ \E n \in Nodes : \/ Learn(n)
                        \/ Consult(n)
                        \/ Show(n)
                        \/ Forget(n)
                        \/ ForgetTime(n)

Spec == Init /\ [][Next]_rvars

=============================================================================
