------------------------------- MODULE Ledger -------------------------------
(***************************************************************************)
(* What the dataset worker promises of the decisions it is sent, without   *)
(* channels, windows, lines or columns: a decision is held in memory until *)
(* it is in the book, is entered in the book once, and what has reached    *)
(* the disk stays there whatever dies.                                     *)
(*                                                                         *)
(* An entry is pending between its being written and its being on disk.    *)
(* One that cannot be brought to disk is not taken back and not forgotten: *)
(* its decisions are then in the book and still held (doubtful), and may   *)
(* be entered a second time.                                               *)
(***************************************************************************)
EXTENDS Integers

CONSTANT Nodes

VARIABLES
    sent,      \* decisions sent to the worker, by node
    held,      \* those it has in memory
    entry,     \* of these, the ones in the entry that is pending
    book,      \* those a reader of the book counts
    durable,   \* of these, the ones that are on disk
    doubtful   \* an entry could not be brought to disk

lvars == <<sent, held, entry, book, durable, doubtful>>

Accounts == [Nodes -> Nat]
Zero == [n \in Nodes |-> 0]

Init ==
    /\ sent = Zero /\ held = Zero /\ entry = Zero
    /\ book = Zero /\ durable = Zero
    /\ doubtful = FALSE

Send(n) ==
    /\ sent' = [sent EXCEPT ![n] = @ + 1]
    /\ held' = [held EXCEPT ![n] = @ + 1]
    /\ UNCHANGED <<entry, book, durable, doubtful>>

\* A worker that records nothing.
Drop(n) ==
    /\ held[n] > 0
    /\ held' = [held EXCEPT ![n] = @ - 1]
    /\ UNCHANGED <<sent, entry, book, durable, doubtful>>

Enter ==
    /\ entry = Zero
    /\ entry' \in Accounts
    /\ \A n \in Nodes : entry'[n] <= held[n]
    /\ book' = [n \in Nodes |-> book[n] + entry'[n]]
    /\ UNCHANGED <<sent, held, durable, doubtful>>

Commit ==
    /\ durable' = book
    /\ held' = [n \in Nodes |-> held[n] - entry[n]]
    /\ entry' = Zero
    /\ UNCHANGED <<sent, book, doubtful>>

Doubt ==
    /\ entry' = Zero
    /\ doubtful' = TRUE
    /\ UNCHANGED <<sent, held, book, durable>>

Forget ==
    /\ held' = Zero /\ entry' = Zero
    /\ UNCHANGED <<sent, doubtful>>

Die ==
    /\ Forget
    /\ UNCHANGED <<book, durable>>

\* Of what is not on disk, any part may be gone.
PowerLoss ==
    /\ Forget
    /\ book' \in Accounts
    /\ \A n \in Nodes : durable[n] <= book'[n] /\ book'[n] <= book[n]
    /\ durable' = book'

\* Somebody else empties the book.
Clear ==
    /\ book' = Zero /\ durable' = Zero
    /\ UNCHANGED <<sent, held, entry, doubtful>>

Next ==
    \/ \E n \in Nodes : Send(n) \/ Drop(n)
    \/ Enter
    \/ Commit
    \/ Doubt
    \/ Die
    \/ PowerLoss
    \/ Clear

Spec == Init /\ [][Next]_lvars

=============================================================================
