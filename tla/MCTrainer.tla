----------------------------- MODULE MCTrainer -----------------------------
(***************************************************************************)
(* Instances of Trainer and Rollout for TLC.                               *)
(***************************************************************************)
EXTENDS Rollout

\* Balanced; unbalanced by two ratios; and unbalanced below an average of one
\* percent, the only case in which the two objectives disagree.
SomeAverages == {4, 12, 20}
=============================================================================
