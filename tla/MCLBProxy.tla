----------------------------- MODULE MCLBProxy -----------------------------
(***************************************************************************)
(* Instances of LBProxy for TLC.                                           *)
(***************************************************************************)
EXTENDS LBProxy, TLC

BothNodes == {1, 2}
FirstNode == {1}

\* One latency, larger than 1 so that a decayed value can differ from it and from 0.
OneLatency   == {2}

HandlerSymmetry == Permutations(Requests)
=============================================================================
