-------------------------- MODULE MCDatasetWorker --------------------------
(***************************************************************************)
(* Instances of DatasetWorker and DatasetReader for TLC.                   *)
(***************************************************************************)
EXTENDS DatasetReader

\* 0 is not counted; two different latencies make averages that differ.
SomeLatencies == {0, 2, 3}
\* Within the time stamp, the requests, a column that is not needed and the last
\* one; two fragments of 3 and of 24 columns make 26, and so do 8 and 19.
SomeCuts == {3, 24, 26}

NodeSymmetry  == Permutations(Nodes)
=============================================================================
