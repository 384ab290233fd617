-------------------------------- MODULE Lists --------------------------------
(***************************************************************************)
(* The loop both programs write to filter a list: what passes is appended  *)
(* to a new one.  It is SelectSeq with the test given as the set of those  *)
(* that pass, and written as a function of how far the loop has come, so   *)
(* that ListProofs can reason about it.                                    *)
(***************************************************************************)
EXTENDS Integers, Sequences

Only(s, S) ==
    LET only[i \in 0..Len(s)] ==
            IF i = 0 THEN <<>>
            ELSE IF s[i] \in S THEN Append(only[i - 1], s[i])
            ELSE only[i - 1]
    IN  only[Len(s)]

=============================================================================
