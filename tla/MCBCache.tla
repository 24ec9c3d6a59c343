------------------------------ MODULE MCBCache ------------------------------
(***************************************************************************)
(* BCache with two buffers for three sectors of two devices, two of which  *)
(* share a bucket.                                                         *)
(***************************************************************************)
EXTENDS BCache

MCKeys == {<< 0, 0 >>, << 0, 1 >>, << 1, 0 >>}

MCHash == [k \in MCKeys |-> IF k = << 0, 1 >> THEN 1 ELSE 0]

\* One bucket for two sectors, in the runs with two threads.
MCTwoKeys == {<< 0, 0 >>, << 0, 1 >>}

MCOneBucket == [k \in MCTwoKeys |-> 0]
=============================================================================
