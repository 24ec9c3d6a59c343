----------------------------- MODULE MCTaskLife -----------------------------
(* Small instances of TaskLife. *)
EXTENDS TaskLife

\* One tick at every level keeps the number of states down; the levels, the
\* boost and the order of the queues still decide who runs.
MCUnitQuanta == [l \in Levels |-> 1]

MCSymmetry == Permutations(KernelTasks \ {InitTask})
=============================================================================
