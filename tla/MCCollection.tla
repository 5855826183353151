---------------------------- MODULE MCCollection ----------------------------
(***************************************************************************)
(* Values for the constants of Collection that a configuration cannot      *)
(* write down, and the sets of control points the runs choose from.        *)
(***************************************************************************)
EXTENDS Collection, TLC

CONSTANTS i1, i2, i3, v1, v2, v3, m1, m2, none

\* All vectors of one length, and v2 of another length than v1.
SameDims == [v \in Vectors |-> 1]
MixedDims == [v \in Vectors |-> IF v = v1 THEN 1 ELSE 2]

\* Ids are interchangeable in the runs that check invariants only.
IdSymmetry == Permutations(Ids)

AnyOp == OpNames
\* Without compaction, and without the batches that a checkpoint may cut in two
SingleOps == OpNames \ {"compact", "rebuild_index", "insert_batch"}
\* Compaction and rebuilding among writes and batches
CompactingOps == {"insert_batch", "upsert", "delete", "checkpoint", "compact", "rebuild_index"}
AnyWhere == RunningPcs
\* Not between the rename of the compacted file and the save of its offset index
NotBeforeCompactIndex == RunningPcs \ {"cpIndex"}
=============================================================================
