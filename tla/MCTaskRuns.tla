----------------------------- MODULE MCTaskRuns -----------------------------
(***************************************************************************)
(* Small instances of TaskRuns for model checking.                         *)
(***************************************************************************)
EXTENDS TaskRuns

CONSTANTS r1, r2, p1

\* Two runs that share a partition: the later one waits behind the earlier.
OnePartition == [r \in {r1, r2} |-> p1]
\* One run, one partition.
Single == [r \in {r1} |-> p1]
=============================================================================
