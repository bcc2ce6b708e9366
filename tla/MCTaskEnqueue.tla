--------------------------- MODULE MCTaskEnqueue ---------------------------
(***************************************************************************)
(* Small instances of TaskEnqueue for model checking.                      *)
(***************************************************************************)
EXTENDS TaskEnqueue, TLC

CONSTANTS q1, q2, q3, q4, k1, k2, w1, r1, r2, r3

\* A keyed request, its repeat, one under another key and one without.
Keyed == [q \in Requests |-> CASE q \in {q1, q2} -> k1 [] q = q3 -> k2 [] q = q4 -> NoKey]
NoKeys == [q \in Requests |-> NoKey]
\* Run ids are fresh and interchangeable.
AnyRun == Permutations(Runs)
OneWork == [q \in Requests |-> w1]
=============================================================================
