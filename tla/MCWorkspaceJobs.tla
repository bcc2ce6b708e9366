-------------------------- MODULE MCWorkspaceJobs --------------------------
(***************************************************************************)
(* Small instances of WorkspaceJobs for model checking.                    *)
(***************************************************************************)
EXTENDS WorkspaceJobs

CONSTANTS s1, s2, s3

\* Both sources at once, or the first alone.
BothOrOne  == {<<s1, s2>>, <<s1>>}
\* Always both.
Both       == {<<s1, s2>>}
\* Three sources at once, or the last alone.
ThreeOrOne == {<<s1, s2, s3>>, <<s3>>}
=============================================================================
