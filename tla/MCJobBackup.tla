---------------------------- MODULE MCJobBackup ----------------------------
(* JobBackup for TLC: two payloads and four job objects, the last of which *)
(* has a priority without backup files.                                    *)
EXTENDS JobBackup, FiniteSets, TLC

CONSTANTS j1, j2, j3, j4, High, pay1, pay2

MCJob == {j1, j2, j3, j4}

MCPayload == {pay1, pay2}

MCpriority == [j \in Job |-> IF j = j4 THEN LongTerm ELSE High]

BackupSymmetry == Permutations({j1, j2, j3}) \cup Permutations(MCPayload)

\* (Bound: after a second failure of the file system only three jobs are made.)
FewErrors ==
  \/ Cardinality(unwritten) + Cardinality(unread) + Cardinality(left) <= 1
  \/ \E j \in Job : state[j] = "none"
=============================================================================
