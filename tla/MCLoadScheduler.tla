--------------------------- MODULE MCLoadScheduler ---------------------------
(***************************************************************************)
(* A phase for TLC with every kind of task: an index statement that        *)
(* depends on a batched table; both tables depend on an empty one, which   *)
(* is listed last, against the order of dependencies, as in the tests.     *)
(***************************************************************************)
EXTENDS LoadScheduler

CONSTANTS w1, w2, w3

ThreeWorkers == {w1, w2, w3}

\* 0: index of 1, 1: table of 5 keys, 2: table of 2 keys, 3: empty table.
SingleTasks == {0}
Counts == [t \in 0 .. 3 |-> CASE t = 1 -> 5 [] t = 2 -> 2 [] OTHER -> 0]
Dependencies == [t \in 0 .. 3 |-> CASE t = 0 -> {1} [] t = 3 -> {} [] OTHER -> {3}]
\* Batches of 2 keys of table 1, of 1 key of table 2, whose rows per key
\* exceed a batch.
Rows == [t \in 0 .. 3 |-> IF t = 2 THEN 9 ELSE 2]
=============================================================================
