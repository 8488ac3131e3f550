------------------------------ MODULE LoadPhase ------------------------------
(***************************************************************************)
(* What one phase of a load promises (initialization.py, run_tasks): every *)
(* key of every task is committed at most once, a task starts only when    *)
(* the tasks it depends on are complete, the phase returns only when       *)
(* everything is committed, and nothing is committed after it has ended.   *)
(***************************************************************************)
EXTENDS Naturals

CONSTANTS
    Task,         \* the tasks of the phase
    Keys(_),      \* the keys of a task
    DependsOn     \* per task: the tasks it depends on

VARIABLES
    copies,       \* per task and key: the committed transactions with the key
    outcome       \* "running", "returned" or "raised"

Complete(t) == \A k \in Keys(t) : copies[t][k] = 1

Init == /\ copies = [t \in Task |-> [k \in Keys(t) |-> 0]]
        /\ outcome = "running"

Commit(t, K) ==
    /\ outcome = "running"
    /\ \A d \in DependsOn[t] : Complete(d)
    /\ \A k \in K : copies[t][k] = 0
    /\ copies' = [copies EXCEPT ![t] = [k \in Keys(t) |-> IF k \in K THEN 1 ELSE @[k]]]
    /\ UNCHANGED outcome

Return == /\ outcome = "running"
          /\ \A t \in Task : Complete(t)
          /\ outcome' = "returned"
          /\ UNCHANGED copies

Raise == /\ outcome = "running"
         /\ outcome' = "raised"
         /\ UNCHANGED copies

Next == \/ \E t \in Task : \E K \in SUBSET Keys(t) : Commit(t, K)
        \/ Return
        \/ Raise

Spec == Init /\ [][Next]_<<copies, outcome>>
=============================================================================
