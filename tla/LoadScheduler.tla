---------------------------- MODULE LoadScheduler ----------------------------
(***************************************************************************)
(* The scheduler of one load phase (initialization.py, run_tasks).         *)
(*                                                                         *)
(* Workers take batches of tasks round robin under an asyncio.Condition,   *)
(* run each batch in a transaction of their own and record it.  A worker   *)
(* that finds nothing to take waits to be notified; the first worker to    *)
(* fail makes the phase cancel the others and wait for all of them.        *)
(*                                                                         *)
(* The loop of take() is modelled visit by visit, with holder the worker   *)
(* inside it.  A task is its index in the phase; an item of Single is a    *)
(* statement without bounds, which loads the key 0.                        *)
(***************************************************************************)
EXTENDS Naturals, FiniteSets

CONSTANTS
    Workers,      \* options.workers of them
    N,            \* number of tasks
    Single,       \* tasks with count=None
    Count,        \* count of the other tasks
    DependsOn,    \* depends_on, as sets of tasks
    BatchRows,    \* options.batch_rows
    MaxRows,      \* max_rows_per_key of each task
    Faults        \* may a worker fail, or the caller be cancelled?

Task == 0 .. N - 1
Nobody == "nobody"

\* What validate_plan guarantees: in every set of tasks is one that depends on
\* none of the others (PlanRunnable of Preparation).
ASSUME PlanAssumption ==
    /\ N \in Nat \ {0}
    /\ Single \subseteq Task
    /\ Count \in [Task -> Nat]
    /\ DependsOn \in [Task -> SUBSET Task]
    /\ \A S \in (SUBSET Task) \ {{}} : \E t \in S : DependsOn[t] \cap S = {}
    /\ BatchRows \in Nat \ {0}
    /\ MaxRows \in [Task -> Nat \ {0}]
    /\ Workers # {} /\ IsFiniteSet(Workers)
    /\ Nobody \notin Workers
    /\ Faults \in BOOLEAN

Keys(t) == IF t \in Single THEN {0} ELSE 1 .. Count[t]

\* The bounds of the next batch.
BatchKeys(t) == IF BatchRows \div MaxRows[t] = 0 THEN 1 ELSE BatchRows \div MaxRows[t]
LastKey(t, first) == IF first + BatchKeys(t) - 1 < Count[t]
                     THEN first + BatchKeys(t) - 1 ELSE Count[t]

Job(t, first, last) == [task |-> t, first |-> first, last |-> last]
NoJob == Job(N, 0, 0)

VARIABLES
    pc,           \* control point of each worker
    job,          \* the batch of each worker
    next_key,     \* _TaskState: first key not handed out; 0 becomes 1 for a
                  \* submitted statement without bounds
    outstanding,  \* _TaskState: batches handed out and not recorded
    batches,      \* _TaskState: batches recorded
    done,         \* the completed tasks
    cursor,       \* where the next scan begins
    holder,       \* the worker inside the loop of take()
    offset,       \* its position in the scan
    previous,     \* done at the beginning of its scan
    phase,        \* of run_tasks: "gather", "awaiting", "returned", "raised"
    copies        \* the database: committed transactions with each key

vars == <<pc, job, next_key, outstanding, batches, done, cursor, holder, offset,
          previous, phase, copies>>
tasks == <<next_key, outstanding, batches>>
scan == <<cursor, holder, offset, previous>>

Init ==
    /\ pc = [w \in Workers |-> "connect"]
    /\ job = [w \in Workers |-> NoJob]
    /\ next_key = [t \in Task |-> IF t \in Single THEN 0 ELSE 1]
    /\ outstanding = [t \in Task |-> 0]
    /\ batches = [t \in Task |-> 0]
    /\ done = {}
    /\ cursor = 0
    /\ holder = Nobody
    /\ offset = 0
    /\ previous = {}
    /\ phase = "gather"
    /\ copies = [t \in Task |-> [k \in Keys(t) |-> 0]]

-----------------------------------------------------------------------------
Goto(w, point) == pc' = [pc EXCEPT ![w] = point]
Go(w, here, next) == pc[w] = here /\ Goto(w, next)

\* Mutant: nobody is notified.
NotifyNobody(w, point) == Goto(w, point)

\* notify_all: every waiting worker competes for the lock again.  w, which
\* holds it, goes to point.
NotifyAll(w, point) ==
    pc' = [v \in Workers |-> IF v = w THEN point
                             ELSE IF pc[v] = "waiting" THEN "take" ELSE pc[v]]

\* No batch of t is left to hand out.
Exhausted(t) == IF t \in Single THEN next_key[t] = 1 ELSE next_key[t] > Count[t]

\* Mutant: the last batch has been handed out.
CompletesEarly(t) == Exhausted(t)

\* The batch that is recorded is the last one of t.
Completes(t) == outstanding[t] = 1 /\ Exhausted(t)

Ready(t) == t \notin done /\ DependsOn[t] \subseteq done

Connect(w) ==
    /\ phase = "gather"
    /\ Go(w, "connect", "take")
    /\ UNCHANGED <<job, tasks, done, scan, phase, copies>>

\* take() enters the condition: a new scan, or no more work.
EnterTake(w) ==
    /\ phase = "gather"
    /\ holder = Nobody
    /\ pc[w] = "take"
    /\ IF done = Task
       THEN /\ Goto(w, "exit")
            /\ UNCHANGED <<holder, offset, previous>>
       ELSE /\ Goto(w, "scan")
            /\ holder' = w
            /\ offset' = 0
            /\ previous' = done
    /\ UNCHANGED <<job, tasks, done, cursor, phase, copies>>

\* The task under the scan.
Visited == (cursor + offset) % N

\* The three ways a visit ends: nothing to do here, ...
Skip(w) ==
    /\ holder = w /\ offset < N
    /\ \/ ~Ready(Visited)
       \/ Exhausted(Visited) /\ (Visited \in Single \/ outstanding[Visited] > 0)
    /\ offset' = offset + 1
    /\ UNCHANGED <<pc, job, tasks, done, cursor, holder, previous, phase, copies>>

\* ... a task that has no key left and no batch outstanding is complete, ...
CompleteEmpty(w) ==
    /\ holder = w /\ offset < N
    /\ Ready(Visited) /\ Visited \notin Single
    /\ Exhausted(Visited) /\ outstanding[Visited] = 0
    /\ done' = done \cup {Visited}
    /\ NotifyAll(w, "scan")
    /\ offset' = offset + 1
    /\ UNCHANGED <<job, tasks, cursor, holder, previous, phase, copies>>

\* ... or a batch is taken.
Take(w) ==
    /\ holder = w /\ offset < N
    /\ Ready(Visited) /\ ~Exhausted(Visited)
    /\ LET t == Visited
           first == next_key[t]
           last == IF t \in Single THEN 0 ELSE LastKey(t, first)
       IN  /\ job' = [job EXCEPT ![w] = Job(t, first, last)]
           /\ next_key' = [next_key EXCEPT ![t] = last + 1]
           /\ outstanding' = [outstanding EXCEPT ![t] = @ + 1]
           /\ cursor' = (t + 1) % N
    /\ Goto(w, "execute")
    /\ holder' = Nobody
    /\ UNCHANGED <<batches, done, offset, previous, phase, copies>>

\* Mutant: wait although the scan itself has completed a task.
EndScanAndWait(w) ==
    /\ holder = w /\ offset = N
    /\ Goto(w, IF done = Task THEN "exit" ELSE "waiting")
    /\ holder' = Nobody
    /\ UNCHANGED <<job, tasks, done, cursor, offset, previous, phase, copies>>

\* The scan found no batch: finish, wait, or scan again because it completed
\* a task itself.
EndScan(w) ==
    /\ holder = w /\ offset = N
    /\ IF done # Task /\ done # previous
       THEN /\ offset' = 0
            /\ previous' = done
            /\ UNCHANGED <<pc, holder>>
       ELSE /\ Goto(w, IF done = Task THEN "exit" ELSE "waiting")
            /\ holder' = Nobody
            /\ UNCHANGED <<offset, previous>>
    /\ UNCHANGED <<job, tasks, done, cursor, phase, copies>>

\* Mutant: the statement includes the first key of the next batch.
CommitBeyond(w) ==
    /\ Go(w, "execute", "record")
    /\ LET j == job[w]
       IN  copies' = [copies EXCEPT ![j.task] =
               [k \in Keys(j.task) |-> IF k \in j.first .. j.last + 1 THEN @[k] + 1 ELSE @[k]]]
    /\ UNCHANGED <<job, tasks, done, scan, phase>>

\* The server commits the transaction of the batch; a cancelled client does
\* not prevent that.
Commit(w) ==
    /\ Go(w, "execute", "record")
    /\ LET j == job[w]
       IN  copies' = [copies EXCEPT ![j.task] =
               [k \in Keys(j.task) |-> IF k \in j.first .. j.last THEN @[k] + 1 ELSE @[k]]]
    /\ UNCHANGED <<job, tasks, done, scan, phase>>

\* The bookkeeping after the transaction, under the condition.
Record(w) ==
    /\ phase = "gather"
    /\ holder = Nobody
    /\ pc[w] = "record"
    /\ LET t == job[w].task
       IN  /\ outstanding' = [outstanding EXCEPT ![t] = @ - 1]
           /\ batches' = [batches EXCEPT ![t] = @ + 1]
           /\ done' = IF Completes(t) THEN done \cup {t} ELSE done
    /\ job' = [job EXCEPT ![w] = NoJob]
    /\ NotifyAll(w, "take")
    /\ UNCHANGED <<next_key, scan, phase, copies>>

\* The session of the worker is closed.
Leave(w) ==
    /\ Go(w, "exit", "ended")
    /\ UNCHANGED <<job, tasks, done, scan, phase, copies>>

-----------------------------------------------------------------------------
(* Failure and cancellation.                                               *)

\* Connecting, executing or closing raises; a failed transaction rolls back.
Fail(w) ==
    /\ Faults
    /\ pc[w] \in {"connect", "execute", "exit"}
    /\ Goto(w, "failed")
    /\ UNCHANGED <<job, tasks, done, scan, phase, copies>>

\* gather() raises the first error, or the caller is cancelled: every worker
\* that is not done is cancelled.  No worker is inside the scan then, since it
\* awaits nothing.
CancelAll ==
    /\ phase = "gather"
    /\ holder = Nobody
    /\ Faults
    /\ phase' = "awaiting"
    /\ UNCHANGED <<pc, job, tasks, done, scan, copies>>

\* The cancellation arrives at the await of the worker.
Cancelled(w) ==
    /\ phase = "awaiting"
    /\ pc[w] \notin {"ended", "failed"}
    /\ Goto(w, "failed")
    /\ UNCHANGED <<job, tasks, done, scan, phase, copies>>

\* Mutant: run_tasks raises without waiting for the cancelled workers.
EndPhaseEarly ==
    /\ \/ /\ phase = "gather"
          /\ \A w \in Workers : pc[w] = "ended"
          /\ phase' = "returned"
       \/ phase = "awaiting" /\ phase' = "raised"
    /\ UNCHANGED <<pc, job, tasks, done, scan, copies>>

\* run_tasks returns when no worker failed, and raises when all have ended.
EndPhase ==
    /\ \/ /\ phase = "gather"
          /\ \A w \in Workers : pc[w] = "ended"
          /\ phase' = "returned"
       \/ /\ phase = "awaiting"
          /\ \A w \in Workers : pc[w] \in {"ended", "failed"}
          /\ phase' = "raised"
    /\ UNCHANGED <<pc, job, tasks, done, scan, copies>>

-----------------------------------------------------------------------------
Scan(w) == Skip(w) \/ CompleteEmpty(w) \/ Take(w) \/ EndScan(w)

Work(w) == \/ Connect(w) \/ EnterTake(w) \/ Scan(w) \/ Commit(w) \/ Record(w)
           \/ Leave(w) \/ Cancelled(w)

Ended == phase \in {"returned", "raised"}

Terminated == Ended /\ UNCHANGED vars

Next == \/ \E w \in Workers : Work(w) \/ Fail(w)
        \/ CancelAll
        \/ EndPhase
        \/ Terminated

Spec == Init /\ [][Next]_vars

\* Statements are bounded by timeouts; asyncio's lock is first come, first
\* served; gather() reports a failure.
Fairness ==
    /\ \A w \in Workers : /\ WF_vars(Work(w))
                          /\ SF_vars(EnterTake(w))
                          /\ SF_vars(Record(w))
    /\ WF_vars((\E w \in Workers : pc[w] = "failed") /\ CancelAll)
    /\ WF_vars(EndPhase)
FairSpec == Spec /\ Fairness

-----------------------------------------------------------------------------
(* Properties.                                                             *)

\* Every variable keeps its type.
TypeOK ==
    /\ pc \in [Workers -> {"connect", "take", "scan", "waiting", "execute",
                           "record", "exit", "ended", "failed"}]
    /\ job \in [Workers -> [task : 0 .. N, first : Nat, last : Nat]]
    /\ next_key \in [Task -> Nat]
    /\ outstanding \in [Task -> Nat]
    /\ batches \in [Task -> Nat]
    /\ done \subseteq Task
    /\ cursor \in Task
    /\ holder \in Workers \cup {Nobody}
    /\ offset \in 0 .. N
    /\ previous \subseteq Task
    /\ phase \in {"gather", "awaiting", "returned", "raised"}
    /\ DOMAIN copies = Task
    /\ \A t \in Task : copies[t] \in [Keys(t) -> Nat]

Loaded(t) == \A k \in Keys(t) : copies[t][k] = 1

\* No key is loaded twice, whatever fails or is cancelled.
LoadedOnce == \A t \in Task : \A k \in Keys(t) : copies[t][k] <= 1

\* While a batch is executed, all data its task depends on is committed: no
\* order of concurrent batches lets a dependent statement see less.
DependenciesLoaded ==
    \A w \in Workers : pc[w] = "execute" =>
        \A d \in DependsOn[job[w].task] : Loaded(d)

\* A worker waits only while another one has a batch whose recording will
\* notify it, or has failed and so makes the phase cancel it.
WaiterHasWaker ==
    phase = "gather" /\ (\E w \in Workers : pc[w] = "waiting") =>
        \E v \in Workers : pc[v] \in {"execute", "record", "failed"}

\* The phase ends: no schedule leaves all workers waiting for each other.
PhaseEnds == <>Ended

Abstract == INSTANCE LoadPhase WITH
                outcome <- IF Ended THEN phase ELSE "running"

\* The scheduler implements what a load phase promises.
ImplementsLoadPhase == Abstract!Spec
=============================================================================
