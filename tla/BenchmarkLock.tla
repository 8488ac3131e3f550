--------------------------- MODULE BenchmarkLock ----------------------------
(***************************************************************************)
(* Coordination of concurrent pg_perf_bench benchmark runs on one          *)
(* PostgreSQL server.                                                      *)
(*                                                                         *)
(* Every run keeps a controller session that holds a session advisory      *)
(* lock.  Advisory locks are local to a database, so a run first takes the *)
(* lock in the database of its controller and then looks for the same key  *)
(* in every database (initialization_settings.py).  While it holds the     *)
(* lock it resets its target database or schemas, which may restart the    *)
(* server and so drop the lock, loads data and measures                    *)
(* (benchmark.py, reset_db_environment and _run_benchmark_iterations).     *)
(*                                                                         *)
(* A run that loads with fsync=off restores the setting after the load.    *)
(* When its session was lost meanwhile, restore() opens another one and    *)
(* takes the lock again; close() calls restore() once more when the first  *)
(* call failed.                                                            *)
(*                                                                         *)
(* The environment may kill a run, fail or cancel it at any await, and     *)
(* drop its controller session at the control points of Exposed.           *)
(***************************************************************************)
EXTENDS Naturals, FiniteSets

CONSTANTS
    Runs,         \* benchmark processes
    Mode,         \* how a run resets: "restart", "patroni", "managed", "schema"
    Policy,       \* its --init-policy: "each-iteration", "once", "skip"
    Target,       \* the database it measures
    Postgres,     \* the maintenance database
    OffRuns,      \* the runs that load with fsync=off
    Iterations,   \* measured points per run
    Exposed,      \* control points at which a controller session may be lost
    LateStops     \* may a stop request outlive the run that issued it?

\* After acquiring the lock and before the end of the point.
Critical == {"opened", "reset", "schema", "access", "drop", "dropped", "stop",
             "stopping", "create", "ready", "load", "restore", "workload"}
\* close() after a point or an error; "undo" is the restore() it calls.
Closing == {"closing", "aborting", "undo"}
\* Past both lock checks: what the run does is guarded by the lock.
Passed == Critical \cup Closing
\* Acquiring or reacquiring the lock.
Acquiring == {"connect", "trylock", "check"}
Restarting == {"start", "disconnect"}
\* The lock was not acquired: open() gives up; restore() raises, and close()
\* calls it again.
Failed == {"refused", "stranded", "unlocked"}
Points == Passed \cup Acquiring \cup Restarting \cup Failed \cup {"idle", "done"}
Resumes == {"opened", "create", "restore", "undo"}

\* A full reset keeps its controller in postgres across DROP DATABASE; schema
\* reset and skip connect to the target, which is never a protected database.
\* fsync=off needs access to the host and a load.
ASSUME RunsAssumption ==
    /\ Mode \in [Runs -> {"restart", "patroni", "managed", "schema"}]
    /\ Policy \in [Runs -> {"each-iteration", "once", "skip"}]
    /\ \A r \in Runs : Target[r] # Postgres
    /\ \A r \in OffRuns : /\ r \in Runs
                          /\ Mode[r] \in {"restart", "patroni"}
                          /\ Policy[r] # "skip"
    /\ Iterations \in Nat \ {0}
    /\ Exposed \subseteq Points
    /\ LateStops \in BOOLEAN

Control(r) == IF Mode[r] = "schema" \/ Policy[r] = "skip"
              THEN Target[r] ELSE Postgres
Databases == {Control(r) : r \in Runs} \cup {Target[r] : r \in Runs}

VARIABLES
    pc,          \* control point of each run
    resume,      \* where a run continues once it has the lock
    iter,        \* the current point of its series
    sess,        \* its controller session: "none", "open", "dead"
    acquired,    \* its own belief that it holds the lock (lock_acquired)
    granted,     \* the runs whose backend holds the advisory lock
    changed,     \* the runs that turned fsync off and have not restored it
    server,      \* "up", "stopping", "restarting", "down"
    content,     \* the run that prepared each target, or {} if there is none
    shared,      \* runs whose current measurement another run disturbed
    spoiled      \* runs that recorded a point measured while disturbed

vars == <<pc, resume, iter, sess, acquired, granted, changed, server, content,
          shared, spoiled>>
session == <<resume, iter, sess, acquired, granted, changed>>
database == <<server, content>>
results == <<shared, spoiled>>

Init ==
    /\ pc = [r \in Runs |-> "idle"]
    /\ resume = [r \in Runs |-> "opened"]
    /\ iter = [r \in Runs |-> 1]
    /\ sess = [r \in Runs |-> "none"]
    /\ acquired = [r \in Runs |-> FALSE]
    /\ granted = {}
    /\ changed = {}
    /\ server = "up"
    /\ content \in [{Target[r] : r \in Runs} -> {{}, {Postgres}}]
    /\ shared = {}
    /\ spoiled = {}

-----------------------------------------------------------------------------
Goto(r, point) == pc' = [pc EXCEPT ![r] = point]

\* initializes_iteration(init_policy, idx)
Initializes(r) == \/ Policy[r] = "each-iteration"
                  \/ Policy[r] = "once" /\ iter[r] = 1

LastPoint(r) == iter[r] = Iterations

Alive(r) == sess[r] = "open"

\* assert_held: the connection is open, the flag is set and the server agrees.
AssertHeld(r) == Alive(r) /\ acquired[r] /\ r \in granted

\* The server ends the backends of S: their locks go with them.
EndSessions(S) ==
    /\ sess' = [s \in Runs |-> IF s \in S /\ Alive(s) THEN "dead" ELSE sess[s]]
    /\ granted' = granted \ S

\* Runs whose measurement notices what r does to the server.
Disturbed(r) == {s \in Runs \ {r} : pc[s] = "workload"}

\* Another run loads, restores or measures.
Busy(r) == \E s \in Runs \ {r} : pc[s] \in {"load", "restore", "workload"}

\* r starts to measure: who measures already is disturbed, and so is r if
\* another run is busy.
StartsMeasuring(r) ==
    shared' = (IF Busy(r) THEN shared \cup {r} ELSE shared \ {r}) \cup Disturbed(r)

\* Where a run goes that cannot acquire the lock.
Refusal(r) == IF resume[r] = "restore" THEN "stranded" ELSE "refused"
\* Where an error leads.
AfterError(r) == IF pc[r] \in Acquiring THEN Refusal(r)
                 ELSE IF pc[r] \in {"undo", "unlocked"} THEN "refused"
                 ELSE "aborting"

Begin(r) ==
    /\ pc[r] = "idle"
    /\ Goto(r, "connect")
    /\ UNCHANGED <<session, database, results>>

\* _connect: a new controller session.
Connect(r) ==
    /\ pc[r] = "connect"
    /\ server = "up"
    /\ sess' = [sess EXCEPT ![r] = "open"]
    /\ Goto(r, "trylock")
    /\ UNCHANGED <<resume, iter, acquired, granted, changed, database, results>>

\* pg_try_advisory_lock: conflicts only within the database of the session.
TryLock(r) ==
    /\ pc[r] = "trylock"
    /\ Alive(r)
    /\ IF \E s \in granted \ {r} : Control(s) = Control(r)
       THEN /\ Goto(r, Refusal(r))
            /\ UNCHANGED <<acquired, granted>>
       ELSE /\ granted' = granted \cup {r}
            /\ acquired' = [acquired EXCEPT ![r] = TRUE]
            /\ Goto(r, "check")
    /\ UNCHANGED <<resume, iter, sess, changed, database, results>>

\* Mutant: only holders in the run's own database are a conflict.
OwnDatabaseConflict(r) == \E s \in granted \ {r} : Control(s) = Control(r)

\* The same key in any database, held by any other backend.
Conflict(r) == granted \ {r} # {}

CrossCheck(r) ==
    /\ pc[r] = "check"
    /\ Alive(r)
    /\ Goto(r, IF Conflict(r) THEN Refusal(r) ELSE resume[r])
    /\ UNCHANGED <<session, database, results>>

\* The guarded step from one control point to the next.
Guard(r, here, next) ==
    /\ pc[r] = here
    /\ Goto(r, IF AssertHeld(r) THEN next ELSE "aborting")

-----------------------------------------------------------------------------
(* One iteration: the reset, the restart inside it, the measurement.       *)

Opened(r) ==
    /\ Guard(r, "opened", IF Initializes(r) THEN "reset" ELSE "ready")
    /\ UNCHANGED <<session, database, results>>

Reset(r) ==
    /\ Guard(r, "reset", IF Mode[r] = "schema" THEN "schema" ELSE "access")
    /\ UNCHANGED <<session, database, results>>

\* DROP SCHEMA over the controller's own connection.
ResetSchemas(r) ==
    /\ pc[r] = "schema"
    /\ Alive(r)
    /\ content' = [content EXCEPT ![Target[r]] = {r}]
    /\ shared' = shared \cup Disturbed(r)
    /\ Goto(r, "ready")
    /\ UNCHANGED <<session, server, spoiled>>

\* A plain reset starts a stopped server first and ignores an error of that.
Access(r) ==
    /\ Guard(r, "access", "drop")
    /\ server' = IF Mode[r] = "restart" /\ server = "down" THEN "up" ELSE server
    /\ UNCHANGED <<session, content, results>>

\* drop_db: ends every backend of the target, then DROP DATABASE.
Drop(r) ==
    /\ pc[r] = "drop"
    /\ server = "up"
    /\ content' = [content EXCEPT ![Target[r]] = {}]
    /\ EndSessions({s \in Runs : Control(s) = Target[r]})
    /\ shared' = shared \cup Disturbed(r)
    /\ pc' = [s \in Runs |->
                CASE s = r -> "dropped"
                  [] s # r /\ pc[s] \in {"load", "workload"}
                       /\ Target[s] = Target[r] -> "aborting"
                  [] OTHER -> pc[s]]
    /\ UNCHANGED <<resume, iter, acquired, changed, server, spoiled>>

Dropped(r) ==
    /\ Guard(r, "dropped", IF Mode[r] = "managed" THEN "create" ELSE "stop")
    /\ UNCHANGED <<session, database, results>>

\* pg_ctl stop, the container stop, or Patroni's POST /restart is accepted.
RequestStop(r) ==
    /\ pc[r] = "stop"
    /\ server = "up"
    /\ server' = IF Mode[r] = "patroni" THEN "restarting" ELSE "stopping"
    /\ shared' = shared \cup Disturbed(r)
    /\ Goto(r, "stopping")
    /\ UNCHANGED <<session, content, spoiled>>

\* The server goes down: every session ends, every workload fails, and the
\* runs that wait for the stop go on.  Patroni starts the server by itself.
StopLands ==
    /\ server \in {"stopping", "restarting"}
    /\ server' = IF server = "stopping" THEN "down" ELSE "up"
    /\ EndSessions(Runs)
    /\ pc' = [s \in Runs |->
                CASE pc[s] \in {"load", "workload"} -> "aborting"
                  [] pc[s] = "stopping" ->
                        IF server = "stopping" THEN "start" ELSE "disconnect"
                  [] OTHER -> pc[s]]
    /\ UNCHANGED <<resume, iter, acquired, changed, content, results>>

StartServer(r) ==
    /\ pc[r] = "start"
    /\ server' = IF server = "down" THEN "up" ELSE server
    /\ Goto(r, "disconnect")
    /\ UNCHANGED <<session, content, results>>

\* Mutant: the session is closed, the lock is not given up.
DisconnectHolding(r) ==
    /\ UNCHANGED granted
    /\ acquired' = [acquired EXCEPT ![r] = FALSE]
    /\ sess' = [sess EXCEPT ![r] = "none"]

\* _disconnect: unlock over a connection that is still open, then close it.
Disconnect(r) ==
    /\ granted' = granted \ {r}
    /\ acquired' = [acquired EXCEPT ![r] = FALSE]
    /\ sess' = [sess EXCEPT ![r] = "none"]

\* The process is gone, with its memory and its session.
End(r) ==
    /\ Disconnect(r)
    /\ changed' = changed \ {r}
    /\ resume' = [resume EXCEPT ![r] = "opened"]
    /\ iter' = [iter EXCEPT ![r] = 1]
    /\ Goto(r, "done")

\* Mutant: the new controller does not take the lock again.
ReopenUnlocked(r) ==
    /\ pc[r] = "disconnect"
    /\ server = "up"
    /\ granted' = granted \ {r}
    /\ acquired' = acquired
    /\ sess' = [sess EXCEPT ![r] = "open"]
    /\ Goto(r, "create")
    /\ UNCHANGED <<resume, iter, changed, database, results>>

\* reopen_after_restart: the reset reacquires the lock its restart dropped.
Reopen(r) ==
    /\ pc[r] = "disconnect"
    /\ Disconnect(r)
    /\ resume' = [resume EXCEPT ![r] = "create"]
    /\ Goto(r, "connect")
    /\ UNCHANGED <<iter, changed, database, results>>

\* Mutant: an existing database is taken over.
CreateIfMissing(r) ==
    /\ pc[r] = "create"
    /\ server = "up"
    /\ content' = [content EXCEPT ![Target[r]] = IF @ = {} THEN {r} ELSE @]
    /\ Goto(r, "ready")
    /\ shared' = shared \cup Disturbed(r)
    /\ UNCHANGED <<session, server, spoiled>>

\* init_db: CREATE DATABASE over a connection of its own.
Create(r) ==
    /\ pc[r] = "create"
    /\ server = "up"
    /\ IF content[Target[r]] = {}
       THEN /\ content' = [content EXCEPT ![Target[r]] = {r}]
            /\ Goto(r, "ready")
       ELSE /\ UNCHANGED content
            /\ Goto(r, "aborting")
    /\ shared' = shared \cup Disturbed(r)
    /\ UNCHANGED <<session, server, spoiled>>

\* The last assert_held: initialization, where disable() turns fsync off for
\* the load, or the workload at once.
StartWorkload(r) ==
    /\ server = "up"
    /\ LET next == IF r \in OffRuns /\ Initializes(r) THEN "load" ELSE "workload"
       IN  /\ Guard(r, "ready", next)
           /\ IF ~AssertHeld(r) THEN UNCHANGED <<changed, shared>>
              ELSE IF next = "load" THEN /\ changed' = changed \cup {r}
                                         /\ shared' = shared \cup Disturbed(r)
              ELSE /\ UNCHANGED changed
                   /\ StartsMeasuring(r)
    /\ UNCHANGED <<resume, iter, sess, acquired, granted, database, spoiled>>

\* The load is done and restore() begins.  Loaders have connections of their
\* own, so the controller may be lost by now: then restore() opens another one
\* and takes the lock again.
FinishLoad(r) ==
    /\ pc[r] = "load"
    /\ IF Alive(r)
       THEN /\ Goto(r, "restore")
            /\ UNCHANGED session
       ELSE /\ Disconnect(r)
            /\ resume' = [resume EXCEPT ![r] = "restore"]
            /\ Goto(r, "connect")
            /\ UNCHANGED <<iter, changed>>
    /\ UNCHANGED <<database, results>>

\* The setting is restored over the controller session; the workload follows.
Restored(r) ==
    /\ pc[r] = "restore"
    /\ Alive(r)
    /\ changed' = changed \ {r}
    /\ StartsMeasuring(r)
    /\ Goto(r, "workload")
    /\ UNCHANGED <<resume, iter, sess, acquired, granted, database, spoiled>>

\* The workload ends well: the point is recorded and, except in a retained
\* controller's middle iterations, the controller is closed.
FinishWorkload(r) ==
    /\ pc[r] = "workload"
    /\ spoiled' = spoiled \cup ({r} \cap shared)
    /\ shared' = shared \ {r}
    /\ IF Policy[r] = "each-iteration" \/ LastPoint(r)
       THEN /\ Goto(r, "closing")
            /\ UNCHANGED iter
       ELSE /\ Goto(r, "opened")
            /\ iter' = [iter EXCEPT ![r] = @ + 1]
    /\ UNCHANGED <<resume, sess, acquired, granted, changed, database>>

\* close() has to restore the setting: over the session there is, or over a new
\* one that takes the lock again.
MustUndo(r) == r \in changed /\ sess[r] # "none"

\* close() of the controller, after a point, an error or a lock that was not
\* acquired; it looks at the session, never at the lock.
Close(r) ==
    /\ pc[r] \in {"closing", "aborting", "refused", "stranded"}
    /\ \/ /\ pc[r] \in {"aborting", "stranded"} /\ MustUndo(r) /\ Alive(r)
          /\ Goto(r, IF pc[r] = "aborting" THEN "undo" ELSE "unlocked")
          /\ UNCHANGED session
       \/ /\ pc[r] \in {"aborting", "stranded"} /\ MustUndo(r) /\ ~Alive(r)
          /\ Disconnect(r)
          /\ resume' = [resume EXCEPT ![r] = "undo"]
          /\ Goto(r, "connect")
          /\ UNCHANGED <<iter, changed>>
       \/ /\ pc[r] = "closing" /\ ~LastPoint(r)
          /\ Disconnect(r)
          /\ resume' = [resume EXCEPT ![r] = "opened"]
          /\ iter' = [iter EXCEPT ![r] = @ + 1]
          /\ Goto(r, "connect")
          /\ UNCHANGED changed
       \/ /\ \/ pc[r] = "closing" /\ LastPoint(r)
             \/ pc[r] \in {"aborting", "stranded"} /\ ~MustUndo(r)
             \/ pc[r] = "refused"
          /\ End(r)
    /\ UNCHANGED <<database, results>>

\* restore() called by close(), then _disconnect.
Undo(r) ==
    /\ pc[r] \in {"undo", "unlocked"}
    /\ Alive(r)
    /\ shared' = shared \cup Disturbed(r)
    /\ End(r)
    /\ UNCHANGED <<database, spoiled>>

-----------------------------------------------------------------------------
(* Failures.                                                               *)

\* A step that needs the server or the session does not find it: an error.
Refused(r) ==
    /\ \/ pc[r] \in {"connect", "drop", "stop", "create", "ready"} /\ server # "up"
       \/ /\ pc[r] \in {"trylock", "check", "schema", "restore", "undo", "unlocked"}
          /\ ~Alive(r)
    /\ Goto(r, AfterError(r))
    /\ UNCHANGED <<session, database, results>>

\* A requested stop is still to come.
Pending(r) == pc[r] = "stopping" /\ server \in {"stopping", "restarting"}

\* An error, a timeout or a cancellation at an await.
Fail(r) ==
    /\ pc[r] \in Critical \cup Acquiring \cup Restarting \cup {"undo", "unlocked"}
    /\ Pending(r) => LateStops
    /\ Goto(r, AfterError(r))
    /\ UNCHANGED <<session, database, results>>

\* SIGKILL: the server notices the closed socket and frees the lock.
Kill(r) ==
    /\ pc[r] \notin {"idle", "done"}
    /\ Pending(r) => LateStops
    /\ End(r)
    /\ UNCHANGED <<database, results>>

\* The controller's backend ends while the run goes on.
LoseSession(r) ==
    /\ pc[r] \in Exposed
    /\ Alive(r)
    /\ EndSessions({r})
    /\ UNCHANGED <<pc, resume, iter, acquired, changed, database, results>>

Terminated ==
    /\ \A r \in Runs : pc[r] = "done"
    /\ UNCHANGED vars

-----------------------------------------------------------------------------
Step(r) == \/ Connect(r) \/ TryLock(r) \/ CrossCheck(r) \/ Opened(r)
           \/ Reset(r) \/ ResetSchemas(r) \/ Access(r) \/ Drop(r) \/ Dropped(r)
           \/ RequestStop(r) \/ StartServer(r) \/ Reopen(r) \/ Create(r)
           \/ StartWorkload(r) \/ FinishLoad(r) \/ Restored(r)
           \/ FinishWorkload(r) \/ Close(r) \/ Undo(r) \/ Refused(r)

Next == \/ \E r \in Runs : \/ Begin(r) \/ Step(r) \/ Fail(r) \/ Kill(r)
                           \/ LoseSession(r)
        \/ StopLands
        \/ Terminated

Spec == Init /\ [][Next]_vars

\* A run that has begun goes on: workloads, loads and queries of the controller
\* have timeouts; DROP and CREATE DATABASE have none once they are connected and
\* rely on a server that answers.  A stop that was accepted takes effect.
Fairness == WF_vars(StopLands) /\ \A r \in Runs : WF_vars(Step(r))
FairSpec == Spec /\ Fairness

-----------------------------------------------------------------------------
(* Properties.                                                             *)

\* Every variable keeps its type.
TypeOK ==
    /\ pc \in [Runs -> Points]
    /\ resume \in [Runs -> Resumes]
    /\ iter \in [Runs -> 1..Iterations]
    /\ sess \in [Runs -> {"none", "open", "dead"}]
    /\ acquired \in [Runs -> BOOLEAN]
    /\ granted \subseteq Runs
    /\ changed \subseteq Runs
    /\ server \in {"up", "stopping", "restarting", "down"}
    /\ DOMAIN content = {Target[r] : r \in Runs}
    /\ shared \subseteq Runs
    /\ spoiled \subseteq Runs

\* The runs that passed both lock checks and still hold the lock.
Owner == {r \in granted : pc[r] \in Passed}

\* "Simultaneous cross-database contenders may both fail, but cannot both
\* pass": whatever databases the controllers use, and whatever restarts, lost
\* sessions and kills happen, at most one run owns the server.
MutualExclusion == \A r, s \in Owner : r = s

\* Reset, load, restore(), workload and close() work on the server over a live
\* session only while the run holds the lock there: neither a restart nor a
\* session opened again in restore() leaves it working on a stale flag.  There is
\* one exception, which the code does not prevent: when restore() has opened a
\* session and could not take the lock again, close() repeats restore() over
\* that session ("unlocked").
Working == Passed \cup {"unlocked"}
WorkingMeansHolding ==
    \A r \in Runs : pc[r] \in Working /\ Alive(r) => r \in granted \/ pc[r] = "unlocked"

\* A recorded point was measured while no other run reset, restarted, loaded
\* or measured on the same server.
PointsMeasuredAlone == spoiled = {}

\* What a run measures after its own reset is what it prepared, never a
\* database another run dropped or recreated under it.
MeasuresOwnData ==
    \A r \in Runs : pc[r] = "workload" /\ Policy[r] # "skip" => content[Target[r]] = {r}

\* Every run that begins, on a server that answers, ends and leaves no lock
\* behind.
EventuallyReleased ==
    \A r \in Runs : pc[r] # "idle" ~> (pc[r] = "done" /\ r \notin granted)

Lock == INSTANCE ServerLock WITH owner <- Owner
\* The protocol of controllers implements the abstract server lock.
ImplementsServerLock == Lock!Spec
=============================================================================
