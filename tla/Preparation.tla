----------------------------- MODULE Preparation -----------------------------
(***************************************************************************)
(* How a point of the benchmark is prepared (benchmark.py,                 *)
(* initialization.py): the load plan of the profile is validated, the      *)
(* replicas are noted, postgresql.conf is installed (FileCopy), the        *)
(* database is reset and its server restarted (PatroniRestart), the common *)
(* loader runs its phases, and the replicas replay them (ReplicaBarrier).  *)
(* Then the workload is measured.                                          *)
(***************************************************************************)
EXTENDS Naturals, Sequences, FiniteSets

CONSTANTS
    Tasks,          \* the names of the tasks of a phase
    Situations,     \* what is asked for, see situation
    Kinds, Jobs,                               \* of FileCopy
    Hosts, MaxFaults,                          \* of PatroniRestart
    Replicas, Addresses, MaxMoves, MaxLsn      \* of ReplicaBarrier

\* The copies and transports that FileCopy knows.
ASSUME CopyAssumption == Kinds \subseteq {"local", "docker", "ssh"} /\ Jobs \subseteq {"config", "logs"}
\* No slot is an address: replica_keys marks each key with what it is.
ASSUME ReplicaAssumption == IsFiniteSet(Replicas) /\ Replicas \cap Addresses = {}

VARIABLES kind, job, caller, phase, at, temp, dest, error, outcome, up
Copy == INSTANCE FileCopy

VARIABLES host, proxied, silent, leader, start, pid, faults, next, member, previous, dropped,
          began, forced, wronged
Reset == INSTANCE PatroniRestart

\* A directory that Patroni manages has its mark.
ASSUME HostAssumption == \A h \in Hosts : h \in Reset!Host /\ (h.ours > 0 => h.marker)

VARIABLES slots, address, connected, streaming, replayed, lsn, moves,
          replicas, before, required, target, polling
Barrier == INSTANCE ReplicaBarrier

VARIABLES
    situation,   \* deps: <<task, name of a task it depends on>> of the plan,
                 \* fast, unlogged, schema, config: the options of the benchmark
    stage,
    planned,     \* the tasks that validate_plan has found a place for
    loading,     \* the next phase of the loader
    durable      \* the position at which WAL has the rows, 0 for none

copy == <<kind, job, caller, phase, at, temp, dest, error, outcome, up>>
reset == <<host, proxied, silent, leader, start, pid, faults, next, member, previous, dropped,
           began, forced, wronged>>
standby == <<slots, address, connected, streaming, replayed, moves>>
awaited == <<replicas, before, required, target, polling>>
barrier == <<standby, lsn, awaited>>
own == <<situation, stage, planned, loading, durable>>
vars == <<copy, reset, barrier, own>>

\* What is asked for, on a host with these transports and replicas.
Init ==
    /\ Copy!Init /\ Reset!Init /\ Barrier!Init
    /\ situation \in Situations
    /\ stage = "plan" /\ planned = {} /\ loading = 1 /\ durable = 0
-----------------------------------------------------------------------------
Goto(s) == stage' = s /\ UNCHANGED <<situation, planned, loading, durable>>
\* A step that talks to the database server.
OrFail(s) == \/ ~silent /\ Goto(s)
             \/ Goto("failed")

Depends(t) == {d \in Tasks \cup {"unknown"} : <<t, d>> \in situation.deps}

Known == \A t \in Tasks : Depends(t) \subseteq Tasks

\* Mutant: one of the dependencies is enough.
ReadyOne == {t \in Tasks \ planned : Depends(t) = {} \/ Depends(t) \cap planned # {}}
Ready == {t \in Tasks \ planned : Depends(t) \subseteq planned}

(* validate_plan: the names are known, and in every round the tasks whose  *)
(* dependencies are done are done too, until all are or none is ready.     *)
ValidatePlan ==
    /\ stage = "plan"
    /\ IF situation.fast /\ planned # Tasks
          THEN IF Known /\ Ready # {}
                  THEN planned' = planned \cup Ready /\ UNCHANGED <<situation, stage, loading, durable>>
                  ELSE Goto("failed")
          ELSE Goto("open")
    /\ UNCHANGED <<copy, reset, barrier>>

\* The preflight session: the lock, and what the later steps need.
Open ==
    /\ stage = "open"
    /\ \/ /\ ~silent
          /\ Goto(CASE situation.config -> "config" [] situation.schema -> "schema" [] OTHER -> "reset")
          /\ IF situation.fast THEN Barrier!Remember ELSE UNCHANGED awaited
       \/ Goto("failed") /\ UNCHANGED awaited
    /\ UNCHANGED <<copy, reset, standby, lsn>>

\* A supplied postgresql.conf is not for a server of Patroni.
InstallConfig ==
    /\ stage = "config" /\ IF Reset!Discover = "none" THEN Goto("copy") ELSE Goto("failed")
    /\ UNCHANGED <<copy, reset, barrier>>
RunCopy == stage = "copy" /\ Copy!Body /\ UNCHANGED <<own, reset, barrier>>
LeaveCopy ==
    /\ stage = "copy" /\ Copy!Return /\ IF outcome' = "ok" THEN Goto("reset") ELSE Goto("failed")
    /\ UNCHANGED <<reset, barrier>>
CancelCopy ==
    /\ stage = "copy" /\ Copy!Cancel
    /\ IF caller' = "await" THEN UNCHANGED stage ELSE stage' = "failed"
    /\ UNCHANGED <<situation, planned, loading, durable, reset, barrier>>
\* The thread of a cancelled copy goes on.
CopyGoesOn == caller # "await" /\ Copy!Body /\ UNCHANGED <<own, reset, barrier>>

SchemaReset ==
    /\ stage = "schema" /\ OrFail("load") /\ UNCHANGED <<copy, reset, barrier>>
\* A start of a server ends the connections of its replicas.
RunReset ==
    /\ stage = "reset" /\ ~Reset!ResetEnded /\ (Reset!ResetStep \/ Reset!Fault)
    /\ IF start' = start THEN UNCHANGED standby ELSE Barrier!Disconnected
    /\ UNCHANGED <<copy, lsn, awaited, own>>
LeaveReset ==
    /\ stage = "reset" /\ Reset!ResetEnded
    /\ Goto(IF next = "reset" THEN "load" ELSE "failed")
    /\ UNCHANGED <<copy, reset, barrier>>

(* prepare_database. Tables that are unlogged while the rows are loaded    *)
(* write them to WAL when they are set LOGGED; preparing, post-processing, *)
(* constraints, finalization and ANALYZE are further statements like the   *)
(* creation of the indexes here, and so is VACUUM.                         *)
Phases == <<"schema", "data", "logged", "indexes">>
WritesRows == Phases[loading] = IF situation.unlogged THEN "logged" ELSE "data"
Load ==
    /\ stage = "load" /\ situation.fast /\ loading \in DOMAIN Phases
    /\ \/ /\ ~silent /\ loading' = loading + 1 /\ UNCHANGED <<situation, stage, planned>>
          /\ IF WritesRows THEN Barrier!Write /\ durable' = lsn' ELSE UNCHANGED <<lsn, durable>>
       \/ Goto("failed") /\ UNCHANGED lsn
    /\ UNCHANGED <<copy, reset, standby, awaited>>
\* An initialization command and VACUUM ANALYZE; nobody waits for replicas.
RunCommand ==
    /\ stage = "load" /\ ~situation.fast /\ OrFail("measured")
    /\ UNCHANGED <<copy, reset, barrier>>

EnterBarrier ==
    /\ stage = "load" /\ situation.fast /\ loading \notin DOMAIN Phases
    /\ \/ ~silent /\ Goto("barrier") /\ Barrier!Enter
       \/ Goto("failed") /\ UNCHANGED barrier        \* the restore of the settings
    /\ UNCHANGED <<copy, reset>>
LeaveBarrier ==
    /\ stage = "barrier"
    /\ \/ ~silent /\ Barrier!Pass /\ Goto("measured")
       \/ Barrier!Fail /\ Goto("failed")
    /\ UNCHANGED <<copy, reset>>

\* 0.2 s until the replicas are looked at again.
Sleep == stage = "barrier" /\ UNCHANGED vars

\* The replicas come, go and replay; other clients write.
Elsewhere ==
    /\ stage \in {"load", "barrier"} /\ situation.fast
    /\ \/ Barrier!Standby
       \/ stage = "barrier" /\ Barrier!Write /\ UNCHANGED <<standby, awaited>>
    /\ UNCHANGED <<copy, reset, own>>

\* The host, or the database server, is lost.
LosePeer ==
    \/ stage = "copy" /\ Copy!Disconnect /\ UNCHANGED <<own, reset, barrier>>
    \/ /\ stage \in {"open", "schema", "reset", "load", "barrier"} /\ Reset!Silence
       /\ UNCHANGED <<copy, barrier, own>>

Prepared == stage \in {"measured", "failed"}
Terminated == Prepared /\ UNCHANGED vars

Code == ValidatePlan \/ Open \/ InstallConfig \/ RunCopy \/ LeaveCopy \/ SchemaReset \/ RunReset
        \/ LeaveReset \/ Load \/ RunCommand \/ EnterBarrier \/ LeaveBarrier
Next == Code \/ CancelCopy \/ CopyGoesOn \/ Sleep \/ Elsewhere \/ LosePeer \/ Terminated

(* The awaits that no timeout bounds, while their peer is lost: put and    *)
(* rename over SFTP, the statements of DBTasks, and the close of a session.*)
(* Commands on the host, statements of the loader and of the barrier, and  *)
(* the requests of Patroni have a timeout.                                 *)
Hanging ==
    \/ stage = "copy" /\ Copy!Stuck
    \/ silent /\ stage \in {"open", "schema", "load"}
    \/ silent /\ stage = "reset" /\ next \in Reset!Statements

\* The code goes on, unless it hangs.
Fairness == WF_vars(Code /\ ~Hanging)
Spec == Init /\ [][Next]_vars /\ Fairness
-----------------------------------------------------------------------------
(* A plan that is loaded can be: in every set of its tasks is one that     *)
(* depends on none of the others, and no task depends on an unknown one,   *)
(* so the scheduler of the tasks never waits for good (validate_plan).     *)
PlanRunnable ==
    situation.fast /\ stage = "load" =>
        /\ \A S \in (SUBSET Tasks) \ {{}} : \E t \in S : Depends(t) \cap S = {}
        /\ \A t \in Tasks : Depends(t) \subseteq Tasks

(* When the workload of a loaded point is measured, every replica with a   *)
(* slot that was there before the reset has the rows, although the restart *)
(* disconnected it and it may have come back from another address; and as  *)
(* many replicas as were there before have them.                           *)
ReplicasHaveRows ==
    situation.fast /\ stage = "measured" =>
        LET ready == {r \in Replicas : replayed[r] >= durable}
        IN  /\ durable > 0 /\ before \cap slots \subseteq ready
            /\ Cardinality(before) <= Cardinality(ready)

(* The configuration that the command installs is copied as FileCopy says, *)
(* and the restart does what PatroniRestart says.                          *)
CopySettled == Copy!CopySettled
RestartSafe == Reset!RestartSafe
RestartVerified == Reset!RestartVerified

(* The preparation of a point ends, also when a replica never comes back   *)
(* or the new configuration or Patroni refuses, or hangs for good in an    *)
(* await without a bound on a peer that is lost.                           *)
PreparationEnds == <>Prepared \/ <>[]Hanging
=============================================================================
