---------------------------- MODULE FsyncJournal ----------------------------
(***************************************************************************)
(* Temporary fsync=off for the initial load and its recovery journal       *)
(* (initialization_settings.py).                                           *)
(*                                                                         *)
(* A run saves the original setting of the primary in a journal file, sets *)
(* fsync=off, loads, restores the setting, checkpoints, syncs the host and *)
(* removes the journal; then it measures.  A later run of the same user    *)
(* and machine that finds a journal restores the setting first.  Here      *)
(* every element of Runs is one user's process slot, and a slot that ended *)
(* may start a new run.                                                    *)
(*                                                                         *)
(* The server lock is the abstract one of ServerLock.  The environment may *)
(* kill a run, fail or cancel it at any await, drop its session, restart   *)
(* the server, or fail over to another host.                               *)
(***************************************************************************)
EXTENDS Naturals, FiniteSets

CONSTANTS
    Runs,         \* process slots that share one journal directory
    Hosts,        \* database hosts of the cluster
    Home,         \* the host a run reaches by SSH, Docker or locally
    Superusers,   \* runs whose SQL role is a superuser
    OffRuns,      \* runs with --init-fsync off, the others keep it
    Original,     \* per host: its fsync override in postgresql.auto.conf
    ConfValue,    \* fsync of every postgresql.conf
    Exposed,      \* control points at which a session may be lost
    TornWrites,   \* may a run stop while it writes the journal?
    MaxFaults     \* bound on the faults of one behaviour

None == "none"
Values == {"on", "off"}

\* Before the controller is open, in restore(), and in the rest of a run.
Opening == {"connect", "lock", "inspect"}
Restoring == {"restore", "reconnect", "relock", "identify", "unalter",
              "reloadOn", "checkpoint", "sync", "unlink"}
Running == {"opened", "disable", "save", "saving", "alter", "reloadOff",
            "load", "workload"}
Points == Opening \cup Restoring \cup Running \cup {"idle", "closing", "disconnect"}

ASSUME SettingsAssumption ==
    /\ Home \in [Runs -> Hosts]
    /\ Superusers \subseteq Runs
    /\ OffRuns \subseteq Runs
    /\ Original \in [Hosts -> Values \cup {None}]
    /\ ConfValue \in Values
    /\ Exposed \subseteq Points
    /\ TornWrites \in BOOLEAN
    /\ MaxFaults \in Nat

\* postgresql.auto.conf overrides postgresql.conf.
Effective(override) == IF override = None THEN ConfValue ELSE override

\* What disable() saves: the override and the effective value.
Setting(override, value) == [auto_value |-> override, fsync |-> value]
OriginalSetting(h) == Setting(Original[h], Effective(Original[h]))
Settings == [auto_value : Values \cup {None}, fsync : Values]

NoFile == [file |-> "absent"]
TornFile == [file |-> "torn"]
Saved(setting) == [file |-> "saved", state |-> setting]

VARIABLES
    pc,          \* control point of each run
    resume,      \* where restore() returns to
    conn,        \* controller session: "none", "open", "dead"
    changed,     \* the flag of the same name
    original,    \* the setting a run will restore, a sequence of at most one
    owner,       \* the runs that hold the server lock
    primary,     \* the host of the current primary
    auto,        \* per host: the override in postgresql.auto.conf
    eff,         \* per host: the effective fsync
    dirty,       \* per host: where data written under the tool's fsync=off is
    journal,     \* per host: its journal file
    faults       \* faults so far

vars == <<pc, resume, conn, changed, original, owner, primary, auto, eff, dirty,
          journal, faults>>
run == <<resume, changed, original>>
lock == <<conn, owner>>
server == <<primary, auto, eff, dirty>>

Lock == INSTANCE ServerLock

Init ==
    /\ pc = [r \in Runs |-> "idle"]
    /\ resume = [r \in Runs |-> "opened"]
    /\ conn = [r \in Runs |-> "none"]
    /\ changed = [r \in Runs |-> FALSE]
    /\ original = [r \in Runs |-> <<>>]
    /\ owner = {}
    /\ primary \in Hosts
    /\ auto = Original
    /\ eff = [h \in Hosts |-> Effective(Original[h])]
    /\ dirty = [h \in Hosts |-> "clean"]
    /\ journal = [h \in Hosts |-> NoFile]
    /\ faults = 0

-----------------------------------------------------------------------------
Goto(r, point) == pc' = [pc EXCEPT ![r] = point]
Go(r, here, next) == pc[r] = here /\ Goto(r, next)

\* A statement over the controller session, which leads to the primary.
Query(r, here, next) == conn[r] = "open" /\ Go(r, here, next)

Restore(r, return) == /\ Goto(r, "restore")
                      /\ resume' = [resume EXCEPT ![r] = return]

\* Where an error leads: open() and close() end with _disconnect, any other
\* error reaches the close() of the finally clause.
AfterError(r) == IF \/ pc[r] \in Opening
                    \/ pc[r] \in Restoring /\ resume[r] # "workload"
                 THEN "disconnect" ELSE "closing"

Begin(r) ==
    /\ Go(r, "idle", "connect")
    /\ UNCHANGED <<run, lock, server, journal, faults>>

\* Mutant: restore() reconnects without taking the lock again.
ConnectUnlocked(r) ==
    /\ \/ Go(r, "connect", "lock")
       \/ Go(r, "reconnect", "identify")
    /\ conn' = [conn EXCEPT ![r] = "open"]
    /\ UNCHANGED <<run, owner, server, journal, faults>>

Connect(r) ==
    /\ \/ Go(r, "connect", "lock")
       \/ Go(r, "reconnect", "relock")
    /\ conn' = [conn EXCEPT ![r] = "open"]
    /\ UNCHANGED <<run, owner, server, journal, faults>>

\* _acquire_lock, at the grain of ServerLock.
AcquireLock(r) ==
    /\ \/ Query(r, "lock", "inspect")
       \/ Query(r, "relock", "identify")
    /\ Lock!Acquire(r)
    /\ UNCHANGED <<run, conn, server, journal, faults>>

LockRefused(r) ==
    /\ pc[r] \in {"lock", "relock"}
    /\ owner # {}
    /\ Goto(r, AfterError(r))
    /\ UNCHANGED <<run, lock, server, journal, faults>>

-----------------------------------------------------------------------------
(* open(): permissions, host identity and pending recovery.                *)

Pending == {h \in Hosts : journal[h] # NoFile}

\* Recovery needs the host the SQL endpoint leads to, no unreadable journal and
\* none of another host.
Readable(r) == /\ Home[r] = primary
               /\ \A h \in Pending : h = Home[r] /\ journal[h] # TornFile

\* Mutant: pending journals are left alone.
ProceedAnyway(r) == r \in OffRuns => r \in Superusers /\ Home[r] = primary

\* Nothing to recover, and fsync=off is possible if it is wanted.
MayProceed(r) == Pending = {} /\ (r \in OffRuns => r \in Superusers /\ Home[r] = primary)

\* Mutant: journals are reported, never recovered.
NeverRecover(r) == FALSE
MayRecover(r) == Pending # {} /\ r \in Superusers /\ Readable(r)

Inspect(r) ==
    /\ conn[r] = "open"
    /\ pc[r] = "inspect"
    /\ \/ MayProceed(r) /\ Goto(r, "opened") /\ UNCHANGED run
       \/ /\ MayRecover(r)
          /\ original' = [original EXCEPT ![r] = <<journal[Home[r]].state>>]
          /\ changed' = [changed EXCEPT ![r] = TRUE]
          /\ Restore(r, "opened")
       \/ ~MayProceed(r) /\ ~MayRecover(r) /\ Goto(r, "disconnect") /\ UNCHANGED run
    /\ UNCHANGED <<lock, server, journal, faults>>

-----------------------------------------------------------------------------
(* initialize_database(): disable, load, restore; then the workload.       *)

StartLoad(r) ==
    /\ Go(r, "opened", IF r \in OffRuns THEN "disable" ELSE "load")
    /\ UNCHANGED <<run, lock, server, journal, faults>>

\* SHOW fsync and the override, before anything is changed.
ReadOriginal(r) ==
    /\ Query(r, "disable", "save")
    /\ original' = [original EXCEPT ![r] = <<Setting(auto[primary], eff[primary])>>]
    /\ UNCHANGED <<resume, changed, lock, server, journal, faults>>

\* _save: exclusive creation, then contents, flush and fsync.
CreateJournal(r) ==
    /\ IF journal[Home[r]] = NoFile
       THEN /\ Go(r, "save", "saving")
            /\ journal' = [journal EXCEPT ![Home[r]] = TornFile]
       ELSE /\ Go(r, "save", AfterError(r))
            /\ UNCHANGED journal
    /\ UNCHANGED <<run, lock, server, faults>>

WriteJournal(r) ==
    /\ Go(r, "saving", "alter")
    /\ journal' = [journal EXCEPT ![Home[r]] = Saved(original[r][1])]
    /\ changed' = [changed EXCEPT ![r] = TRUE]
    /\ UNCHANGED <<resume, original, lock, server, faults>>

AlterOff(r) ==
    /\ Query(r, "alter", "reloadOff")
    /\ auto' = [auto EXCEPT ![primary] = "off"]
    /\ UNCHANGED <<run, lock, primary, eff, dirty, journal, faults>>

Reload == eff' = [eff EXCEPT ![primary] = Effective(auto[primary])]

ReloadOff(r) ==
    /\ Query(r, "reloadOff", "load")
    /\ Reload
    /\ UNCHANGED <<run, lock, primary, auto, dirty, journal, faults>>

\* Loader sessions of their own write to the primary.  What they write while
\* the tool has fsync off may stay in shared buffers.
Write(r) ==
    /\ pc[r] = "load"
    /\ eff[primary] # Effective(Original[primary])
    /\ dirty' = [dirty EXCEPT ![primary] = "buffers"]
    /\ UNCHANGED <<pc, run, lock, primary, auto, eff, journal, faults>>

\* Mutant: the workload follows the load at once.
FinishLoadOnly(r) ==
    /\ Go(r, "load", "workload")
    /\ UNCHANGED <<run, lock, server, journal, faults>>

FinishLoad(r) ==
    /\ pc[r] = "load"
    /\ Restore(r, "workload")
    /\ UNCHANGED <<changed, original, lock, server, journal, faults>>

\* The end of the workload, or of the handling of an error: close().
FinishWorkload(r) ==
    /\ Go(r, "workload", "closing")
    /\ UNCHANGED <<run, lock, server, journal, faults>>

Close(r) ==
    /\ pc[r] = "closing"
    /\ Restore(r, "disconnect")
    /\ UNCHANGED <<changed, original, lock, server, journal, faults>>

Disconnect(r) ==
    /\ Go(r, "disconnect", "idle")
    /\ conn' = [conn EXCEPT ![r] = "none"]
    /\ owner' = owner \ {r}
    /\ changed' = [changed EXCEPT ![r] = FALSE]
    /\ original' = [original EXCEPT ![r] = <<>>]
    /\ UNCHANGED <<resume, server, journal, faults>>

-----------------------------------------------------------------------------
(* restore(), in the order of the code.                                    *)

\* Nothing to do; or over the session there is; or over a new one that has to
\* take the lock again; or an error, when a failed reconnection left none.
StartRestore(r) ==
    /\ pc[r] = "restore"
    /\ CASE ~changed[r] -> Goto(r, resume[r]) /\ UNCHANGED lock
         [] changed[r] /\ conn[r] = "open" -> Goto(r, "identify") /\ UNCHANGED lock
         [] changed[r] /\ conn[r] = "dead" ->
              /\ Goto(r, "reconnect")
              /\ conn' = [conn EXCEPT ![r] = "none"]
              /\ owner' = owner \ {r}
         [] OTHER -> Goto(r, AfterError(r)) /\ UNCHANGED lock
    /\ UNCHANGED <<run, server, journal, faults>>

\* Mutant: the host is not compared again.
IdentifyAny(r) ==
    /\ Query(r, "identify", "unalter")
    /\ UNCHANGED <<run, lock, server, journal, faults>>

\* SQL and host access must still lead to the host of the journal.
Identify(r) ==
    /\ Query(r, "identify", IF Home[r] = primary THEN "unalter" ELSE AfterError(r))
    /\ UNCHANGED <<run, lock, server, journal, faults>>

AlterBack(r) ==
    /\ Query(r, "unalter", "reloadOn")
    /\ auto' = [auto EXCEPT ![primary] = original[r][1].auto_value]
    /\ UNCHANGED <<run, lock, primary, eff, dirty, journal, faults>>

\* _reload(expected) fails when the original value does not come back.
ReloadBack(r) ==
    /\ Query(r, "reloadOn", IF Effective(auto[primary]) = original[r][1].fsync
                            THEN "checkpoint" ELSE AfterError(r))
    /\ Reload
    /\ UNCHANGED <<run, lock, primary, auto, dirty, journal, faults>>

\* Mutant: no sync after the checkpoint.
CheckpointOnly(r) ==
    /\ Query(r, "checkpoint", "unlink")
    /\ dirty' = [dirty EXCEPT ![primary] = IF @ = "buffers" THEN "kernel" ELSE @]
    /\ UNCHANGED <<run, lock, primary, auto, eff, journal, faults>>

\* CHECKPOINT hands shared buffers to the kernel.
Checkpoint(r) ==
    /\ Query(r, "checkpoint", "sync")
    /\ dirty' = [dirty EXCEPT ![primary] = IF @ = "buffers" THEN "kernel" ELSE @]
    /\ UNCHANGED <<run, lock, primary, auto, eff, journal, faults>>

\* sync on the host of the run flushes what the kernel has; no SQL is involved.
Sync(r) ==
    /\ Go(r, "sync", "unlink")
    /\ dirty' = [dirty EXCEPT ![Home[r]] = IF @ = "kernel" THEN "clean" ELSE @]
    /\ UNCHANGED <<run, lock, primary, auto, eff, journal, faults>>

Unlink(r) ==
    /\ IF journal[Home[r]] # NoFile
       THEN /\ Go(r, "unlink", resume[r])
            /\ journal' = [journal EXCEPT ![Home[r]] = NoFile]
            /\ changed' = [changed EXCEPT ![r] = FALSE]
       ELSE /\ Go(r, "unlink", AfterError(r))
            /\ UNCHANGED <<journal, changed>>
    /\ UNCHANGED <<resume, original, lock, server, faults>>

-----------------------------------------------------------------------------
(* Failures.                                                               *)

\* A statement over a session that is gone.
SessionGone(r) ==
    /\ pc[r] \in {"lock", "relock", "inspect", "disable", "alter", "reloadOff",
                  "identify", "unalter", "reloadOn", "checkpoint"}
    /\ conn[r] # "open"
    /\ Goto(r, AfterError(r))
    /\ UNCHANGED <<run, lock, server, journal, faults>>

Fault == faults < MaxFaults /\ faults' = faults + 1

\* Only TornWrites lets a run stop inside _save.
Stoppable(r) == pc[r] = "saving" => TornWrites

\* An error, a timeout or a cancellation at an await.
Fail(r) ==
    /\ Fault
    /\ pc[r] \in Opening \cup Restoring \cup Running
    /\ Stoppable(r)
    /\ Goto(r, AfterError(r))
    /\ UNCHANGED <<run, lock, server, journal>>

\* SIGKILL; the memory of the run is gone, the journal is not.
Kill(r) ==
    /\ Fault
    /\ pc[r] # "idle"
    /\ Stoppable(r)
    /\ Goto(r, "idle")
    /\ conn' = [conn EXCEPT ![r] = "none"]
    /\ owner' = owner \ {r}
    /\ changed' = [changed EXCEPT ![r] = FALSE]
    /\ original' = [original EXCEPT ![r] = <<>>]
    /\ UNCHANGED <<resume, server, journal>>

\* The sessions of S end.
EndSessions(S) ==
    /\ \A r \in S : conn[r] = "open" => pc[r] \in Exposed
    /\ conn' = [r \in Runs |-> IF r \in S /\ conn[r] = "open" THEN "dead" ELSE conn[r]]
    /\ owner' = owner \ S

LoseSession(r) ==
    /\ Fault
    /\ conn[r] = "open"
    /\ EndSessions({r})
    /\ UNCHANGED <<pc, run, server, journal>>

\* Loaders and workloads end with an error when their server goes away.
StopWork ==
    pc' = [r \in Runs |-> IF pc[r] \in {"load", "workload"} THEN "closing" ELSE pc[r]]

\* A restarted server reads its configuration files.
ServerRestart ==
    /\ Fault
    /\ EndSessions(Runs)
    /\ StopWork
    /\ Reload
    /\ UNCHANGED <<run, primary, auto, dirty, journal>>

Failover ==
    /\ Fault
    /\ EndSessions(Runs)
    /\ StopWork
    /\ \E h \in Hosts \ {primary} : primary' = h
    /\ Reload
    /\ UNCHANGED <<run, auto, dirty, journal>>

-----------------------------------------------------------------------------
Step(r) == \/ Connect(r) \/ AcquireLock(r) \/ LockRefused(r) \/ Inspect(r)
           \/ StartLoad(r) \/ ReadOriginal(r) \/ CreateJournal(r)
           \/ WriteJournal(r) \/ AlterOff(r) \/ ReloadOff(r) \/ FinishLoad(r)
           \/ FinishWorkload(r) \/ Close(r) \/ Disconnect(r) \/ StartRestore(r)
           \/ Identify(r) \/ AlterBack(r) \/ ReloadBack(r) \/ Checkpoint(r)
           \/ Sync(r) \/ Unlink(r) \/ SessionGone(r)

Next == \/ \E r \in Runs : \/ Begin(r) \/ Step(r) \/ Write(r) \/ Fail(r)
                           \/ Kill(r) \/ LoseSession(r)
        \/ ServerRestart
        \/ Failover

Spec == Init /\ [][Next]_vars

\* The server and the host answer, or their loss is seen (LoseSession, Fail): the
\* controller's statements have command_timeout, its close has no bound of its
\* own.  So a run that has begun goes on; its user starts the next run; a run
\* that keeps finding the lock free in between takes it at last.
Fairness == \A r \in Runs : /\ WF_vars(Begin(r))
                            /\ WF_vars(Step(r))
                            /\ SF_vars(AcquireLock(r))
FairSpec == Spec /\ Fairness

-----------------------------------------------------------------------------
(* Properties.                                                             *)

\* Every variable keeps its type.
TypeOK ==
    /\ pc \in [Runs -> Points]
    /\ resume \in [Runs -> {"opened", "workload", "disconnect"}]
    /\ conn \in [Runs -> {"none", "open", "dead"}]
    /\ changed \in [Runs -> BOOLEAN]
    /\ original \in [Runs -> {<<>>} \cup {<<s>> : s \in Settings}]
    /\ owner \subseteq Runs
    /\ primary \in Hosts
    /\ auto \in [Hosts -> Values \cup {None}]
    /\ eff \in [Hosts -> Values]
    /\ dirty \in [Hosts -> {"clean", "kernel", "buffers"}]
    /\ journal \in [Hosts -> {NoFile, TornFile} \cup {Saved(s) : s \in Settings}]
    /\ faults \in Nat

\* The host is as its owner left it: setting, override and data.
Untouched(h) == /\ auto[h] = Original[h]
                /\ eff[h] = Effective(Original[h])
                /\ dirty[h] = "clean"

\* Whenever the tool's override, its effective value or unsynchronized data is
\* left on a host, a complete journal there holds the original setting: a kill
\* at any point can be recovered from.
JournalCoversChange ==
    \A h \in Hosts : ~Untouched(h) => journal[h] = Saved(OriginalSetting(h))

\* No run ever takes the tool's own fsync=off for the original value.
NeverAdoptsOff ==
    \A r \in Runs : original[r] # <<>> => original[r][1] = OriginalSetting(Home[r])

\* The workload of the lock holder runs with the original setting, on data
\* that has been checkpointed and synchronized.
WorkloadOnDurableData ==
    \A r \in owner : pc[r] = "workload" => Untouched(primary)

\* A journal goes away only when its host is as it was.
RestoredBeforeUnlink ==
    [][\A h \in Hosts : journal[h] # NoFile /\ journal'[h] = NoFile =>
            Untouched(h)]_vars

\* Statements that change the settings of the server.
Mutating == {"alter", "reloadOff", "unalter", "reloadOn", "checkpoint"}

\* restore() called by close(): it takes whatever session is there, also the one
\* that an earlier restore() opened and could not get the lock for.
RepeatedRestore(r) == pc[r] \in Restoring /\ resume[r] = "disconnect"

\* In disable(), and in restore() of open() and of initialize_database(), whoever
\* changes the settings over a live session holds the lock, whenever and however
\* often sessions were lost before.  "throughout this check and all mutations"
\* of the code's comment would include RepeatedRestore, where it is not so.
MutationsHoldLock ==
    \A r \in Runs :
        pc[r] \in Mutating /\ conn[r] = "open" /\ ~RepeatedRestore(r) => r \in owner

\* A killed or failed run is recovered from by the runs that follow.
EventuallyRestored == \A h \in Hosts : ~Untouched(h) ~> Untouched(h)
=============================================================================
