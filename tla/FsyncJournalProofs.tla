------------------------- MODULE FsyncJournalProofs -------------------------
(***************************************************************************)
(* Proofs about the fsync journal, for any number of runs and hosts, any   *)
(* original settings and any number of faults: every change of the server  *)
(* is covered by a complete journal, as long as no session is lost while   *)
(* the code waits without looking at it (see LossTolerated).               *)
(***************************************************************************)
EXTENDS FsyncJournal, TLAPS

\* The sessions of a load, of the host's sync and of the removal of the
\* journal last: the code does not look at the lock there.
SessionsLast == Exposed \cap {"load", "restore", "sync", "unlink"} = {}

-----------------------------------------------------------------------------
(* The inductive invariant.                                                *)

\* A run with an open session has the lock, except while it gets it or ends.
Held == Points \ {"idle", "connect", "lock", "reconnect", "relock", "disconnect"}

LockInv ==
    /\ \A r \in owner : conn[r] = "open"
    /\ \A r, s \in owner : r = s
    /\ \A r \in Runs : pc[r] \in Held /\ conn[r] = "open" => r \in owner

\* The order of the code in one run.
FlowInv ==
    \A r \in Runs :
        /\ pc[r] \in {"reconnect", "relock"} => resume[r] # "workload"
        /\ pc[r] \in {"sync", "unlink"} => conn[r] = "open"
        /\ pc[r] = "load" /\ changed[r] => conn[r] = "open"
        /\ pc[r] = "restore" /\ changed[r] /\ resume[r] = "workload" => conn[r] = "open"
        /\ pc[r] = "restore" /\ resume[r] = "opened" => changed[r]
        /\ pc[r] \in (Restoring \ {"restore"}) \cup {"alter", "reloadOff"} => changed[r]
        /\ pc[r] \in {"idle", "connect", "lock", "inspect", "opened"} => ~changed[r]
        /\ changed[r] \/ pc[r] \in {"save", "saving"} => original[r] # <<>>

\* Only the original settings are ever remembered.
ValueInv ==
    /\ \A r \in Runs : original[r] \in {<<>>, <<OriginalSetting(Home[r])>>}
    /\ \A h \in Hosts : journal[h] \in {NoFile, TornFile, Saved(OriginalSetting(h))}

Quiet(h) == auto[h] = Original[h] /\ eff[h] = Effective(Original[h])

\* The lock holder reaches the primary at these control points.
Placed == {"disable", "save", "saving", "alter", "reloadOff", "unalter", "reloadOn",
           "checkpoint", "sync", "unlink"}

\* It has not changed the primary yet, or no longer.
Undisturbed(r) ==
    \/ pc[r] \in {"opened", "disable", "unlink", "workload"}
    \/ pc[r] = "load" /\ ~changed[r]
    \/ pc[r] = "restore" /\ ~changed[r] /\ resume[r] = "workload"

\* What it has established about the primary.
Established(r) ==
    /\ pc[r] \in Placed => Home[r] = primary
    /\ pc[r] = "opened" /\ r \in OffRuns => Home[r] = primary
    /\ Undisturbed(r) => Untouched(primary)
    /\ pc[r] \in {"alter", "reloadOff"} =>
           journal[primary] = Saved(OriginalSetting(primary))
    /\ pc[r] = "reloadOn" => auto[primary] = Original[primary]
    /\ pc[r] \in {"checkpoint", "sync"} => Quiet(primary)
    /\ pc[r] = "sync" => dirty[primary] # "buffers"

HostInv == \A r \in owner : Established(r)

JournalInv == /\ TypeOK /\ LockInv /\ FlowInv /\ ValueInv
              /\ HostInv /\ JournalCoversChange

LEMMA SettingFacts ==
    /\ \A h \in Hosts : Effective(Original[h]) \in Values
    /\ \A h \in Hosts : OriginalSetting(h) \in Settings
    /\ \A a \in Values \cup {None} : Effective(a) \in Values
    /\ \A r \in Runs : Home[r] \in Hosts
    /\ \A h \in Hosts : Original[h] \in Values \cup {None}
BY SettingsAssumption DEF Effective, OriginalSetting, Setting, Settings, Values

LEMMA TypeInductive ==
    ASSUME JournalInv, [Next]_vars
    PROVE  TypeOK'
<1>0. TypeOK /\ ValueInv /\ FlowInv
  BY DEF JournalInv
<1> USE DEF TypeOK, run, lock, server, Goto, Go, Query, Restore
<1>p. \A r \in Runs : AfterError(r) \in Points
  BY DEF AfterError, Points
<1>r. \A r \in Runs : resume[r] \in Points
  BY <1>0 DEF Points, Running
<1>1. ASSUME NEW r \in Runs,
             \/ Begin(r) \/ Connect(r) \/ LockRefused(r) \/ StartLoad(r) \/ FinishWorkload(r)
             \/ FinishLoad(r) \/ Close(r) \/ Identify(r) \/ SessionGone(r)
      PROVE  TypeOK'
  BY <1>0, <1>1, <1>p DEF Begin, Connect, LockRefused, StartLoad, FinishWorkload, FinishLoad,
         Close, Identify, SessionGone, Points, Opening, Restoring, Running
<1>2. ASSUME NEW r \in Runs, AcquireLock(r)
      PROVE  TypeOK'
  BY <1>0, <1>2 DEF AcquireLock, Lock!Acquire, Points, Opening, Restoring, Running
<1>3. ASSUME NEW r \in Runs, Inspect(r)
      PROVE  TypeOK'
  <2>1. CASE UNCHANGED run /\ pc' = [pc EXCEPT ![r] = "opened"]
    BY <1>0, <1>3, <2>1 DEF Inspect, MayProceed, MayRecover, Points, Running
  <2>2. CASE UNCHANGED run /\ pc' = [pc EXCEPT ![r] = "disconnect"]
    BY <1>0, <1>3, <2>2 DEF Inspect, MayProceed, MayRecover, Points
  <2>3. CASE /\ Pending # {} /\ Readable(r)
             /\ original' = [original EXCEPT ![r] = <<journal[Home[r]].state>>]
             /\ changed' = [changed EXCEPT ![r] = TRUE]
             /\ Restore(r, "opened")
    <3>1. journal[Home[r]] = Saved(OriginalSetting(Home[r]))
      BY <1>0, <2>3, SettingFacts DEF Pending, Readable, ValueInv
    <3>2. journal[Home[r]].state \in Settings
      BY <3>1, SettingFacts DEF Saved
    <3> QED
      BY <1>0, <1>3, <2>3, <3>2 DEF Inspect, MayProceed, MayRecover, Points, Restoring
  <2> QED
    BY <1>3, <2>1, <2>2, <2>3 DEF Inspect, MayProceed, MayRecover
<1>4. ASSUME NEW r \in Runs, ReadOriginal(r)
      PROVE  TypeOK'
  <2>1. Setting(auto[primary], eff[primary]) \in Settings
    BY <1>0, SettingFacts DEF Setting, Settings
  <2> QED
    BY <1>0, <1>4, <2>1 DEF ReadOriginal, Points, Running
<1>5. ASSUME NEW r \in Runs, CreateJournal(r)
      PROVE  TypeOK'
  BY <1>0, <1>5, <1>p DEF CreateJournal, Points, Running
<1>6. ASSUME NEW r \in Runs, WriteJournal(r)
      PROVE  TypeOK'
  <2>1. original[r][1] \in Settings
    BY <1>0, <1>6, SettingFacts DEF WriteJournal, FlowInv, ValueInv
  <2>2. Saved(original[r][1]) \in {Saved(x) : x \in Settings}
    BY <2>1
  <2> QED
    BY <1>0, <1>6, <2>2 DEF WriteJournal, Points, Running
<1>7. ASSUME NEW r \in Runs, AlterOff(r) \/ ReloadOff(r)
      PROVE  TypeOK'
  <2>1. Effective(auto[primary]) \in Values
    BY <1>0, SettingFacts
  <2> QED
    BY <1>0, <1>7, <2>1 DEF AlterOff, ReloadOff, Reload, Points, Running, Values
<1>8. ASSUME NEW r \in Runs, Write(r)
      PROVE  TypeOK'
  BY <1>0, <1>8 DEF Write
<1>9. ASSUME NEW r \in Runs, Disconnect(r) \/ Kill(r)
      PROVE  TypeOK'
  <2>1. /\ pc' = [pc EXCEPT ![r] = "idle"]
        /\ conn' = [conn EXCEPT ![r] = "none"]
        /\ owner' = owner \ {r}
        /\ changed' = [changed EXCEPT ![r] = FALSE]
        /\ original' = [original EXCEPT ![r] = <<>>]
        /\ UNCHANGED <<resume, server, journal>>
    BY <1>9 DEF Disconnect, Kill
  <2>2. faults' \in Nat
    BY <1>0, <1>9 DEF Disconnect, Kill, Fault
  <2> QED
    BY <1>0, <2>1, <2>2 DEF Points
<1>10. ASSUME NEW r \in Runs, StartRestore(r)
       PROVE  TypeOK'
  <2>1. UNCHANGED <<run, server, journal, faults>>
    BY <1>10 DEF StartRestore
  <2>2. pc' = [pc EXCEPT ![r] = pc'[r]] /\ pc'[r] \in Points
    BY <1>0, <1>10, <1>p, <1>r DEF StartRestore, Points, Restoring
  <2>3. \/ UNCHANGED lock
        \/ conn' = [conn EXCEPT ![r] = "none"] /\ owner' = owner \ {r}
    BY <1>10 DEF StartRestore
  <2> QED
    BY <1>0, <2>1, <2>2, <2>3
<1>11. ASSUME NEW r \in Runs, AlterBack(r) \/ ReloadBack(r)
       PROVE  TypeOK'
  <2>1. changed[r] /\ original[r] = <<OriginalSetting(Home[r])>>
    BY <1>0, <1>11 DEF AlterBack, ReloadBack, FlowInv, ValueInv, Restoring
  <2>2. original[r][1].auto_value \in Values \cup {None}
    BY <2>1, SettingFacts DEF OriginalSetting, Setting
  <2>3. Effective(auto[primary]) \in Values
    BY <1>0, SettingFacts
  <2>4. CASE AlterBack(r)
    BY <1>0, <2>2, <2>4 DEF AlterBack, Points, Restoring
  <2>5. CASE ReloadBack(r)
    BY <1>0, <1>p, <2>3, <2>5 DEF ReloadBack, Reload, Points, Restoring
  <2> QED
    BY <1>11, <2>4, <2>5
<1>12. ASSUME NEW r \in Runs, Checkpoint(r) \/ Sync(r)
       PROVE  TypeOK'
  BY <1>0, <1>12 DEF Checkpoint, Sync, Points, Restoring
<1>13. ASSUME NEW r \in Runs, Unlink(r)
       PROVE  TypeOK'
  BY <1>0, <1>13, <1>p, <1>r DEF Unlink
<1>14. ASSUME NEW r \in Runs, Fail(r)
       PROVE  TypeOK'
  BY <1>0, <1>14, <1>p DEF Fail, Fault
<1>15. ASSUME NEW r \in Runs, LoseSession(r)
       PROVE  TypeOK'
  BY <1>0, <1>15 DEF LoseSession, EndSessions, Fault
<1>16. CASE ServerRestart \/ Failover
  <2>1. Effective(auto[primary]) \in Values
    BY <1>0, SettingFacts
  <2>2. pc' \in [Runs -> Points]
    BY <1>0, <1>16 DEF ServerRestart, Failover, StopWork, Points
  <2>3. conn' \in [Runs -> {"none", "open", "dead"}] /\ owner' \subseteq Runs
    BY <1>0, <1>16 DEF ServerRestart, Failover, EndSessions
  <2>4. /\ primary' \in Hosts /\ eff' \in [Hosts -> Values] /\ faults' \in Nat
        /\ UNCHANGED <<run, auto, dirty, journal>>
    BY <1>0, <1>16, <2>1 DEF ServerRestart, Failover, Reload, Fault
  <2> QED
    BY <1>0, <2>2, <2>3, <2>4
<1>17. CASE UNCHANGED vars
  BY <1>0, <1>17 DEF vars
<1> QED
  BY <1>1, <1>2, <1>3, <1>4, <1>5, <1>6, <1>7, <1>8, <1>9, <1>10, <1>11, <1>12, <1>13,
     <1>14, <1>15, <1>16, <1>17 DEF Next, Step

-----------------------------------------------------------------------------
(* The server lock and the order of the code.                              *)

LEMMA LockInductive ==
    ASSUME SessionsLast, JournalInv, [Next]_vars
    PROVE  LockInv'
<1>0. TypeOK /\ LockInv /\ FlowInv
  BY DEF JournalInv
<1> USE DEF TypeOK, LockInv, run, lock, Goto, Go, Query, Restore
<1>e. \A r \in Runs : /\ pc[r] \notin {"relock", "lock"} => pc[r] \in Points
                      /\ pc[r] \in {"relock", "lock"} => AfterError(r) = "disconnect"
                      /\ AfterError(r) \in {"closing", "disconnect"}
                      /\ AfterError(r) = "closing" => pc[r] \notin {"connect", "reconnect"}
  BY <1>0 DEF FlowInv, AfterError, Opening, Restoring
<1>1. ASSUME NEW r \in Runs, Begin(r) \/ Connect(r)
      PROVE  LockInv'
  BY <1>0, <1>1 DEF Begin, Connect, Held
<1>2. ASSUME NEW r \in Runs, AcquireLock(r)
      PROVE  LockInv'
  BY <1>0, <1>2 DEF AcquireLock, Lock!Acquire
<1>3. ASSUME NEW r \in Runs, Disconnect(r) \/ Kill(r)
      PROVE  LockInv'
  BY <1>0, <1>3 DEF Disconnect, Kill, Held
<1>4. ASSUME NEW r \in Runs, UNCHANGED lock,
             pc' = [pc EXCEPT ![r] = pc'[r]], pc'[r] \in Held => pc[r] \in Held
      PROVE  LockInv'
  BY <1>0, <1>4
<1>5. ASSUME NEW r \in Runs,
             \/ LockRefused(r) \/ Inspect(r) \/ StartLoad(r) \/ ReadOriginal(r)
             \/ CreateJournal(r) \/ WriteJournal(r) \/ AlterOff(r) \/ ReloadOff(r)
             \/ FinishLoad(r) \/ FinishWorkload(r) \/ Close(r) \/ Identify(r)
             \/ AlterBack(r) \/ ReloadBack(r) \/ Checkpoint(r) \/ Sync(r) \/ Unlink(r)
             \/ SessionGone(r) \/ Fail(r)
      PROVE  /\ UNCHANGED lock
             /\ pc' = [pc EXCEPT ![r] = pc'[r]]
             /\ pc[r] \in Held \cup {"lock", "relock", "connect", "reconnect"}
             /\ pc[r] \notin Held => pc'[r] = "disconnect"
  <2>1. UNCHANGED lock /\ pc' = [pc EXCEPT ![r] = pc'[r]]
    BY <1>0, <1>5 DEF LockRefused, Inspect, StartLoad, ReadOriginal, CreateJournal, WriteJournal,
           AlterOff, ReloadOff, FinishLoad, FinishWorkload, Close, Identify, AlterBack,
           ReloadBack, Checkpoint, Sync, Unlink, SessionGone, Fail
  <2> QED
    BY <1>0, <1>e, <1>5, <2>1 DEF LockRefused, Inspect, StartLoad, ReadOriginal, CreateJournal,
           WriteJournal, AlterOff, ReloadOff, FinishLoad, FinishWorkload, Close, Identify,
           AlterBack, ReloadBack, Checkpoint, Sync, Unlink, SessionGone, Fail,
           Held, Points, Opening, Restoring, Running, AfterError
<1>6. ASSUME NEW r \in Runs, StartRestore(r)
      PROVE  LockInv'
  <2>1. pc[r] = "restore" /\ pc' = [pc EXCEPT ![r] = pc'[r]]
    BY <1>0, <1>6 DEF StartRestore
  <2>2. \/ UNCHANGED lock
        \/ /\ conn[r] = "dead"
           /\ conn' = [conn EXCEPT ![r] = "none"]
           /\ owner' = owner \ {r}
    BY <1>6 DEF StartRestore
  <2>3. "restore" \in Held
    BY DEF Held, Points, Restoring
  <2> QED
    BY <1>0, <2>1, <2>2, <2>3
<1>7. ASSUME NEW r \in Runs, Write(r) \/ LoseSession(r)
      PROVE  LockInv'
  BY <1>0, <1>7 DEF Write, LoseSession, EndSessions
<1>8. CASE ServerRestart \/ Failover
  BY <1>0, <1>8 DEF ServerRestart, Failover, EndSessions
<1>9. CASE UNCHANGED vars
  BY <1>0, <1>9 DEF vars
<1>10. ASSUME NEW r \in Runs,
              /\ UNCHANGED lock
              /\ pc' = [pc EXCEPT ![r] = pc'[r]]
              /\ pc[r] \in Held \cup {"lock", "relock", "connect", "reconnect"}
              /\ pc[r] \notin Held => pc'[r] = "disconnect"
       PROVE  LockInv'
  <2>1. pc'[r] \in Held => pc[r] \in Held
    BY <1>10 DEF Held
  <2> QED
    BY <1>4, <1>10, <2>1
<1> QED
  BY <1>1, <1>2, <1>3, <1>5, <1>6, <1>7, <1>8, <1>9, <1>10 DEF Next, Step

LEMMA FlowInductive ==
    ASSUME SessionsLast, JournalInv, [Next]_vars
    PROVE  FlowInv'
<1>0. TypeOK /\ LockInv /\ FlowInv
  BY DEF JournalInv
<1> USE DEF TypeOK, run, lock, Goto, Go, Query, Restore
<1>e. \A r \in Runs : AfterError(r) \in {"closing", "disconnect"}
  BY DEF AfterError
<1>1. ASSUME NEW r \in Runs, Begin(r) \/ Connect(r) \/ AcquireLock(r) \/ LockRefused(r)
      PROVE  FlowInv'
  BY <1>0, <1>1, <1>e DEF Begin, Connect, AcquireLock, LockRefused, FlowInv, Restoring
<1>2. ASSUME NEW r \in Runs, Inspect(r)
      PROVE  FlowInv'
  <2>1. pc[r] = "inspect" /\ UNCHANGED lock
    BY <1>2 DEF Inspect, MayProceed, MayRecover
  <2>2. CASE UNCHANGED run /\ pc' = [pc EXCEPT ![r] = "opened"]
    BY <1>0, <2>1, <2>2 DEF FlowInv, Restoring
  <2>3. CASE UNCHANGED run /\ pc' = [pc EXCEPT ![r] = "disconnect"]
    BY <1>0, <2>1, <2>3 DEF FlowInv, Restoring
  <2>4. CASE /\ original' = [original EXCEPT ![r] = <<journal[Home[r]].state>>]
             /\ changed' = [changed EXCEPT ![r] = TRUE]
             /\ Restore(r, "opened")
    BY <1>0, <2>1, <2>4 DEF FlowInv, Restoring
  <2> QED
    BY <1>2, <2>2, <2>3, <2>4 DEF Inspect, MayProceed, MayRecover
<1>3. ASSUME NEW r \in Runs, StartLoad(r) \/ ReadOriginal(r) \/ CreateJournal(r) \/ WriteJournal(r)
      PROVE  FlowInv'
  <2>1. CASE StartLoad(r)
    BY <1>0, <2>1 DEF StartLoad, FlowInv, Restoring
  <2>2. CASE ReadOriginal(r)
    BY <1>0, <2>2 DEF ReadOriginal, FlowInv, Restoring
  <2>3. CASE CreateJournal(r)
    BY <1>0, <1>e, <2>3 DEF CreateJournal, FlowInv, Restoring
  <2>4. CASE WriteJournal(r)
    BY <1>0, <2>4 DEF WriteJournal, FlowInv, Restoring
  <2> QED
    BY <1>3, <2>1, <2>2, <2>3, <2>4
<1>4. ASSUME NEW r \in Runs, AlterOff(r) \/ ReloadOff(r) \/ FinishLoad(r) \/ FinishWorkload(r)
      PROVE  FlowInv'
  BY <1>0, <1>4 DEF AlterOff, ReloadOff, FinishLoad, FinishWorkload, FlowInv, Restoring
<1>5. ASSUME NEW r \in Runs, Close(r) \/ Disconnect(r) \/ Kill(r)
      PROVE  FlowInv'
  BY <1>0, <1>5 DEF Close, Disconnect, Kill, FlowInv, Restoring
<1>6. ASSUME NEW r \in Runs, StartRestore(r)
      PROVE  FlowInv'
  BY <1>0, <1>6, <1>e DEF StartRestore, FlowInv, Restoring
<1>7. ASSUME NEW r \in Runs, Identify(r) \/ AlterBack(r) \/ ReloadBack(r) \/ Checkpoint(r)
      PROVE  FlowInv'
  BY <1>0, <1>7, <1>e DEF Identify, AlterBack, ReloadBack, Checkpoint, FlowInv, Restoring
<1>8. ASSUME NEW r \in Runs, Sync(r) \/ Unlink(r)
      PROVE  FlowInv'
  BY <1>0, <1>8, <1>e DEF Sync, Unlink, FlowInv, Restoring
<1>9. ASSUME NEW r \in Runs, SessionGone(r) \/ Fail(r) \/ Write(r)
      PROVE  FlowInv'
  BY <1>0, <1>9, <1>e DEF SessionGone, Fail, Write, FlowInv, Restoring
<1>10. ASSUME NEW S \in SUBSET Runs, EndSessions(S), StopWork \/ UNCHANGED pc,
              UNCHANGED run
       PROVE  FlowInv'
  <2>1. \A r \in Runs : pc[r] \in {"load", "restore", "sync", "unlink"} => conn'[r] = conn[r]
    BY <1>0, <1>10 DEF EndSessions, SessionsLast
  <2>2. \A r \in Runs : pc'[r] = pc[r] \/ pc'[r] = "closing"
    BY <1>0, <1>10 DEF StopWork
  <2> QED
    BY <1>0, <1>10, <2>1, <2>2 DEF FlowInv, Restoring
<1>11. ASSUME NEW r \in Runs, LoseSession(r)
       PROVE  FlowInv'
  BY <1>10, <1>11 DEF LoseSession
<1>12. CASE ServerRestart \/ Failover
  BY <1>10, <1>12 DEF ServerRestart, Failover
<1>13. CASE UNCHANGED vars
  BY <1>0, <1>13 DEF vars, FlowInv
<1> QED
  BY <1>1, <1>2, <1>3, <1>4, <1>5, <1>6, <1>7, <1>8, <1>9, <1>11, <1>12, <1>13 DEF Next, Step

-----------------------------------------------------------------------------
(* The settings that are remembered, and the hosts.                        *)

LEMMA SavedFacts ==
    ASSUME NEW h \in Hosts
    PROVE  /\ Saved(OriginalSetting(h)) # NoFile /\ Saved(OriginalSetting(h)) # TornFile
           /\ Saved(OriginalSetting(h)).state = OriginalSetting(h)
           /\ NoFile # TornFile
           /\ OriginalSetting(h).auto_value = Original[h]
           /\ OriginalSetting(h).fsync = Effective(Original[h])
BY DEF Saved, NoFile, TornFile, OriginalSetting, Setting

\* The inspected journal holds the original setting.
LEMMA InspectFacts ==
    ASSUME JournalInv, NEW r \in Runs, Inspect(r)
    PROVE  \/ /\ pc' = [pc EXCEPT ![r] = "opened"]
              /\ UNCHANGED run
              /\ \A h \in Hosts : Untouched(h)
              /\ r \in OffRuns => Home[r] = primary
           \/ /\ pc' = [pc EXCEPT ![r] = "disconnect"]
              /\ UNCHANGED run
           \/ /\ pc' = [pc EXCEPT ![r] = "restore"]
              /\ original' = [original EXCEPT ![r] = <<OriginalSetting(Home[r])>>]
              /\ changed' = [changed EXCEPT ![r] = TRUE]
<1>1. ASSUME Pending = {}
      PROVE  \A h \in Hosts : Untouched(h)
  BY <1>1, SavedFacts DEF Pending, JournalInv, JournalCoversChange
<1>2. ASSUME Pending # {}, Readable(r)
      PROVE  journal[Home[r]].state = OriginalSetting(Home[r])
  BY <1>2, SavedFacts, SettingFacts DEF Pending, Readable, JournalInv, ValueInv
<1> QED
  BY <1>1, <1>2 DEF Inspect, MayProceed, MayRecover, Goto, Restore

LEMMA ValueInductive ==
    ASSUME JournalInv, [Next]_vars
    PROVE  ValueInv'
<1>0. TypeOK /\ FlowInv /\ ValueInv
  BY DEF JournalInv
<1> USE DEF TypeOK, ValueInv, run, lock
<1>1. ASSUME NEW r \in Runs, Inspect(r)
      PROVE  ValueInv'
  <2>1. UNCHANGED journal
    BY <1>1 DEF Inspect, MayProceed, MayRecover
  <2>2. \/ UNCHANGED original
        \/ original' = [original EXCEPT ![r] = <<OriginalSetting(Home[r])>>]
    BY <1>1, InspectFacts
  <2> QED
    BY <1>0, <2>1, <2>2
<1>2. ASSUME NEW r \in Runs, ReadOriginal(r)
      PROVE  ValueInv'
  <2>1. Setting(auto[primary], eff[primary]) = OriginalSetting(Home[r])
    <3>1. pc[r] = "disable" /\ conn[r] = "open"
      BY <1>2 DEF ReadOriginal, Query, Go
    <3>2. r \in owner
      BY <3>1 DEF JournalInv, LockInv, Held, Points, Running
    <3> QED
      BY <3>1, <3>2 DEF JournalInv, HostInv, Established, Placed, Undisturbed, Untouched,
           OriginalSetting
  <2> QED
    BY <1>0, <1>2, <2>1 DEF ReadOriginal
<1>3. ASSUME NEW r \in Runs, CreateJournal(r)
      PROVE  ValueInv'
  BY <1>0, <1>3 DEF CreateJournal
<1>4. ASSUME NEW r \in Runs, WriteJournal(r)
      PROVE  ValueInv'
  <2>1. original[r][1] = OriginalSetting(Home[r])
    BY <1>0, <1>4 DEF WriteJournal, Go, FlowInv
  <2> QED
    BY <1>0, <1>4, <2>1 DEF WriteJournal
<1>5. ASSUME NEW r \in Runs, Disconnect(r) \/ Kill(r)
      PROVE  ValueInv'
  BY <1>0, <1>5 DEF Disconnect, Kill
<1>6. ASSUME NEW r \in Runs, Unlink(r)
      PROVE  ValueInv'
  BY <1>0, <1>6 DEF Unlink
<1>7. ASSUME NEW r \in Runs,
             \/ Begin(r) \/ Connect(r) \/ AcquireLock(r) \/ LockRefused(r) \/ StartLoad(r)
             \/ AlterOff(r) \/ ReloadOff(r) \/ Write(r) \/ FinishLoad(r) \/ FinishWorkload(r)
             \/ Close(r) \/ StartRestore(r) \/ Identify(r) \/ AlterBack(r) \/ ReloadBack(r)
             \/ Checkpoint(r) \/ Sync(r) \/ SessionGone(r) \/ Fail(r) \/ LoseSession(r)
      PROVE  UNCHANGED <<original, journal>>
  BY <1>7 DEF Begin, Connect, AcquireLock, LockRefused, StartLoad, AlterOff, ReloadOff, Write,
         FinishLoad, FinishWorkload, Close, StartRestore, Identify, AlterBack, ReloadBack,
         Checkpoint, Sync, SessionGone, Fail, LoseSession
<1>8. CASE ServerRestart \/ Failover \/ UNCHANGED vars
  BY <1>0, <1>8 DEF ServerRestart, Failover, vars
<1>9. CASE UNCHANGED <<original, journal>>
  BY <1>0, <1>9
<1> QED
  BY <1>1, <1>2, <1>3, <1>4, <1>5, <1>6, <1>7, <1>8, <1>9 DEF Next, Step

\* Only the lock holder changes settings, flushes or removes a journal.
LEMMA HolderActs ==
    ASSUME JournalInv, NEW r \in Runs,
           \/ AlterOff(r) \/ ReloadOff(r) \/ AlterBack(r) \/ ReloadBack(r)
           \/ Checkpoint(r) \/ Sync(r) \/ Unlink(r)
    PROVE  owner = {r}
<1>1. pc[r] \in {"alter", "reloadOff", "unalter", "reloadOn", "checkpoint", "sync", "unlink"}
  BY DEF AlterOff, ReloadOff, AlterBack, ReloadBack, Checkpoint, Sync, Unlink, Query, Go
<1>2. conn[r] = "open"
  BY DEF AlterOff, ReloadOff, AlterBack, ReloadBack, Checkpoint, Sync, Unlink, Query, Go,
         JournalInv, FlowInv
<1>3. r \in owner
  BY <1>1, <1>2 DEF JournalInv, LockInv, Held, Points, Restoring, Running
<1> QED
  BY <1>3 DEF JournalInv, LockInv

\* It reaches the primary.
LEMMA HolderPlaced ==
    ASSUME JournalInv, NEW r \in Runs,
           \/ AlterOff(r) \/ ReloadOff(r) \/ AlterBack(r) \/ ReloadBack(r)
           \/ Checkpoint(r) \/ Sync(r) \/ Unlink(r)
    PROVE  Home[r] = primary /\ Established(r)
<1>1. Established(r)
  BY HolderActs DEF JournalInv, HostInv
<1> QED
  BY <1>1 DEF AlterOff, ReloadOff, AlterBack, ReloadBack, Checkpoint, Sync, Unlink, Query, Go,
         Established, Placed

\* A restored value is the original one.
LEMMA RestoredValue ==
    ASSUME JournalInv, NEW r \in Runs, AlterBack(r) \/ ReloadBack(r)
    PROVE  /\ original[r][1].auto_value = Original[primary]
           /\ original[r][1].fsync = Effective(Original[primary])
<1>1. original[r][1] = OriginalSetting(Home[r])
  BY DEF AlterBack, ReloadBack, Query, Go, JournalInv, FlowInv, ValueInv, Restoring
<1>2. Home[r] = primary
  BY HolderPlaced
<1> QED
  BY <1>1, <1>2, SavedFacts, SettingFacts

\* Steps of a run that leave all hosts alone.
Local(r) == \/ Begin(r) \/ Connect(r) \/ AcquireLock(r) \/ LockRefused(r) \/ Inspect(r)
            \/ StartLoad(r) \/ ReadOriginal(r) \/ FinishLoad(r) \/ FinishWorkload(r)
            \/ Close(r) \/ Disconnect(r) \/ StartRestore(r) \/ Identify(r) \/ SessionGone(r)
            \/ Fail(r) \/ Kill(r) \/ LoseSession(r)

LEMMA LocalKeepsHosts ==
    ASSUME NEW r \in Runs, Local(r)
    PROVE  UNCHANGED <<server, journal>>
BY DEF Local, Begin, Connect, AcquireLock, LockRefused, Inspect, StartLoad, ReadOriginal,
       FinishLoad, FinishWorkload, Close, Disconnect, StartRestore, Identify, SessionGone,
       Fail, Kill, LoseSession

\* The control points at which HostInv says something.
Telling == Placed \cup {"opened", "load", "restore", "workload"}

LEMMA LocalKeepsHostInv ==
    ASSUME JournalInv, [Next]_vars, NEW r \in Runs, Local(r)
    PROVE  HostInv'
<1>0. TypeOK /\ HostInv /\ FlowInv
  BY DEF JournalInv
<1>1. UNCHANGED <<primary, auto, eff, dirty, journal>>
  BY LocalKeepsHosts DEF server
<1>2. \A s \in Runs \ {r} : /\ pc'[s] = pc[s] /\ (s \in owner' => s \in owner)
                            /\ changed'[s] = changed[s] /\ resume'[s] = resume[s]
  BY <1>0 DEF TypeOK, Goto, Go, Query, Restore, run, lock, Lock!Acquire, EndSessions,
         Local, Begin, Connect, AcquireLock, LockRefused, Inspect, StartLoad, ReadOriginal,
         FinishLoad, FinishWorkload, Close, Disconnect, StartRestore, Identify, SessionGone,
         Fail, Kill, LoseSession
<1>3. \A h \in Hosts : Untouched(h)' <=> Untouched(h)
  BY <1>1 DEF Untouched
<1>4. primary \in Hosts
  BY <1>0 DEF TypeOK
<1>5. ASSUME r \in owner'
      PROVE  Established(r)'
  <2> SUFFICES ASSUME pc'[r] \in Telling
               PROVE  Established(r)'
    BY DEF Established, Undisturbed, Telling, Placed
  <2>1. CASE Inspect(r)
    <3>1. CASE /\ pc' = [pc EXCEPT ![r] = "opened"]
               /\ \A h \in Hosts : Untouched(h)
               /\ r \in OffRuns => Home[r] = primary
      BY <1>0, <1>1, <1>3, <1>4, <3>1 DEF TypeOK, Established, Undisturbed, Placed
    <3>2. CASE pc' = [pc EXCEPT ![r] = "disconnect"]
      BY <1>0, <3>2 DEF TypeOK, Telling, Placed
    <3>3. CASE /\ pc' = [pc EXCEPT ![r] = "restore"]
               /\ changed' = [changed EXCEPT ![r] = TRUE]
      BY <1>0, <3>3 DEF TypeOK, Established, Undisturbed, Placed
    <3> QED
      BY <2>1, <3>1, <3>2, <3>3, InspectFacts
  <2>2. CASE LoseSession(r)
    BY <1>0, <1>5, <2>2 DEF TypeOK, LoseSession, EndSessions
  <2>3. CASE StartRestore(r)
    BY <1>0, <1>1, <1>3, <1>5, <2>3
       DEF TypeOK, StartRestore, Goto, run, lock, FlowInv, AfterError, HostInv,
           Established, Undisturbed, Telling, Placed, Untouched
  <2>4. CASE StartLoad(r) \/ FinishLoad(r) \/ ReadOriginal(r)
    BY <1>0, <1>1, <1>3, <1>5, <2>4
       DEF TypeOK, StartLoad, FinishLoad, ReadOriginal, Restore, Query, Go, Goto, run, lock,
           HostInv, Established, Undisturbed, Telling, Placed, Untouched
  <2>5. CASE Identify(r)
    BY <1>0, <1>1, <2>5 DEF TypeOK, Identify, Query, Go, Goto, AfterError,
           Established, Undisturbed, Telling, Placed
  <2>6. CASE Close(r)
    BY <1>0, <1>1, <2>6 DEF TypeOK, Close, Restore, Goto, Established, Undisturbed, Placed
  <2>7. CASE \/ Begin(r) \/ Connect(r) \/ AcquireLock(r) \/ LockRefused(r)
             \/ FinishWorkload(r) \/ Disconnect(r) \/ SessionGone(r) \/ Fail(r) \/ Kill(r)
    BY <1>0, <2>7 DEF TypeOK, Goto, Go, Query, AfterError, Telling, Placed,
         Begin, Connect, AcquireLock, LockRefused, FinishWorkload, Disconnect,
         SessionGone, Fail, Kill
  <2> QED
    BY <2>1, <2>2, <2>3, <2>4, <2>5, <2>6, <2>7 DEF Local
<1>6. ASSUME NEW s \in Runs, s \in owner', s # r
      PROVE  Established(s)'
  BY <1>0, <1>1, <1>2, <1>3, <1>4, <1>6
     DEF HostInv, Established, Undisturbed, Quiet, OriginalSetting
<1>7. owner' \subseteq Runs
  BY TypeInductive DEF TypeOK
<1> QED
  BY <1>5, <1>6, <1>7 DEF HostInv

LEMMA HostInductive ==
    ASSUME SessionsLast, JournalInv, [Next]_vars
    PROVE  HostInv'
<1>0. TypeOK /\ HostInv /\ LockInv /\ FlowInv
  BY DEF JournalInv
<1> USE DEF TypeOK, Goto, Go, Query, run, lock, server
<1>e. /\ primary \in Hosts
      /\ \A r \in Runs : Home[r] \in Hosts /\ AfterError(r) \in {"closing", "disconnect"}
  BY <1>0, SettingFacts DEF AfterError
<1>1. ASSUME NEW r \in Runs, Local(r)
      PROVE  HostInv'
  BY <1>1, LocalKeepsHostInv
<1>2. ASSUME NEW r \in Runs, CreateJournal(r)
      PROVE  HostInv'
  <2>1. /\ UNCHANGED <<owner, primary, auto, eff, dirty, changed, resume>>
        /\ pc[r] = "save"
        /\ pc' = [pc EXCEPT ![r] = pc'[r]]
        /\ pc'[r] \in {"saving", "closing", "disconnect"}
    BY <1>0, <1>e, <1>2 DEF CreateJournal
  <2>2. journal'[primary] # journal[primary] => journal[primary] = NoFile
    BY <1>0, <1>e, <1>2 DEF CreateJournal
  <2>3. ASSUME NEW s \in owner, s # r
        PROVE  Established(s)'
    BY <1>0, <1>e, <2>1, <2>2, <2>3, SavedFacts
       DEF HostInv, Established, Undisturbed, Untouched, Quiet, OriginalSetting
  <2>4. r \in owner => Established(r)'
    BY <1>0, <2>1 DEF HostInv, Established, Undisturbed, Placed
  <2> QED
    BY <2>1, <2>3, <2>4 DEF HostInv
<1>3. ASSUME NEW r \in Runs, WriteJournal(r)
      PROVE  HostInv'
  <2>1. original[r][1] = OriginalSetting(Home[r])
    BY <1>0, <1>3 DEF WriteJournal, JournalInv, FlowInv, ValueInv
  <2>2. /\ pc[r] = "saving" /\ pc' = [pc EXCEPT ![r] = "alter"]
        /\ changed' = [changed EXCEPT ![r] = TRUE]
        /\ UNCHANGED <<owner, primary, auto, eff, dirty, resume>>
        /\ journal' = [journal EXCEPT ![Home[r]] = Saved(OriginalSetting(Home[r]))]
    BY <1>3, <2>1 DEF WriteJournal
  <2>3. ASSUME NEW s \in owner, s # r
        PROVE  Established(s)'
    BY <1>0, <1>e, <2>2, <2>3
       DEF HostInv, Established, Undisturbed, Untouched, Quiet, OriginalSetting
  <2>4. r \in owner => Home[r] = primary
    BY <1>0, <2>2 DEF HostInv, Established, Placed
  <2>5. OriginalSetting(primary)' = OriginalSetting(primary)
    BY <2>2 DEF OriginalSetting
  <2>6. r \in owner => Established(r)'
    BY <1>0, <1>e, <2>2, <2>4, <2>5 DEF Established, Undisturbed, Placed
  <2> QED
    BY <2>2, <2>3, <2>6 DEF HostInv
<1>4. ASSUME NEW r \in Runs,
             \/ AlterOff(r) \/ ReloadOff(r) \/ AlterBack(r) \/ ReloadBack(r)
             \/ Checkpoint(r) \/ Sync(r) \/ Unlink(r)
      PROVE  HostInv'
  <2>1. owner = {r} /\ owner' = {r} /\ primary' = primary
    BY <1>4, HolderActs DEF AlterOff, ReloadOff, AlterBack, ReloadBack, Checkpoint, Sync, Unlink
  <2>2. Home[r] = primary /\ Established(r)
    BY <1>4, HolderPlaced
  <2> SUFFICES Established(r)'
    BY <2>1 DEF HostInv
  <2>3. CASE AlterOff(r)
    BY <1>0, <2>1, <2>2, <2>3
       DEF AlterOff, Established, Undisturbed, Placed, OriginalSetting
  <2>4. CASE ReloadOff(r)
    BY <1>0, <2>1, <2>2, <2>4 DEF ReloadOff, FlowInv, Established, Undisturbed, Placed
  <2>5. CASE AlterBack(r)
    <3>1. original[r][1].auto_value = Original[primary]
      BY <2>5, RestoredValue
    <3> QED
      BY <1>0, <2>1, <2>2, <2>5, <3>1 DEF AlterBack, Established, Undisturbed, Placed
  <2>6. CASE ReloadBack(r)
    BY <1>0, <1>e, <2>1, <2>2, <2>6
       DEF ReloadBack, Reload, Established, Undisturbed, Placed, Quiet
  <2>7. CASE Checkpoint(r)
    BY <1>0, <2>1, <2>2, <2>7 DEF Checkpoint, Established, Undisturbed, Placed, Quiet
  <2>8. CASE Sync(r)
    BY <1>0, <2>1, <2>2, <2>8
       DEF Sync, Established, Undisturbed, Placed, Quiet, Untouched
  <2>9. CASE Unlink(r)
    <3>1. /\ pc[r] = "unlink" /\ pc' = [pc EXCEPT ![r] = pc'[r]]
          /\ pc'[r] \in {"opened", "workload", "disconnect", "closing"}
          /\ UNCHANGED <<auto, eff, dirty>>
      BY <1>0, <1>e, <2>9 DEF Unlink
    <3>2. Untouched(primary)'
      BY <2>1, <2>2, <3>1 DEF Established, Undisturbed, Untouched
    <3> QED
      BY <2>1, <2>2, <3>1, <3>2 DEF Established, Undisturbed, Placed
  <2> QED
    BY <1>4, <2>3, <2>4, <2>5, <2>6, <2>7, <2>8, <2>9
<1>5. ASSUME NEW r \in Runs, Write(r)
      PROVE  HostInv'
  <2>1. /\ ~Quiet(primary)
        /\ UNCHANGED <<pc, resume, changed, owner, primary, auto, eff, journal>>
    BY <1>5 DEF Write, Quiet
  <2> QED
    BY <1>0, <2>1 DEF HostInv, Established, Undisturbed, Untouched, Quiet, OriginalSetting
<1>6. CASE ServerRestart \/ Failover
  <2>1. owner' = {}
    BY <1>0, <1>6 DEF ServerRestart, Failover, EndSessions
  <2> QED
    BY <2>1 DEF HostInv
<1>7. CASE UNCHANGED vars
  BY <1>0, <1>7 DEF vars, HostInv, Established, Undisturbed, Untouched, Quiet, OriginalSetting
<1> QED
  BY <1>1, <1>2, <1>3, <1>4, <1>5, <1>6, <1>7 DEF Next, Step, Local

\* Only AlterOff touches a host.
LEMMA UntouchedKept ==
    ASSUME JournalInv, [Next]_vars, NEW h \in Hosts, Untouched(h),
           \A r \in Runs : AlterOff(r) => primary # h
    PROVE  Untouched(h)'
<1>0. TypeOK
  BY DEF JournalInv
<1> USE DEF TypeOK, Untouched, server
<1>e. \A r \in Runs : Home[r] \in Hosts
  BY SettingFacts
<1>1. ASSUME NEW r \in Runs, Local(r) \/ CreateJournal(r) \/ WriteJournal(r) \/ Unlink(r)
      PROVE  Untouched(h)'
  <2>1. UNCHANGED server
    BY <1>1, LocalKeepsHosts DEF CreateJournal, WriteJournal, Unlink
  <2> QED
    BY <2>1
<1>2. ASSUME NEW r \in Runs, AlterOff(r)
      PROVE  Untouched(h)'
  BY <1>0, <1>e, <1>2 DEF AlterOff
<1>3. ASSUME NEW r \in Runs, ReloadOff(r) \/ ReloadBack(r)
      PROVE  Untouched(h)'
  BY <1>0, <1>e, <1>3 DEF ReloadOff, ReloadBack, Reload
<1>4. ASSUME NEW r \in Runs, AlterBack(r)
      PROVE  Untouched(h)'
  BY <1>0, <1>e, <1>4, RestoredValue DEF AlterBack
<1>5. ASSUME NEW r \in Runs, Checkpoint(r) \/ Sync(r)
      PROVE  Untouched(h)'
  BY <1>0, <1>e, <1>5 DEF Checkpoint, Sync
<1>6. ASSUME NEW r \in Runs, Write(r)
      PROVE  Untouched(h)'
  BY <1>0, <1>6 DEF Write
<1>7. CASE ServerRestart \/ Failover
  BY <1>0, <1>7 DEF ServerRestart, Failover, Reload
<1>8. CASE UNCHANGED vars
  BY <1>8 DEF vars
<1> QED
  BY <1>1, <1>2, <1>3, <1>4, <1>5, <1>6, <1>7, <1>8 DEF Next, Step, Local

\* A complete journal stays until its host is untouched.
LEMMA SavedKept ==
    ASSUME JournalInv, [Next]_vars, NEW h \in Hosts, ~Untouched(h),
           journal[h] = Saved(OriginalSetting(h))
    PROVE  journal'[h] = Saved(OriginalSetting(h))
<1>0. TypeOK /\ HostInv
  BY DEF JournalInv
<1>e. \A r \in Runs : Home[r] \in Hosts
  BY SettingFacts
<1>1. ASSUME NEW r \in Runs, CreateJournal(r)
      PROVE  journal'[h] = journal[h]
  BY <1>0, <1>e, <1>1, SavedFacts DEF CreateJournal, TypeOK
<1>2. ASSUME NEW r \in Runs, WriteJournal(r)
      PROVE  journal'[h] = Saved(OriginalSetting(h))
  <2>1. original[r][1] = OriginalSetting(Home[r])
    BY <1>2 DEF WriteJournal, Go, JournalInv, FlowInv, ValueInv
  <2> QED
    BY <1>0, <1>e, <1>2, <2>1 DEF WriteJournal, TypeOK
<1>3. ASSUME NEW r \in Runs, Unlink(r)
      PROVE  journal'[h] = journal[h]
  <2>1. Untouched(Home[r])
    BY <1>3, HolderPlaced DEF Unlink, Go, Established, Undisturbed
  <2> QED
    BY <1>0, <1>e, <1>3, <2>1 DEF Unlink, TypeOK
<1>4. ASSUME NEW r \in Runs,
             \/ Local(r) \/ AlterOff(r) \/ ReloadOff(r) \/ AlterBack(r) \/ ReloadBack(r)
             \/ Checkpoint(r) \/ Sync(r) \/ Write(r)
      PROVE  journal' = journal
  BY <1>4, LocalKeepsHosts DEF AlterOff, ReloadOff, AlterBack, ReloadBack, Checkpoint, Sync, Write
<1>5. CASE ServerRestart \/ Failover \/ UNCHANGED vars
  BY <1>5 DEF ServerRestart, Failover, vars
<1> QED
  BY <1>1, <1>2, <1>3, <1>4, <1>5 DEF Next, Step, Local

LEMMA CoverInductive ==
    ASSUME SessionsLast, JournalInv, [Next]_vars
    PROVE  JournalCoversChange'
<1> SUFFICES ASSUME NEW h \in Hosts, ~Untouched(h)'
             PROVE  journal'[h] = Saved(OriginalSetting(h))
  BY DEF JournalCoversChange, OriginalSetting, Setting, Saved, Effective
<1>1. CASE ~Untouched(h)
  BY <1>1, SavedKept DEF JournalInv, JournalCoversChange
<1>2. CASE Untouched(h)
  <2>1. PICK r \in Runs : AlterOff(r) /\ primary = h
    BY <1>2, UntouchedKept
  <2>2. r \in owner /\ pc[r] = "alter"
    BY <2>1, HolderActs DEF AlterOff, Query, Go
  <2>3. journal[h] = Saved(OriginalSetting(h))
    BY <2>1, <2>2 DEF JournalInv, HostInv, Established
  <2> QED
    BY <2>1, <2>3 DEF AlterOff
<1> QED
  BY <1>1, <1>2

LEMMA JournalInvInit ==
    ASSUME Init
    PROVE  JournalInv
<1>1. \A h \in Hosts : Untouched(h)
  BY SettingFacts DEF Init, Untouched
<1>2. TypeOK
  BY SettingFacts, SettingsAssumption DEF Init, TypeOK, Points
<1>3. LockInv /\ FlowInv /\ ValueInv
  BY DEF Init, LockInv, FlowInv, ValueInv, Held, Restoring
<1>4. HostInv /\ JournalCoversChange
  BY <1>1 DEF Init, HostInv, JournalCoversChange
<1> QED
  BY <1>2, <1>3, <1>4 DEF JournalInv

LEMMA JournalInvariant ==
    ASSUME SessionsLast PROVE Spec => []JournalInv
<1>1. JournalInv /\ [Next]_vars => JournalInv'
  BY TypeInductive, LockInductive, FlowInductive, ValueInductive, HostInductive,
     CoverInductive DEF JournalInv
<1> QED
  BY JournalInvInit, <1>1, PTL DEF Spec

-----------------------------------------------------------------------------
(* Theorems.                                                               *)

\* Type correctness of the journal's state (InitializationSettings).
THEOREM TypeCorrect ==
    ASSUME SessionsLast PROVE Spec => []TypeOK
<1>1. JournalInv => TypeOK
  BY DEF JournalInv
<1> QED
  BY <1>1, JournalInvariant, PTL

\* With any number of runs, hosts, kills, failures, restarts, failovers and
\* torn writes, a server that the tool has changed is covered by a complete
\* journal of its original setting: _save precedes ALTER SYSTEM, and unlink
\* follows the reload, the checkpoint and the sync.
THEOREM JournalCoversChangeHolds ==
    ASSUME SessionsLast PROVE Spec => []JournalCoversChange
<1>1. JournalInv => JournalCoversChange
  BY DEF JournalInv
<1> QED
  BY <1>1, JournalInvariant, PTL

\* disable() and open() never take fsync=off of the tool for the original.
THEOREM NeverAdoptsOffHolds ==
    ASSUME SessionsLast PROVE Spec => []NeverAdoptsOff
<1>1. JournalInv => NeverAdoptsOff
  BY DEF JournalInv, ValueInv, NeverAdoptsOff
<1> QED
  BY <1>1, JournalInvariant, PTL

\* The workload of the lock holder is measured with the original setting of the
\* primary, on data that has been checkpointed and synchronized.
THEOREM WorkloadOnDurableDataHolds ==
    ASSUME SessionsLast PROVE Spec => []WorkloadOnDurableData
<1>1. JournalInv => WorkloadOnDurableData
  BY DEF JournalInv, HostInv, Established, Undisturbed, WorkloadOnDurableData
<1> QED
  BY <1>1, JournalInvariant, PTL

\* restore() removes the journal of a host only when setting, override and
\* data are as they were.
THEOREM RestoredBeforeUnlinkHolds ==
    ASSUME SessionsLast PROVE Spec => RestoredBeforeUnlink
<1>1. JournalInv /\ [Next]_vars =>
        [\A h \in Hosts : journal[h] # NoFile /\ journal'[h] = NoFile => Untouched(h)]_vars
  <2> SUFFICES ASSUME JournalInv, [Next]_vars, NEW h \in Hosts,
                      journal[h] # NoFile, journal'[h] = NoFile
               PROVE  Untouched(h)
    OBVIOUS
  <2> SUFFICES ASSUME ~Untouched(h)
               PROVE  FALSE
    OBVIOUS
  <2>1. journal[h] = Saved(OriginalSetting(h))
    BY DEF JournalInv, JournalCoversChange
  <2> QED
    BY <2>1, SavedKept, SavedFacts
<1> QED
  BY <1>1, JournalInvariant, PTL DEF Spec, RestoredBeforeUnlink

-----------------------------------------------------------------------------
(* The lock and the sessions, wherever a session may be lost.              *)

\* The control points from the acquisition of the lock to the end of the run's
\* work, without the restore() that close() calls.
Holding(r) ==
    \/ pc[r] \in {"inspect"} \cup Running
    \/ pc[r] \in Restoring \ {"reconnect", "relock"} /\ resume[r] # "disconnect"

HoldInv ==
    /\ pc \in [Runs -> Points]
    /\ resume \in [Runs -> {"opened", "workload", "disconnect"}]
    /\ conn \in [Runs -> {"none", "open", "dead"}]
    /\ \A r \in Runs : Holding(r) /\ conn[r] = "open" => r \in owner

LEMMA HoldInit ==
    ASSUME Init PROVE HoldInv
BY DEF Init, HoldInv, Holding, Points, Restoring, Running

LEMMA HoldInductive ==
    ASSUME HoldInv, [Next]_vars
    PROVE  HoldInv'
<1> USE DEF run, lock, Goto, Go, Query, Restore
<1>e. \A r \in Runs : AfterError(r) \in {"closing", "disconnect"}
  BY DEF AfterError
<1>0. /\ {"closing", "disconnect"} \subseteq Points
      /\ {"opened", "workload", "disconnect", "restore"} \subseteq Points
      /\ ({"inspect"} \cup Running) \cap {"closing", "disconnect", "idle", "connect", "lock"} = {}
      /\ Restoring \cap {"closing", "disconnect", "idle", "connect", "lock"} = {}
  BY DEF Points, Opening, Restoring, Running
\* A step of r that leaves the lock and the sessions alone.
<1>1. ASSUME NEW r \in Runs, UNCHANGED lock,
             pc' = [pc EXCEPT ![r] = pc'[r]], pc'[r] \in Points,
             resume' = [resume EXCEPT ![r] = resume'[r]],
             resume'[r] \in {"opened", "workload", "disconnect"},
             Holding(r)' => Holding(r)
      PROVE  HoldInv'
  <2>1. \A s \in Runs \ {r} : Holding(s)' = Holding(s)
    BY <1>1 DEF HoldInv, Holding
  <2> QED
    BY <1>1, <2>1 DEF HoldInv
<1>2. ASSUME NEW r \in Runs,
             \/ Begin(r) \/ LockRefused(r) \/ FinishWorkload(r) \/ SessionGone(r) \/ Fail(r)
      PROVE  HoldInv'
  <2>1. /\ UNCHANGED <<lock, resume>>
        /\ pc' = [pc EXCEPT ![r] = pc'[r]]
        /\ pc'[r] \in {"connect", "closing", "disconnect"}
    BY <1>2, <1>e DEF HoldInv, Begin, LockRefused, FinishWorkload, SessionGone, Fail
  <2>2. ~Holding(r)'
    BY <2>1, <1>0 DEF Holding
  <2> QED
    BY <1>1, <2>1, <2>2 DEF HoldInv, Points, Opening
<1>3. ASSUME NEW r \in Runs,
             \/ StartLoad(r) \/ ReadOriginal(r) \/ CreateJournal(r) \/ WriteJournal(r)
             \/ AlterOff(r) \/ ReloadOff(r)
      PROVE  HoldInv'
  <2>1. /\ UNCHANGED <<lock, resume>>
        /\ pc' = [pc EXCEPT ![r] = pc'[r]]
        /\ pc[r] \in Running /\ pc'[r] \in Running \cup {"closing", "disconnect"}
    BY <1>3, <1>e DEF HoldInv, StartLoad, ReadOriginal, CreateJournal, WriteJournal,
           AlterOff, ReloadOff, Running
  <2> QED
    BY <1>1, <2>1 DEF HoldInv, Holding, Points
<1>4. ASSUME NEW r \in Runs,
             Identify(r) \/ AlterBack(r) \/ ReloadBack(r) \/ Checkpoint(r) \/ Sync(r)
      PROVE  HoldInv'
  <2>1. /\ UNCHANGED <<lock, resume>>
        /\ pc' = [pc EXCEPT ![r] = pc'[r]]
        /\ pc[r] \in Restoring \ {"reconnect", "relock"}
        /\ pc'[r] \in Restoring \cup {"closing", "disconnect"}
    BY <1>4, <1>e DEF HoldInv, Identify, AlterBack, ReloadBack, Checkpoint, Sync, Restoring
  <2>2. Holding(r)' => Holding(r)
    BY <2>1, <1>0 DEF Holding, Running, Restoring
  <2> QED
    BY <1>1, <2>1, <2>2 DEF HoldInv, Points
<1>5. ASSUME NEW r \in Runs, Unlink(r)
      PROVE  HoldInv'
  <2>1. /\ UNCHANGED <<lock, resume>>
        /\ pc' = [pc EXCEPT ![r] = pc'[r]]
        /\ pc[r] = "unlink" /\ pc'[r] \in {resume[r], "closing", "disconnect"}
    BY <1>5, <1>e DEF HoldInv, Unlink
  <2>2. Holding(r)' => Holding(r)
    BY <2>1, <1>0 DEF HoldInv, Holding, Restoring
  <2> QED
    BY <1>0, <1>1, <2>1, <2>2 DEF HoldInv
<1>6. ASSUME NEW r \in Runs, FinishLoad(r) \/ Close(r)
      PROVE  HoldInv'
  <2>1. CASE FinishLoad(r)
    BY <1>1, <2>1, <1>0 DEF HoldInv, FinishLoad, Holding, Running
  <2>2. CASE Close(r)
    <3>1. ~Holding(r)'
      BY <2>2 DEF HoldInv, Close, Holding, Running
    <3> QED
      BY <1>0, <1>1, <2>2, <3>1 DEF HoldInv, Close
  <2> QED
    BY <1>6, <2>1, <2>2
<1>7. ASSUME NEW r \in Runs, Inspect(r)
      PROVE  HoldInv'
  <2>1. /\ pc[r] = "inspect" /\ UNCHANGED lock
        /\ pc' = [pc EXCEPT ![r] = pc'[r]]
        /\ pc'[r] \in {"opened", "disconnect", "restore"}
        /\ resume' = [resume EXCEPT ![r] = resume'[r]]
        /\ resume'[r] \in {"opened", "workload", "disconnect"}
    BY <1>7 DEF HoldInv, Inspect, MayProceed, MayRecover
  <2> QED
    BY <1>0, <1>1, <2>1 DEF Holding
<1>8. ASSUME NEW r \in Runs, Connect(r)
      PROVE  HoldInv'
  BY <1>8 DEF HoldInv, Connect, Holding, Points, Opening, Restoring, Running
<1>9. ASSUME NEW r \in Runs, AcquireLock(r)
      PROVE  HoldInv'
  BY <1>9 DEF HoldInv, AcquireLock, Lock!Acquire, Holding, Points, Opening, Restoring, Running
<1>10. ASSUME NEW r \in Runs, Disconnect(r) \/ Kill(r)
       PROVE  HoldInv'
  BY <1>10 DEF HoldInv, Disconnect, Kill, Holding, Points, Restoring, Running
<1>11. ASSUME NEW r \in Runs, StartRestore(r)
       PROVE  HoldInv'
  <2>1. /\ pc[r] = "restore" /\ resume' = resume
        /\ pc' = [pc EXCEPT ![r] = pc'[r]]
    BY <1>11 DEF HoldInv, StartRestore
  <2>2. CASE ~changed[r]
    <3>1. pc'[r] = resume[r] /\ UNCHANGED lock
      BY <1>11, <2>2 DEF HoldInv, StartRestore
    <3>2. Holding(r)' => Holding(r)
      BY <2>1, <3>1, <1>0 DEF HoldInv, Holding, Restoring
    <3> QED
      BY <1>0, <1>1, <2>1, <3>1, <3>2 DEF HoldInv
  <2>3. CASE changed[r] /\ conn[r] = "open"
    <3>1. pc'[r] = "identify" /\ UNCHANGED lock
      BY <1>11, <2>3 DEF HoldInv, StartRestore
    <3>2. Holding(r)' => Holding(r)
      BY <2>1, <3>1 DEF HoldInv, Holding, Restoring, Running
    <3> QED
      BY <1>1, <2>1, <3>1, <3>2 DEF HoldInv, Points, Restoring
  <2>4. CASE changed[r] /\ conn[r] = "dead"
    <3>1. /\ pc'[r] = "reconnect" /\ conn' = [conn EXCEPT ![r] = "none"]
          /\ owner' = owner \ {r}
      BY <1>11, <2>4 DEF HoldInv, StartRestore
    <3> QED
      BY <2>1, <3>1 DEF HoldInv, Holding, Points, Restoring, Running
  <2>5. CASE changed[r] /\ conn[r] \notin {"open", "dead"}
    <3>1. pc'[r] \in {"closing", "disconnect"} /\ UNCHANGED lock
      BY <1>11, <1>e, <2>5 DEF HoldInv, StartRestore
    <3>2. ~Holding(r)'
      BY <2>1, <3>1, <1>0 DEF Holding
    <3> QED
      BY <1>0, <1>1, <2>1, <3>1, <3>2 DEF HoldInv
  <2> QED
    BY <2>2, <2>3, <2>4, <2>5
<1>12. ASSUME NEW r \in Runs, Write(r) \/ LoseSession(r)
       PROVE  HoldInv'
  BY <1>12 DEF HoldInv, Holding, Write, LoseSession, EndSessions
<1>13. CASE ServerRestart \/ Failover
  <2>1. /\ resume' = resume /\ owner' = owner \ Runs
        /\ conn' \in [Runs -> {"none", "dead"}]
    BY <1>13 DEF HoldInv, ServerRestart, Failover, EndSessions
  <2>2. pc' \in [Runs -> Points]
    BY <1>13, <1>0 DEF HoldInv, ServerRestart, Failover, StopWork
  <2> QED
    BY <2>1, <2>2 DEF HoldInv
<1>14. CASE UNCHANGED vars
  BY <1>14 DEF HoldInv, Holding, vars
<1> QED
  BY <1>2, <1>3, <1>4, <1>5, <1>6, <1>7, <1>8, <1>9, <1>10, <1>11, <1>12, <1>13, <1>14
     DEF Next, Step

\* disable(), and the restore() of open() and of initialize_database(), change
\* the settings over a live session only while the run holds the lock, although
\* any session may be lost at any control point: a session lost in the load or
\* during restore() is replaced only together with the lock.  Nothing is said of
\* the restore() that close() repeats (RepeatedRestore).
THEOREM MutationsHoldLockHolds == Spec => []MutationsHoldLock
<1>1. HoldInv => MutationsHoldLock
  BY DEF HoldInv, Holding, MutationsHoldLock, Mutating, RepeatedRestore, Restoring, Running
<1> QED
  BY HoldInit, HoldInductive, <1>1, PTL DEF Spec

-----------------------------------------------------------------------------
(* The lock of this module is the one that BenchmarkLock implements.       *)

\* What a step may do to the owner when it takes no lock.
LEMMA ReleaseIsAllowed ==
    ASSUME NEW S \in SUBSET Runs, owner' = owner \ S
    PROVE  [Lock!Next]_owner
<1>1. CASE S \cap owner = {}
  BY <1>1
<1>2. CASE S \cap owner # {}
  BY <1>2 DEF Lock!Next, Lock!Release
<1> QED
  BY <1>1, <1>2

LEMMA StepUsesLock ==
    ASSUME [Next]_vars
    PROVE  [Lock!Next]_owner
<1> USE DEF run, lock
<1>1. ASSUME NEW r \in Runs, AcquireLock(r)
      PROVE  [Lock!Next]_owner
  BY <1>1 DEF AcquireLock, Lock!Next
<1>2. ASSUME NEW r \in Runs, Disconnect(r) \/ Kill(r) \/ LoseSession(r)
      PROVE  [Lock!Next]_owner
  BY <1>2, ReleaseIsAllowed DEF Disconnect, Kill, LoseSession, EndSessions
<1>3. ASSUME NEW r \in Runs, StartRestore(r)
      PROVE  [Lock!Next]_owner
  <2>1. owner' = owner \/ owner' = owner \ {r}
    <3>1. CASE ~changed[r]
      BY <1>3, <3>1 DEF StartRestore
    <3>2. CASE changed[r] /\ conn[r] = "open"
      BY <1>3, <3>2 DEF StartRestore
    <3>3. CASE changed[r] /\ conn[r] = "dead"
      BY <1>3, <3>3 DEF StartRestore
    <3>4. CASE changed[r] /\ conn[r] \notin {"open", "dead"}
      BY <1>3, <3>4 DEF StartRestore
    <3> QED
      BY <3>1, <3>2, <3>3, <3>4
  <2> QED
    BY <2>1, ReleaseIsAllowed
<1>4. ASSUME NEW r \in Runs,
             \/ Begin(r) \/ Connect(r) \/ LockRefused(r) \/ Inspect(r) \/ StartLoad(r)
             \/ ReadOriginal(r) \/ CreateJournal(r) \/ WriteJournal(r) \/ AlterOff(r)
             \/ ReloadOff(r) \/ Write(r) \/ FinishLoad(r) \/ FinishWorkload(r) \/ Close(r)
             \/ Identify(r) \/ AlterBack(r) \/ ReloadBack(r) \/ Checkpoint(r) \/ Sync(r)
             \/ Unlink(r) \/ SessionGone(r) \/ Fail(r)
      PROVE  [Lock!Next]_owner
  BY <1>4 DEF Begin, Connect, LockRefused, Inspect, StartLoad, ReadOriginal, CreateJournal,
         WriteJournal, AlterOff, ReloadOff, Write, FinishLoad, FinishWorkload, Close, Identify,
         AlterBack, ReloadBack, Checkpoint, Sync, Unlink, SessionGone, Fail
<1>5. CASE ServerRestart \/ Failover
  BY <1>5, ReleaseIsAllowed DEF ServerRestart, Failover, EndSessions
<1>6. CASE UNCHANGED vars
  BY <1>6 DEF vars
<1> QED
  BY <1>1, <1>2, <1>3, <1>4, <1>5, <1>6 DEF Next, Step

\* InitializationSettings uses the server lock only as ServerLock allows: also
\* when restore() reconnects, a session dies or the primary changes, a run
\* becomes the owner only while nobody is, and is the only one then.  With
\* LockRefinement of BenchmarkLockProofs this joins the two layers.
THEOREM JournalUsesLock == Spec => Lock!Spec
<1>1. Init => Lock!Init
  BY DEF Init, Lock!Init
<1>2. [Next]_vars => [Lock!Next]_owner
  BY StepUsesLock
<1> QED
  BY <1>1, <1>2, PTL DEF Spec, Lock!Spec
=============================================================================
