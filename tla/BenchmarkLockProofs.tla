------------------------ MODULE BenchmarkLockProofs -------------------------
(***************************************************************************)
(* Proofs about BenchmarkLock for any set of runs, any mix of reset modes, *)
(* policies and target databases, and any series length.                   *)
(***************************************************************************)
EXTENDS BenchmarkLock, TLAPS

\* Every step of every run, and every step of the environment, keeps the types.
THEOREM TypeCorrect == Spec => []TypeOK
<1> USE RunsAssumption DEF Points, Passed, Critical, Closing, Acquiring, Restarting, Failed,
                           Resumes
<1>1. Init => TypeOK
  BY DEF Init, TypeOK
<1>2. TypeOK /\ [Next]_vars => TypeOK'
  <2> SUFFICES ASSUME TypeOK, [Next]_vars PROVE TypeOK'
    OBVIOUS
  <2> USE DEF TypeOK, Goto, session, database, results
  <2>1. ASSUME NEW r \in Runs, Begin(r) PROVE TypeOK'
    BY <2>1 DEF Begin
  <2>2. ASSUME NEW r \in Runs, Connect(r) PROVE TypeOK'
    BY <2>2 DEF Connect
  <2>3. ASSUME NEW r \in Runs, TryLock(r) PROVE TypeOK'
    <3>1. pc' \in [Runs -> Points]
      BY <2>3 DEF TryLock, Refusal
    <3>2. granted' \subseteq Runs
      BY <2>3 DEF TryLock
    <3>3. acquired' = acquired \/ acquired' = [acquired EXCEPT ![r] = TRUE]
      BY <2>3 DEF TryLock
    <3> QED
      BY <2>3, <3>1, <3>2, <3>3 DEF TryLock
  <2>4. ASSUME NEW r \in Runs, CrossCheck(r) PROVE TypeOK'
    BY <2>4 DEF CrossCheck, Conflict, Refusal
  <2>5. ASSUME NEW r \in Runs, Opened(r) PROVE TypeOK'
    BY <2>5 DEF Opened, Guard
  <2>6. ASSUME NEW r \in Runs, Reset(r) PROVE TypeOK'
    BY <2>6 DEF Reset, Guard
  <2>7. ASSUME NEW r \in Runs, ResetSchemas(r) PROVE TypeOK'
    BY <2>7 DEF ResetSchemas, Disturbed
  <2>8. ASSUME NEW r \in Runs, Access(r) PROVE TypeOK'
    BY <2>8 DEF Access, Guard
  <2>9. ASSUME NEW r \in Runs, Drop(r) PROVE TypeOK'
    BY <2>9 DEF Drop, EndSessions, Disturbed
  <2>10. ASSUME NEW r \in Runs, Dropped(r) PROVE TypeOK'
    BY <2>10 DEF Dropped, Guard
  <2>11. ASSUME NEW r \in Runs, RequestStop(r) PROVE TypeOK'
    BY <2>11 DEF RequestStop, Disturbed
  <2>12. ASSUME NEW r \in Runs, StartServer(r) PROVE TypeOK'
    BY <2>12 DEF StartServer
  <2>13. ASSUME NEW r \in Runs, Reopen(r) PROVE TypeOK'
    BY <2>13 DEF Reopen, Disconnect
  <2>14. ASSUME NEW r \in Runs, Create(r) PROVE TypeOK'
    BY <2>14 DEF Create, Disturbed
  <2>15. ASSUME NEW r \in Runs, StartWorkload(r) PROVE TypeOK'
    <3>1. pc' \in [Runs -> Points]
      BY <2>15 DEF StartWorkload, Guard
    <3>2. changed' \subseteq Runs /\ shared' \subseteq Runs
      BY <2>15 DEF StartWorkload, StartsMeasuring, Disturbed
    <3> QED
      BY <2>15, <3>1, <3>2 DEF StartWorkload
  <2>16. ASSUME NEW r \in Runs, FinishWorkload(r) PROVE TypeOK'
    BY <2>16 DEF FinishWorkload, LastPoint
  <2>17. ASSUME NEW r \in Runs, FinishLoad(r) PROVE TypeOK'
    <3>1. CASE UNCHANGED session
      BY <2>17, <3>1 DEF FinishLoad
    <3>2. CASE Disconnect(r) /\ resume' = [resume EXCEPT ![r] = "restore"]
      BY <2>17, <3>2 DEF FinishLoad, Disconnect
    <3> QED
      BY <2>17, <3>1, <3>2 DEF FinishLoad
  <2>18. ASSUME NEW r \in Runs, Restored(r) PROVE TypeOK'
    BY <2>18 DEF Restored, StartsMeasuring, Disturbed
  <2>19. ASSUME NEW r \in Runs, Close(r) PROVE TypeOK'
    <3>a. UNCHANGED <<database, results>>
      BY <2>19 DEF Close
    <3>1. CASE UNCHANGED session /\ (pc' = [pc EXCEPT ![r] = "undo"] \/ pc' = [pc EXCEPT ![r] = "unlocked"])
      BY <3>a, <3>1
    <3>2. CASE /\ Disconnect(r) /\ pc' = [pc EXCEPT ![r] = "connect"]
               /\ \/ resume' = [resume EXCEPT ![r] = "undo"] /\ UNCHANGED <<iter, changed>>
                  \/ /\ ~LastPoint(r) /\ resume' = [resume EXCEPT ![r] = "opened"]
                     /\ iter' = [iter EXCEPT ![r] = @ + 1] /\ UNCHANGED changed
      BY <3>a, <3>2 DEF LastPoint, Disconnect
    <3>3. CASE End(r)
      BY <3>a, <3>3 DEF Disconnect, End
    <3> QED
      BY <2>19, <3>1, <3>2, <3>3 DEF Close
  <2>20. ASSUME NEW r \in Runs, Undo(r) PROVE TypeOK'
    BY <2>20 DEF Undo, End, Disconnect, Disturbed
  <2>21. ASSUME NEW r \in Runs, Refused(r) \/ Fail(r) PROVE TypeOK'
    BY <2>21 DEF Refused, Fail, AfterError, Refusal
  <2>24. ASSUME NEW r \in Runs, Kill(r) PROVE TypeOK'
    BY <2>24 DEF Kill, End, Disconnect
  <2>25. ASSUME NEW r \in Runs, LoseSession(r) PROVE TypeOK'
    BY <2>25 DEF LoseSession, EndSessions
  <2>22. CASE StopLands
    BY <2>22 DEF StopLands, EndSessions
  <2>23. CASE UNCHANGED vars
    BY <2>23 DEF vars
  <2> QED
    BY <2>1, <2>2, <2>3, <2>4, <2>5, <2>6, <2>7, <2>8, <2>9, <2>10, <2>11, <2>12,
       <2>13, <2>14, <2>15, <2>16, <2>17, <2>18, <2>19, <2>20, <2>21, <2>22, <2>23,
       <2>24, <2>25 DEF Next, Step, Terminated
<1> QED
  BY <1>1, <1>2, PTL DEF Spec

-----------------------------------------------------------------------------
(* Mutual exclusion.  The two lock checks alone do not make it inductive:  *)
(* a granted lock must belong to a live session, and a run in its cross-   *)
(* database check must already hold its own lock, which is what keeps two  *)
(* contenders from both passing.                                           *)

LockInv ==
    /\ TypeOK
    /\ MutualExclusion
    /\ WorkingMeansHolding
    /\ \A r \in Runs : pc[r] = "check" /\ Alive(r) => r \in granted
    /\ \A r \in Runs : pc[r] \in Restarting => ~Alive(r)
    /\ \A r \in granted : Alive(r)

\* A step that only moves one run, keeps sessions and locks, and brings no live
\* session past the checks or into a restart, keeps the invariant.
LEMMA MoveKeepsLockInv ==
  ASSUME LockInv, NEW r \in Runs, NEW next \in Points, TypeOK',
         pc' = [pc EXCEPT ![r] = next],
         next = "check" => pc[r] = "check",
         next \in Restarting => pc[r] \in Restarting,
         next \in Passed => pc[r] \in Passed \cup Restarting,
         sess' = sess, granted' = granted
  PROVE  LockInv'
<1>a. "unlocked" \notin Passed
  BY DEF Passed, Critical, Closing
<1>1. WorkingMeansHolding'
  BY <1>a DEF LockInv, TypeOK, WorkingMeansHolding, Working, Alive
<1>2. MutualExclusion'
  \* A run in a restart has no session, so it brings no lock past the checks.
  BY DEF LockInv, TypeOK, MutualExclusion, Owner, Alive
<1> QED
  BY <1>1, <1>2 DEF LockInv, TypeOK, Alive

\* Ending the sessions of any set of runs together with their locks, while the
\* other runs keep their point or leave the guarded part, keeps the invariant.
LEMMA EndSessionsKeepsLockInv ==
  ASSUME LockInv, NEW S, TypeOK', EndSessions(S),
         \A s \in Runs : /\ pc'[s] = "check" => pc[s] = "check"
                         /\ pc'[s] \in Passed => pc[s] \in Passed
                         /\ pc'[s] \in Restarting => pc[s] \in Restarting \/ s \in S
  PROVE  LockInv'
<1>1. granted' = granted \ S
  BY DEF EndSessions
<1>2. \A s \in Runs : sess'[s] = "open" <=> sess[s] = "open" /\ s \notin S
  BY DEF EndSessions, Alive
<1>3. MutualExclusion'
  BY <1>1 DEF LockInv, TypeOK, MutualExclusion, Owner
<1>4. WorkingMeansHolding'
  BY <1>1, <1>2 DEF LockInv, WorkingMeansHolding, Working, Alive, Passed, Critical, Closing
<1>5. \A s \in Runs : pc'[s] = "check" /\ sess'[s] = "open" => s \in granted'
  BY <1>1, <1>2 DEF LockInv, Alive
<1>6. \A s \in granted' : sess'[s] = "open"
  BY <1>1, <1>2 DEF LockInv, TypeOK, Alive
<1>7. \A s \in Runs : pc'[s] \in Restarting => sess'[s] # "open"
  BY <1>2 DEF LockInv, Alive
<1> QED
  BY <1>3, <1>4, <1>5, <1>6, <1>7 DEF LockInv, Alive

\* Unlocking and closing the session of one run keeps the invariant.
LEMMA DisconnectKeepsLockInv ==
  ASSUME LockInv, NEW r \in Runs, NEW next \in {"connect", "done"},
         TypeOK', Disconnect(r), pc' = [pc EXCEPT ![r] = next]
  PROVE  LockInv'
  BY DEF LockInv, TypeOK, MutualExclusion, WorkingMeansHolding, Working, Owner, Alive,
         Disconnect, Passed, Critical, Closing, Restarting

LEMMA LockInvInductive == LockInv /\ TypeOK' /\ [Next]_vars => LockInv'
<1> SUFFICES ASSUME LockInv, TypeOK', [Next]_vars PROVE LockInv'
  OBVIOUS
<1> USE DEF Goto, session, database, results
<1>a. TypeOK
  BY DEF LockInv
<1>b. /\ Passed \cap Restarting = {} /\ "check" \notin Passed \cup Restarting
      /\ Passed \subseteq Points /\ Critical \subseteq Passed
  BY DEF Passed, Critical, Closing, Restarting, Points
\* Most steps move one run from one point past the checks to another, or to a
\* point where nothing is claimed of it.
<1>0. ASSUME NEW r \in Runs, NEW next \in Points, pc' = [pc EXCEPT ![r] = next],
             sess' = sess, granted' = granted,
             \/ pc[r] \in Passed /\ next \in Passed
             \/ next \notin Passed \cup Restarting \cup {"check"}
      PROVE LockInv'
  BY <1>0, <1>b, MoveKeepsLockInv
<1>1. ASSUME NEW r \in Runs, Begin(r) PROVE LockInv'
  BY <1>1, <1>0 DEF Begin, Points, Acquiring, Passed, Critical, Closing, Restarting
<1>2. ASSUME NEW r \in Runs, Connect(r) PROVE LockInv'
  \* A fresh session holds nothing and its run is not past the checks.
  BY <1>2, <1>a DEF Connect, LockInv, TypeOK, MutualExclusion, WorkingMeansHolding, Working,
     Owner, Alive, Passed, Critical, Closing, Restarting
<1>3. ASSUME NEW r \in Runs, TryLock(r) PROVE LockInv'
  <2>1. CASE granted' = granted /\ pc' = [pc EXCEPT ![r] = Refusal(r)]
    BY <1>3, <2>1, <1>0
       DEF TryLock, Refusal, Points, Failed, Passed, Critical, Closing, Restarting
  <2>2. CASE granted' = granted \cup {r} /\ pc' = [pc EXCEPT ![r] = "check"]
    BY <1>3, <2>2, <1>a DEF TryLock, LockInv, TypeOK, MutualExclusion,
       WorkingMeansHolding, Working, Owner, Alive, Passed, Critical, Closing, Restarting
  <2> QED
    BY <1>3, <2>1, <2>2 DEF TryLock
<1>4. ASSUME NEW r \in Runs, CrossCheck(r) PROVE LockInv'
  <2>1. CASE granted \ {r} = {}
    \* r enters alone: nobody else holds the key in any database.
    <3>1. granted' \subseteq {r} /\ sess' = sess /\ r \in granted
      BY <1>4, <2>1 DEF CrossCheck, Conflict, LockInv
    <3>2. pc' = [pc EXCEPT ![r] = resume[r]] /\ resume[r] \in Passed
      BY <1>4, <2>1, <1>a
         DEF CrossCheck, Conflict, TypeOK, Resumes, Passed, Critical, Closing
    <3> QED
      BY <3>1, <3>2, <1>4, <1>a, <1>b DEF CrossCheck, Conflict, LockInv, TypeOK,
         MutualExclusion, WorkingMeansHolding, Working, Owner, Alive
  <2>2. CASE granted \ {r} # {}
    BY <1>4, <2>2, <1>0
       DEF CrossCheck, Conflict, Refusal, Points, Failed, Passed, Critical, Closing, Restarting
  <2> QED
    BY <2>1, <2>2
<1>5. ASSUME NEW r \in Runs, NEW here \in Critical, NEW next \in Critical,
             Guard(r, here, next), sess' = sess, granted' = granted
      PROVE LockInv'
  BY <1>5, <1>b, <1>0 DEF Guard, Passed, Closing
<1>6. ASSUME NEW r \in Runs, Opened(r) \/ Reset(r) \/ Access(r) \/ Dropped(r)
                              \/ StartWorkload(r)
      PROVE LockInv'
  <2> USE DEF Critical
  <2>1. CASE Opened(r)
    BY <2>1, <1>5 DEF Opened
  <2>2. CASE Reset(r)
    BY <2>2, <1>5 DEF Reset
  <2>3. CASE Access(r)
    BY <2>3, <1>5 DEF Access
  <2>4. CASE Dropped(r)
    BY <2>4, <1>5 DEF Dropped
  <2>5. CASE StartWorkload(r)
    BY <2>5, <1>5 DEF StartWorkload
  <2> QED
    BY <1>6, <2>1, <2>2, <2>3, <2>4, <2>5
<1>7. ASSUME NEW r \in Runs, \/ ResetSchemas(r) \/ RequestStop(r) \/ Create(r)
                             \/ Restored(r) \/ FinishWorkload(r)
      PROVE LockInv'
  <2>1. PICK next \in Passed : pc' = [pc EXCEPT ![r] = next]
    BY <1>7 DEF ResetSchemas, RequestStop, Create, Restored, FinishWorkload, LastPoint,
       Passed, Critical, Closing
  <2>2. pc[r] \in Passed /\ sess' = sess /\ granted' = granted
    BY <1>7 DEF ResetSchemas, RequestStop, Create, Restored, FinishWorkload, LastPoint,
       Passed, Critical
  <2> QED
    BY <2>1, <2>2, <1>b, <1>0
<1>8. ASSUME NEW r \in Runs, Drop(r) PROVE LockInv'
  <2>1. \A s \in Runs : /\ pc'[s] = "check" => pc[s] = "check"
                        /\ pc'[s] \in Passed => pc[s] \in Passed
                        /\ pc'[s] \in Restarting => pc[s] \in Restarting
    BY <1>8, <1>a DEF Drop, TypeOK, Passed, Critical, Restarting
  <2> QED
    BY <1>8, <2>1, EndSessionsKeepsLockInv DEF Drop
<1>9. ASSUME NEW r \in Runs, StartServer(r) PROVE LockInv'
  BY <1>9, MoveKeepsLockInv DEF StartServer, Points, Restarting, Passed, Critical, Closing
<1>10. ASSUME NEW r \in Runs, Reopen(r) PROVE LockInv'
  BY <1>10, DisconnectKeepsLockInv DEF Reopen
<1>11. ASSUME NEW r \in Runs, FinishLoad(r) PROVE LockInv'
  <2>1. CASE Alive(r)
    BY <1>11, <2>1, <1>b, <1>0 DEF FinishLoad, Passed, Critical
  <2>2. CASE ~Alive(r)
    BY <1>11, <2>2, DisconnectKeepsLockInv DEF FinishLoad
  <2> QED
    BY <2>1, <2>2
<1>12. ASSUME NEW r \in Runs, Close(r) PROVE LockInv'
  <2>1. CASE pc[r] = "aborting" /\ pc' = [pc EXCEPT ![r] = "undo"] /\ UNCHANGED session
    BY <2>1, <1>b, <1>0 DEF Passed, Closing
  <2>2. CASE pc' = [pc EXCEPT ![r] = "unlocked"] /\ UNCHANGED session
    BY <2>2, <1>0 DEF Points, Failed, Passed, Critical, Closing, Restarting
  <2>3. CASE Disconnect(r) /\ (pc' = [pc EXCEPT ![r] = "connect"] \/ pc' = [pc EXCEPT ![r] = "done"])
    BY <2>3, DisconnectKeepsLockInv
  <2> QED
    BY <1>12, <2>1, <2>2, <2>3 DEF Close, End
<1>13. ASSUME NEW r \in Runs, Undo(r) \/ Kill(r) PROVE LockInv'
  BY <1>13, DisconnectKeepsLockInv DEF Undo, Kill, End
<1>14. ASSUME NEW r \in Runs, Refused(r) \/ Fail(r) PROVE LockInv'
  <2>1. pc' = [pc EXCEPT ![r] = AfterError(r)] /\ sess' = sess /\ granted' = granted
    BY <1>14 DEF Refused, Fail
  <2>2. CASE AfterError(r) = "aborting"
    <3>1. pc[r] \in Passed \cup Restarting
      BY <1>14, <2>2 DEF Refused, Fail, AfterError, Refusal, Passed, Critical, Closing,
         Acquiring, Restarting
    <3> QED
      BY <2>1, <2>2, <3>1, MoveKeepsLockInv DEF Points, Passed, Closing, Restarting
  <2>3. CASE AfterError(r) # "aborting"
    <3>1. AfterError(r) \in {"refused", "stranded"}
      BY <2>3 DEF AfterError, Refusal
    <3> QED
      BY <2>1, <3>1, <1>0 DEF Points, Failed, Passed, Critical, Closing, Restarting
  <2> QED
    BY <2>2, <2>3
<1>15. ASSUME NEW r \in Runs, LoseSession(r) PROVE LockInv'
  BY <1>15, EndSessionsKeepsLockInv DEF LoseSession
<1>16. CASE StopLands
  <2>1. \A s \in Runs : /\ pc'[s] = "check" => pc[s] = "check"
                        /\ pc'[s] \in Passed => pc[s] \in Passed
    BY <1>16, <1>a DEF StopLands, TypeOK, Passed, Critical, Closing
  <2> QED
    BY <1>16, <2>1, EndSessionsKeepsLockInv DEF StopLands
<1>17. CASE UNCHANGED vars
  BY <1>17 DEF vars, LockInv, MutualExclusion, WorkingMeansHolding, Owner, Alive
<1> QED
  BY <1>1, <1>2, <1>3, <1>4, <1>6, <1>7, <1>8, <1>9, <1>10, <1>11, <1>12, <1>13,
     <1>14, <1>15, <1>16, <1>17 DEF Next, Step, Terminated

LEMMA LockInvInit == Init => LockInv
<1>1. Init => TypeOK
  BY RunsAssumption DEF Init, TypeOK, Points, Resumes
<1> QED
  BY <1>1 DEF Init, LockInv, MutualExclusion, WorkingMeansHolding, Working, Owner, Alive,
     Passed, Critical, Closing, Restarting

LEMMA LockInvariant == Spec => []LockInv
  BY LockInvInit, TypeCorrect, LockInvInductive, PTL DEF Spec

\* At most one run owns the server: contenders through different databases
\* cannot both pass, whatever restarts, kills and lost sessions happen.
THEOREM MutualExclusionHolds == Spec => []MutualExclusion
<1>1. LockInv => MutualExclusion
  BY DEF LockInv
<1> QED
  BY <1>1, LockInvariant, PTL

\* Whatever sessions are lost and whenever the server restarts, reset, load,
\* restore(), workload and close() work over a live session only with the lock,
\* except the restore() that close() repeats after a refused reacquisition.
THEOREM WorkingMeansHoldingHolds == Spec => []WorkingMeansHolding
<1>1. LockInv => WorkingMeansHolding
  BY DEF LockInv
<1> QED
  BY <1>1, LockInvariant, PTL

-----------------------------------------------------------------------------
(* Refinement: the controllers implement the abstract server lock.         *)

\* Nobody becomes an owner when locks are only released and no run with a lock
\* passes the checks.
LEMMA NoNewOwner ==
  ASSUME granted' \subseteq granted, granted \subseteq Runs,
         \A s \in granted' : pc'[s] \in Passed => pc[s] \in Passed
  PROVE  Owner' \subseteq Owner
  BY DEF Owner

\* Only the cross-database check of a run that finds no other holder makes an
\* owner, and then there was none.
LEMMA OwnerSteps ==
  LockInv /\ [Next]_vars =>
    \/ Owner' \subseteq Owner
    \/ Owner = {} /\ \E r \in Runs : Owner' = {r}
<1> SUFFICES ASSUME LockInv, [Next]_vars
             PROVE \/ Owner' \subseteq Owner
                   \/ Owner = {} /\ \E r \in Runs : Owner' = {r}
  OBVIOUS
<1> USE DEF Goto, session, database, results
<1>a. pc \in [Runs -> Points] /\ granted \subseteq Runs /\ resume \in [Runs -> Resumes]
  BY DEF LockInv, TypeOK
\* A run in a restart has no session and so no lock.
<1>b. \A r \in granted : pc[r] \notin Restarting
  BY <1>a DEF LockInv
<1>1. ASSUME NEW r \in Runs, CrossCheck(r)
      PROVE \/ Owner' \subseteq Owner
            \/ Owner = {} /\ \E s \in Runs : Owner' = {s}
  <2>1. CASE granted \ {r} = {}
    <3>1. Owner = {}
      BY <1>1, <2>1 DEF CrossCheck, Conflict, Owner, Passed, Critical, Closing
    <3>2. granted' = {r}
      BY <1>1, <2>1, <1>a DEF CrossCheck, Conflict, LockInv
    <3>3. pc'[r] \in Passed
      BY <1>1, <2>1, <1>a DEF CrossCheck, Conflict, Resumes, Passed, Critical, Closing
    <3> QED
      BY <3>1, <3>2, <3>3 DEF Owner
  <2>2. CASE granted \ {r} # {}
    BY <1>1, <2>2, <1>a, NoNewOwner
       DEF CrossCheck, Conflict, Refusal, Passed, Critical, Closing
  <2> QED
    BY <2>1, <2>2
<1>2. ASSUME NEW r \in Runs, TryLock(r) PROVE Owner' \subseteq Owner
  BY <1>2, <1>a DEF TryLock, Refusal, Owner, Passed, Critical, Closing
<1>3. ASSUME NEW r \in Runs, \/ Begin(r) \/ Connect(r) \/ StartServer(r) \/ Reopen(r)
      PROVE Owner' \subseteq Owner
  BY <1>3, <1>a, NoNewOwner
     DEF Begin, Connect, StartServer, Reopen, Disconnect, Passed, Critical, Closing
<1>4. ASSUME NEW r \in Runs, FinishLoad(r) \/ Close(r) \/ Undo(r) \/ Kill(r)
      PROVE Owner' \subseteq Owner
  <2>1. CASE pc[r] \in Passed /\ granted' = granted /\ \E next : pc' = [pc EXCEPT ![r] = next]
    BY <2>1, <1>a, NoNewOwner
  <2>2. CASE granted' = granted /\ pc' = [pc EXCEPT ![r] = "unlocked"]
    BY <2>2, <1>a, NoNewOwner DEF Passed, Critical, Closing
  <2>3. CASE Disconnect(r) /\ (pc' = [pc EXCEPT ![r] = "connect"] \/ pc' = [pc EXCEPT ![r] = "done"])
    BY <2>3, <1>a, NoNewOwner DEF Disconnect, Passed, Critical, Closing
  <2> QED
    BY <1>4, <2>1, <2>2, <2>3
       DEF FinishLoad, Close, Undo, Kill, End, Passed, Critical, Closing
<1>5. ASSUME NEW r \in Runs, Refused(r) \/ Fail(r) PROVE Owner' \subseteq Owner
  <2>1. pc' = [pc EXCEPT ![r] = AfterError(r)] /\ granted' = granted
    BY <1>5 DEF Refused, Fail
  <2>2. AfterError(r) \in Passed => pc[r] \in Passed \cup Restarting
    BY <1>5 DEF Refused, Fail, AfterError, Refusal, Passed, Critical, Closing,
       Acquiring, Restarting
  <2> QED
    BY <2>1, <2>2, <1>a, <1>b, NoNewOwner
<1>6. ASSUME NEW r \in Runs, \/ Opened(r) \/ Reset(r) \/ ResetSchemas(r) \/ Access(r)
                             \/ Dropped(r) \/ RequestStop(r) \/ Create(r)
                             \/ StartWorkload(r) \/ Restored(r) \/ FinishWorkload(r)
      PROVE Owner' \subseteq Owner
  <2>1. pc[r] \in Passed /\ granted' = granted
    BY <1>6 DEF Opened, Reset, ResetSchemas, Access, Dropped, RequestStop, Create,
       StartWorkload, Restored, FinishWorkload, Guard, Passed, Critical
  <2>2. \E next : pc' = [pc EXCEPT ![r] = next]
    BY <1>6 DEF Opened, Reset, ResetSchemas, Access, Dropped, RequestStop, Create,
       StartWorkload, Restored, FinishWorkload, Guard
  <2> QED
    BY <2>1, <2>2, <1>a, NoNewOwner
<1>7. ASSUME NEW r \in Runs, Drop(r) PROVE Owner' \subseteq Owner
  BY <1>7, <1>a, NoNewOwner DEF Drop, EndSessions, Passed, Critical
<1>8. ASSUME NEW r \in Runs, LoseSession(r) PROVE Owner' \subseteq Owner
  BY <1>8, <1>a, NoNewOwner DEF LoseSession, EndSessions
<1>9. CASE StopLands
  BY <1>9, <1>a, NoNewOwner DEF StopLands, EndSessions, Passed, Critical
<1>10. CASE UNCHANGED vars
  BY <1>10 DEF vars, Owner
<1> QED
  BY <1>1, <1>2, <1>3, <1>4, <1>5, <1>6, <1>7, <1>8, <1>9, <1>10 DEF Next, Step, Terminated

\* The runs behave towards the server as the abstract lock allows: one owner
\* at a time, and nobody takes over before the owner has released the lock.
THEOREM LockRefinement == Spec => ImplementsServerLock
<1>1. Init => Lock!Init
  BY DEF Init, Lock!Init, Owner
<1>2. LockInv /\ [Next]_vars => [Lock!Next]_Owner
  <2> SUFFICES ASSUME LockInv, [Next]_vars PROVE [Lock!Next]_Owner
    OBVIOUS
  <2>1. CASE Owner' = Owner
    BY <2>1
  <2>2. CASE Owner' \subseteq Owner /\ Owner' # Owner
    <3> DEFINE S == Owner \ Owner'
    <3>1. S \in SUBSET Runs /\ S \cap Owner # {} /\ Owner' = Owner \ S
      BY <2>2 DEF Owner, LockInv, TypeOK
    <3>2. Lock!Release(S)
      BY <3>1 DEF Lock!Release
    <3> HIDE DEF S
    <3> QED
      BY <3>1, <3>2 DEF Lock!Next
  <2>3. CASE Owner = {} /\ \E r \in Runs : Owner' = {r}
    BY <2>3 DEF Lock!Next, Lock!Acquire
  <2> QED
    BY <2>1, <2>2, <2>3, OwnerSteps
<1> QED
  BY <1>1, <1>2, LockInvariant, PTL DEF Spec, ImplementsServerLock, Lock!Spec
-----------------------------------------------------------------------------
(* What the lock is for: measurements that no other run disturbed.         *)
(*                                                                         *)
(* The lock check and the work it guards are separate steps, so this needs *)
(* two assumptions about the environment: the controller session of a run  *)
(* that works is not lost on its own, and a stop request does not outlive  *)
(* the run that issued it.  Kills, cancellations and planned restarts stay *)
(* in.                                                                     *)
QuietEnvironment == Exposed \cap Critical = {} /\ ~LateStops

\* Points that only a run with a controller in postgres reaches.
FullReset == {"access", "drop", "dropped", "stop", "stopping"}

\* The target of r holds what r prepared.
Prepared(r) == content[Target[r]] = {r}

\* While a run works, its session is alive; restore() never has to open another
\* one after the load; the server is on its way down only while a run waits for
\* that.
WorkInv ==
    /\ LockInv
    /\ \A r \in Runs : pc[r] \in Critical => Alive(r)
    /\ \A r \in Runs : pc[r] \notin {"stranded", "unlocked"} /\ resume[r] # "restore"
    /\ server \in {"stopping", "restarting"} => \E r \in Runs : pc[r] = "stopping"
    /\ \A r \in Runs : pc[r] \in FullReset => Control(r) = Postgres
    /\ \A r \in Runs : pc[r] = "reset" => Policy[r] # "skip"

\* What a run measured so far was not disturbed.
AloneInv ==
    /\ WorkInv
    /\ PointsMeasuredAlone
    /\ \A r \in Runs : pc[r] = "workload" => r \notin shared

\* At most one run works at a time.
LEMMA SoleWorker ==
  ASSUME WorkInv, NEW r \in Runs, NEW s \in Runs,
         pc[r] \in Critical, pc[s] \in Critical
  PROVE  r = s
  BY DEF WorkInv, LockInv, WorkingMeansHolding, Working, MutualExclusion, Owner, Passed, Closing,
     Critical

\* Nobody works while a run restores the setting in close().
LEMMA UndoAlone ==
  ASSUME WorkInv, NEW r \in Runs, NEW s \in Runs \ {r}, pc[r] = "undo", Alive(r)
  PROVE  pc[s] \notin Critical
  BY DEF WorkInv, LockInv, WorkingMeansHolding, Working, MutualExclusion, Owner, Passed, Closing,
     Critical

\* So nobody's measurement is disturbed by what a working run does, and nobody
\* else is busy.
LEMMA NobodyDisturbed ==
  ASSUME WorkInv, NEW r \in Runs, pc[r] \in Critical
  PROVE  Disturbed(r) = {} /\ ~Busy(r)
  BY SoleWorker DEF Disturbed, Busy, Critical

\* Every run that fails to acquire the lock only has to close then.
LEMMA NeverStranded ==
  ASSUME QuietEnvironment, WorkInv, [Next]_vars
  PROVE  \A r \in Runs : pc'[r] \notin {"stranded", "unlocked"} /\ resume'[r] # "restore"
<1>a. /\ pc \in [Runs -> Points] /\ resume \in [Runs -> Resumes]
      /\ \A r \in Runs : pc[r] \notin {"stranded", "unlocked"} /\ resume[r] # "restore"
  BY DEF WorkInv, LockInv, TypeOK
<1>b. \A r \in Runs : Refusal(r) = "refused" /\ AfterError(r) \in {"refused", "aborting"}
  BY <1>a DEF Refusal, AfterError
<1> USE DEF Goto, session, database, results
<1>1. ASSUME NEW r \in Runs, resume' = resume \/ resume' = [resume EXCEPT ![r] = "create"],
             NEW next, pc' = [pc EXCEPT ![r] = next], next \notin {"stranded", "unlocked"}
      PROVE  \A s \in Runs : pc'[s] \notin {"stranded", "unlocked"} /\ resume'[s] # "restore"
  BY <1>1, <1>a
<1>2. ASSUME NEW r \in Runs, \/ Begin(r) \/ Connect(r) \/ TryLock(r) \/ CrossCheck(r)
                             \/ Opened(r) \/ Reset(r) \/ ResetSchemas(r) \/ Access(r)
                             \/ Dropped(r) \/ RequestStop(r) \/ StartServer(r) \/ Reopen(r)
                             \/ Create(r) \/ StartWorkload(r) \/ Restored(r)
                             \/ FinishWorkload(r) \/ Refused(r) \/ Fail(r)
      PROVE  \A s \in Runs : pc'[s] \notin {"stranded", "unlocked"} /\ resume'[s] # "restore"
  <2>1. resume' = resume \/ resume' = [resume EXCEPT ![r] = "create"]
    BY <1>2 DEF Begin, Connect, TryLock, CrossCheck, Conflict, Opened, Reset, ResetSchemas,
       Access, Dropped, RequestStop, StartServer, Reopen, Create, StartWorkload, Restored,
       FinishWorkload, LastPoint, Refused, Fail
  <2>2. resume[r] \notin {"stranded", "unlocked"}
    BY <1>a DEF Resumes
  <2>3. \E next : pc' = [pc EXCEPT ![r] = next] /\ next \notin {"stranded", "unlocked"}
    BY <1>2, <1>b, <2>2 DEF Begin, Connect, TryLock, CrossCheck, Conflict, Opened, Reset,
       ResetSchemas, Access, Dropped, RequestStop, StartServer, Reopen, Create, StartWorkload,
       Restored, FinishWorkload, LastPoint, Refused, Fail, Guard
  <2> QED
    BY <2>1, <2>3, <1>1
<1>3. ASSUME NEW r \in Runs, FinishLoad(r) \/ Close(r) \/ Undo(r) \/ Kill(r)
      PROVE  \A s \in Runs : pc'[s] \notin {"stranded", "unlocked"} /\ resume'[s] # "restore"
  <2>1. pc[r] = "load" => Alive(r)
    BY DEF WorkInv, Critical
  <2> QED
    BY <1>3, <1>a, <2>1 DEF FinishLoad, Close, Undo, Kill, End
<1>4. ASSUME NEW r \in Runs, Drop(r) \/ LoseSession(r) \/ StopLands
      PROVE  \A s \in Runs : pc'[s] \notin {"stranded", "unlocked"} /\ resume'[s] # "restore"
  BY <1>4, <1>a DEF Drop, LoseSession, StopLands
<1>5. CASE UNCHANGED vars
  BY <1>5, <1>a DEF vars
<1> QED
  BY <1>2, <1>3, <1>4, <1>5 DEF Next, Step, Terminated

LEMMA WorkInvInductive ==
  ASSUME QuietEnvironment, WorkInv, LockInv', [Next]_vars
  PROVE  WorkInv'
<1> DEFINE Rest ==
      /\ \A r \in Runs : pc[r] \in Critical => Alive(r)
      /\ server \in {"stopping", "restarting"} => \E r \in Runs : pc[r] = "stopping"
      /\ \A r \in Runs : pc[r] \in FullReset => Control(r) = Postgres
      /\ \A r \in Runs : pc[r] = "reset" => Policy[r] # "skip"
<1>0. SUFFICES Rest'
  BY NeverStranded DEF WorkInv
<1>b. Rest
  BY DEF WorkInv
<1>c. /\ pc \in [Runs -> Points] /\ resume \in [Runs -> Resumes \ {"restore"}]
      /\ sess \in [Runs -> {"none", "open", "dead"}]
      /\ server \in {"up", "stopping", "restarting", "down"}
  BY DEF WorkInv, LockInv, TypeOK
<1>d. \A r \in Runs : Refusal(r) = "refused"
  BY <1>c DEF Refusal
<1> USE DEF Goto, session, database, results, Alive, Critical, FullReset, Control, Resumes
\* Steps that change the point of one run only, and no session.
<1>1. ASSUME NEW r \in Runs, \/ Begin(r) \/ TryLock(r) \/ CrossCheck(r) \/ Opened(r)
                             \/ ResetSchemas(r) \/ Dropped(r) \/ Create(r)
                             \/ StartWorkload(r) \/ Restored(r) \/ FinishWorkload(r)
                             \/ Refused(r)
      PROVE Rest'
  <2>1. sess' = sess /\ server' = server
    BY <1>1 DEF Begin, TryLock, CrossCheck, Conflict, Opened, ResetSchemas, Dropped, Create,
       StartWorkload, Restored, FinishWorkload, Refused, Guard
  <2>2. pc[r] # "stopping"
    BY <1>1 DEF Begin, TryLock, CrossCheck, Conflict, Opened, ResetSchemas, Dropped, Create,
       StartWorkload, Restored, FinishWorkload, Refused, Guard
  <2>3. \E next : pc' = [pc EXCEPT ![r] = next]
    BY <1>1 DEF Begin, TryLock, CrossCheck, Conflict, Opened, ResetSchemas, Dropped, Create,
       StartWorkload, Restored, FinishWorkload, Refused, Guard
  <2>4. pc'[r] \in Critical => Alive(r)
    BY <1>1, <1>b, <1>c, <1>d
       DEF Begin, TryLock, CrossCheck, Conflict, Opened, ResetSchemas, Dropped, Create,
       StartWorkload, Restored, FinishWorkload, Refused, AfterError, Guard, AssertHeld
  <2>5. pc'[r] \in FullReset => pc[r] \in FullReset
    BY <1>1, <1>b, <1>c, <1>d
       DEF Begin, TryLock, CrossCheck, Conflict, Opened, ResetSchemas, Dropped, Create,
       StartWorkload, Restored, FinishWorkload, Refused, AfterError, Guard
  <2>6. pc'[r] = "reset" => Policy[r] # "skip"
    BY <1>1, <1>b, <1>c, <1>d
       DEF Begin, TryLock, CrossCheck, Conflict, Opened, ResetSchemas, Dropped, Create,
       StartWorkload, Restored, FinishWorkload, Refused, AfterError, Guard, Initializes
  <2> QED
    BY <2>1, <2>2, <2>3, <2>4, <2>5, <2>6, <1>b, <1>c
<1>2. ASSUME NEW r \in Runs, Connect(r) PROVE Rest'
  BY <1>2, <1>b, <1>c DEF Connect
<1>3. ASSUME NEW r \in Runs, Reset(r) PROVE Rest'
  BY <1>3, <1>b, <1>c DEF Reset, Guard
<1>4. ASSUME NEW r \in Runs, Access(r) PROVE Rest'
  BY <1>4, <1>b, <1>c DEF Access, Guard
<1>5. ASSUME NEW r \in Runs, Drop(r) PROVE Rest'
  <2>1. Control(r) # Target[r]
    BY <1>5, <1>b, RunsAssumption DEF Drop
  <2>2. \A s \in Runs : pc'[s] \in Critical => s = r
    BY <1>5, <1>c, SoleWorker DEF Drop
  <2>3. sess'[r] = "open" /\ pc'[r] = "dropped" /\ server' = "up"
    BY <1>5, <2>1, <1>b, <1>c DEF Drop, EndSessions
  <2>4. pc[r] \in FullReset
    BY <1>5 DEF Drop
  <2>5. Control(r) = Postgres
    BY <2>4, <1>b
  <2> QED
    BY <2>2, <2>3, <2>5
<1>6. ASSUME NEW r \in Runs, RequestStop(r) PROVE Rest'
  BY <1>6, <1>b, <1>c DEF RequestStop
<1>7. ASSUME NEW r \in Runs, StartServer(r) PROVE Rest'
  BY <1>7, <1>b, <1>c DEF StartServer
<1>8. ASSUME NEW r \in Runs, Reopen(r) PROVE Rest'
  BY <1>8, <1>b, <1>c DEF Reopen, Disconnect
<1>9. ASSUME NEW r \in Runs, FinishLoad(r) \/ Close(r) \/ Undo(r) PROVE Rest'
  <2>1. pc[r] \in {"load", "closing", "aborting", "undo", "refused"}
    BY <1>9, <1>c DEF FinishLoad, Close, Undo, WorkInv
  <2>2. server' = server /\ \A s \in Runs \ {r} : sess'[s] = sess[s]
    BY <1>9, <1>c DEF FinishLoad, Close, Undo, End, Disconnect
  <2>3. CASE pc[r] = "load" /\ pc' = [pc EXCEPT ![r] = "restore"] /\ sess' = sess
    BY <2>2, <2>3, <1>b, <1>c
  <2>4. CASE \/ pc' = [pc EXCEPT ![r] = "connect"] \/ pc' = [pc EXCEPT ![r] = "done"]
             \/ pc' = [pc EXCEPT ![r] = "undo"] \/ pc' = [pc EXCEPT ![r] = "unlocked"]
    BY <2>1, <2>2, <2>4, <1>b, <1>c
  <2> QED
    BY <1>9, <2>3, <2>4 DEF FinishLoad, Close, Undo, End
<1>10. ASSUME NEW r \in Runs, Fail(r) \/ Kill(r) PROVE Rest'
  <2>1. pc[r] = "stopping" => server \notin {"stopping", "restarting"}
    BY <1>10 DEF Fail, Kill, Pending, QuietEnvironment
  <2>2. server' = server /\ \E next \in {"aborting", "refused", "done"} : pc' = [pc EXCEPT ![r] = next]
    BY <1>10, <1>d DEF Fail, AfterError, Kill, End
  <2>3. \A s \in Runs \ {r} : sess'[s] = sess[s]
    BY <1>10, <1>c DEF Fail, Kill, End, Disconnect
  <2> QED
    BY <2>1, <2>2, <2>3, <1>b, <1>c
<1>11. ASSUME NEW r \in Runs, LoseSession(r) PROVE Rest'
  <2>1. pc[r] \notin Critical
    BY <1>11 DEF LoseSession, QuietEnvironment
  <2> QED
    BY <1>11, <2>1, <1>b, <1>c DEF LoseSession, EndSessions
<1>12. CASE StopLands
  \* The run that waits for the stop is the only one that works.
  <2>1. PICK r \in Runs : pc[r] = "stopping"
    BY <1>12, <1>b DEF StopLands
  <2>2. \A s \in Runs : pc[s] \in Critical => s = r
    BY <2>1, SoleWorker
  <2>3. \A s \in Runs : pc'[s] \notin Critical
    BY <1>12, <2>1, <2>2, <1>c DEF StopLands
  <2>4. server' \in {"down", "up"}
    BY <1>12 DEF StopLands
  <2> QED
    BY <2>3, <2>4
<1>13. CASE UNCHANGED vars
  BY <1>13, <1>b DEF vars
<1> QED
  BY <1>1, <1>2, <1>3, <1>4, <1>5, <1>6, <1>7, <1>8, <1>9, <1>10, <1>11, <1>12,
     <1>13 DEF Next, Step, Terminated

LEMMA WorkInvInit == Init => WorkInv
  BY LockInvInit DEF Init, WorkInv, FullReset, Critical

LEMMA AloneInvInductive ==
  ASSUME QuietEnvironment, AloneInv, LockInv', [Next]_vars
  PROVE  AloneInv'
<1>a. WorkInv /\ pc \in [Runs -> Points]
  BY DEF AloneInv, WorkInv, LockInv, TypeOK
<1>b. WorkInv'
  BY <1>a, WorkInvInductive
<1>c. PointsMeasuredAlone /\ \A r \in Runs : pc[r] = "workload" => r \notin shared
  BY DEF AloneInv
<1> DEFINE Undisturbed == PointsMeasuredAlone /\ \A r \in Runs : pc[r] = "workload" => r \notin shared
<1>0. SUFFICES Undisturbed'
  BY <1>b DEF AloneInv
<1> USE DEF Goto, session, database, results, Critical, PointsMeasuredAlone
\* Steps that leave the results alone start no measurement.
<1>1. ASSUME shared' \subseteq shared, spoiled' = spoiled,
             \A r \in Runs : pc'[r] = "workload" => pc[r] = "workload"
      PROVE Undisturbed'
  BY <1>1, <1>c
<1>2. ASSUME NEW r \in Runs,
             \/ Begin(r) \/ Connect(r) \/ TryLock(r) \/ CrossCheck(r) \/ Opened(r)
             \/ Reset(r) \/ Access(r) \/ Dropped(r) \/ StartServer(r) \/ Reopen(r)
             \/ FinishLoad(r) \/ Close(r) \/ Refused(r) \/ Fail(r) \/ Kill(r)
             \/ LoseSession(r)
      PROVE Undisturbed'
  <2>1. shared' = shared /\ spoiled' = spoiled
    BY <1>2 DEF Begin, Connect, TryLock, CrossCheck, Conflict, Opened, Reset, Access, Dropped,
       StartServer, Reopen, FinishLoad, Close, Refused, Fail, Kill, LoseSession
  <2>2. resume[r] # "workload"
    BY <1>a DEF WorkInv, LockInv, TypeOK, Resumes
  <2>3. \A s \in Runs : pc'[s] = "workload" => pc[s] = "workload"
    BY <1>2, <1>a, <2>2
       DEF Begin, Connect, TryLock, CrossCheck, Conflict, Opened, Reset, Access, Dropped,
       StartServer, Reopen, FinishLoad, Close, End, Refused, Fail, AfterError, Refusal, Kill,
       LoseSession, Guard
  <2> QED
    BY <2>1, <2>3, <1>1
<1>3. ASSUME NEW r \in Runs, \/ ResetSchemas(r) \/ Drop(r) \/ RequestStop(r) \/ Create(r)
                             \/ Undo(r)
      PROVE Undisturbed'
  <2>1. Disturbed(r) = {}
    <3>1. CASE Undo(r)
      BY <1>a, <3>1, UndoAlone DEF Undo, WorkInv, Disturbed
    <3>2. CASE ResetSchemas(r) \/ Drop(r) \/ RequestStop(r) \/ Create(r)
      BY <1>a, <3>2, NobodyDisturbed DEF ResetSchemas, Drop, RequestStop, Create
    <3> QED
      BY <1>3, <3>1, <3>2
  <2>2. shared' = shared /\ spoiled' = spoiled
    BY <1>3, <2>1 DEF ResetSchemas, Drop, RequestStop, Create, Undo
  <2>3. \A s \in Runs : pc'[s] = "workload" => pc[s] = "workload"
    BY <1>3, <1>a DEF ResetSchemas, Drop, RequestStop, Create, Undo, End
  <2> QED
    BY <2>2, <2>3, <1>1
<1>4. ASSUME NEW r \in Runs, StartWorkload(r) \/ Restored(r)
      PROVE Undisturbed'
  <2>1. Disturbed(r) = {} /\ ~Busy(r)
    BY <1>4, <1>a, NobodyDisturbed DEF StartWorkload, Restored, Guard
  <2>2. spoiled' = spoiled /\ shared' \subseteq shared
    BY <1>4, <2>1 DEF StartWorkload, Restored, StartsMeasuring
  <2>3. pc'[r] = "workload" => r \notin shared'
    BY <1>4, <2>1, <1>a DEF StartWorkload, Restored, StartsMeasuring, Guard
  <2>4. \A s \in Runs \ {r} : pc'[s] = pc[s]
    BY <1>4, <1>a DEF StartWorkload, Restored, Guard
  <2> QED
    BY <2>2, <2>3, <2>4, <1>c
<1>5. ASSUME NEW r \in Runs, FinishWorkload(r)
      PROVE Undisturbed'
  <2>1. r \notin shared
    BY <1>5, <1>c DEF FinishWorkload, LastPoint
  <2>2. spoiled' = spoiled /\ shared' \subseteq shared
    BY <1>5, <2>1 DEF FinishWorkload, LastPoint
  <2>3. \A s \in Runs : pc'[s] = "workload" => pc[s] = "workload"
    BY <1>5, <1>a DEF FinishWorkload, LastPoint
  <2> QED
    BY <2>2, <2>3, <1>1
<1>6. CASE StopLands
  BY <1>6, <1>1, <1>a DEF StopLands
<1>7. CASE UNCHANGED vars
  BY <1>7, <1>1 DEF vars
<1> QED
  BY <1>2, <1>3, <1>4, <1>5, <1>6, <1>7 DEF Next, Step, Terminated

\* With a controller that is not lost while it works and no stop request
\* outliving its run, every point any run ever records was measured while no
\* other run reset, restarted, loaded or measured on the server.
THEOREM PointsMeasuredAloneHolds ==
  ASSUME QuietEnvironment PROVE Spec => []PointsMeasuredAlone
<1>1. Init => AloneInv
  BY WorkInvInit DEF Init, AloneInv, PointsMeasuredAlone
<1>2. AloneInv /\ LockInv' /\ [Next]_vars => AloneInv'
  BY AloneInvInductive
<1>3. AloneInv => PointsMeasuredAlone
  BY DEF AloneInv
<1> QED
  BY <1>1, <1>2, <1>3, LockInvariant, PTL DEF Spec

-----------------------------------------------------------------------------
(* What is measured is what the run itself prepared.                       *)

\* Where a run of the policy "once" may be after its first point.
Later == {"opened", "ready", "workload", "closing", "aborting"}
OnceInv ==
    \A r \in Runs : Policy[r] = "once" =>
        /\ iter[r] # 1 => pc[r] \in Later
        /\ r \in changed => /\ iter[r] = 1
                            /\ \/ pc[r] \in {"load", "restore", "aborting", "undo", "refused"}
                               \/ pc[r] \in Acquiring /\ resume[r] = "undo"
        /\ pc[r] = "closing" => LastPoint(r)

\* A run that does not reset any more before it measures has its own data.
HasData(r) ==
    \/ pc[r] \in {"ready", "load", "restore", "workload"} /\ Policy[r] # "skip"
    \/ pc[r] = "opened" /\ Policy[r] = "once" /\ iter[r] # 1
DataInv == \A r \in Runs : HasData(r) => Prepared(r)

LEMMA OnceInvInductive ==
  ASSUME WorkInv, OnceInv, [Next]_vars
  PROVE  OnceInv'
<1>a. /\ pc \in [Runs -> Points] /\ resume \in [Runs -> Resumes]
      /\ iter \in [Runs -> 1 .. Iterations] /\ Iterations \in Nat
  BY RunsAssumption DEF WorkInv, LockInv, TypeOK
<1> USE DEF OnceInv, Later, LastPoint, Acquiring, Resumes, Refusal, Goto, session, database, results
<1>1. ASSUME NEW r \in Runs, Begin(r) PROVE OnceInv'
  BY <1>a, <1>1 DEF Begin
<1>2. ASSUME NEW r \in Runs, Connect(r) PROVE OnceInv'
  BY <1>a, <1>2 DEF Connect
<1>3. ASSUME NEW r \in Runs, TryLock(r) PROVE OnceInv'
  BY <1>a, <1>3 DEF TryLock
<1>4. ASSUME NEW r \in Runs, CrossCheck(r) PROVE OnceInv'
  BY <1>a, <1>4 DEF CrossCheck, Conflict
<1>5. ASSUME NEW r \in Runs, Opened(r) PROVE OnceInv'
  BY <1>a, <1>5 DEF Opened, Guard, Initializes
<1>6. ASSUME NEW r \in Runs, Reset(r) PROVE OnceInv'
  BY <1>a, <1>6 DEF Reset, Guard
<1>7. ASSUME NEW r \in Runs, ResetSchemas(r) PROVE OnceInv'
  BY <1>a, <1>7 DEF ResetSchemas
<1>8. ASSUME NEW r \in Runs, Access(r) PROVE OnceInv'
  BY <1>a, <1>8 DEF Access, Guard
<1>9. ASSUME NEW r \in Runs, Drop(r) PROVE OnceInv'
  BY <1>a, <1>9 DEF Drop
<1>10. ASSUME NEW r \in Runs, Dropped(r) PROVE OnceInv'
  BY <1>a, <1>10 DEF Dropped, Guard
<1>11. ASSUME NEW r \in Runs, RequestStop(r) PROVE OnceInv'
  BY <1>a, <1>11 DEF RequestStop
<1>12. ASSUME NEW r \in Runs, StartServer(r) PROVE OnceInv'
  BY <1>a, <1>12 DEF StartServer
<1>13. ASSUME NEW r \in Runs, Reopen(r) PROVE OnceInv'
  BY <1>a, <1>13 DEF Reopen
<1>14. ASSUME NEW r \in Runs, Create(r) PROVE OnceInv'
  BY <1>a, <1>14 DEF Create
<1>15. ASSUME NEW r \in Runs, StartWorkload(r) PROVE OnceInv'
  <2>1. CASE r \in OffRuns /\ Initializes(r)
    BY <1>a, <1>15, <2>1 DEF StartWorkload, Guard, Initializes
  <2>2. CASE ~(r \in OffRuns /\ Initializes(r))
    BY <1>a, <1>15, <2>2 DEF StartWorkload, Guard
  <2> QED
    BY <2>1, <2>2
<1>16. ASSUME NEW r \in Runs, FinishWorkload(r) PROVE OnceInv'
  BY <1>a, <1>16 DEF FinishWorkload
<1>17. ASSUME NEW r \in Runs, FinishLoad(r) PROVE OnceInv'
  BY <1>a, <1>17 DEF FinishLoad, WorkInv, Critical
<1>18. ASSUME NEW r \in Runs, Restored(r) PROVE OnceInv'
  BY <1>a, <1>18 DEF Restored
<1>19. ASSUME NEW r \in Runs, Close(r) PROVE OnceInv'
  <2>1. CASE UNCHANGED session
    BY <1>a, <1>19, <2>1 DEF Close, MustUndo, End
  <2>2. CASE iter' = iter /\ changed' = changed /\ r \in changed
    BY <1>a, <1>19, <2>2 DEF Close, End
  <2>3. CASE pc[r] = "closing" /\ ~LastPoint(r)
    BY <1>a, <1>19, <2>3 DEF Close, End
  <2>4. CASE End(r)
    BY <1>a, <2>4 DEF End
  <2> QED
    BY <1>19, <2>1, <2>2, <2>3, <2>4 DEF Close, MustUndo
<1>20. ASSUME NEW r \in Runs, Undo(r) \/ Kill(r) PROVE OnceInv'
  BY <1>a, <1>20 DEF Undo, Kill, End
<1>21. ASSUME NEW r \in Runs, Refused(r) \/ Fail(r) PROVE OnceInv'
  <2>1. /\ pc' = [pc EXCEPT ![r] = AfterError(r)]
        /\ iter' = iter /\ changed' = changed /\ resume' = resume
    BY <1>21 DEF Refused, Fail
  <2>2. AfterError(r) # "aborting" => pc[r] \notin Later
    BY <1>21 DEF Refused, Fail, AfterError, Refusal, Acquiring
  <2>3. AfterError(r) \in {"aborting", "refused"}
    BY DEF AfterError, WorkInv
  <2> QED
    BY <1>a, <2>1, <2>2, <2>3
<1>22. ASSUME NEW r \in Runs, LoseSession(r) PROVE OnceInv'
  BY <1>a, <1>22 DEF LoseSession
<1>23. CASE StopLands
  BY <1>a, <1>23 DEF StopLands
<1>24. CASE UNCHANGED vars
  BY <1>24 DEF vars
<1> QED
  BY <1>1, <1>2, <1>3, <1>4, <1>5, <1>6, <1>7, <1>8, <1>9, <1>10, <1>11, <1>12, <1>13,
     <1>14, <1>15, <1>16, <1>17, <1>18, <1>19, <1>20, <1>21, <1>22, <1>23, <1>24
     DEF Next, Step, Terminated

LEMMA DataInvInductive ==
  ASSUME WorkInv, OnceInv, DataInv, [Next]_vars
  PROVE  DataInv'
<1>a. /\ pc \in [Runs -> Points] /\ resume \in [Runs -> Resumes]
      /\ iter \in [Runs -> 1 .. Iterations] /\ DOMAIN content = {Target[r] : r \in Runs}
  BY DEF WorkInv, LockInv, TypeOK
<1> USE DEF Goto, session, database, results
\* Only a run that works changes what a target holds, and it works alone.
<1>1. ASSUME NEW s \in Runs, ResetSchemas(s) \/ Drop(s) \/ Create(s)
      PROVE  DataInv'
  <2>1. \A r \in Runs : pc[r] \in Critical => r = s
    BY <1>1, SoleWorker DEF ResetSchemas, Drop, Create, Critical
  <2>2. \A r \in Runs \ {s} : ~HasData(r)'
    BY <1>1, <1>a, <2>1 DEF ResetSchemas, Drop, Create, HasData, Critical
  <2>3. HasData(s)' => Prepared(s)'
    BY <1>1, <1>a DEF ResetSchemas, Drop, Create, HasData, Prepared
  <2> QED
    BY <2>2, <2>3 DEF DataInv
<1>2. ASSUME content' = content, \A r \in Runs : HasData(r)' => HasData(r)
      PROVE  DataInv'
  BY <1>2 DEF DataInv, Prepared
<1>3. ASSUME NEW s \in Runs, \/ Opened(s) \/ StartWorkload(s) \/ FinishLoad(s)
                             \/ Restored(s) \/ FinishWorkload(s)
      PROVE  DataInv'
  <2>1. content' = content /\ \A r \in Runs \ {s} : pc'[r] = pc[r] /\ iter'[r] = iter[r]
    BY <1>3, <1>a DEF Opened, StartWorkload, FinishLoad, Restored, FinishWorkload, Guard
  <2>2. HasData(s)' => HasData(s)
    BY <1>3, <1>a, RunsAssumption DEF Opened, StartWorkload, FinishLoad, Restored,
       FinishWorkload, Guard, Initializes, LastPoint, HasData
  <2> QED
    BY <1>2, <2>1, <2>2 DEF HasData
<1>4. ASSUME NEW s \in Runs, CrossCheck(s)
      PROVE  DataInv'
  <2>1. resume[s] = "opened" /\ Policy[s] = "once" => iter[s] = 1
    BY <1>4 DEF CrossCheck, OnceInv, Later
  <2>2. resume[s] \in {"opened", "create", "undo"} /\ Refusal(s) \in {"refused", "stranded"}
    BY <1>a DEF WorkInv, Resumes, Refusal
  <2> QED
    BY <1>2, <1>4, <1>a, <2>1, <2>2 DEF CrossCheck, Conflict, HasData
<1>5. ASSUME NEW s \in Runs, \/ Begin(s) \/ Connect(s) \/ TryLock(s) \/ Reset(s) \/ Access(s) \/ Dropped(s)
                            \/ RequestStop(s) \/ StartServer(s) \/ Reopen(s) \/ Close(s)
                            \/ Undo(s) \/ Refused(s) \/ Fail(s) \/ Kill(s) \/ LoseSession(s)
      PROVE  DataInv'
  <2>1. content' = content /\ \A r \in Runs \ {s} : pc'[r] = pc[r] /\ iter'[r] = iter[r]
    BY <1>5, <1>a DEF Begin, Connect, TryLock, Reset, Access, Dropped, RequestStop, StartServer, Reopen,
       Close, Undo, End, Refused, Fail, Kill, LoseSession, Guard
  <2>2. HasData(s)' => HasData(s)
    BY <1>5, <1>a DEF Begin, Connect, TryLock, Reset, Access, Dropped, RequestStop, StartServer, Reopen,
       Close, Undo, End, Refused, Fail, AfterError, Refusal, Kill, LoseSession, Guard, HasData
  <2> QED
    BY <1>2, <2>1, <2>2 DEF HasData
<1>6. CASE StopLands
  BY <1>2, <1>6, <1>a DEF StopLands, HasData
<1>7. CASE UNCHANGED vars
  BY <1>2, <1>7 DEF vars, HasData
<1> QED
  BY <1>1, <1>3, <1>4, <1>5, <1>6, <1>7 DEF Next, Step, Terminated

\* In the same environment, what a run measures after its own reset is what it
\* prepared, for any runs, policies and targets: no other run drops, recreates
\* or resets it in between, also where one controller is kept for all points.
THEOREM MeasuresOwnDataHolds ==
  ASSUME QuietEnvironment PROVE Spec => []MeasuresOwnData
<1>1. Init => AloneInv /\ OnceInv /\ DataInv
  BY WorkInvInit DEF Init, AloneInv, PointsMeasuredAlone, OnceInv, DataInv, HasData, Later
<1>2. AloneInv /\ OnceInv /\ DataInv /\ LockInv' /\ [Next]_vars
          => AloneInv' /\ OnceInv' /\ DataInv'
  BY AloneInvInductive, OnceInvInductive, DataInvInductive DEF AloneInv
<1>3. DataInv => MeasuresOwnData
  BY DEF DataInv, MeasuresOwnData, HasData, Prepared
<1> QED
  BY <1>1, <1>2, <1>3, LockInvariant, PTL DEF Spec
=============================================================================
