-------------------------- MODULE PreparationProofs --------------------------
(***************************************************************************)
(* Proofs about the preparation of a point: the restart of its server, for *)
(* any host and any number of failovers, of restarts by others and of lost *)
(* responses; the copy of its configuration; the plan of the loader, for   *)
(* any tasks and dependencies; and the replicas that the measurement waits *)
(* for, however many there are and however they come and go.               *)
(***************************************************************************)
EXTENDS Preparation, FiniteSetTheorems, FunctionTheorems, TLAPS

\* The clock of the starts, and the steps of restart() after it began.
Began == {"inspect", "post", "access", "verify"}

(* Starts are distinct and a new one is the latest. Since restart() began, *)
(* the selected server has its old start or one from after that; and so    *)
(* has the member that was detected after the request.                     *)
StartInv ==
    /\ start \in [1 .. 2 -> Nat] /\ leader \in 1 .. 2 /\ start[1] # start[2]
    /\ began \in Nat /\ previous \in Nat /\ member.start \in Nat
    /\ next \in Began => /\ start[1] = previous \/ start[1] > began
                         /\ began <= Reset!Clock
    /\ next = "verify" => /\ member.start = previous \/ member.start > began
                          /\ member.start <= Reset!Clock /\ member.start # start[2]

\* Nothing was restarted before the request; a direct restart has no mark.
RequestInv ==
    /\ forced \in 0 .. 1 /\ ~wronged
    /\ next \in {"detect", "check", "drop", "restart", "inspect", "post"} => forced = 0
    /\ Reset!NeverBehindPatroni

LEMMA RequestInitially == Init => RequestInv
BY DEF Init, Reset!Init, RequestInv, Reset!NeverBehindPatroni

LEMMA RequestKept ==
    ASSUME RequestInv, [Next]_vars
    PROVE  RequestInv'
<1> USE DEF RequestInv, Reset!NeverBehindPatroni
<1>1. CASE UNCHANGED reset
  BY <1>1 DEF reset
<1>2. CASE Reset!Detect
  <2>1. UNCHANGED <<forced, wronged, host>> /\ forced = 0 /\ next' \in {"check", "direct", "refused"}
        /\ (next' = "direct" => ~host.marker)
    BY <1>2 DEF Reset!Detect, Reset!Discover, Reset!Refuse, Reset!evidence, Reset!setting
  <2> QED
    BY <2>1
<1>3. CASE Reset!Check \/ Reset!Drop \/ Reset!Restart \/ Reset!Inspect
  <2>1. UNCHANGED <<forced, wronged, host>> /\ forced = 0
        /\ next' \in {"drop", "restart", "inspect", "post", "refused"}
    BY <1>3 DEF Reset!Check, Reset!Drop, Reset!Restart, Reset!Inspect, Reset!Refuse, Reset!evidence, Reset!setting
  <2> QED
    BY <2>1
<1>4. CASE Reset!Post
  <2>1. forced = 0 /\ next' \in {"access", "refused"}
    BY <1>4 DEF Reset!Post, Reset!Refuse
  <2>2. UNCHANGED <<forced, wronged>> \/ (forced' = forced + 1 /\ ~wronged')
    BY <1>4 DEF Reset!Post, Reset!Refused, Reset!Restarted, Reset!evidence
  <2> QED
    BY <2>1, <2>2
<1>5. CASE Reset!Access \/ Reset!Verify \/ Reset!Direct \/ Reset!Create
  <2>1. UNCHANGED <<forced, wronged>> /\ next' \in {"verify", "create", "reset", "refused"}
    BY <1>5 DEF Reset!Access, Reset!Verify, Reset!Direct, Reset!Create, Reset!Refuse, Reset!evidence
  <2> QED
    BY <2>1
<1>6. CASE Reset!Fault
  <2>1. UNCHANGED <<forced, wronged, host, next>>
    BY <1>6 DEF Reset!Fault, Reset!evidence, Reset!setting
  <2> QED
    BY <2>1
<1>7. CASE Reset!Silence
  BY <1>7 DEF Reset!Silence, Reset!evidence
<1> QED
  BY <1>1, <1>2, <1>3, <1>4, <1>5, <1>6, <1>7 DEF Next, Code, ValidatePlan, Open, InstallConfig, RunCopy,
     LeaveCopy, SchemaReset, RunReset, LeaveReset, Load, RunCommand, EnterBarrier, LeaveBarrier, CancelCopy,
     CopyGoesOn, LosePeer, Sleep, Elsewhere, Terminated, Reset!ResetStep, vars

-----------------------------------------------------------------------------
LEMMA StartInitially == Init => StartInv
BY DEF Init, Reset!Init, StartInv, Began, Reset!Nobody

\* A start of member m after what has been.
LEMMA StartFacts ==
    ASSUME StartInv, NEW m \in 1 .. 2, start' = Reset!Started(m)
    PROVE  /\ start' \in [1 .. 2 -> Nat] /\ start'[1] # start'[2]
           /\ Reset!Clock \in Nat /\ Reset!Clock' = Reset!Clock + 1
           /\ start'[m] = Reset!Clock + 1 /\ start'[3 - m] = start[3 - m]
<1>1. start[1] \in Nat /\ start[2] \in Nat /\ start[1] # start[2]
  BY DEF StartInv
<1>2. /\ Reset!Clock \in Nat /\ start[1] <= Reset!Clock /\ start[2] <= Reset!Clock
  BY <1>1 DEF Reset!Clock
<1>3. /\ start' = [start EXCEPT ![m] = Reset!Clock + 1]
      /\ start' \in [1 .. 2 -> Nat]
  BY <1>2 DEF Reset!Started, StartInv
<1>4. m = 1 \/ m = 2
  OBVIOUS
<1>5. start'[m] = Reset!Clock + 1 /\ start'[3 - m] = start[3 - m]
  BY <1>3, <1>4 DEF StartInv
<1>6. Reset!Clock' = IF start'[1] > start'[2] THEN start'[1] ELSE start'[2]
  BY DEF Reset!Clock
<1> QED
  BY <1>1, <1>2, <1>3, <1>4, <1>5, <1>6

LEMMA StartKept ==
    ASSUME StartInv, [Next]_vars
    PROVE  StartInv'
<1>0. /\ start \in [1 .. 2 -> Nat] /\ start[1] \in Nat /\ start[2] \in Nat /\ start[1] # start[2]
      /\ leader \in 1 .. 2 /\ Reset!Clock \in Nat
      /\ start[1] <= Reset!Clock /\ start[2] <= Reset!Clock
  BY DEF StartInv, Reset!Clock
<1>u. start' = start => Reset!Clock' = Reset!Clock
  BY DEF Reset!Clock
<1> USE DEF Began
<1>1. CASE UNCHANGED reset
  BY <1>u, <1>1 DEF reset, StartInv
\* Nothing is under way.
<1>2. CASE Reset!Detect \/ Reset!Check \/ Reset!Drop \/ Reset!Create
  <2>1. UNCHANGED <<start, leader, previous, began>> /\ next' \notin Began
        /\ (UNCHANGED member \/ member' = Reset!Detected)
    BY <1>2 DEF Reset!Detect, Reset!Check, Reset!Drop, Reset!Create, Reset!Refuse, Reset!cluster, Reset!evidence
  <2> QED
    BY <1>0, <2>1 DEF StartInv, Reset!Detected
<1>3. CASE Reset!Direct
  <2>1. UNCHANGED <<leader, previous, began, member>> /\ next' \notin Began
        /\ (UNCHANGED start \/ start' = Reset!Started(1))
    BY <1>3 DEF Reset!Direct, Reset!Refuse, Reset!evidence
  <2> QED
    BY <1>0, <2>1, StartFacts DEF StartInv
<1>4. CASE Reset!Restart
  <2>1. UNCHANGED <<start, leader, member>> /\ began' = Reset!Clock
        /\ ((next' = "inspect" /\ previous' = start[1]) \/ (next' = "refused" /\ UNCHANGED previous))
    BY <1>4 DEF Reset!Restart, Reset!Refuse, Reset!cluster
  <2> QED
    BY <1>0, <1>u, <2>1 DEF StartInv
<1>5. CASE Reset!Inspect
  <2>1. UNCHANGED <<start, leader, previous, began, member>> /\ next = "inspect" /\ next' \in {"post", "refused"}
    BY <1>5 DEF Reset!Inspect, Reset!Refuse, Reset!cluster, Reset!evidence
  <2> QED
    BY <1>0, <1>u, <2>1 DEF StartInv
<1>6. CASE Reset!Post
  <2>1. UNCHANGED <<leader, previous, began, member>> /\ next = "post" /\ next' \in {"access", "refused"}
        /\ (UNCHANGED start \/ start' = Reset!Started(1))
    BY <1>6 DEF Reset!Post, Reset!Refuse, Reset!Restarted, Reset!cluster, Reset!evidence
  <2>2. CASE UNCHANGED start
    BY <1>0, <1>u, <2>1, <2>2 DEF StartInv
  <2>3. CASE start' = Reset!Started(1)
    BY <1>0, <2>1, <2>3, StartFacts DEF StartInv
  <2> QED
    BY <2>1, <2>2, <2>3
<1>7. CASE Reset!Access
  <2>1. UNCHANGED <<start, leader, previous, began>> /\ next = "access"
        /\ ((next' = "verify" /\ member'.start = start[1]) \/ (next' = "refused" /\ UNCHANGED member))
    BY <1>7 DEF Reset!Access, Reset!Refuse, Reset!Detected, Reset!cluster, Reset!evidence
  <2> QED
    BY <1>0, <1>u, <2>1 DEF StartInv
<1>8. CASE Reset!Verify
  <2>1. UNCHANGED <<start, leader, previous, began, member>> /\ next' \in {"create", "refused"}
    BY <1>8 DEF Reset!Verify, Reset!Refuse, Reset!cluster, Reset!evidence
  <2> QED
    BY <1>0, <2>1 DEF StartInv
<1>9. CASE Reset!Fault
  <2>1. UNCHANGED <<previous, began, member, next>>
    BY <1>9 DEF Reset!Fault, Reset!evidence
  <2>2. leader' \in {leader, 3 - leader}
        /\ (UNCHANGED start \/ \E m \in 1 .. 2 : start' = Reset!Started(m))
    BY <1>0, <1>9 DEF Reset!Fault, Reset!Failover, Reset!PostgresRestarts, Reset!PatroniRestarts
  <2>3. CASE UNCHANGED start
    BY <1>0, <1>u, <2>1, <2>2, <2>3 DEF StartInv
  <2>4. CASE \E m \in 1 .. 2 : start' = Reset!Started(m)
    <3>1. PICK m \in 1 .. 2 : start' = Reset!Started(m)
      BY <2>4
    <3>2. /\ start' \in [1 .. 2 -> Nat] /\ start'[1] # start'[2] /\ Reset!Clock' = Reset!Clock + 1
          /\ start'[m] = Reset!Clock + 1 /\ start'[3 - m] = start[3 - m]
      BY <3>1, StartFacts
    <3>3. CASE m = 1
      BY <1>0, <2>1, <2>2, <3>2, <3>3 DEF StartInv
    <3>4. CASE m = 2
      BY <1>0, <2>1, <2>2, <3>2, <3>4 DEF StartInv
    <3> QED
      BY <3>3, <3>4
  <2> QED
    BY <2>2, <2>3, <2>4
<1>10. CASE Reset!Silence
  <2>1. UNCHANGED <<start, leader, previous, began, member, next>>
    BY <1>10 DEF Reset!Silence, Reset!cluster, Reset!evidence
  <2> QED
    BY <1>u, <2>1 DEF StartInv
<1> QED
  BY <1>1, <1>2, <1>3, <1>4, <1>5, <1>6, <1>7, <1>8, <1>9, <1>10 DEF Next, Code, ValidatePlan, Open,
     InstallConfig, RunCopy, LeaveCopy, SchemaReset, RunReset, LeaveReset, Load, RunCommand, EnterBarrier, LeaveBarrier,
     CancelCopy, CopyGoesOn, LosePeer, Sleep, Elsewhere, Terminated, Reset!ResetStep, vars

-----------------------------------------------------------------------------
(* A server that Patroni manages is not restarted directly, and the restart*)
(* of a member takes effect at most once and on the primary.               *)
THEOREM RestartSafeHolds == Spec => []RestartSafe
<1>1. RequestInv => RestartSafe
  BY DEF RequestInv, RestartSafe, Reset!RestartSafe, Reset!RestartedOnce
<1> QED
  BY <1>1, RequestInitially, RequestKept, PTL DEF Spec

(* When restart() succeeds, the SQL connection is at the selected member,  *)
(* which is the primary and was started after restart() began.             *)
THEOREM RestartVerifiedHolds == Spec => RestartVerified
<1>1. ASSUME StartInv, [Next]_vars
      PROVE  [(next = "verify" /\ next' = "create") =>
                  Reset!Reached = 1 /\ leader = 1 /\ start[1] > began]_(Reset!resetVars)
  <2>0. SUFFICES ASSUME next = "verify", next' = "create"
                 PROVE  Reset!Reached = 1 /\ leader = 1 /\ start[1] > began
    OBVIOUS
  <2>1. Reset!SameMember /\ member.start > previous
    BY <1>1, <2>0 DEF Next, Code, ValidatePlan, Open, InstallConfig, RunCopy, LeaveCopy, SchemaReset, RunReset,
       LeaveReset, Load, RunCommand, EnterBarrier, LeaveBarrier, CancelCopy, CopyGoesOn, LosePeer, Sleep,
       Elsewhere, Terminated, vars, reset, Reset!ResetStep, Reset!Detect, Reset!Check, Reset!Drop, Reset!Restart, Reset!Inspect, Reset!Post,
       Reset!Access, Reset!Verify, Reset!Direct, Reset!Create, Reset!Fault, Reset!Silence, Reset!Refuse
  <2>2. /\ Reset!Reached = leader /\ start[leader] = member.start
        /\ Reset!Reached \in {1, leader} /\ leader \in 1 .. 2
    BY <1>1, <2>1 DEF Reset!SameMember, Reset!Reached, StartInv
  <2>3. member.start > began /\ member.start # start[2]
    BY <1>1, <2>0, <2>1 DEF StartInv
  <2> QED
    BY <2>2, <2>3
<1> QED
  BY <1>1, StartInitially, StartKept, PTL DEF Spec, RestartVerified, Reset!RestartVerified
-----------------------------------------------------------------------------
\* The copy of postgresql.conf is a copy of FileCopy.
Files == INSTANCE FileCopyProofs

LEMMA CopySteps ==
  ASSUME [Next]_vars PROVE [Files!Next]_(Files!copyVars)
<1>1. UNCHANGED copy \/ Copy!Body \/ Copy!Disconnect \/ Copy!Return \/ Copy!Cancel
  BY DEF Next, Code, ValidatePlan, Open, InstallConfig, RunCopy, LeaveCopy, SchemaReset, RunReset, LeaveReset,
     Load, RunCommand, EnterBarrier, LeaveBarrier, CancelCopy, CopyGoesOn, LosePeer, Sleep,
     Elsewhere, Terminated, vars
<1> USE DEF Files!Next, Files!copyVars, Files!input, Files!body, Copy!input, Copy!body
<1>2. CASE UNCHANGED copy
  BY <1>2 DEF copy
<1> HIDE DEF Files!copyVars
<1>3. CASE Copy!StepDone
  BY <1>3 DEF Copy!StepDone, Files!StepDone, Files!Body, Copy!Step, Files!Step, Copy!Steps, Files!Steps,
     Copy!LocalSteps, Files!LocalSteps, Copy!DockerSteps, Files!DockerSteps, Copy!SSHSteps, Files!SSHSteps,
     Copy!Reachable, Files!Reachable, Copy!Creating, Files!Creating
<1>4. CASE Copy!StepFails
  BY <1>4 DEF Copy!StepFails, Files!StepFails, Files!Body, Copy!Step, Files!Step, Copy!Steps, Files!Steps,
     Copy!LocalSteps, Files!LocalSteps, Copy!DockerSteps, Files!DockerSteps, Copy!SSHSteps, Files!SSHSteps,
     Copy!Reachable, Files!Reachable, Copy!Creating, Files!Creating, Copy!Interrupted, Files!Interrupted,
     Copy!InThread, Files!InThread, Copy!Covered, Files!Covered
<1>5. CASE Copy!Cleanup
  BY <1>5 DEF Copy!Cleanup, Files!Cleanup, Files!Body, Copy!Reachable, Files!Reachable
<1>6. CASE Copy!Disconnect \/ Copy!Return
  BY <1>6 DEF Copy!Disconnect, Files!Disconnect, Copy!Return, Files!Return
<1>7. CASE Copy!Cancel
  BY <1>7 DEF Copy!Cancel, Files!Cancel, Copy!Step, Files!Step, Copy!Steps, Files!Steps,
     Copy!LocalSteps, Files!LocalSteps, Copy!DockerSteps, Files!DockerSteps, Copy!SSHSteps, Files!SSHSteps,
     Copy!Creating, Files!Creating, Copy!Interrupted, Files!Interrupted,
     Copy!InThread, Files!InThread, Copy!Covered, Files!Covered
<1> QED
  BY <1>1, <1>2, <1>3, <1>4, <1>5, <1>6, <1>7 DEF Copy!Body

\* Every preparation of a point is one of its copy, with stuttering.
THEOREM CopyImplemented == Spec => Files!Spec
<1>1. Init => Files!Init
  BY DEF Init, Copy!Init, Files!Init
<1> QED
  BY <1>1, CopySteps, PTL DEF Spec, Files!Spec

\* postgresql.conf is installed as the copy says, over every transport.
THEOREM CopySettledHolds == Spec => []CopySettled
<1>1. Kinds \subseteq {"local", "docker", "ssh"} /\ Jobs \subseteq {"config", "logs"}
  BY CopyAssumption
<1>2. Files!Spec => []Files!CopySettled
  BY <1>1, Files!CopySettles
<1>3. Files!CopySettled => CopySettled
  BY DEF CopySettled, Copy!CopySettled, Files!CopySettled, Copy!ConfigWhole, Files!ConfigWhole,
     Copy!DoneMeansNew, Files!DoneMeansNew, Copy!NoTemporaryLeft, Files!NoTemporaryLeft,
     Copy!QuietAfterReturn, Files!QuietAfterReturn
<1> QED
  BY <1>2, <1>3, CopyImplemented, PTL
-----------------------------------------------------------------------------
(* What validate_plan has found a place for is closed under dependencies   *)
(* and has no cycle; a fast load begins when that is everything.           *)
PlanInv ==
    /\ planned \subseteq Tasks
    /\ \A t \in planned : Depends(t) \subseteq planned
    /\ \A S \in (SUBSET planned) \ {{}} : \E t \in S : Depends(t) \cap S = {}
    /\ situation.fast /\ stage \notin {"plan", "failed"} => planned = Tasks

LEMMA PlanInitially == Init => PlanInv
BY DEF Init, PlanInv

\* Only validate_plan places tasks, and only it leaves the stage of the plan.
LEMMA PlanSteps ==
    ASSUME [Next]_vars, ~ValidatePlan
    PROVE  /\ UNCHANGED <<situation, planned>>
           /\ stage' \in {stage, "failed"} \/ stage \notin {"plan", "failed"}
BY DEF Next, Code, Open, InstallConfig, RunCopy, LeaveCopy, SchemaReset, RunReset, LeaveReset, Load, RunCommand,
       EnterBarrier, LeaveBarrier, CancelCopy, CopyGoesOn, LosePeer, Sleep, Elsewhere, Terminated, vars,
       own, Goto, OrFail

LEMMA PlanKept ==
    ASSUME PlanInv, [Next]_vars
    PROVE  PlanInv'
<1>1. ASSUME situation' = situation, NEW t PROVE Depends(t)' = Depends(t)
  BY <1>1 DEF Depends
<1>2. CASE ~ValidatePlan
  BY <1>1, <1>2, PlanSteps DEF PlanInv
<1>3. CASE ValidatePlan /\ planned' = planned
  BY <1>1, <1>3 DEF PlanInv, ValidatePlan, Goto
<1>4. CASE ValidatePlan /\ planned' # planned
  <2>1. /\ planned' = planned \cup Ready /\ stage = "plan" /\ UNCHANGED <<situation, stage>>
        /\ Ready \subseteq Tasks /\ \A t \in Ready : Depends(t) \subseteq planned /\ t \notin planned
    BY <1>4 DEF ValidatePlan, Goto, Ready
  <2>2. ASSUME NEW S \in (SUBSET planned') \ {{}}
        PROVE  \E t \in S : Depends(t) \cap S = {}
    <3>1. CASE S \cap planned = {}
      <4>1. PICK t \in S : TRUE
        OBVIOUS
      <4> QED
        BY <2>1, <3>1, <4>1
    <3>2. CASE S \cap planned # {}
      <4>1. PICK t \in S \cap planned : Depends(t) \cap (S \cap planned) = {}
        BY <3>2 DEF PlanInv
      <4>2. Depends(t) \subseteq planned
        BY <4>1 DEF PlanInv
      <4> QED
        BY <4>1, <4>2
    <3> QED
      BY <3>1, <3>2
  <2>3. ASSUME NEW t \in planned' PROVE Depends(t) \subseteq planned'
    BY <2>1 DEF PlanInv
  <2>4. \A t : Depends(t)' = Depends(t)
    BY <1>1, <2>1
  <2> QED
    BY <2>1, <2>2, <2>3, <2>4 DEF PlanInv
<1> QED
  BY <1>2, <1>3, <1>4

\* Every plan that is loaded can be, for any tasks and dependencies.
THEOREM PlanRunnableHolds == Spec => []PlanRunnable
<1>1. PlanInv => PlanRunnable
  BY DEF PlanInv, PlanRunnable
<1> QED
  BY <1>1, PlanInitially, PlanKept, PTL DEF Spec
-----------------------------------------------------------------------------
\* The elements of S with key k.
Under(S, key, k) == {s \in S : key[s] = k}

LEMMA SmallerInjects ==
    ASSUME NEW A, NEW B, IsFiniteSet(A), IsFiniteSet(B), Cardinality(A) <= Cardinality(B)
    PROVE  ExistsInjection(A, B)
<1> DEFINE m == Cardinality(A)
           n == Cardinality(B)
<1>1. m \in Nat /\ n \in Nat /\ m <= n /\ ExistsBijection(1 .. m, A) /\ ExistsBijection(1 .. n, B)
  BY FS_CardinalityType
<1> HIDE DEF m, n
<1>2. ExistsInjection(A, 1 .. m) /\ ExistsInjection(1 .. n, B)
  <2>1. ExistsInjection(1 .. n, B)
    BY <1>1, Fun_ExistsBijEquiv
  <2>2. ExistsInjection(A, 1 .. m)
    BY <1>1, Fun_ExistsBijEquiv
  <2> QED
    BY <2>1, <2>2
<1>3. ExistsInjection(1 .. m, 1 .. n)
  BY <1>1, Fun_NatInjLeq
<1>4. ExistsInjection(A, 1 .. n)
  BY <1>2, <1>3, Fun_ExistsInjTransitive
<1> QED
  BY <1>2, <1>4, Fun_ExistsInjTransitive

(* If B has as many elements of each key as A, it has as many elements.    *)
LEMMA CountedByKey ==
    ASSUME NEW A, NEW B, NEW K, IsFiniteSet(A), IsFiniteSet(B), NEW f \in [A -> K], NEW g \in [B -> K],
           \A k \in K : Cardinality(Under(A, f, k)) <= Cardinality(Under(B, g, k))
    PROVE  Cardinality(A) <= Cardinality(B)
<1> USE DEF Under
<1> DEFINE Of(k) == Under(A, f, k)
           In(k) == Under(B, g, k)
           h == [k \in K |-> CHOOSE i \in Injection(Of(k), In(k)) : TRUE]
           all == [a \in A |-> h[f[a]][a]]
<1>1. ASSUME NEW k \in K PROVE h[k] \in Injection(Of(k), In(k))
  <2>1. IsFiniteSet(Of(k)) /\ IsFiniteSet(In(k))
    BY FS_Subset
  <2>2. ExistsInjection(Of(k), In(k))
    BY <2>1, SmallerInjects
  <2>3. \E i : i \in Injection(Of(k), In(k))
    BY <2>2, Fun_ExistsInj
  <2> QED
    BY <2>3
<1> HIDE DEF h
<1>i. ASSUME NEW k \in K
      PROVE  h[k] \in [Of(k) -> In(k)] /\ \A x, y \in Of(k) : h[k][x] = h[k][y] => x = y
  <2> HIDE DEF Of, In
  <2> QED
    BY <1>1, Fun_InjectionProperties
<1>2. ASSUME NEW a \in A PROVE all[a] \in B /\ g[all[a]] = f[a]
  <2>1. h[f[a]] \in [Of(f[a]) -> In(f[a])] /\ a \in Of(f[a])
    BY <1>i
  <2>2. h[f[a]][a] \in In(f[a])
    BY <2>1
  <2> QED
    BY <2>2
<1>3. ASSUME NEW a \in A, NEW b \in A, all[a] = all[b] PROVE a = b
  <2>1. f[a] = f[b] /\ f[a] \in K /\ a \in Of(f[a]) /\ b \in Of(f[a])
    BY <1>2, <1>3
  <2>2. \A x, y \in Of(f[a]) : h[f[a]][x] = h[f[a]][y] => x = y
    BY <1>i, <2>1
  <2> QED
    BY <1>3, <2>1, <2>2
<1>4. all \in Injection(A, B)
  <2>1. all \in [A -> B]
    BY <1>2
  <2> HIDE DEF all
  <2> QED
    BY <1>3, <2>1, Fun_IsInj
<1> QED
  BY <1>4, FS_Injection
-----------------------------------------------------------------------------
(* What the loader has written, and where the replicas are.                *)
LoadInv ==
    /\ loading \in 1 .. 5 /\ durable \in Nat /\ lsn \in Nat /\ durable <= lsn
    /\ loading > (IF situation.unlogged THEN 3 ELSE 2) => durable > 0
    /\ stage = "barrier" => loading = 5

StandbyInv ==
    /\ slots \subseteq Replicas /\ address \in [Replicas -> Addresses]
    /\ connected \subseteq Replicas /\ streaming \subseteq connected
    /\ replayed \in [Replicas -> Nat]

(* The counts that are remembered are those of the replicas before, each   *)
(* under the key it had; one with a slot still has it.                     *)
RememberInv ==
    /\ before \subseteq Replicas
    /\ \E key \in [before -> Barrier!Keys] :
          /\ \A r \in before \cap slots : key[r] = r
          /\ \A k \in Barrier!Keys : replicas[k] = Cardinality(Under(before, key, k))

\* The barrier asks for these counts at least, at a position with the rows.
AwaitInv ==
    /\ target \in Nat
    /\ stage \notin {"barrier", "measured", "failed"} => polling = "no"
    /\ stage = "barrier" => polling = "yes"
    /\ polling # "no" =>
           /\ target >= durable
           /\ \A k \in Barrier!Keys : required[k] \in Nat /\ required[k] >= replicas[k]

ReplicaInv == LoadInv /\ StandbyInv /\ RememberInv /\ AwaitInv /\ ReplicasHaveRows

LEMMA ReplicaInitially == Init => ReplicaInv
<1> SUFFICES ASSUME Init PROVE ReplicaInv
  OBVIOUS
<1>1. LoadInv /\ StandbyInv /\ AwaitInv /\ ReplicasHaveRows
  BY DEF Init, Barrier!Init, LoadInv, StandbyInv, AwaitInv, ReplicasHaveRows
<1>2. RememberInv
  <2>1. before = {} /\ replicas = [k \in Barrier!Keys |-> 0]
    BY DEF Init, Barrier!Init, Barrier!Nothing
  <2>2. \A key, k : Cardinality(Under({}, key, k)) = 0
    BY FS_EmptySet DEF Under
  <2>3. [r \in before |-> r] \in [before -> Barrier!Keys]
    BY <2>1
  <2> QED
    BY <2>1, <2>2, <2>3 DEF RememberInv
<1> QED
  BY <1>1, <1>2 DEF ReplicaInv

\* The barrier counts like everybody.
LEMMA SameCount == \A S : Barrier!Cardinality(S) = Cardinality(S)
BY DEF Barrier!Cardinality, Cardinality

\* How many replicas of a set have a key.
LEMMA KeyCounts ==
    ASSUME StandbyInv, NEW rs \in SUBSET Replicas
    PROVE  /\ IsFiniteSet(rs)
           /\ [r \in rs |-> Barrier!Key(r)] \in [rs -> Barrier!Keys]
           /\ \A k \in Barrier!Keys : /\ Barrier!ReplicaKeys(rs)[k] \in Nat
                                      /\ Barrier!ReplicaKeys(rs)[k]
                                           = Cardinality(Under(rs, [r \in rs |-> Barrier!Key(r)], k))
<1>1. IsFiniteSet(rs)
  BY ReplicaAssumption, FS_Subset
<1>2. \A r \in rs : Barrier!Key(r) \in Barrier!Keys
  BY DEF StandbyInv, Barrier!Key, Barrier!Keys
<1>3. ASSUME NEW k \in Barrier!Keys
      PROVE  /\ Barrier!ReplicaKeys(rs)[k] \in Nat
             /\ Barrier!ReplicaKeys(rs)[k] = Cardinality(Under(rs, [r \in rs |-> Barrier!Key(r)], k))
  <2>1. Under(rs, [r \in rs |-> Barrier!Key(r)], k) = {r \in rs : Barrier!Key(r) = k}
    BY DEF Under
  <2>2. IsFiniteSet({r \in rs : Barrier!Key(r) = k})
    BY <1>1, FS_Subset
  <2>0. Barrier!ReplicaKeys(rs) = [j \in Barrier!Keys |-> Cardinality({r \in rs : Barrier!Key(r) = j})]
    BY SameCount DEF Barrier!ReplicaKeys
  <2>3. Barrier!ReplicaKeys(rs)[k] = Cardinality({r \in rs : Barrier!Key(r) = k})
    BY <2>0
  <2> QED
    BY <2>1, <2>2, <2>3, FS_CardinalityType
<1> QED
  BY <1>1, <1>2, <1>3

-----------------------------------------------------------------------------
\* The steps that neither load nor concern the replicas.
LEMMA OtherSteps ==
    ASSUME [Next]_vars, ~Open, ~RunReset, ~Load, ~EnterBarrier, ~LeaveBarrier, ~Elsewhere
    PROVE  /\ UNCHANGED <<situation, loading, durable, lsn, standby, awaited>>
           /\ stage' \in {stage, "failed"} \/ stage \notin {"barrier", "measured", "failed"}
           /\ stage' \in {"barrier"} => stage = stage'
           /\ stage' = "measured" /\ situation.fast => stage = stage'
BY DEF Next, Code, ValidatePlan, InstallConfig, RunCopy, LeaveCopy, SchemaReset, LeaveReset, RunCommand,
       CancelCopy, CopyGoesOn, LosePeer, Sleep, Terminated, vars, own, barrier, standby, awaited, Goto, OrFail

LEMMA LoadKept ==
    ASSUME LoadInv, [Next]_vars
    PROVE  LoadInv'
<1> USE DEF LoadInv
<1>1. CASE Load
  <2>1. /\ loading \in 1 .. 4 /\ situation' = situation /\ stage = "load" /\ stage' \in {"load", "failed"}
        /\ \/ loading' = loading + 1 /\ ~WritesRows /\ UNCHANGED <<lsn, durable>>
           \/ loading' = loading + 1 /\ WritesRows /\ lsn' = lsn + 1 /\ durable' = lsn'
           \/ UNCHANGED <<loading, durable, lsn>>
    BY <1>1 DEF Load, Goto, Phases, Barrier!Write
  <2>2. WritesRows <=> loading = IF situation.unlogged THEN 3 ELSE 2
    BY <2>1 DEF WritesRows, Phases
  <2> QED
    BY <2>1, <2>2
<1>2. CASE EnterBarrier
  BY <1>2 DEF EnterBarrier, Goto, Barrier!Enter, Barrier!standby, Phases, barrier
<1>3. CASE Elsewhere
  BY <1>3 DEF Elsewhere, own, Barrier!Standby, Barrier!Write
<1>4. CASE Open \/ RunReset \/ LeaveBarrier
  BY <1>4 DEF Open, RunReset, LeaveBarrier, Goto, own, Barrier!Pass, Barrier!Fail
<1>5. CASE ~(Open \/ RunReset \/ Load \/ EnterBarrier \/ LeaveBarrier \/ Elsewhere)
  BY <1>5, OtherSteps
<1> QED
  BY <1>1, <1>2, <1>3, <1>4, <1>5

LEMMA StandbyKept ==
    ASSUME StandbyInv, [Next]_vars
    PROVE  StandbyInv' /\ slots' = slots
<1> USE DEF StandbyInv
<1>1. CASE UNCHANGED standby
  BY <1>1 DEF standby
<1>2. CASE Barrier!Disconnected
  BY <1>2 DEF Barrier!Disconnected
<1>3. CASE Barrier!Leave
  BY <1>3 DEF Barrier!Leave
<1>4. CASE Barrier!Come
  BY <1>4 DEF Barrier!Come
<1>5. CASE Barrier!Replay
  BY <1>5 DEF Barrier!Replay
<1>6. UNCHANGED standby \/ Barrier!Disconnected \/ Barrier!Leave \/ Barrier!Come \/ Barrier!Replay
  <2>1. CASE Open \/ RunReset \/ Load \/ EnterBarrier \/ LeaveBarrier \/ Elsewhere
    BY <2>1 DEF Open, RunReset, Load, EnterBarrier, LeaveBarrier, Elsewhere, Barrier!Standby, Barrier!Enter,
       Barrier!Pass, Barrier!Fail, Barrier!standby, standby, barrier
  <2> QED
    BY <2>1, OtherSteps
<1> QED
  BY <1>1, <1>2, <1>3, <1>4, <1>5, <1>6

LEMMA RememberKept ==
    ASSUME StandbyInv, RememberInv, [Next]_vars
    PROVE  RememberInv'
<1>0. slots' = slots
  BY StandbyKept
<1>1. CASE UNCHANGED <<replicas, before>>
  BY <1>0, <1>1 DEF RememberInv
<1>2. CASE Barrier!Remember
  <2> DEFINE key == [r \in connected |-> Barrier!Key(r)]
  <2>1. before' = connected /\ replicas' = Barrier!ReplicaKeys(connected) /\ connected \in SUBSET Replicas
    BY <1>2 DEF Barrier!Remember, StandbyInv
  <2>2. key \in [connected -> Barrier!Keys] /\ \A r \in connected \cap slots : key[r] = r
    BY <2>1, KeyCounts DEF Barrier!Key
  <2>3. \A k \in Barrier!Keys : Barrier!ReplicaKeys(connected)[k] = Cardinality(Under(connected, key, k))
    BY <2>1, KeyCounts
  <2> HIDE DEF key
  <2> QED
    BY <1>0, <2>1, <2>2, <2>3 DEF RememberInv
<1>3. UNCHANGED <<replicas, before>> \/ Barrier!Remember
  <2>1. CASE Open \/ RunReset \/ Load \/ EnterBarrier \/ LeaveBarrier \/ Elsewhere
    BY <2>1 DEF Open, RunReset, Load, EnterBarrier, LeaveBarrier, Elsewhere, Barrier!Standby, Barrier!Enter,
       Barrier!Pass, Barrier!Fail, Barrier!barrier, Barrier!remembered, barrier, awaited
  <2> QED
    BY <2>1, OtherSteps DEF awaited
<1> QED
  BY <1>1, <1>2, <1>3

LEMMA AwaitKept ==
    ASSUME LoadInv, StandbyInv, RememberInv, AwaitInv, [Next]_vars
    PROVE  AwaitInv'
<1> USE DEF AwaitInv
<1>1. CASE Open
  BY <1>1 DEF Open, Goto, awaited, Barrier!Remember
<1>2. CASE Load
  BY <1>2 DEF Load, Goto, awaited
<1>3. CASE EnterBarrier
  <2>1. CASE Barrier!Enter
    <3>1. /\ target' = lsn /\ stage' = "barrier" /\ polling' = "yes" /\ replicas' = replicas /\ durable' = durable
          /\ required' = Barrier!Union(replicas, Barrier!ReplicaKeys(connected))
      BY <1>3, <2>1 DEF EnterBarrier, Barrier!Enter, Barrier!remembered, Goto, barrier, awaited
    <3>2. ASSUME NEW k \in Barrier!Keys PROVE required'[k] \in Nat /\ required'[k] >= replicas[k]
      <4>1. connected \in SUBSET Replicas
        BY DEF StandbyInv
      <4>2. Barrier!ReplicaKeys(connected)[k] \in Nat
        BY <4>1, KeyCounts
      <4>3. replicas[k] \in Nat
        <5>1. PICK key : replicas[k] = Cardinality(Under(before, key, k))
          BY DEF RememberInv
        <5>2. IsFiniteSet(Under(before, key, k))
          BY ReplicaAssumption, FS_Subset DEF RememberInv, Under
        <5> QED
          BY <5>1, <5>2, FS_CardinalityType
      <4> QED
        BY <3>1, <4>2, <4>3 DEF Barrier!Union
    <3> QED
      BY <3>1, <3>2 DEF LoadInv
  <2>2. CASE UNCHANGED barrier /\ Goto("failed")
    BY <1>3, <2>2 DEF EnterBarrier, Goto, barrier, awaited
  <2> QED
    BY <1>3, <2>1, <2>2 DEF EnterBarrier
<1>4. CASE LeaveBarrier
  BY <1>4 DEF LeaveBarrier, Goto, Barrier!Pass, Barrier!Fail, Barrier!remembered
<1>5. CASE RunReset
  BY <1>5 DEF RunReset, own, awaited
<1>6. CASE Elsewhere
  BY <1>6 DEF Elsewhere, own, awaited, Barrier!Standby, Barrier!barrier, Barrier!remembered, Barrier!Write
<1>7. CASE ~(Open \/ RunReset \/ Load \/ EnterBarrier \/ LeaveBarrier \/ Elsewhere)
  BY <1>7, OtherSteps DEF awaited
<1> QED
  BY <1>1, <1>2, <1>3, <1>4, <1>5, <1>6, <1>7

(* When the barrier is passed, each key has as many replicas with the rows *)
(* as it had before, so there are as many, and a slot has its own.         *)
LEMMA PassedHaveRows ==
    ASSUME LoadInv, StandbyInv, RememberInv, AwaitInv, Barrier!Pass
    PROVE  LET ready == {r \in Replicas : replayed[r] >= durable}
           IN  /\ before \cap slots \subseteq ready
               /\ Cardinality(before) <= Cardinality(ready)
<1> DEFINE ready == {r \in Replicas : replayed[r] >= durable}
           caught == {r \in streaming : replayed[r] >= target}
           now == [r \in caught |-> Barrier!Key(r)]
<1>1. PICK key \in [before -> Barrier!Keys] :
          /\ \A r \in before \cap slots : key[r] = r
          /\ \A k \in Barrier!Keys : replicas[k] = Cardinality(Under(before, key, k))
  BY DEF RememberInv
<1>2. /\ target \in Nat /\ durable \in Nat /\ target >= durable
      /\ \A k \in Barrier!Keys : required[k] \in Nat /\ required[k] >= replicas[k]
  BY DEF AwaitInv, LoadInv, Barrier!Pass
<1>3. caught \in SUBSET Replicas /\ caught \subseteq ready /\ ready \subseteq Replicas
  BY <1>2 DEF StandbyInv
<1>4. IsFiniteSet(before) /\ IsFiniteSet(caught) /\ IsFiniteSet(ready)
  BY <1>3, ReplicaAssumption, FS_Subset DEF RememberInv
<1>5. now \in [caught -> Barrier!Keys]
  BY <1>3, KeyCounts
<1>6. ASSUME NEW k \in Barrier!Keys
      PROVE  Cardinality(Under(before, key, k)) <= Cardinality(Under(caught, now, k))
  <2>1. Barrier!ReplicaKeys(caught)[k] = Cardinality(Under(caught, now, k))
    BY <1>3, KeyCounts
  <2>2. Barrier!ReplicaKeys(caught)[k] >= required[k]
    BY DEF Barrier!Pass, Barrier!Ready, Barrier!CaughtUp
  <2>3. IsFiniteSet(Under(before, key, k)) /\ IsFiniteSet(Under(caught, now, k))
    BY <1>4, FS_Subset DEF Under
  <2>4. /\ Cardinality(Under(before, key, k)) \in Nat
        /\ Cardinality(Under(caught, now, k)) \in Nat
    BY <2>3, FS_CardinalityType
  <2> DEFINE m == Cardinality(Under(before, key, k))
             n == Cardinality(Under(caught, now, k))
  <2>5. m \in Nat /\ n \in Nat /\ m = replicas[k] /\ n = Barrier!ReplicaKeys(caught)[k]
    BY <1>1, <2>1, <2>4
  <2>6. required[k] \in Nat /\ required[k] >= replicas[k]
    BY <1>2
  <2> HIDE DEF caught, m, n
  <2>7. m <= n
    BY <2>2, <2>5, <2>6
  <2> QED
    BY <2>7 DEF m, n
<1>7. Cardinality(before) <= Cardinality(ready)
  <2>1. Cardinality(before) <= Cardinality(caught)
    <3> HIDE DEF caught, now
    <3>1. key \in [before -> Barrier!Keys]
      BY <1>1
    <3>2. \A k \in Barrier!Keys :
              Cardinality(Under(before, key, k)) <= Cardinality(Under(caught, now, k))
      BY <1>6
    <3> QED
      BY <1>4, <1>5, <3>1, <3>2, CountedByKey
  <2>2. Cardinality(caught) <= Cardinality(ready)
    BY <1>3, <1>4, FS_Subset
  <2> QED
    BY <1>4, <2>1, <2>2, FS_CardinalityType
<1>8. ASSUME NEW r \in before \cap slots PROVE r \in ready
  <2>1. r \in Barrier!Keys /\ r \in Replicas /\ r \notin Addresses
    BY ReplicaAssumption DEF RememberInv, Barrier!Keys
  <2>2. Under(before, key, r) # {} /\ IsFiniteSet(Under(before, key, r))
    BY <1>1, <1>4, FS_Subset DEF Under
  <2>3. Under(caught, now, r) # {}
    <3>1. IsFiniteSet(Under(caught, now, r))
      BY <1>4, FS_Subset DEF Under
    <3>2. Cardinality(Under(before, key, r)) \in Nat /\ Cardinality(Under(before, key, r)) # 0
      BY <2>2, FS_EmptySet, FS_CardinalityType
    <3>3. Cardinality(Under(caught, now, r)) \in Nat
      BY <3>1, FS_CardinalityType
    <3>4. Cardinality(Under(before, key, r)) <= Cardinality(Under(caught, now, r))
      BY <1>6, <2>1
    <3>5. Cardinality(Under(caught, now, r)) # 0
      <4> HIDE DEF caught, now
      <4> QED
        BY <3>2, <3>3, <3>4
    <3> QED
      BY <3>1, <3>5, FS_EmptySet
  <2>4. PICK b \in caught : now[b] = r
    BY <2>3 DEF Under
  <2>5. b \in Replicas /\ Barrier!Key(b) = r
    BY <1>3, <2>4
  <2>6. b = r
    BY <2>1, <2>5 DEF Barrier!Key, StandbyInv
  <2> QED
    BY <1>3, <2>4, <2>6
<1> QED
  BY <1>7, <1>8

LEMMA MeasuredKept ==
    ASSUME LoadInv, StandbyInv, RememberInv, AwaitInv, ReplicasHaveRows, [Next]_vars
    PROVE  ReplicasHaveRows'
<1>1. CASE LeaveBarrier /\ Barrier!Pass
  <2>1. UNCHANGED <<standby, durable, before>> /\ stage = "barrier"
    BY <1>1 DEF LeaveBarrier, Goto, Barrier!Pass, Barrier!standby, Barrier!remembered, standby
  <2>2. durable > 0
    BY <2>1 DEF LoadInv
  <2> QED
    BY <1>1, <2>1, <2>2, PassedHaveRows DEF standby, ReplicasHaveRows
<1>2. CASE LeaveBarrier /\ ~Barrier!Pass
  BY <1>2 DEF LeaveBarrier, Goto, ReplicasHaveRows
<1>3. CASE Open \/ RunReset \/ Load \/ EnterBarrier \/ Elsewhere
  <2>1. stage' # "measured"
    BY <1>3 DEF Open, RunReset, Load, EnterBarrier, Elsewhere, Goto, own
  <2> QED
    BY <2>1 DEF ReplicasHaveRows
<1>4. CASE ~(Open \/ RunReset \/ Load \/ EnterBarrier \/ LeaveBarrier \/ Elsewhere)
  BY <1>4, OtherSteps DEF standby, awaited, ReplicasHaveRows
<1> QED
  BY <1>1, <1>2, <1>3, <1>4

(* The workload is measured when the replicas have the rows, for any       *)
(* replicas, slots and addresses, however often they disconnect.           *)
THEOREM ReplicasHaveRowsHolds == Spec => []ReplicasHaveRows
<1>1. ReplicaInv /\ [Next]_vars => ReplicaInv'
  BY LoadKept, StandbyKept, RememberKept, AwaitKept, MeasuredKept DEF ReplicaInv
<1>2. ReplicaInv => ReplicasHaveRows
  BY DEF ReplicaInv
<1> QED
  BY <1>1, <1>2, ReplicaInitially, PTL DEF Spec
=============================================================================
