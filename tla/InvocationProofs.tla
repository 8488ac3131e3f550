-------------------------- MODULE InvocationProofs --------------------------
(***************************************************************************)
(* Proofs about one invocation of the command line, for every request, any *)
(* number of points, and files and clients that change at any time: what   *)
(* is done to the target, what the report and the plan say of it, that a   *)
(* report is saved, and that status and exit code agree.                   *)
(***************************************************************************)
EXTENDS Invocation, FiniteSetTheorems, TLAPS

Working == {"benchmark", "collect", "join"}     \* the commands with a report

-----------------------------------------------------------------------------
(* The inductive invariant.                                                *)

\* Which command may be where.
FlowInv ==
    /\ request \in Request /\ machine \in BOOLEAN /\ hash \in Nat
    /\ task \in Working \cup {"plan", "inspect"}
    /\ pc \in {"plan", "inspect", "collect", "join"} => task = pc
    /\ pc \in {"check", "point"} => task = "benchmark"
    /\ pc \in {"build", "rebuild", "save"} => task \in Working
    /\ report \in {"none", "failed", "cancelled", "partial", "full"}
    /\ pc \in {"rebuild", "save"} => report # "none"
    /\ report # "none" => pc \in {"rebuild", "save", "handle", "ended"}
    /\ pc = "handle" => failure \in {"configuration", "unanswered", "precondition", "missing", "execution",
                                       "interrupted"}

\* What a command answers.
Refusals == {<<"failed", 2>>, <<"failed", 3>>, <<"blocked", 3>>, <<"failed", 6>>,
             <<"cancelled", 7>>, <<"cancelled", 130>>}
ReplyInv ==
    pc = "ended" =>
        \/ reply \in Refusals
        \/ reply = <<"succeeded", 0>> /\ (task \in {"plan", "inspect"} \/ saved)
        \/ reply = <<"partial", 5>> /\ saved

\* The options of a benchmark that touches its target were accepted.
OptionsAccepted == HostAccepted(request) /\ PolicyAccepted(request) /\ LoaderAccepted(request)
                   /\ ResetAccepted(request)
Measured == [effects : {Effects(request, i) : i \in Nat}, inputs : Nat]
DoneInv ==
    /\ done \in Seq(Measured) /\ Len(done) <= Points
    /\ \A i \in DOMAIN done : done[i].effects = Effects(request, i)
PointsInv ==
    /\ (pc = "point") \/ (done # <<>>) => OptionsAccepted /\ task = "benchmark"
    /\ task = "benchmark" /\ report \in {"full", "partial"} => Len(done) = Points
    /\ evidence # 0 => request.config /\ Len(done) = Points

\* While nothing changes, every reading of the files gives the same.
InputsInv ==
    /\ changes \in Nat /\ host.inputs \in Nat
    /\ changes = 0 => host = Host(1, {1}) /\ evidence \in {0, 1}
                      /\ \A i \in DOMAIN done : done[i].inputs = 1
    /\ task = "benchmark" /\ ((pc \in {"build", "point"}) \/ (done # <<>>)) =>
           (machine => hash # 0) /\ (changes = 0 => hash \in {0, 1})

\* A configuration is built again from what it was built from, or changed.
LossInv ==
    /\ task = "benchmark" /\ pc \in {"point", "rebuild", "save"} /\ changes = 0 => Accepted(request, host)
    /\ pc \in {"handle", "ended"} /\ report # "none" /\ ~saved =>
           \/ failure \in {"missing", "execution", "interrupted", "unanswered"}
           \/ failure = "configuration" /\ changes > 0

InvocationInv == FlowInv /\ ReplyInv /\ DoneInv /\ PointsInv /\ InputsInv /\ LossInv

LEMMA InvocationInvInit == Init => InvocationInv
<1> SUFFICES ASSUME Init PROVE InvocationInv
    OBVIOUS
<1>1. request \in Request
    BY InvocationAssumption DEF Init
<1>2. FlowInv
    BY <1>1 DEF Init, FlowInv, Working
<1>3. ReplyInv /\ LossInv
    BY DEF Init, ReplyInv, LossInv
<1>4. done \in Seq(Measured) /\ Len(done) = 0
    BY DEF Init
<1>5. DoneInv /\ PointsInv
    BY <1>4, InvocationAssumption DEF Init, DoneInv, PointsInv
<1>6. InputsInv
    BY DEF Init, InputsInv, Host
<1> QED
    BY <1>2, <1>3, <1>5, <1>6 DEF InvocationInv

-----------------------------------------------------------------------------
(* Every step of the command goes where its kind of command goes.          *)
LEMMA FlowKept ==
    ASSUME InvocationInv, [Next]_vars
    PROVE  FlowInv'
<1> USE DEF InvocationInv, FlowInv, Working, Refusals, vars, given, outside, product, joinVars, Go, Raise, Build, Answer
<1>1. CASE Parse
    BY <1>1 DEF Parse
<1>2. CASE Inspect
    BY <1>2 DEF Inspect
<1>3. CASE Plan
    BY <1>3 DEF Plan
<1>4. CASE CheckPlan
    BY <1>4 DEF CheckPlan
<1>5. CASE Execute
    BY <1>5 DEF Execute
<1>6. CASE Collect
    BY <1>6 DEF Collect
<1>7. CASE JoinReports
    BY <1>7 DEF JoinReports
<1>8. CASE Point
    BY <1>8 DEF Point, Partial
<1>9. CASE Monitor
    BY <1>9 DEF Monitor
<1>10. CASE Rebuild
    BY <1>10 DEF Rebuild
<1>11. CASE Save
    BY <1>11 DEF Save
<1>12. CASE Handle
    BY <1>12 DEF Handle
<1>13. CASE Interrupt
    BY <1>13 DEF Interrupt
<1>14. CASE Change
    BY <1>14 DEF Change
<1>15. CASE UNCHANGED vars
    BY <1>15
<1> QED
    BY <1>1, <1>2, <1>3, <1>4, <1>5, <1>6, <1>7, <1>8, <1>9, <1>10, <1>11, <1>12, <1>13, <1>14, <1>15 DEF Next, Terminated
\* Every exception has its answer, and every report.
LEMMA HandleAnswers ==
    ASSUME Handle, FlowInv
    PROVE  reply' \in Refusals
BY DEF Handle, FlowInv, Refusals
LEMMA OutcomeAnswers ==
    ASSUME FlowInv, report # "none"
    PROVE  Outcome \in Refusals \/ Outcome = <<"succeeded", 0>> \/ Outcome = <<"partial", 5>>
BY DEF Outcome, FlowInv, Refusals

-----------------------------------------------------------------------------
(* Every answer is one of the known ones.                                  *)
LEMMA ReplyKept ==
    ASSUME InvocationInv, [Next]_vars
    PROVE  ReplyInv'
<1> USE DEF InvocationInv, ReplyInv, FlowInv, vars, given, outside, product, joinVars, Go, Raise, Build, Answer
<1>1. CASE Parse
    BY <1>1 DEF Parse, Working
<1>2. CASE Inspect
    BY <1>2 DEF Inspect, Refusals
<1>3. CASE Plan
    BY <1>3 DEF Plan
<1>4. CASE CheckPlan
    BY <1>4 DEF CheckPlan
<1>5. CASE Execute
    BY <1>5 DEF Execute, Working
<1>6. CASE Collect
    BY <1>6 DEF Collect
<1>7. CASE JoinReports
    BY <1>7 DEF JoinReports
<1>8. CASE Point
    BY <1>8 DEF Point, Partial
<1>9. CASE Monitor
    BY <1>9 DEF Monitor
<1>10. CASE Rebuild
    BY <1>10 DEF Rebuild
<1>11. CASE Save
    BY <1>11, OutcomeAnswers DEF Save
<1>12. CASE Handle
    BY <1>12, HandleAnswers DEF Handle
<1>13. CASE Interrupt
    BY <1>13 DEF Interrupt
<1>14. CASE Change
    BY <1>14 DEF Change
<1>15. CASE UNCHANGED vars
    BY <1>15
<1> QED
    BY <1>1, <1>2, <1>3, <1>4, <1>5, <1>6, <1>7, <1>8, <1>9, <1>10, <1>11, <1>12, <1>13, <1>14, <1>15 DEF Next, Terminated
-----------------------------------------------------------------------------
LEMMA OptionsStay ==
    ASSUME [Next]_vars
    PROVE  /\ UNCHANGED given
           /\ OptionsAccepted' <=> OptionsAccepted
<1>1. UNCHANGED given
    BY DEF Next, Terminated, vars, outside, product, joinVars, Parse, Inspect, Plan, CheckPlan, Execute,
               Collect, JoinReports, Point, Monitor, Rebuild, Save, Handle, Interrupt, Change
<1>2. request' = request
    BY <1>1 DEF given
<1> QED
    BY <1>1, <1>2 DEF OptionsAccepted, HostAccepted, PolicyAccepted, LoaderAccepted, ResetAccepted, Fast, HasPlan

\* A point appends what was done before it was measured, with the files it read.
LEMMA PointFacts ==
    ASSUME DoneInv, InputsInv, Point, done' # done
    PROVE  /\ pc = "point" /\ pc' = "point" /\ report' = report /\ Len(done) < Points
           /\ Len(done) \in Nat /\ done' \in Seq(Measured) /\ Len(done') = Len(done) + 1
           /\ done'[Len(done) + 1].effects = Effects(request, Len(done) + 1)
           /\ done'[Len(done) + 1].inputs = host.inputs
           /\ \A i \in 1 .. Len(done) : done'[i] = done[i]
<1> DEFINE point == [effects |-> Effects(request, Len(done) + 1), inputs |-> host.inputs]
<1>1. done \in Seq(Measured) /\ Len(done) \in Nat /\ host.inputs \in Nat
    BY DEF DoneInv, InputsInv
<1>2. point \in Measured
    BY <1>1 DEF Measured
<1>3. /\ pc = "point" /\ Len(done) < Points /\ done' = Append(done, point)
      /\ UNCHANGED <<pc, failure, report>>
    BY DEF Point, Partial, Raise
<1>4. point.effects = Effects(request, Len(done) + 1) /\ point.inputs = host.inputs
    OBVIOUS
<1> HIDE DEF point
<1> QED
    BY <1>1, <1>2, <1>3, <1>4

\* Only a point adds a point, with the effects of an accepted request.
LEMMA DoneKept ==
    ASSUME InvocationInv, [Next]_vars
    PROVE  DoneInv'
<1> USE DEF InvocationInv
<1>1. CASE done' # done
    <2>1. Point
        BY <1>1 DEF Next, Terminated, vars, given, outside, product, joinVars, Go, Raise, Build, Answer,
                    Parse, Inspect, Plan, CheckPlan, Execute, Collect, JoinReports, Monitor, Rebuild, Save, Handle, Interrupt, Change
    <2>2. /\ done' \in Seq(Measured) /\ Len(done') = Len(done) + 1 /\ Len(done) < Points
          /\ Len(done) \in Nat /\ request' = request
          /\ done'[Len(done) + 1].effects = Effects(request, Len(done) + 1)
          /\ \A i \in 1 .. Len(done) : done'[i] = done[i]
        BY <1>1, <2>1, PointFacts DEF DoneInv, Point, given
    <2>3. ASSUME NEW i \in 1 .. Len(done') PROVE done'[i].effects = Effects(request, i)
        BY <2>2, <2>3 DEF DoneInv
    <2>4. Measured' = Measured
        BY <2>2 DEF Measured, Effects, Initializes, Resets, Fast, HasPlan
    <2> QED
        BY <2>2, <2>3, <2>4, InvocationAssumption DEF DoneInv
<1>2. CASE done' = done
    <2>1. request' = request
        BY OptionsStay DEF given
    <2>2. Measured' = Measured
        BY <2>1 DEF Measured, Effects, Initializes, Resets, Fast, HasPlan
    <2>3. ASSUME NEW i PROVE Effects(request', i) = Effects(request, i)
        BY <2>1
    <2> QED
        BY <1>2, <2>1, <2>2, <2>3 DEF DoneInv
<1> QED
    BY <1>1, <1>2

-----------------------------------------------------------------------------
(* Only an accepted benchmark reaches its target.                          *)
LEMMA PointsKept ==
    ASSUME InvocationInv, [Next]_vars
    PROVE  PointsInv'
<1> USE DEF InvocationInv, PointsInv, FlowInv, vars, given, outside, product, joinVars, Go, Raise, Build, Answer
<1>1. CASE Parse
    BY <1>1, OptionsStay DEF Parse, Working
<1>2. CASE Inspect
    BY <1>2, OptionsStay DEF Inspect
<1>3. CASE Plan
    BY <1>3, OptionsStay DEF Plan
<1>4. CASE CheckPlan
    BY <1>4, OptionsStay DEF CheckPlan
<1>5. CASE Execute
    BY <1>5, OptionsStay DEF Execute, Working, Accepted, OptionsAccepted
<1>6. CASE Collect
    BY <1>6, OptionsStay DEF Collect
<1>7. CASE JoinReports
    BY <1>7, OptionsStay DEF JoinReports
<1>8. CASE Point
    BY <1>8, OptionsStay DEF Point, Partial
<1>9. CASE Monitor
    BY <1>9, OptionsStay DEF Monitor
<1>10. CASE Rebuild
    BY <1>10, OptionsStay DEF Rebuild
<1>11. CASE Save
    BY <1>11, OptionsStay DEF Save
<1>12. CASE Handle
    BY <1>12, OptionsStay DEF Handle
<1>13. CASE Interrupt
    BY <1>13, OptionsStay DEF Interrupt
<1>14. CASE Change
    BY <1>14, OptionsStay DEF Change
<1>15. CASE UNCHANGED vars
    BY <1>15, OptionsStay
<1> QED
    BY <1>1, <1>2, <1>3, <1>4, <1>5, <1>6, <1>7, <1>8, <1>9, <1>10, <1>11, <1>12, <1>13, <1>14, <1>15 DEF Next, Terminated
-----------------------------------------------------------------------------
\* The point that is added has read the files of now.
LEMMA PointInputs ==
    ASSUME DoneInv, InputsInv, Point
    PROVE  changes = 0 => \A i \in DOMAIN done' : done'[i].inputs = 1
<1>1. CASE done' = done
    BY <1>1 DEF InputsInv
<1>2. CASE done' # done
    <2>1. /\ Len(done) \in Nat /\ done' \in Seq(Measured) /\ Len(done') = Len(done) + 1
          /\ done'[Len(done) + 1].inputs = host.inputs
          /\ \A i \in 1 .. Len(done) : done'[i] = done[i]
        BY <1>2, PointFacts
    <2>2. ASSUME changes = 0, NEW i \in 1 .. Len(done') PROVE done'[i].inputs = 1
        <3>1. host.inputs = 1 /\ \A j \in 1 .. Len(done) : done[j].inputs = 1
            BY <2>2 DEF InputsInv, DoneInv, Host
        <3> QED
            BY <2>1, <2>2, <3>1
    <2> QED
        BY <2>1, <2>2
<1> QED
    BY <1>1, <1>2

-----------------------------------------------------------------------------
(* Every reading of files that nobody changed gives the same.              *)
LEMMA InputsKept ==
    ASSUME InvocationInv, [Next]_vars
    PROVE  InputsInv'
<1> USE DEF InvocationInv, InputsInv, FlowInv, vars, given, outside, product, joinVars, Go, Raise, Build, Answer
<1>1. CASE Parse
    BY <1>1 DEF Parse, Working
<1>2. CASE Inspect
    BY <1>2 DEF Inspect
<1>3. CASE Plan
    BY <1>3 DEF Plan
<1>4. CASE CheckPlan
    BY <1>4 DEF CheckPlan, Host
<1>5. CASE Execute
    BY <1>5 DEF Execute, Working
<1>6. CASE Collect
    BY <1>6 DEF Collect
<1>7. CASE JoinReports
    BY <1>7 DEF JoinReports
<1>8. CASE Point
    BY <1>8, PointInputs DEF Point, Partial
<1>9. CASE Monitor
    BY <1>9 DEF Monitor, Host
<1>10. CASE Rebuild
    BY <1>10 DEF Rebuild
<1>11. CASE Save
    BY <1>11 DEF Save
<1>12. CASE Handle
    BY <1>12 DEF Handle
<1>13. CASE Interrupt
    BY <1>13 DEF Interrupt
<1>14. CASE Change
    BY <1>14 DEF Change, Host
<1>15. CASE UNCHANGED vars
    BY <1>15
<1> QED
    BY <1>1, <1>2, <1>3, <1>4, <1>5, <1>6, <1>7, <1>8, <1>9, <1>10, <1>11, <1>12, <1>13, <1>14, <1>15 DEF Next, Terminated

-----------------------------------------------------------------------------
\* The same request on the same machine is accepted again.
LEMMA AcceptedStays ==
    ASSUME UNCHANGED <<request, host>>
    PROVE  Accepted(request, host)' <=> Accepted(request, host)
BY DEF Accepted, HostAccepted, PolicyAccepted, WorkloadAccepted, LoaderAccepted, ResetAccepted,
       CommandAccepted, ClientsAccepted, Fast, HasPlan

-----------------------------------------------------------------------------
(* Nothing but a change has the configuration refused after it was built.   *)
LEMMA LossKept ==
    ASSUME InvocationInv, [Next]_vars
    PROVE  LossInv'
<1> USE DEF InvocationInv, LossInv, FlowInv, InputsInv, vars, given, outside, product, joinVars, Go, Raise, Build, Answer
<1>1. CASE Parse
    BY <1>1, AcceptedStays DEF Parse, Working
<1>2. CASE Inspect
    BY <1>2, AcceptedStays DEF Inspect
<1>3. CASE Plan
    BY <1>3, AcceptedStays DEF Plan
<1>4. CASE CheckPlan
    BY <1>4, AcceptedStays DEF CheckPlan, Host
<1>5. CASE Execute
    BY <1>5, AcceptedStays DEF Execute, Working
<1>6. CASE Collect
    BY <1>6, AcceptedStays DEF Collect
<1>7. CASE JoinReports
    BY <1>7, AcceptedStays DEF JoinReports
<1>8. CASE Point
    BY <1>8, AcceptedStays DEF Point, Partial
<1>9. CASE Monitor
    BY <1>9, AcceptedStays DEF Monitor, Host
<1>10. CASE Rebuild
    BY <1>10, AcceptedStays DEF Rebuild
<1>11. CASE Save
    BY <1>11, AcceptedStays DEF Save
<1>12. CASE Handle
    BY <1>12, AcceptedStays DEF Handle
<1>13. CASE Interrupt
    BY <1>13, AcceptedStays DEF Interrupt
<1>14. CASE Change
    BY <1>14, AcceptedStays DEF Change, Host
<1>15. CASE UNCHANGED vars
    BY <1>15, AcceptedStays
<1> QED
    BY <1>1, <1>2, <1>3, <1>4, <1>5, <1>6, <1>7, <1>8, <1>9, <1>10, <1>11, <1>12, <1>13, <1>14, <1>15 DEF Next, Terminated
-----------------------------------------------------------------------------
(* The properties follow from the invariant.                               *)

LEMMA InvocationInvHolds == Spec => []InvocationInv
<1>1. InvocationInv /\ [Next]_vars => InvocationInv'
    BY FlowKept, ReplyKept, DoneKept, PointsKept, InputsKept, LossKept DEF InvocationInv
<1> QED
    BY InvocationInvInit, <1>1, PTL DEF Spec

(* For every request: what config.py accepts does to the target only what  *)
(* its options gave away, at each of any number of points.                 *)
THEOREM TargetSparedHolds == Spec => []TargetSpared
<1>1. ASSUME request \in Request, OptionsAccepted, NEW i
      PROVE  LET effects == Effects(request, i)
             IN  /\ effects \cap {"database", "schemas"} # {} => request.allow /\ ~request.protected
                 /\ request.managed => Kept(effects \ {"database", "schemas"})
                 /\ request.reset = "schema" => Kept(effects \ {"schemas"})
                 /\ request.policy = "skip" => effects = {}
    BY <1>1 DEF Request, OptionsAccepted, HostAccepted, PolicyAccepted, LoaderAccepted,
                ResetAccepted, Fast, HasPlan, Effects, Initializes, Resets, Kept
<1>2. ASSUME InvocationInv, NEW i \in DOMAIN done
      PROVE  /\ done[i].effects = Effects(request, i)
             /\ request \in Request /\ OptionsAccepted
    BY <1>2 DEF InvocationInv, FlowInv, DoneInv, PointsInv
<1>3. InvocationInv => TargetSpared
    BY <1>1, <1>2, Zenon DEF TargetSpared
<1> QED
    BY InvocationInvHolds, <1>3, PTL

(* For every request: a complete report tells what was done before each    *)
(* point, carries the hash of a configuration that was installed, and is   *)
(* of the plan that another program agreed to.                             *)
THEOREM ReportTruthfulHolds == Spec => []ReportTruthful
<1>1. ASSUME request \in Request, OptionsAccepted, NEW i \in Nat
      PROVE  Claims(request) \subseteq Effects(request, i)
    BY <1>1 DEF Request, OptionsAccepted, HostAccepted, PolicyAccepted, LoaderAccepted,
                ResetAccepted, Fast, HasPlan, Effects, Initializes, Resets, Claims
<1>2. InvocationInv => MethodologyTrue
    <2> SUFFICES ASSUME InvocationInv, report \in {"full", "partial"}, task = "benchmark",
                        NEW i \in DOMAIN done
                 PROVE  Claims(request) \subseteq done[i].effects
        BY DEF MethodologyTrue
    <2>1. done[i].effects = Effects(request, i) /\ i \in Nat /\ done # <<>>
        BY DEF InvocationInv, DoneInv
    <2> QED
        BY <1>1, <2>1 DEF InvocationInv, FlowInv, PointsInv
<1>3. InvocationInv => ConfigurationInstalled
    <2> SUFFICES ASSUME InvocationInv, evidence # 0
                 PROVE  /\ {"config", "restart"} \subseteq done[1].effects
                        /\ done[1].inputs = evidence \/ changes > 0
        BY DEF ConfigurationInstalled
    <2>1. /\ 1 \in DOMAIN done /\ done # <<>> /\ request.config /\ OptionsAccepted
          /\ request \in Request /\ done[1].effects = Effects(request, 1)
        BY InvocationAssumption DEF InvocationInv, FlowInv, DoneInv, PointsInv
    <2>2. {"config", "restart"} \subseteq Effects(request, 1)
        BY <2>1 DEF Request, OptionsAccepted, HostAccepted, PolicyAccepted, LoaderAccepted,
                    ResetAccepted, Fast, HasPlan, Effects, Initializes, Resets
    <2>3. changes = 0 \/ changes > 0
        BY DEF InvocationInv, InputsInv
    <2>4. changes = 0 => done[1].inputs = evidence
        BY <2>1 DEF InvocationInv, InputsInv
    <2> QED
        BY <2>1, <2>2, <2>3, <2>4
<1>4. InvocationInv => PlanHonoured
    BY DEF InvocationInv, PlanHonoured, PointsInv, InputsInv
<1>5. InvocationInv => ReportTruthful
    BY <1>2, <1>3, <1>4 DEF ReportTruthful
<1> QED
    BY InvocationInvHolds, <1>5, PTL

(* For every request: a report that was built is saved unless it cannot be *)
(* written, the user interrupts, a file or client of the request changed,  *)
(* or a client did not tell its version.                                   *)
THEOREM ReportSavedHolds == Spec => []ReportSaved
<1>1. InvocationInv => ReportSaved
    BY DEF InvocationInv, LossInv, ReportSaved
<1> QED
    BY InvocationInvHolds, <1>1, PTL

(* For every command: status and exit code agree, and neither tells of a   *)
(* report that was not saved.                                              *)
THEOREM ReplyConsistentHolds == Spec => []ReplyConsistent
<1>1. InvocationInv => ReplyConsistent
    BY DEF InvocationInv, ReplyInv, Refusals, ReplyConsistent
<1> QED
    BY InvocationInvHolds, <1>1, PTL
-----------------------------------------------------------------------------
(* The join command. What is loaded: reports only, the reference first,    *)
(* and in the end every file that can be read.                             *)
Readable == {f \in Reports : IsReport(f)}
Stages == {"load", "check", "merge", "joined", "refused"}
SourceInv ==
    /\ stage \in Stages /\ Selected /\ sources \in Seq(Readable)
    /\ stage = "load" =>
           /\ position \in 1 .. Count + 1
           /\ \A j \in 1 .. Len(sources) : \E p \in 1 .. position - 1 : sources[j] = files[Order(p)]
           /\ \A p \in 1 .. position - 1 :
                 IsReport(files[Order(p)]) => \E j \in 1 .. Len(sources) : sources[j] = files[Order(p)]
           /\ reference # 0 /\ position > 1 => Len(sources) > 0 /\ Baseline = files[reference]
    /\ stage \in {"check", "merge", "joined"} =>
           /\ Len(sources) >= 2
           /\ {sources[j] : j \in DOMAIN sources} = {f \in Range(files) : IsReport(f)}
           /\ reference # 0 => Baseline = files[reference]

\* Every selected file has its turn.
LEMMA OrderFacts ==
    ASSUME Selected
    PROVE  /\ \A p \in 1 .. Count : Order(p) \in 1 .. Count
           /\ \A i \in 1 .. Count : \E p \in 1 .. Count : Order(p) = i
           /\ \A p \in 1 .. Count : Order(p) = reference <=> reference # 0 /\ p = 1
<1>1. Count \in Nat /\ reference \in 0 .. Count
  BY JoinAssumption DEF Selected
<1>2. ASSUME NEW i \in 1 .. Count PROVE \E p \in 1 .. Count : Order(p) = i
  <2>1. CASE reference = 0 \/ i > reference
    BY <1>1, <2>1 DEF Order
  <2>2. CASE reference # 0 /\ i = reference
    <3>1. 1 \in 1 .. Count /\ Order(1) = i
      BY <1>1, <2>2 DEF Order
    <3> QED
      BY <3>1
  <2>3. CASE reference # 0 /\ i < reference
    <3>1. i + 1 \in 1 .. Count /\ Order(i + 1) = i
      BY <1>1, <2>3 DEF Order
    <3> QED
      BY <3>1
  <2> QED
    BY <1>1, <2>1, <2>2, <2>3
<1>3. ASSUME NEW p \in 1 .. Count
      PROVE  Order(p) \in 1 .. Count /\ (Order(p) = reference <=> reference # 0 /\ p = 1)
  BY <1>1 DEF Order
<1> QED
  BY <1>2, <1>3

LEMMA SourcesLoaded ==
    ASSUME SourceInv, Load
    PROVE  SourceInv'
<1> DEFINE file == files[Order(position)]
<1>1. /\ Count \in Nat /\ position \in 1 .. Count /\ position' = position + 1 /\ stage = "load"
      /\ files' = files /\ reference' = reference /\ Selected /\ Selected'
      /\ sources \in Seq(Readable)
  BY JoinAssumption DEF SourceInv, Load, Selected
<1>2. ASSUME NEW p PROVE Order(p)' = Order(p)
  BY <1>1 DEF Order
<1>3. Order(position) \in 1 .. Count /\ file \in Reports
  BY <1>1, OrderFacts DEF Selected
<1>4. Order(position) = reference <=> reference # 0 /\ position = 1
  BY <1>1, OrderFacts
<1>5. CASE IsReport(file)
  <2>1. sources' = Append(sources, file) /\ stage' = "load" /\ file \in Readable
    BY <1>1, <1>3, <1>5 DEF Load, Readable
  <2>2. /\ sources' \in Seq(Readable) /\ Len(sources) \in Nat /\ Len(sources') = Len(sources) + 1
        /\ sources'[Len(sources) + 1] = file /\ \A j \in 1 .. Len(sources) : sources'[j] = sources[j]
    <3> HIDE DEF file
    <3> QED
      BY <1>1, <2>1
  <2>3. ASSUME NEW j \in 1 .. Len(sources')
        PROVE  \E p \in 1 .. position : sources'[j] = files[Order(p)]
    BY <1>1, <2>2 DEF SourceInv
  <2>4. ASSUME NEW p \in 1 .. position, IsReport(files[Order(p)])
        PROVE  \E j \in 1 .. Len(sources') : sources'[j] = files[Order(p)]
    <3>1. CASE p = position
      BY <2>2, <3>1
    <3>2. CASE p # position
      <4>1. PICK j \in 1 .. Len(sources) : sources[j] = files[Order(p)]
        BY <1>1, <2>4, <3>2 DEF SourceInv
      <4> QED
        BY <2>2, <4>1
    <3> QED
      BY <3>1, <3>2
  <2>5. reference # 0 => Len(sources') > 0 /\ Baseline' = files[reference]
    <3>1. CASE position = 1 /\ reference # 0
      <4>1. Len(sources) = 0
        BY <1>1, <2>2, <3>1 DEF SourceInv
      <4> QED
        BY <1>4, <2>2, <3>1, <4>1 DEF Baseline
    <3>2. CASE position # 1 /\ reference # 0
      BY <1>1, <2>2, <3>2 DEF SourceInv, Baseline
    <3> QED
      BY <3>1, <3>2
  <2>6. position' \in 1 .. Count + 1 /\ position' - 1 = position
    BY <1>1
  <2> HIDE DEF file
  <2> QED
    BY <1>1, <1>2, <2>1, <2>2, <2>3, <2>4, <2>5, <2>6 DEF SourceInv, Readable, IsReport, Stages
<1>6. CASE ~IsReport(file)
  <2>1. sources' = sources /\ stage' = IF Order(position) = reference THEN "refused" ELSE stage
    BY <1>6 DEF Load
  <2>2. position' \in 1 .. Count + 1 /\ position' - 1 = position
    BY <1>1
  <2>3. CASE Order(position) = reference
    BY <1>1, <2>1, <2>3 DEF SourceInv, Readable, IsReport, Stages
  <2>4. CASE Order(position) # reference
    <3>1. stage' = "load" /\ Baseline' = Baseline
      BY <1>1, <2>1, <2>4 DEF Baseline
    <3>2. \A j \in 1 .. Len(sources) : \E p \in 1 .. position : sources[j] = files[Order(p)]
      BY <1>1 DEF SourceInv
    <3>3. \A p \in 1 .. position :
              IsReport(files[Order(p)]) => \E j \in 1 .. Len(sources) : sources[j] = files[Order(p)]
      BY <1>1, <1>6 DEF SourceInv
    <3>4. reference # 0 => Len(sources) > 0 /\ Baseline = files[reference]
      BY <1>1, <1>4, <2>4 DEF SourceInv
    <3> QED
      BY <1>1, <1>2, <2>1, <2>2, <3>1, <3>2, <3>3, <3>4 DEF SourceInv, Readable, IsReport, Stages
  <2> QED
    BY <2>3, <2>4
<1> QED
  BY <1>5, <1>6

LEMMA SourcesKnown ==
    ASSUME SourceInv, Loaded
    PROVE  SourceInv'
<1>1. /\ Count \in Nat /\ position = Count + 1 /\ UNCHANGED <<files, reference, sources, position>>
      /\ Selected /\ Selected' /\ sources \in Seq(Readable)
      /\ stage' = IF Len(sources) < 2 THEN "refused" ELSE "check"
  BY JoinAssumption DEF SourceInv, Loaded, Selected
<1>2. {sources[j] : j \in DOMAIN sources} = {f \in Range(files) : IsReport(f)}
  <2>1. ASSUME NEW j \in DOMAIN sources
        PROVE  sources[j] \in Range(files) /\ IsReport(sources[j])
    <3>1. PICK p \in 1 .. Count : sources[j] = files[Order(p)]
      BY <1>1 DEF SourceInv, Loaded
    <3>2. Order(p) \in DOMAIN files
      BY <1>1, <3>1, OrderFacts DEF Selected
    <3> QED
      BY <1>1, <3>1, <3>2 DEF Range, Readable
  <2>2. ASSUME NEW f \in Range(files), IsReport(f)
        PROVE  \E j \in DOMAIN sources : sources[j] = f
    <3>1. PICK i \in 1 .. Count : files[i] = f
      BY <1>1 DEF Selected, Range
    <3>2. PICK p \in 1 .. Count : Order(p) = i
      BY <1>1, OrderFacts
    <3>3. \E j \in 1 .. Len(sources) : sources[j] = files[Order(p)]
      BY <1>1, <2>2, <3>1, <3>2 DEF SourceInv, Loaded
    <3> QED
      BY <1>1, <3>1, <3>2, <3>3
  <2> QED
    BY <2>1, <2>2
<1>3. reference # 0 => Baseline = files[reference]
  BY <1>1 DEF SourceInv, Loaded, Selected
<1>4. Len(sources) \in Nat
  BY <1>1
<1> QED
  BY <1>1, <1>2, <1>3, <1>4 DEF SourceInv, Readable, IsReport, Stages, Baseline

LEMMA SourcesStay ==
    ASSUME SourceInv, Check \/ Merge \/ Sections
    PROVE  SourceInv'
<1>1. /\ UNCHANGED <<files, reference, sources>> /\ stage \in {"check", "merge"}
      /\ stage' \in {"merge", "joined", "refused"}
  BY DEF Check, Merge, Sections
<1> QED
  BY <1>1 DEF SourceInv, Readable, IsReport, Stages, Baseline, Selected

-----------------------------------------------------------------------------
(* The joined report, while the sources are merged.                        *)

\* The labels of the sources, and the sources that were merged so far.
Named == {sources[j].label : j \in DOMAIN sources}
Merged == 1 .. position - 1
Merging == stage \in {"merge", "joined"}
Charted == [of : Named, filled : BOOLEAN]

\* The sources were checked, and those that were merged compared.
CompareInv == Merging =>
    /\ position \in 2 .. Len(sources) + 1
    /\ stage = "joined" => position = Len(sources) + 1
    /\ \A i, j \in DOMAIN sources : sources[i].label = sources[j].label => i = j
    /\ \A j \in DOMAIN sources : sources[j].schema = Baseline.schema
    /\ \A j \in 2 .. position - 1 : Comparable(Baseline, sources[j])

\* The copy that is not yet begun.
StartInv == stage \in {"load", "check"} => joined = Blank

\* The parts of the joined report.
PartsInv == Merging =>
    /\ joined = [tps |-> joined.tps, metric |-> joined.metric, outputs |-> joined.outputs,
                 logs |-> joined.logs, rows |-> joined.rows, blocks |-> joined.blocks,
                 snapshots |-> joined.snapshots]
    /\ joined.tps \in Seq(Charted)
    /\ joined.metric \in Seq(Charted)
    /\ joined.blocks \in Seq(Named) /\ joined.outputs \in Seq(Named) /\ joined.logs \in Seq(Named)
    /\ joined.rows \in [Steps(Baseline) -> Seq(Named)]
    /\ stage = "merge" => joined.snapshots = <<>>
    /\ stage = "joined" => joined.snapshots = Snapshots

\* The series of the charts are those of the merged sources.
SeriesOf(s, j) == {i \in DOMAIN s : s[i].of = sources[j].label}
ChartInv == Merging =>
    /\ \A i \in DOMAIN joined.tps : \E j \in Merged : joined.tps[i].of = sources[j].label
    /\ \A j \in Merged : Cardinality(SeriesOf(joined.tps, j)) = sources[j].series
    /\ joined.metric = <<>> => \A j \in Merged : ~sources[j].metric
    /\ joined.metric # <<>> => /\ Len(joined.metric) = Len(joined.tps)
                               /\ \A i \in DOMAIN joined.tps : joined.metric[i].of = joined.tps[i].of
    /\ \A i \in DOMAIN joined.metric : \E j \in Merged :
          joined.metric[i].of = sources[j].label /\ joined.metric[i].filled = sources[j].metric

BlocksOf(s, j) == {i \in DOMAIN s : s[i] = sources[j].label}
BlockInv == Merging =>
    /\ \A i \in DOMAIN joined.blocks : \E j \in Merged : joined.blocks[i] = sources[j].label
    /\ \A j \in Merged : Cardinality(BlocksOf(joined.blocks, j)) = sources[j].blocks

\* The merged sources that differ from the baseline.
Differing(step) == {j \in Merged : ~Agree(Baseline, sources[j], step)}
Shown(step) == IF Differing(step) = {} THEN {} ELSE {1} \cup Differing(step)
ListInv == Merging =>
    /\ Lists(joined.outputs, Merged)
    /\ Lists(joined.logs, {j \in Merged : sources[j].logs})
    /\ \A step \in Steps(Baseline) : Lists(joined.rows[step], Shown(step))

JoinInv == SourceInv /\ StartInv /\ CompareInv /\ PartsInv /\ ChartInv /\ BlockInv /\ ListInv

\* A value repeated is a sequence of it.
LEMMA TimesFacts ==
    ASSUME NEW T, NEW n \in Nat, NEW x \in T
    PROVE  /\ Times(n, x) \in Seq(T) /\ Len(Times(n, x)) = n /\ DOMAIN Times(n, x) = 1 .. n
           /\ \A i \in 1 .. n : Times(n, x)[i] = x
BY DEF Times

\* How many positions n more are.
LEMMA Counted ==
    ASSUME NEW m \in Nat, NEW n \in Nat
    PROVE  Cardinality(m + 1 .. m + n) = n
<1>1. m + 1 \in Int /\ m + n \in Int
  OBVIOUS
<1>2. Cardinality(m + 1 .. m + n) = IF m + 1 > m + n THEN 0 ELSE (m + n) - (m + 1) + 1
  BY <1>1, FS_Interval
<1> QED
  BY <1>2

\* The series of a report.
LEMMA SeriesFacts ==
    ASSUME NEW r, NEW filled, filled \in BOOLEAN, r.label \in Named, r.series \in Nat
    PROVE  /\ Series(r, filled) \in Seq(Charted)
           /\ Len(Series(r, filled)) = r.series /\ DOMAIN Series(r, filled) = 1 .. r.series
           /\ \A i \in DOMAIN Series(r, filled) : /\ Series(r, filled)[i].of = r.label
                                                   /\ Series(r, filled)[i].filled = filled
<1> DEFINE x == [of |-> r.label, filled |-> filled]
<1>1. x \in Charted /\ x.of = r.label /\ x.filled = filled /\ r.series \in Nat
  BY DEF Charted
<1> HIDE DEF x
<1>2. /\ Times(r.series, x) \in Seq(Charted) /\ Len(Times(r.series, x)) = r.series
      /\ DOMAIN Times(r.series, x) = 1 .. r.series
      /\ \A i \in 1 .. r.series : Times(r.series, x)[i] = x
  BY <1>1, TimesFacts
<1>3. Series(r, filled) = Times(r.series, x)
  BY DEF Series, x
<1> QED
  BY <1>1, <1>2, <1>3

\* A sequence and what is added to it.
LEMMA Added ==
    ASSUME NEW T, NEW s \in Seq(T), NEW t \in Seq(T)
    PROVE  /\ Len(s) \in Nat /\ Len(t) \in Nat
           /\ s \o t \in Seq(T) /\ Len(s \o t) = Len(s) + Len(t)
           /\ DOMAIN s = 1 .. Len(s) /\ DOMAIN t = 1 .. Len(t) /\ DOMAIN (s \o t) = 1 .. Len(s) + Len(t)
           /\ \A i \in DOMAIN s : (s \o t)[i] = s[i]
           /\ \A i \in DOMAIN (s \o t) : i > Len(s) => i - Len(s) \in DOMAIN t /\ (s \o t)[i] = t[i - Len(s)]
OBVIOUS

\* The series of a report after others.
LEMMA AddSeries ==
    ASSUME NEW s \in Seq(Charted), NEW r, NEW filled, filled \in BOOLEAN, r.label \in Named, r.series \in Nat
    PROVE  /\ Len(s) \in Nat /\ s \o Series(r, filled) \in Seq(Charted)
           /\ Len(s \o Series(r, filled)) = Len(s) + r.series
           /\ DOMAIN s = 1 .. Len(s) /\ DOMAIN (s \o Series(r, filled)) = 1 .. Len(s) + r.series
           /\ \A i \in DOMAIN s : (s \o Series(r, filled))[i] = s[i]
           /\ \A i \in DOMAIN (s \o Series(r, filled)) : i > Len(s) =>
                 /\ (s \o Series(r, filled))[i].of = r.label
                 /\ (s \o Series(r, filled))[i].filled = filled
<1> DEFINE t == Series(r, filled)
<1>1. t \in Seq(Charted) /\ Len(t) = r.series /\ \A i \in DOMAIN t : t[i].of = r.label /\ t[i].filled = filled
  BY SeriesFacts
<1> HIDE DEF t
<1>3. /\ Len(s) \in Nat /\ s \o t \in Seq(Charted) /\ Len(s \o t) = Len(s) + Len(t)
      /\ DOMAIN s = 1 .. Len(s) /\ DOMAIN (s \o t) = 1 .. Len(s) + Len(t)
      /\ \A i \in DOMAIN s : (s \o t)[i] = s[i]
      /\ \A i \in DOMAIN (s \o t) : i > Len(s) => i - Len(s) \in DOMAIN t /\ (s \o t)[i] = t[i - Len(s)]
  BY <1>1, Added
<1>2. /\ s \o t \in Seq(Charted) /\ Len(s \o t) = Len(s) + r.series /\ DOMAIN (s \o t) = 1 .. Len(s) + r.series
      /\ \A i \in DOMAIN (s \o t) : i > Len(s) => (s \o t)[i].of = r.label /\ (s \o t)[i].filled = filled
  BY <1>1, <1>3
<1> QED
  BY <1>3, <1>2 DEF t

\* What x adds to a sequence, n times.
LEMMA AddTimes ==
    ASSUME NEW T, NEW s \in Seq(T), NEW n \in Nat, NEW x \in T
    PROVE  /\ Len(s) \in Nat /\ s \o Times(n, x) \in Seq(T)
           /\ DOMAIN s = 1 .. Len(s) /\ DOMAIN (s \o Times(n, x)) = 1 .. Len(s) + n
           /\ \A i \in DOMAIN s : (s \o Times(n, x))[i] = s[i]
           /\ \A i \in DOMAIN (s \o Times(n, x)) : i > Len(s) => (s \o Times(n, x))[i] = x
<1>1. /\ Times(n, x) \in Seq(T) /\ Len(Times(n, x)) = n
      /\ \A i \in 1 .. n : Times(n, x)[i] = x
  BY TimesFacts
<1> DEFINE t == Times(n, x)
<1>a. t \in Seq(T)
  BY <1>1
<1> HIDE DEF t
<1>2. /\ Len(s) \in Nat /\ s \o t \in Seq(T)
      /\ DOMAIN s = 1 .. Len(s) /\ DOMAIN (s \o t) = 1 .. Len(s) + Len(t)
      /\ \A i \in DOMAIN s : (s \o t)[i] = s[i]
      /\ \A i \in DOMAIN (s \o t) : i > Len(s) => i - Len(s) \in DOMAIN t /\ (s \o t)[i] = t[i - Len(s)]
  BY <1>a, Added
<1> QED
  BY <1>1, <1>2 DEF t

\* The entries of a list with the next source.
LEMMA ListsAppend ==
    ASSUME CompareInv, Merging, NEW n \in DOMAIN sources, NEW chosen \in SUBSET (1 .. n - 1),
           SourceInv, NEW entries \in Seq(Named), Lists(entries, chosen)
    PROVE  Lists(Append(entries, sources[n].label), chosen \cup {n})
<1> DEFINE new == Append(entries, sources[n].label)
<1>1. /\ sources \in Seq(Readable) /\ Len(sources) \in Nat /\ DOMAIN sources = 1 .. Len(sources)
      /\ n \in Nat /\ sources[n].label \in Named
  BY DEF SourceInv, Named
<1>2. /\ Len(entries) \in Nat /\ DOMAIN entries = 1 .. Len(entries) /\ DOMAIN new = 1 .. Len(entries) + 1
      /\ new[Len(entries) + 1] = sources[n].label
      /\ \A i \in 1 .. Len(entries) : new[i] = entries[i]
  BY <1>1
<1> HIDE DEF new
<1>3. \A a, b \in DOMAIN sources : sources[a].label = sources[b].label => a = b
  BY DEF CompareInv
<1>4. {new[i] : i \in DOMAIN new} = {sources[j].label : j \in chosen \cup {n}}
  <2>1. {new[i] : i \in DOMAIN new} = {entries[i] : i \in DOMAIN entries} \cup {sources[n].label}
    BY <1>2
  <2> QED
    BY <2>1 DEF Lists
<1>5. ASSUME NEW i \in DOMAIN new, NEW k \in DOMAIN new, NEW a \in chosen \cup {n}, NEW b \in chosen \cup {n},
             i < k, new[i] = sources[a].label, new[k] = sources[b].label
      PROVE  a < b
  <2>1. i \in DOMAIN entries /\ new[i] = entries[i]
    BY <1>2, <1>5
  <2>2. PICK j \in chosen : entries[i] = sources[j].label
    BY <2>1 DEF Lists
  <2>3. a = j /\ a \in chosen
    <3>1. a \in DOMAIN sources /\ j \in DOMAIN sources
      BY <1>1
    <3> QED
      BY <1>3, <1>5, <2>1, <2>2, <3>1
  <2>4. CASE k = Len(entries) + 1
    BY <1>1, <1>2, <1>3, <1>5, <2>3, <2>4
  <2>5. CASE k # Len(entries) + 1
    <3>1. k \in DOMAIN entries /\ new[k] = entries[k]
      BY <1>2, <2>5
    <3>2. PICK m \in chosen : entries[k] = sources[m].label
      BY <3>1 DEF Lists
    <3>3. b = m
      <4>1. b \in DOMAIN sources /\ m \in DOMAIN sources
        BY <1>1
      <4> QED
        BY <1>3, <1>5, <3>1, <3>2, <4>1
    <3> QED
      BY <1>5, <2>1, <2>3, <3>1, <3>2, <3>3 DEF Lists
  <2> QED
    BY <2>4, <2>5
<1> QED
  BY <1>4, <1>5 DEF Lists, new
\* A list begins with its first source.
LEMMA ListsFirst ==
    ASSUME NEW n \in DOMAIN sources
    PROVE  /\ Lists(<<>>, {})
           /\ Lists(<<sources[n].label>>, {n})
BY DEF Lists

-----------------------------------------------------------------------------
(* The check begins the copy with the baseline alone.                      *)
LEMMA CheckFacts ==
    ASSUME SourceInv, StartInv, Check, stage' # "refused"
    PROVE  /\ sources \in Seq(Readable) /\ Len(sources) \in Nat /\ Len(sources) >= 2
           /\ DOMAIN sources = 1 .. Len(sources) /\ sources' = sources
           /\ stage' = "merge" /\ position' = 2
           /\ joined' = [tps |-> Series(Baseline, TRUE),
                         metric |-> IF Baseline.metric THEN Series(Baseline, TRUE) ELSE <<>>,
                         outputs |-> <<Baseline.label>>,
                         logs |-> IF Baseline.logs THEN <<Baseline.label>> ELSE <<>>,
                         rows |-> [c \in Steps(Baseline) |-> <<>>],
                         blocks |-> Times(Baseline.blocks, Baseline.label), snapshots |-> <<>>]
           /\ \A i, j \in DOMAIN sources : sources[i].label = sources[j].label => i = j
           /\ \A j \in DOMAIN sources : sources[j].schema = Baseline.schema
           /\ Baseline.series \in Nat \ {0} /\ Baseline.blocks \in Nat /\ Baseline.metric \in BOOLEAN
           /\ Baseline.label \in Named /\ 1 \in DOMAIN sources
<1>1. sources \in Seq(Readable) /\ Len(sources) >= 2 /\ stage = "check" /\ joined = Blank
  BY DEF SourceInv, StartInv, Check
<1>2. Len(sources) \in Nat /\ DOMAIN sources = 1 .. Len(sources) /\ 1 \in DOMAIN sources
  BY <1>1
<1>3. Baseline \in Reports /\ IsReport(Baseline) /\ Baseline.label \in Named
  BY <1>1, <1>2 DEF Baseline, Readable, Named
<1>4. IsInjective(Labels) /\ \A i \in DOMAIN sources : sources[i].schema = Baseline.schema
  BY DEF Check
<1>5. \A i, j \in DOMAIN sources : sources[i].label = sources[j].label => i = j
  BY <1>4 DEF IsInjective, Labels
<1>6. /\ sources' = sources /\ stage' = "merge" /\ position' = 2
      /\ joined' = [tps |-> Series(Baseline, TRUE),
                    metric |-> IF Baseline.metric THEN Series(Baseline, TRUE) ELSE <<>>,
                    outputs |-> <<Baseline.label>>,
                    logs |-> IF Baseline.logs THEN <<Baseline.label>> ELSE <<>>,
                    rows |-> [c \in Steps(Baseline) |-> <<>>],
                    blocks |-> Times(Baseline.blocks, Baseline.label), snapshots |-> <<>>]
  BY <1>1, <1>4 DEF Check, Blank, Steps
<1> QED
  BY <1>1, <1>2, <1>3, <1>4, <1>5, <1>6, JoinAssumption

LEMMA CheckCompares ==
    ASSUME SourceInv, StartInv, Check, stage' # "refused"
    PROVE  CompareInv'
<1>1. Baseline' = Baseline
  BY CheckFacts DEF Baseline
<1> QED
  BY CheckFacts, <1>1 DEF CompareInv, Merging

LEMMA CheckBegins ==
    ASSUME SourceInv, StartInv, Check, stage' # "refused"
    PROVE  PartsInv' /\ ChartInv' /\ BlockInv'
<1> SUFFICES ASSUME NEW n, NEW b, NEW l, n = Baseline.series, b = Baseline.blocks, l = Baseline.label
             PROVE  PartsInv' /\ ChartInv' /\ BlockInv'
    OBVIOUS
<1>1. /\ sources' = sources /\ Baseline' = Baseline /\ Named' = Named /\ Steps(Baseline)' = Steps(Baseline)
      /\ stage' = "merge" /\ position' = 2 /\ Merged' = {1} /\ Baseline = sources[1]
      /\ n \in Nat /\ n # 0 /\ b \in Nat /\ l \in Named /\ Baseline.metric \in BOOLEAN
      /\ n = sources[1].series /\ b = sources[1].blocks /\ l = sources[1].label
  BY CheckFacts DEF Baseline, Named, Steps, Merged
<1> DEFINE s == Series(Baseline, TRUE)
           t == Times(b, l)
<1>2. /\ joined'.tps = s
      /\ joined'.metric = IF Baseline.metric THEN s ELSE <<>>
      /\ joined'.outputs = <<l>>
      /\ joined'.logs = IF Baseline.logs THEN <<l>> ELSE <<>>
      /\ joined'.rows = [c \in Steps(Baseline) |-> <<>>]
      /\ joined'.blocks = t /\ joined'.snapshots = <<>>
      /\ joined' = [tps |-> joined'.tps, metric |-> joined'.metric, outputs |-> joined'.outputs,
                    logs |-> joined'.logs, rows |-> joined'.rows, blocks |-> joined'.blocks,
                    snapshots |-> joined'.snapshots]
  <2> HIDE DEF s, t
  <2>1. joined' = [tps |-> s, metric |-> IF Baseline.metric THEN s ELSE <<>>, outputs |-> <<l>>,
                   logs |-> IF Baseline.logs THEN <<l>> ELSE <<>>,
                   rows |-> [c \in Steps(Baseline) |-> <<>>], blocks |-> t, snapshots |-> <<>>]
    BY CheckFacts DEF s, t
  <2> QED
    BY <2>1
<1>3. /\ s \in Seq(Charted) /\ Len(s) = n /\ DOMAIN s = 1 .. n
      /\ \A i \in DOMAIN s : s[i].of = l /\ s[i].filled = TRUE
  <2>1. Baseline.series \in Nat /\ Baseline.label \in Named /\ TRUE \in BOOLEAN
    BY <1>1
  <2> QED
    BY <2>1, SeriesFacts
<1>4. t \in Seq(Named) /\ DOMAIN t = 1 .. b /\ \A i \in 1 .. b : t[i] = l
  BY <1>1 DEF Times
<1> HIDE DEF s, t
<1>5. PartsInv'
  <2>1. Charted' = Charted
    BY <1>1 DEF Charted
  <2> QED
    BY <1>1, <1>2, <1>3, <1>4, <2>1 DEF PartsInv, Merging
<1>6. BlockInv'
  <2>1. BlocksOf(joined.blocks, 1)' = 1 .. b
    BY <1>1, <1>2, <1>4 DEF BlocksOf
  <2>2. Cardinality(1 .. b) = b
    <3>1. b \in Nat /\ 0 \in Nat /\ 0 + 1 = 1 /\ 0 + b = b
      BY <1>1
    <3>2. Cardinality(0 + 1 .. 0 + b) = b
      BY <3>1, Counted
    <3> QED
      BY <3>1, <3>2
  <2> QED
    BY <1>1, <1>2, <1>4, <2>1, <2>2 DEF BlockInv, Merging
<1>7. ChartInv'
  <2>1. SeriesOf(joined.tps, 1)' = 1 .. n
    BY <1>1, <1>2, <1>3 DEF SeriesOf
  <2>2. Cardinality(1 .. n) = n
    <3>1. n \in Nat /\ 0 \in Nat /\ 0 + 1 = 1 /\ 0 + n = n
      BY <1>1
    <3>2. Cardinality(0 + 1 .. 0 + n) = n
      BY <3>1, Counted
    <3> QED
      BY <3>1, <3>2
  <2>3. s # <<>> /\ \A i \in DOMAIN <<>> : FALSE
    BY <1>1, <1>3
  <2>4. /\ \A i \in DOMAIN joined'.tps : joined'.tps[i].of = l
        /\ joined'.metric = <<>> => ~Baseline.metric
        /\ joined'.metric # <<>> => joined'.metric = joined'.tps
    BY <1>2, <1>3, <2>3
  <2>5. ASSUME NEW i \in DOMAIN joined'.metric
        PROVE  joined'.metric[i].of = l /\ joined'.metric[i].filled = Baseline.metric
    BY <1>1, <1>2, <1>3, <2>3
  <2> QED
    BY <1>1, <2>1, <2>2, <2>4, <2>5 DEF ChartInv, Merging
<1> QED
  BY <1>5, <1>6, <1>7

LEMMA CheckLists ==
    ASSUME SourceInv, StartInv, Check, stage' # "refused"
    PROVE  ListInv'
<1>1. /\ sources' = sources /\ stage' = "merge" /\ Merged' = {1} /\ 1 \in DOMAIN sources
      /\ Baseline = sources[1] /\ Baseline' = Baseline /\ Steps(Baseline)' = Steps(Baseline)
  BY CheckFacts DEF Baseline, Steps, Merged
<1>2. /\ joined'.outputs = <<sources[1].label>>
      /\ joined'.logs = IF sources[1].logs THEN <<sources[1].label>> ELSE <<>>
      /\ joined'.rows = [c \in Steps(Baseline) |-> <<>>]
  BY <1>1, CheckFacts
<1>3. Lists(joined.outputs, Merged)'
  <2>1. Lists(joined'.outputs, Merged')
    BY <1>1, <1>2, ListsFirst
  <2> QED
    BY <1>1, <2>1 DEF Lists
<1>4. Lists(joined.logs, {j \in Merged : sources[j].logs})'
  <2>1. {j \in Merged' : sources'[j].logs} = IF sources[1].logs THEN {1} ELSE {}
    BY <1>1
  <2>2. Lists(joined'.logs, {j \in Merged' : sources'[j].logs})
    BY <1>1, <1>2, <2>1, ListsFirst
  <2> QED
    BY <1>1, <2>2 DEF Lists
<1>5. ASSUME NEW step \in Steps(Baseline) PROVE Lists(joined.rows[step], Shown(step))'
  <2>1. step \in DOMAIN Baseline.values /\ Shown(step)' = {}
    BY <1>1, <1>5 DEF Shown, Differing, Agree, Steps
  <2>2. Lists(joined'.rows[step], Shown(step)')
    BY <1>1, <1>2, <2>1, ListsFirst
  <2> QED
    BY <1>1, <2>2 DEF Lists
<1> QED
  BY <1>1, <1>3, <1>4, <1>5 DEF ListInv

-----------------------------------------------------------------------------
(* The merge adds one comparable source.                                   *)
LEMMA MergeFacts ==
    ASSUME SourceInv, CompareInv, PartsInv, Merge, stage' # "refused"
    PROVE  /\ sources \in Seq(Readable) /\ Len(sources) \in Nat /\ DOMAIN sources = 1 .. Len(sources)
           /\ stage = "merge" /\ stage' = "merge" /\ UNCHANGED <<files, reference, sources>>
           /\ position \in 2 .. Len(sources) /\ position' = position + 1 /\ Comparable(Baseline, Incoming)
           /\ Incoming = sources[position] /\ Incoming.label \in Named
           /\ Incoming.series \in Nat /\ Incoming.series # 0 /\ Incoming.blocks \in Nat
           /\ Incoming.metric \in BOOLEAN
           /\ joined'.tps = joined.tps \o Series(Incoming, TRUE) /\ joined'.metric = Metric
           /\ joined'.outputs = Append(joined.outputs, Incoming.label)
           /\ joined'.logs = IF Incoming.logs THEN Append(joined.logs, Incoming.label) ELSE joined.logs
           /\ joined'.rows = [step \in Steps(Baseline) |-> Rows(step)]
           /\ joined'.blocks = joined.blocks \o Times(Incoming.blocks, Incoming.label)
           /\ joined'.snapshots = <<>>
           /\ joined' = [tps |-> joined'.tps, metric |-> joined'.metric, outputs |-> joined'.outputs,
                         logs |-> joined'.logs, rows |-> joined'.rows, blocks |-> joined'.blocks,
                         snapshots |-> joined'.snapshots]
<1>1. /\ sources \in Seq(Readable) /\ Len(sources) \in Nat /\ DOMAIN sources = 1 .. Len(sources)
      /\ stage = "merge" /\ position \in DOMAIN sources /\ position \in 2 .. Len(sources) + 1
  BY DEF SourceInv, CompareInv, Merging, Merge
<1>2. Incoming \in Reports /\ IsReport(Incoming) /\ Incoming.label \in Named
  BY <1>1 DEF Incoming, Readable, Named
<1>3. /\ Comparable(Baseline, Incoming) /\ position' = position + 1 /\ stage' = "merge"
      /\ UNCHANGED <<files, reference, sources>>
      /\ joined' = [joined EXCEPT
              !.tps = @ \o Series(Incoming, TRUE),
              !.metric = Metric,
              !.outputs = Append(@, Incoming.label),
              !.logs = IF Incoming.logs THEN Append(@, Incoming.label) ELSE @,
              !.rows = [step \in DOMAIN @ |-> Rows(step)],
              !.blocks = @ \o Times(Incoming.blocks, Incoming.label)]
  BY <1>1 DEF Merge
<1>4. DOMAIN joined.rows = Steps(Baseline) /\ joined.snapshots = <<>>
  BY <1>1 DEF PartsInv, Merging
<1>5. joined = [tps |-> joined.tps, metric |-> joined.metric, outputs |-> joined.outputs,
                logs |-> joined.logs, rows |-> joined.rows, blocks |-> joined.blocks,
                snapshots |-> joined.snapshots]
  BY <1>1 DEF PartsInv, Merging
<1>6. joined' = [tps |-> joined.tps \o Series(Incoming, TRUE), metric |-> Metric,
                 outputs |-> Append(joined.outputs, Incoming.label),
                 logs |-> IF Incoming.logs THEN Append(joined.logs, Incoming.label) ELSE joined.logs,
                 rows |-> [step \in Steps(Baseline) |-> Rows(step)],
                 blocks |-> joined.blocks \o Times(Incoming.blocks, Incoming.label),
                 snapshots |-> <<>>]
  BY <1>3, <1>4, <1>5
<1> DEFINE tps == joined.tps \o Series(Incoming, TRUE)
           metric == Metric
           outputs == Append(joined.outputs, Incoming.label)
           logs == IF Incoming.logs THEN Append(joined.logs, Incoming.label) ELSE joined.logs
           rows == [step \in Steps(Baseline) |-> Rows(step)]
           blocks == joined.blocks \o Times(Incoming.blocks, Incoming.label)
<1>7. joined' = [tps |-> tps, metric |-> metric, outputs |-> outputs, logs |-> logs, rows |-> rows,
                 blocks |-> blocks, snapshots |-> <<>>]
  BY <1>6
<1> HIDE DEF tps, metric, outputs, logs, rows, blocks
<1>8. /\ joined'.tps = tps /\ joined'.metric = metric /\ joined'.outputs = outputs /\ joined'.logs = logs
      /\ joined'.rows = rows /\ joined'.blocks = blocks /\ joined'.snapshots = <<>>
      /\ joined' = [tps |-> joined'.tps, metric |-> joined'.metric, outputs |-> joined'.outputs,
                    logs |-> joined'.logs, rows |-> joined'.rows, blocks |-> joined'.blocks,
                    snapshots |-> joined'.snapshots]
  BY <1>7
<1>9. position \in 2 .. Len(sources) /\ Incoming = sources[position]
  BY <1>1 DEF Incoming
<1> QED
  BY <1>1, <1>2, <1>3, <1>8, <1>9, JoinAssumption DEF tps, metric, outputs, logs, rows, blocks

LEMMA MergeCompares ==
    ASSUME SourceInv, CompareInv, PartsInv, Merge, stage' # "refused"
    PROVE  CompareInv'
<1>1. Baseline' = Baseline
  BY MergeFacts DEF Baseline
<1>2. /\ sources' = sources /\ stage = "merge" /\ stage' = "merge" /\ Incoming = sources[position]
      /\ Len(sources) \in Nat /\ position \in 2 .. Len(sources) /\ position' = position + 1
      /\ Comparable(Baseline, Incoming)
  BY MergeFacts
<1>3. ASSUME NEW j \in 2 .. position' - 1 PROVE Comparable(Baseline, sources[j])
  BY <1>2 DEF CompareInv, Merging
<1>4. position' \in 2 .. Len(sources) + 1
  BY <1>2
<1> QED
  BY <1>1, <1>2, <1>3, <1>4 DEF CompareInv, Merging

\* The blocks of a source come after those of the others.
LEMMA MergeBlocks ==
    ASSUME SourceInv, CompareInv, PartsInv, BlockInv, Merge, stage' # "refused"
    PROVE  joined.blocks' \in Seq(Named) /\ BlockInv'
<1>0. SUFFICES ASSUME NEW old, NEW n, NEW l, NEW p, old = joined.blocks,
                      n = Incoming.blocks, l = Incoming.label, p = position
               PROVE  joined.blocks' \in Seq(Named) /\ BlockInv'
  OBVIOUS
<1>1. /\ sources' = sources /\ stage = "merge" /\ stage' = "merge" /\ p \in 2 .. Len(sources)
      /\ p \in Nat /\ Merged = 1 .. p - 1 /\ Merged' = 1 .. p /\ l = sources[p].label
      /\ n \in Nat /\ n = sources[p].blocks /\ l \in Named /\ DOMAIN sources = 1 .. Len(sources)
  BY <1>0, MergeFacts DEF Merged
<1>2. joined'.blocks = old \o Times(n, l) /\ old \in Seq(Named)
  <2>1. joined'.blocks = joined.blocks \o Times(Incoming.blocks, Incoming.label)
    BY MergeFacts
  <2> QED
    BY <1>0, <1>1, <2>1 DEF PartsInv, Merging
<1>3. /\ Len(old) \in Nat /\ old \o Times(n, l) \in Seq(Named)
      /\ DOMAIN old = 1 .. Len(old) /\ DOMAIN (old \o Times(n, l)) = 1 .. Len(old) + n
      /\ \A i \in DOMAIN old : (old \o Times(n, l))[i] = old[i]
      /\ \A i \in DOMAIN (old \o Times(n, l)) : i > Len(old) => (old \o Times(n, l))[i] = l
  <2>1. old \in Seq(Named) /\ n \in Nat /\ l \in Named
    BY <1>1, <1>2
  <2> QED
    BY <2>1, AddTimes
<1>4. PICK new \in Seq(Named) : new = old \o Times(n, l)
  BY <1>3
<1>5. /\ Len(old) \in Nat /\ DOMAIN old = 1 .. Len(old) /\ DOMAIN new = 1 .. Len(old) + n
      /\ \A i \in 1 .. Len(old) : new[i] = old[i]
      /\ \A i \in Len(old) + 1 .. Len(old) + n : new[i] = l
  <2>1. ASSUME NEW i \in Len(old) + 1 .. Len(old) + n PROVE new[i] = l
    <3>1. i \in DOMAIN new /\ i > Len(old)
      BY <1>1, <1>3, <1>4
    <3> QED
      BY <1>3, <1>4, <3>1
  <2> QED
    BY <1>3, <1>4, <2>1
<1>6. \A j \in 1 .. p - 1 : sources[j].label # l
  BY <1>1 DEF CompareInv, Merging
<1>7. /\ \A i \in 1 .. Len(old) : \E j \in 1 .. p - 1 : old[i] = sources[j].label
      /\ \A j \in 1 .. p - 1 : Cardinality(BlocksOf(old, j)) = sources[j].blocks
  BY <1>0, <1>1, <1>5 DEF BlockInv, Merging
<1>8. BlocksOf(new, p) = Len(old) + 1 .. Len(old) + n
  <2>1. \A i \in 1 .. Len(old) : new[i] # l
    BY <1>5, <1>6, <1>7
  <2>2. \A i \in 1 .. Len(old) + n : new[i] = l <=> i \in Len(old) + 1 .. Len(old) + n
    BY <1>1, <1>5, <2>1
  <2>3. BlocksOf(new, p) = {i \in 1 .. Len(old) + n : new[i] = l}
    BY <1>1, <1>5 DEF BlocksOf
  <2> QED
    BY <1>1, <1>5, <2>2, <2>3
<1>9. ASSUME NEW j \in 1 .. p - 1 PROVE BlocksOf(new, j) = BlocksOf(old, j)
  <2>1. \A i \in Len(old) + 1 .. Len(old) + n : new[i] # sources[j].label
    BY <1>5, <1>6, <1>9
  <2>2. BlocksOf(new, j) = {i \in 1 .. Len(old) + n : new[i] = sources[j].label}
    BY <1>5 DEF BlocksOf
  <2>3. BlocksOf(old, j) = {i \in 1 .. Len(old) : old[i] = sources[j].label}
    BY <1>5 DEF BlocksOf
  <2>4. ASSUME NEW i \in BlocksOf(new, j) PROVE i \in BlocksOf(old, j)
    <3>1. i \in 1 .. Len(old)
      BY <1>1, <1>5, <2>1, <2>2, <2>4
    <3> QED
      BY <1>5, <2>2, <2>3, <2>4, <3>1
  <2>5. ASSUME NEW i \in BlocksOf(old, j) PROVE i \in BlocksOf(new, j)
    <3>1. i \in 1 .. Len(old) /\ i \in 1 .. Len(old) + n
      BY <1>1, <1>5, <2>3, <2>5
    <3> QED
      BY <1>5, <2>2, <2>3, <2>5, <3>1
  <2> QED
    BY <2>2, <2>3, <2>4, <2>5
<1>10. Cardinality(Len(old) + 1 .. Len(old) + n) = n
  BY <1>1, <1>5, Counted
<1>11. ASSUME NEW j \in 1 .. p PROVE Cardinality(BlocksOf(new, j)) = sources[j].blocks
  BY <1>1, <1>7, <1>8, <1>9, <1>10, <1>11
<1>12. ASSUME NEW i \in DOMAIN new PROVE \E j \in 1 .. p : new[i] = sources[j].label
  <2>1. CASE i \in 1 .. Len(old)
    <3>1. PICK j \in 1 .. p - 1 : old[i] = sources[j].label
      BY <1>7, <2>1
    <3> QED
      BY <1>1, <1>5, <2>1, <3>1
  <2>2. CASE i \in Len(old) + 1 .. Len(old) + n
    BY <1>1, <1>5, <2>2
  <2> QED
    BY <1>1, <1>5, <2>1, <2>2
<1>13. ASSUME NEW j PROVE BlocksOf(joined.blocks, j)' = BlocksOf(new, j)
  BY <1>1, <1>2, <1>4 DEF BlocksOf
<1>14. joined'.blocks = new
  BY <1>2, <1>4
<1>15. BlockInv'
  BY <1>1, <1>11, <1>12, <1>13, <1>14 DEF BlockInv
<1> QED
  BY <1>4, <1>14, <1>15

\* The series of the optional metric that the merged sources have.
Earlier ==
    IF joined.metric # <<>> THEN joined.metric
    ELSE [i \in DOMAIN joined.tps |-> [joined.tps[i] EXCEPT !.filled = FALSE]]
LEMMA EarlierFacts ==
    ASSUME SourceInv, CompareInv, PartsInv, ChartInv, stage = "merge"
    PROVE  /\ Earlier \in Seq(Charted)
           /\ Len(Earlier) = Len(joined.tps) /\ DOMAIN Earlier = DOMAIN joined.tps
           /\ \A i \in DOMAIN joined.tps : Earlier[i].of = joined.tps[i].of
           /\ \A i \in DOMAIN Earlier : \E j \in Merged :
                 Earlier[i].of = sources[j].label /\ Earlier[i].filled = sources[j].metric
<1>1. joined.tps \in Seq(Charted) /\ joined.metric \in Seq(Charted)
  BY DEF PartsInv, Merging
<1>2. \A i \in DOMAIN joined.tps : \E j \in Merged : joined.tps[i].of = sources[j].label
  BY DEF ChartInv, Merging
<1>3. CASE joined.metric # <<>>
  BY <1>1, <1>3 DEF Earlier, ChartInv, Merging
<1>4. CASE joined.metric = <<>>
  <2>1. Earlier = [i \in DOMAIN joined.tps |-> [joined.tps[i] EXCEPT !.filled = FALSE]]
    BY <1>4 DEF Earlier
  <2>2. ASSUME NEW i \in DOMAIN joined.tps
        PROVE  /\ Earlier[i] \in Charted
               /\ Earlier[i].of = joined.tps[i].of /\ Earlier[i].filled = FALSE
    <3>1. joined.tps[i] \in Charted
      BY <1>1
    <3>2. Earlier[i] = [joined.tps[i] EXCEPT !.filled = FALSE]
      BY <2>1, Zenon
    <3> QED
      BY <3>1, <3>2 DEF Charted
  <2>3. /\ Earlier \in Seq(Charted)
        /\ Len(Earlier) = Len(joined.tps) /\ DOMAIN Earlier = DOMAIN joined.tps
    <3>1. DOMAIN joined.tps = 1 .. Len(joined.tps) /\ Len(joined.tps) \in Nat /\ DOMAIN Earlier = DOMAIN joined.tps
      BY <1>1, <2>1
    <3>2. Earlier = [i \in 1 .. Len(joined.tps) |-> Earlier[i]]
      BY <2>1, <3>1
    <3>3. \A i \in 1 .. Len(joined.tps) : Earlier[i] \in Charted
      BY <2>2, <3>1
    <3> QED
      BY <3>1, <3>2, <3>3
  <2>4. ASSUME NEW j \in Merged PROVE sources[j].metric = FALSE
    <3>1. /\ sources \in Seq(Readable) /\ Len(sources) \in Nat /\ position \in 2 .. Len(sources) + 1
          /\ DOMAIN sources = 1 .. Len(sources)
      BY DEF SourceInv, CompareInv, Merging
    <3>2. j \in DOMAIN sources
      BY <3>1 DEF Merged
    <3>3. sources[j] \in Reports /\ IsReport(sources[j])
      BY <3>1, <3>2 DEF Readable
    <3>4. ~sources[j].metric
      BY <1>4 DEF ChartInv, Merging
    <3> QED
      BY <3>3, <3>4, JoinAssumption
  <2>5. ASSUME NEW i \in DOMAIN joined.tps
        PROVE  \E j \in Merged : Earlier[i].of = sources[j].label /\ Earlier[i].filled = sources[j].metric
    BY <1>2, <2>2, <2>4
  <2> QED
    BY <2>2, <2>3, <2>5
<1> QED
  BY <1>3, <1>4

LEMMA MergeChart ==
    ASSUME SourceInv, CompareInv, PartsInv, ChartInv, Merge, stage' # "refused"
    PROVE  /\ joined.tps' \in Seq(Charted)
           /\ joined.metric' \in Seq(Charted)
           /\ ChartInv'
<1>0. SUFFICES ASSUME NEW tps, NEW p, NEW r, tps = joined.tps, p = position, r = Incoming
               PROVE  /\ joined.tps' \in Seq(Charted)
                      /\ joined.metric' \in Seq(Charted)
                      /\ ChartInv'
  OBVIOUS
<1> DEFINE new == tps \o Series(r, TRUE)
           charts == Earlier \o Series(r, r.metric)
<1>1. /\ sources' = sources /\ stage = "merge" /\ stage' = "merge" /\ p \in 2 .. Len(sources)
      /\ p \in Nat /\ Merged = 1 .. p - 1 /\ Merged' = 1 .. p /\ r = sources[p] /\ DOMAIN sources = 1 .. Len(sources)
      /\ r.series \in Nat /\ r.series # 0 /\ r.label \in Named /\ r.metric \in BOOLEAN
  BY <1>0, MergeFacts DEF Merged
<1>2. tps \in Seq(Charted) /\ joined'.tps = new /\ joined'.metric = Metric
  <2>1. joined'.tps = joined.tps \o Series(Incoming, TRUE) /\ joined'.metric = Metric
    BY MergeFacts
  <2> QED
    BY <1>0, <1>1, <2>1 DEF PartsInv, Merging
<1>3. r.series \in Nat /\ r.label \in Named /\ r.metric \in BOOLEAN /\ TRUE \in BOOLEAN
  BY <1>1
<1>4. /\ Earlier \in Seq(Charted)
      /\ Len(Earlier) = Len(tps) /\ DOMAIN Earlier = DOMAIN tps
      /\ \A i \in DOMAIN tps : Earlier[i].of = tps[i].of
      /\ \A i \in DOMAIN Earlier : \E j \in Merged :
            Earlier[i].of = sources[j].label /\ Earlier[i].filled = sources[j].metric
  BY <1>0, <1>1, EarlierFacts
<1>5. /\ Len(tps) \in Nat /\ new \in Seq(Charted)
      /\ Len(new) = Len(tps) + r.series
      /\ DOMAIN tps = 1 .. Len(tps) /\ DOMAIN new = 1 .. Len(tps) + r.series
      /\ \A i \in DOMAIN tps : new[i] = tps[i]
      /\ \A i \in DOMAIN new : i > Len(tps) => new[i].of = r.label
  <2>1. ASSUME NEW f, f \in BOOLEAN
        PROVE  /\ Len(tps) \in Nat /\ tps \o Series(r, f) \in Seq(Charted)
               /\ Len(tps \o Series(r, f)) = Len(tps) + r.series
               /\ DOMAIN tps = 1 .. Len(tps) /\ DOMAIN (tps \o Series(r, f)) = 1 .. Len(tps) + r.series
               /\ \A i \in DOMAIN tps : (tps \o Series(r, f))[i] = tps[i]
               /\ \A i \in DOMAIN (tps \o Series(r, f)) : i > Len(tps) => (tps \o Series(r, f))[i].of = r.label
    BY <1>2, <1>3, <2>1, AddSeries
  <2> QED
    BY <2>1
<1>6. /\ charts \in Seq(Charted)
      /\ Len(charts) = Len(Earlier) + r.series
      /\ DOMAIN charts = 1 .. Len(Earlier) + r.series
      /\ \A i \in DOMAIN Earlier : charts[i] = Earlier[i]
      /\ \A i \in DOMAIN charts : i > Len(Earlier) => charts[i].of = r.label /\ charts[i].filled = r.metric
  BY <1>3, <1>4, AddSeries
<1>7. Metric = IF joined.metric = <<>> /\ ~r.metric THEN <<>> ELSE charts
  BY <1>0 DEF Metric, Earlier
<1> HIDE DEF new, charts
<1>8. joined.tps' \in Seq(Charted) /\ joined.metric' \in Seq(Charted)
  BY <1>2, <1>5, <1>6, <1>7
<1>9. ASSUME NEW i \in DOMAIN joined'.tps
      PROVE  \E j \in 1 .. p : joined'.tps[i].of = sources[j].label
  <2>1. CASE i \in DOMAIN tps
    <3>1. PICK j \in 1 .. p - 1 : tps[i].of = sources[j].label
      BY <1>0, <1>1, <2>1 DEF ChartInv, Merging
    <3> QED
      BY <1>1, <1>2, <1>5, <2>1, <3>1
  <2>2. CASE i \notin DOMAIN tps
    BY <1>1, <1>2, <1>5, <2>2
  <2> QED
    BY <2>1, <2>2
<1>10. ASSUME NEW j \in 1 .. p
      PROVE  Cardinality(SeriesOf(new, j)) = sources[j].series
  <2>1. \A k \in 1 .. p - 1 : sources[k].label # r.label
    BY <1>1 DEF CompareInv, Merging
  <2>2. CASE j = p
    <3>1. \A i \in DOMAIN tps : tps[i].of # r.label
      BY <1>0, <1>1, <2>1 DEF ChartInv, Merging
    <3>2. SeriesOf(new, j) = Len(tps) + 1 .. Len(tps) + r.series
      <4>1. \A i \in 1 .. Len(tps) + r.series :
               new[i].of = r.label <=> i \in Len(tps) + 1 .. Len(tps) + r.series
        BY <1>1, <1>5, <3>1
      <4>2. SeriesOf(new, j) = {i \in 1 .. Len(tps) + r.series : new[i].of = r.label}
        BY <1>1, <1>5, <2>2 DEF SeriesOf
      <4> QED
        BY <1>1, <1>5, <4>1, <4>2
    <3> QED
      BY <1>1, <1>5, <2>2, <3>2, Counted
  <2>3. CASE j # p
    <3>1. j \in 1 .. p - 1
      BY <1>1, <2>3
    <3>2. SeriesOf(new, j) = SeriesOf(tps, j)
      <4>1. \A i \in 1 .. Len(tps) : new[i].of = tps[i].of
        BY <1>5
      <4>2. \A i \in 1 .. Len(tps) + r.series : i > Len(tps) => new[i].of # sources[j].label
        BY <1>5, <2>1, <3>1
      <4>3. SeriesOf(new, j) = {i \in 1 .. Len(tps) + r.series : new[i].of = sources[j].label}
        BY <1>5 DEF SeriesOf
      <4>4. SeriesOf(tps, j) = {i \in 1 .. Len(tps) : tps[i].of = sources[j].label}
        BY <1>5 DEF SeriesOf
      <4>5. ASSUME NEW i \in SeriesOf(new, j) PROVE i \in SeriesOf(tps, j)
        <5>1. i \in 1 .. Len(tps) + r.series /\ ~(i > Len(tps))
          BY <4>2, <4>3, <4>5
        <5>2. i \in 1 .. Len(tps)
          BY <1>1, <1>5, <5>1
        <5> QED
          BY <4>1, <4>3, <4>4, <4>5, <5>2
      <4>6. ASSUME NEW i \in SeriesOf(tps, j) PROVE i \in SeriesOf(new, j)
        <5>1. i \in 1 .. Len(tps)
          BY <4>4, <4>6
        <5>2. i \in 1 .. Len(tps) + r.series
          BY <1>1, <1>5, <5>1
        <5> QED
          BY <4>1, <4>3, <4>4, <4>6, <5>1, <5>2
      <4> QED
        BY <4>3, <4>4, <4>5, <4>6
    <3> QED
      BY <1>0, <1>1, <3>1, <3>2 DEF ChartInv, Merging
  <2> QED
    BY <2>2, <2>3
<1>11. ASSUME joined'.metric = <<>>, NEW j \in 1 .. p
       PROVE  ~sources[j].metric
  <2>1. charts # <<>>
    BY <1>1, <1>4, <1>5, <1>6
  <2>2. joined.metric = <<>> /\ ~r.metric
    BY <1>2, <1>7, <1>11, <2>1
  <2>3. j = p \/ j \in 1 .. p - 1
    BY <1>1
  <2> QED
    BY <1>1, <2>2, <2>3 DEF ChartInv, Merging
<1>12. ASSUME joined'.metric # <<>>
       PROVE  /\ Len(joined'.metric) = Len(joined'.tps)
              /\ \A i \in DOMAIN joined'.tps : joined'.metric[i].of = joined'.tps[i].of
  <2>1. joined'.metric = charts
    BY <1>2, <1>7, <1>12
  <2>2. ASSUME NEW i \in DOMAIN new PROVE charts[i].of = new[i].of
    <3>1. CASE i \in DOMAIN tps
      BY <1>4, <1>5, <1>6, <3>1
    <3>2. CASE i \notin DOMAIN tps
      BY <1>1, <1>4, <1>5, <1>6, <3>2
    <3> QED
      BY <3>1, <3>2
  <2> QED
    BY <1>2, <1>4, <1>5, <1>6, <2>1, <2>2
<1>13. ASSUME NEW i \in DOMAIN joined'.metric
       PROVE  \E j \in 1 .. p : joined'.metric[i].of = sources[j].label /\ joined'.metric[i].filled = sources[j].metric
  <2>1. joined'.metric = charts
    BY <1>2, <1>7, <1>13
  <2>2. CASE i \in DOMAIN Earlier
    <3>1. PICK j \in 1 .. p - 1 : Earlier[i].of = sources[j].label /\ Earlier[i].filled = sources[j].metric
      BY <1>1, <1>4, <2>2
    <3> QED
      BY <1>1, <1>6, <2>1, <2>2, <3>1
  <2>3. CASE i \notin DOMAIN Earlier
    <3>1. i > Len(Earlier)
      BY <1>1, <1>4, <1>5, <1>6, <1>13, <2>1, <2>3
    <3> QED
      BY <1>1, <1>6, <2>1, <3>1
  <2> QED
    BY <2>2, <2>3
<1>14. ASSUME NEW j PROVE SeriesOf(joined.tps, j)' = SeriesOf(new, j)
  BY <1>1, <1>2 DEF SeriesOf
<1>15. ChartInv'
  BY <1>1, <1>2, <1>9, <1>10, <1>11, <1>12, <1>13, <1>14 DEF ChartInv
<1> QED
  BY <1>8, <1>15

-----------------------------------------------------------------------------
(* The lists with the merged source.                                       *)
LEMMA RowsFacts ==
    ASSUME SourceInv, CompareInv, PartsInv, ListInv, Merge, stage' # "refused", NEW step \in Steps(Baseline)
    PROVE  Rows(step) \in Seq(Named) /\ Lists(Rows(step), Shown(step)')
<1>0. SUFFICES ASSUME NEW p, NEW row, p = position, row = joined.rows[step]
               PROVE  Rows(step) \in Seq(Named) /\ Lists(Rows(step), Shown(step)')
  OBVIOUS
<1>1. /\ sources' = sources /\ stage = "merge" /\ p \in 2 .. Len(sources) /\ p \in Nat /\ Len(sources) \in Nat
      /\ p \in DOMAIN sources /\ 1 \in DOMAIN sources /\ DOMAIN sources = 1 .. Len(sources)
      /\ Merged = 1 .. p - 1 /\ Merged' = 1 .. p /\ Incoming = sources[p] /\ Incoming.label \in Named
      /\ Baseline = sources[1] /\ Baseline' = Baseline /\ Baseline.label \in Named
  <2>1. 1 \in DOMAIN sources /\ Baseline = sources[1]
    BY MergeFacts DEF Baseline
  <2>2. Baseline.label \in Named
    BY <2>1 DEF Named
  <2>3. sources' = sources /\ Baseline' = Baseline
    BY MergeFacts DEF Baseline
  <2> QED
    BY <1>0, <2>1, <2>2, <2>3, MergeFacts DEF Merged
<1>2. row \in Seq(Named) /\ Lists(row, Shown(step))
  BY <1>0, <1>1 DEF PartsInv, ListInv, Merging
<1>3. Differing(step) \subseteq 2 .. p - 1
  <2>1. Agree(Baseline, Baseline, step)
    BY DEF Agree, Steps
  <2> QED
    BY <1>1, <2>1 DEF Differing
<1>4. Shown(step) \in SUBSET (1 .. p - 1)
  BY <1>1, <1>3 DEF Shown
<1>5. CASE Agree(Baseline, Incoming, step)
  <2>1. Differing(step)' = Differing(step)
    BY <1>1, <1>5 DEF Differing
  <2>2. Shown(step)' = Shown(step) /\ Rows(step) = row
    BY <1>0, <1>5, <2>1 DEF Shown, Rows
  <2> QED
    BY <1>2, <2>2
<1>6. CASE ~Agree(Baseline, Incoming, step)
  <2>1. Differing(step)' = Differing(step) \cup {p}
    BY <1>1, <1>6 DEF Differing
  <2>2. Shown(step)' = {1} \cup Differing(step) \cup {p}
    BY <2>1 DEF Shown
  <2>3. CASE row = <<>>
    <3>1. Shown(step) = {}
      <4>1. {row[i] : i \in DOMAIN row} = {}
        BY <2>3
      <4>2. {sources[j].label : j \in Shown(step)} = {}
        BY <1>2, <4>1 DEF Lists
      <4> QED
        BY <4>2
    <3>2. Shown(step)' = {1} \cup {p}
      BY <2>2, <3>1 DEF Shown
    <3>3. Rows(step) = Append(<<Baseline.label>>, sources[p].label)
      BY <1>0, <1>1, <1>6, <2>3 DEF Rows
    <3>4. <<Baseline.label>> \in Seq(Named) /\ {1} \in SUBSET (1 .. p - 1) /\ Lists(<<Baseline.label>>, {1})
      <4>1. Lists(<<sources[1].label>>, {1})
        BY <1>1, ListsFirst
      <4> QED
        BY <1>1, <4>1
    <3>5. Lists(Append(<<Baseline.label>>, sources[p].label), {1} \cup {p})
      BY <1>1, <3>4, ListsAppend DEF Merging
    <3>6. Append(<<Baseline.label>>, sources[p].label) \in Seq(Named)
      BY <1>1, <3>4
    <3> QED
      BY <3>2, <3>3, <3>5, <3>6
  <2>4. CASE row # <<>>
    <3>1. Shown(step) # {}
      BY <1>2, <2>4 DEF Lists
    <3>2. Shown(step)' = Shown(step) \cup {p}
      BY <2>2, <3>1 DEF Shown
    <3>3. Rows(step) = Append(row, sources[p].label)
      BY <1>0, <1>1, <1>6, <2>4 DEF Rows
    <3>4. Lists(Append(row, sources[p].label), Shown(step) \cup {p})
      BY <1>1, <1>2, <1>4, ListsAppend DEF Merging
    <3> QED
      BY <1>1, <1>2, <3>2, <3>3, <3>4
  <2> QED
    BY <2>3, <2>4
<1> QED
  BY <1>5, <1>6

LEMMA MergeLists ==
    ASSUME SourceInv, CompareInv, PartsInv, ListInv, Merge, stage' # "refused"
    PROVE  ListInv'
<1>0. SUFFICES ASSUME NEW p, p = position
               PROVE  ListInv'
  OBVIOUS
<1>1. /\ sources' = sources /\ stage = "merge" /\ p \in 2 .. Len(sources) /\ p \in Nat /\ Len(sources) \in Nat
      /\ p \in DOMAIN sources /\ Merged = 1 .. p - 1 /\ Merged' = 1 .. p /\ Incoming = sources[p]
      /\ Merged \in SUBSET (1 .. p - 1)
  BY <1>0, MergeFacts DEF Merged
<1>2. Baseline' = Baseline /\ Steps(Baseline)' = Steps(Baseline)
  BY <1>1 DEF Baseline, Steps
<1>3. Lists(joined.outputs, Merged)'
  <2>1. joined.outputs \in Seq(Named) /\ Lists(joined.outputs, Merged)
    BY <1>1 DEF PartsInv, ListInv, Merging
  <2>2. Lists(Append(joined.outputs, sources[p].label), Merged \cup {p})
    BY <1>1, <2>1, ListsAppend DEF Merging
  <2>3. joined'.outputs = Append(joined.outputs, sources[p].label)
    BY <1>1, MergeFacts
  <2>4. Merged' = Merged \cup {p}
    BY <1>1
  <2>5. Lists(joined'.outputs, Merged')
    BY <2>2, <2>3, <2>4
  <2> QED
    BY <1>1, <2>5 DEF Lists
<1>4. Lists(joined.logs, {j \in Merged : sources[j].logs})'
  <2> DEFINE chosen == {j \in Merged : sources[j].logs}
  <2>1. joined.logs \in Seq(Named) /\ Lists(joined.logs, chosen) /\ chosen \in SUBSET (1 .. p - 1)
    BY <1>1 DEF PartsInv, ListInv, Merging
  <2>2. joined'.logs = IF sources[p].logs THEN Append(joined.logs, sources[p].label) ELSE joined.logs
    BY <1>1, MergeFacts
  <2>3. {j \in Merged : sources[j].logs}' = IF sources[p].logs THEN chosen \cup {p} ELSE chosen
    BY <1>1
  <2> HIDE DEF chosen
  <2>4. Lists(Append(joined.logs, sources[p].label), chosen \cup {p})
    BY <1>1, <2>1, ListsAppend DEF Merging
  <2>5. Lists(joined'.logs, {j \in Merged : sources[j].logs}')
    BY <2>1, <2>2, <2>3, <2>4
  <2> QED
    BY <1>1, <2>5 DEF Lists
<1>5. ASSUME NEW step \in Steps(Baseline) PROVE Lists(joined.rows[step], Shown(step))'
  <2>1. joined'.rows[step] = Rows(step)
    BY MergeFacts
  <2>2. Lists(joined'.rows[step], Shown(step)')
    BY <2>1, RowsFacts
  <2> QED
    BY <1>1, <2>2 DEF Lists
<1> QED
  BY <1>2, <1>3, <1>4, <1>5 DEF ListInv

LEMMA MergeParts ==
    ASSUME SourceInv, CompareInv, PartsInv, ChartInv, BlockInv, ListInv, Merge, stage' # "refused"
    PROVE  PartsInv'
<1>1. /\ sources' = sources /\ stage = "merge" /\ stage' = "merge" /\ Incoming.label \in Named
      /\ joined'.snapshots = <<>>
      /\ joined' = [tps |-> joined'.tps, metric |-> joined'.metric, outputs |-> joined'.outputs,
                    logs |-> joined'.logs, rows |-> joined'.rows, blocks |-> joined'.blocks,
                    snapshots |-> joined'.snapshots]
  BY MergeFacts
<1>2. Named' = Named /\ Charted' = Charted /\ Baseline' = Baseline /\ Steps(Baseline)' = Steps(Baseline)
  BY <1>1 DEF Named, Charted, Baseline, Steps
<1>3. joined'.outputs \in Seq(Named) /\ joined'.logs \in Seq(Named)
  <2>1. /\ joined'.outputs = Append(joined.outputs, Incoming.label)
        /\ joined'.logs = IF Incoming.logs THEN Append(joined.logs, Incoming.label) ELSE joined.logs
    BY MergeFacts
  <2>2. joined.outputs \in Seq(Named) /\ joined.logs \in Seq(Named)
    BY <1>1 DEF PartsInv, Merging
  <2> QED
    BY <1>1, <2>1, <2>2
<1>4. joined'.rows \in [Steps(Baseline) -> Seq(Named)]
  <2>1. joined'.rows = [step \in Steps(Baseline) |-> Rows(step)]
    BY MergeFacts
  <2>2. \A step \in Steps(Baseline) : Rows(step) \in Seq(Named)
    BY RowsFacts
  <2> QED
    BY <2>1, <2>2
<1>5. joined'.tps \in Seq(Charted) /\ joined'.metric \in Seq(Charted) /\ joined'.blocks \in Seq(Named)
  BY MergeChart, MergeBlocks
<1> QED
  BY <1>1, <1>2, <1>3, <1>4, <1>5 DEF PartsInv

-----------------------------------------------------------------------------
(* The snapshots complete the report.                                      *)
LEMMA SectionsKeep ==
    ASSUME JoinInv, Sections
    PROVE  JoinInv'
<1>1. /\ sources \in Seq(Readable) /\ Len(sources) \in Nat /\ DOMAIN sources = 1 .. Len(sources)
      /\ stage = "merge" /\ stage' = "joined" /\ UNCHANGED <<files, reference, sources, position>>
      /\ position = Len(sources) + 1 /\ joined' = [joined EXCEPT !.snapshots = Snapshots]
  BY DEF JoinInv, SourceInv, CompareInv, Merging, Sections
<1>2. /\ Named' = Named /\ Charted' = Charted /\ Baseline' = Baseline /\ Merged' = Merged
      /\ Steps(Baseline)' = Steps(Baseline) /\ Snapshots' = Snapshots
  BY <1>1 DEF Named, Charted, Baseline, Merged, Steps, Snapshots
<1>3. joined = [tps |-> joined.tps, metric |-> joined.metric, outputs |-> joined.outputs,
                logs |-> joined.logs, rows |-> joined.rows, blocks |-> joined.blocks,
                snapshots |-> joined.snapshots]
  BY <1>1 DEF JoinInv, PartsInv, Merging
<1>4. /\ joined'.tps = joined.tps /\ joined'.metric = joined.metric /\ joined'.outputs = joined.outputs
      /\ joined'.logs = joined.logs /\ joined'.rows = joined.rows /\ joined'.blocks = joined.blocks
      /\ joined'.snapshots = Snapshots
      /\ joined' = [tps |-> joined'.tps, metric |-> joined'.metric, outputs |-> joined'.outputs,
                    logs |-> joined'.logs, rows |-> joined'.rows, blocks |-> joined'.blocks,
                    snapshots |-> joined'.snapshots]
  <2> SUFFICES ASSUME NEW shots, shots = Snapshots
               PROVE  /\ joined'.tps = joined.tps /\ joined'.metric = joined.metric
                      /\ joined'.outputs = joined.outputs /\ joined'.logs = joined.logs
                      /\ joined'.rows = joined.rows /\ joined'.blocks = joined.blocks
                      /\ joined'.snapshots = shots
                      /\ joined' = [tps |-> joined'.tps, metric |-> joined'.metric, outputs |-> joined'.outputs,
                                    logs |-> joined'.logs, rows |-> joined'.rows, blocks |-> joined'.blocks,
                                    snapshots |-> joined'.snapshots]
    OBVIOUS
  <2> QED
    BY <1>1, <1>3
<1>5. SourceInv' /\ StartInv'
  BY <1>1, SourcesStay DEF JoinInv, StartInv
<1>6. CompareInv'
  BY <1>1, <1>2 DEF JoinInv, CompareInv, Merging
<1>7. PartsInv'
  BY <1>1, <1>2, <1>4 DEF JoinInv, PartsInv, Merging
<1>8. \A j : SeriesOf(joined.tps, j)' = SeriesOf(joined.tps, j) /\ BlocksOf(joined.blocks, j)' = BlocksOf(joined.blocks, j)
  BY <1>1, <1>4 DEF SeriesOf, BlocksOf
<1>9. ChartInv'
  BY <1>1, <1>2, <1>4, <1>8 DEF JoinInv, ChartInv, Merging
<1>10. BlockInv'
  BY <1>1, <1>2, <1>4, <1>8 DEF JoinInv, BlockInv, Merging
<1>11. ListInv'
  <2>1. Lists(joined.outputs, Merged)'
    <3>1. Lists(joined'.outputs, Merged') /\ sources' = sources
      BY <1>1, <1>2, <1>4 DEF JoinInv, ListInv, Merging
    <3> QED
      BY <3>1 DEF Lists
  <2>2. Lists(joined.logs, {j \in Merged : sources[j].logs})'
    <3>1. {j \in Merged : sources[j].logs}' = {j \in Merged : sources[j].logs}
      BY <1>1, <1>2
    <3>2. Lists(joined'.logs, {j \in Merged : sources[j].logs}') /\ sources' = sources
      BY <1>1, <1>4, <3>1 DEF JoinInv, ListInv, Merging
    <3> QED
      BY <3>2 DEF Lists
  <2>3. ASSUME NEW step \in Steps(Baseline) PROVE Lists(joined.rows[step], Shown(step))'
    <3>1. Shown(step)' = Shown(step)
      BY <1>1, <1>2 DEF Shown, Differing
    <3>2. Lists(joined'.rows[step], Shown(step)')
      BY <1>1, <1>4, <3>1 DEF JoinInv, ListInv, Merging
    <3> QED
      BY <1>1, <3>2 DEF Lists
  <2> QED
    BY <1>2, <2>1, <2>2, <2>3 DEF ListInv
<1> QED
  BY <1>5, <1>6, <1>7, <1>9, <1>10, <1>11 DEF JoinInv

LEMMA JoinKept ==
    ASSUME JoinInv, JoinStep
    PROVE  JoinInv'
<1>1. CASE Load
  <2>1. SourceInv' /\ StartInv'
    BY <1>1, SourcesLoaded DEF JoinInv, StartInv, Load
  <2>2. stage' \notin {"merge", "joined"}
    BY <1>1 DEF Load
  <2> QED
    BY <2>1, <2>2 DEF JoinInv, CompareInv, PartsInv, ChartInv, BlockInv, ListInv, Merging
<1>2. CASE Loaded
  <2>1. SourceInv' /\ StartInv'
    BY <1>2, SourcesKnown DEF JoinInv, StartInv, Loaded
  <2>2. stage' \notin {"merge", "joined"}
    BY <1>2 DEF Loaded
  <2> QED
    BY <2>1, <2>2 DEF JoinInv, CompareInv, PartsInv, ChartInv, BlockInv, ListInv, Merging
<1>3. CASE (Check \/ Merge) /\ stage' = "refused"
  <2>1. SourceInv' /\ StartInv'
    BY <1>3, SourcesStay DEF JoinInv, StartInv
  <2> QED
    BY <1>3, <2>1 DEF JoinInv, CompareInv, PartsInv, ChartInv, BlockInv, ListInv, Merging
<1>4. CASE Check /\ stage' # "refused"
  <2>1. SourceInv' /\ StartInv'
    BY <1>4, SourcesStay, CheckFacts DEF JoinInv, StartInv
  <2> QED
    BY <1>4, <2>1, CheckCompares, CheckBegins, CheckLists DEF JoinInv
<1>5. CASE Merge /\ stage' # "refused"
  <2>1. SourceInv' /\ StartInv'
    BY <1>5, SourcesStay, MergeFacts DEF JoinInv, StartInv
  <2> QED
    BY <1>5, <2>1, MergeCompares, MergeParts, MergeChart, MergeBlocks, MergeLists DEF JoinInv
<1>6. CASE Sections
  BY <1>6, SectionsKeep
<1> QED
  BY <1>1, <1>2, <1>3, <1>4, <1>5, <1>6 DEF JoinStep

\* Nothing else touches the join.
LEMMA JoinStays ==
    ASSUME JoinInv, UNCHANGED joinVars
    PROVE  JoinInv'
<1>1. UNCHANGED <<stage, files, reference, sources, position, joined>>
  BY DEF joinVars
<1>2. /\ Named' = Named /\ Charted' = Charted /\ Baseline' = Baseline /\ Merged' = Merged
      /\ Steps(Baseline)' = Steps(Baseline) /\ Snapshots' = Snapshots
  BY <1>1 DEF Named, Charted, Baseline, Merged, Steps, Snapshots
<1>3. ASSUME NEW i PROVE Order(i)' = Order(i)
  BY <1>1 DEF Order
<1>4. SourceInv' /\ StartInv'
  BY <1>1, <1>2, <1>3 DEF JoinInv, SourceInv, StartInv, Selected, Readable, IsReport, Stages
<1>5. CompareInv' /\ PartsInv'
  BY <1>1, <1>2 DEF JoinInv, CompareInv, PartsInv, Merging
<1>6. \A j : SeriesOf(joined.tps, j)' = SeriesOf(joined.tps, j) /\ BlocksOf(joined.blocks, j)' = BlocksOf(joined.blocks, j)
  BY <1>1 DEF SeriesOf, BlocksOf
<1>7. ChartInv' /\ BlockInv'
  BY <1>1, <1>2, <1>6 DEF JoinInv, ChartInv, BlockInv, Merging
<1>8. ListInv'
  <2> SUFFICES ASSUME Merging PROVE ListInv'
    BY <1>1 DEF ListInv, Merging
  <2>1. Lists(joined.outputs, Merged)'
    BY <1>1, <1>2 DEF JoinInv, ListInv, Lists
  <2>2. Lists(joined.logs, {j \in Merged : sources[j].logs})'
    BY <1>1, <1>2 DEF JoinInv, ListInv, Lists
  <2>3. ASSUME NEW step \in Steps(Baseline) PROVE Lists(joined.rows[step], Shown(step))'
    <3>1. Shown(step)' = Shown(step)
      BY <1>1, <1>2 DEF Shown, Differing
    <3>2. Lists(joined'.rows[step], Shown(step)')
      BY <1>1, <3>1 DEF JoinInv, ListInv
    <3> QED
      BY <1>1, <3>2 DEF Lists
  <2> QED
    BY <1>2, <2>1, <2>2, <2>3 DEF ListInv
<1> QED
  BY <1>4, <1>5, <1>7, <1>8 DEF JoinInv

LEMMA JoinBegins ==
    ASSUME Selected, JoinInit
    PROVE  JoinInv
<1>1. Count \in Nat /\ stage = "load" /\ sources = <<>> /\ position = 1 /\ joined = Blank
  BY JoinAssumption DEF JoinInit
<1>2. SourceInv /\ StartInv
  BY <1>1 DEF SourceInv, StartInv, Stages
<1> QED
  BY <1>1, <1>2 DEF JoinInv, CompareInv, PartsInv, ChartInv, BlockInv, ListInv, Merging

-----------------------------------------------------------------------------
(* What is joined is faithful.                                             *)
LEMMA JoinedFacts ==
    ASSUME JoinInv, stage = "joined"
    PROVE  /\ sources \in Seq(Readable) /\ Len(sources) \in Nat /\ Len(sources) >= 2
           /\ DOMAIN sources = 1 .. Len(sources) /\ Merged = DOMAIN sources
           /\ 1 \in DOMAIN sources /\ 2 \in DOMAIN sources
           /\ \A i, j \in DOMAIN sources : sources[i].label = sources[j].label => i = j
           /\ \A j \in DOMAIN sources : sources[j].schema = Baseline.schema
           /\ \A j \in DOMAIN sources : j # 1 => Comparable(Baseline, sources[j])
           /\ DOMAIN joined.rows = Steps(Baseline)
           /\ joined.metric \in Seq(Charted) /\ joined.tps \in Seq(Charted)
<1>1. sources \in Seq(Readable) /\ Len(sources) >= 2 /\ position = Len(sources) + 1
  BY DEF JoinInv, SourceInv, CompareInv, Merging
<1>2. /\ Len(sources) \in Nat /\ DOMAIN sources = 1 .. Len(sources) /\ Merged = DOMAIN sources
      /\ 1 \in DOMAIN sources /\ 2 \in DOMAIN sources
  BY <1>1 DEF Merged
<1>3. \A j \in DOMAIN sources : j # 1 => Comparable(Baseline, sources[j])
  BY <1>1, <1>2 DEF JoinInv, CompareInv, Merging
<1> QED
  BY <1>1, <1>2, <1>3 DEF JoinInv, CompareInv, PartsInv, Merging

LEMMA JoinedAligned ==
    ASSUME JoinInv
    PROVE  SeriesAligned
<1> SUFFICES ASSUME stage = "joined", joined.metric # <<>>
             PROVE  /\ Len(joined.metric) = Len(joined.tps)
                    /\ \A i \in DOMAIN joined.tps :
                          /\ joined.metric[i].of = joined.tps[i].of
                          /\ \A j \in DOMAIN sources : sources[j].label = joined.metric[i].of
                                 => joined.metric[i].filled = sources[j].metric
  BY DEF SeriesAligned
<1>1. /\ Len(joined.metric) = Len(joined.tps)
      /\ \A i \in DOMAIN joined.tps : joined.metric[i].of = joined.tps[i].of
  BY DEF JoinInv, ChartInv, Merging
<1>2. DOMAIN joined.metric = DOMAIN joined.tps
  BY <1>1, JoinedFacts
<1>3. ASSUME NEW i \in DOMAIN joined.tps, NEW j \in DOMAIN sources, sources[j].label = joined.metric[i].of
      PROVE  joined.metric[i].filled = sources[j].metric
  <2>1. PICK k \in Merged : joined.metric[i].of = sources[k].label /\ joined.metric[i].filled = sources[k].metric
    BY <1>2 DEF JoinInv, ChartInv, Merging
  <2>2. k = j
    BY <1>3, <2>1, JoinedFacts
  <2> QED
    BY <2>1, <2>2
<1> QED
  BY <1>1, <1>3

LEMMA JoinedDifferences ==
    ASSUME JoinInv
    PROVE  DifferencesShown
<1> SUFFICES ASSUME stage = "joined", NEW step \in DOMAIN joined.rows
             PROVE  LET differing == {j \in DOMAIN sources : ~Agree(Baseline, sources[j], step)}
                    IN  Lists(joined.rows[step], IF differing = {} THEN {} ELSE {1} \cup differing)
  BY DEF DifferencesShown
<1>1. Lists(joined.rows[step], Shown(step))
  BY JoinedFacts DEF JoinInv, ListInv, Merging
<1>2. Differing(step) = {j \in DOMAIN sources : ~Agree(Baseline, sources[j], step)}
  BY JoinedFacts DEF Differing
<1> QED
  BY <1>1, <1>2 DEF Shown

LEMMA JoinedComparable ==
    ASSUME JoinInv
    PROVE  SourcesComparable
<1> SUFFICES ASSUME stage = "joined", NEW i \in DOMAIN sources, NEW j \in DOMAIN sources
             PROVE  /\ sources[i].schema = sources[j].schema
                    /\ Steps(sources[i]) = Steps(sources[j])
                    /\ \A path \in Required : Agree(sources[i], sources[j], path)
  BY DEF SourcesComparable
<1>1. sources[i].schema = sources[j].schema
  BY JoinedFacts
<1>2. ASSUME NEW k \in DOMAIN sources
      PROVE  Steps(sources[k]) = Steps(Baseline) /\ \A path \in Required : Agree(Baseline, sources[k], path)
  <2>1. 2 \in DOMAIN sources /\ \A path \in Required : Agree(Baseline, sources[2], path)
    BY JoinedFacts DEF Comparable
  <2>2. CASE k = 1
    BY <2>1, <2>2 DEF Agree, Baseline
  <2>3. CASE k # 1
    BY <2>3, JoinedFacts DEF Comparable
  <2> QED
    BY <2>2, <2>3
<1>3. ASSUME NEW path \in Required PROVE Agree(sources[i], sources[j], path)
  BY <1>2 DEF Agree
<1> QED
  BY <1>1, <1>2, <1>3

LEMMA JoinedKept ==
    ASSUME JoinInv
    PROVE  SourcesKept
<1> SUFFICES ASSUME stage = "joined" PROVE SourcesKept
  BY DEF SourcesKept
<1>1. /\ {sources[j] : j \in DOMAIN sources} = {f \in Range(files) : IsReport(f)}
      /\ reference # 0 => Baseline = files[reference]
  BY DEF JoinInv, SourceInv
<1>2. Lists(joined.outputs, DOMAIN sources)
  BY JoinedFacts DEF JoinInv, ListInv, Merging
<1>3. Lists(joined.logs, {j \in DOMAIN sources : sources[j].logs})
  <2>1. Merged = DOMAIN sources
    BY JoinedFacts
  <2> QED
    BY <2>1 DEF JoinInv, ListInv, Merging
<1>4. joined.snapshots = <<>> \/ Len(joined.snapshots) = Len(sources)
  BY JoinedFacts DEF JoinInv, PartsInv, Merging, Snapshots
<1>5. ASSUME NEW j \in DOMAIN sources
      PROVE  /\ Cardinality({i \in DOMAIN joined.tps : joined.tps[i].of = sources[j].label}) = sources[j].series
             /\ Cardinality({i \in DOMAIN joined.blocks : joined.blocks[i] = sources[j].label}) = sources[j].blocks
  <2>1. Cardinality(SeriesOf(joined.tps, j)) = sources[j].series
    BY JoinedFacts DEF JoinInv, ChartInv, Merging
  <2>2. Cardinality(BlocksOf(joined.blocks, j)) = sources[j].blocks
    BY JoinedFacts DEF JoinInv, BlockInv, Merging
  <2> QED
    BY <2>1, <2>2 DEF SeriesOf, BlocksOf
<1> QED
  BY <1>1, <1>2, <1>3, <1>4, <1>5 DEF SourcesKept

\* Only the join command joins, in the steps of Join.
OnlyJoin == (task = "join" => JoinInv) /\ (task # "join" => stage = "load")

(* For any reports, any selection and any number of them: a joined report  *)
(* shows what its sources say, of reports that can be compared, and of all *)
(* of them.                                                                *)
THEOREM JoinFaithfulHolds == Spec => []JoinFaithful
<1>1. Init => OnlyJoin
  BY JoinBegins DEF Init, OnlyJoin, JoinInit
<1>2. InvocationInv /\ OnlyJoin /\ [Next]_vars => OnlyJoin'
  <2> SUFFICES ASSUME InvocationInv, OnlyJoin, [Next]_vars PROVE OnlyJoin'
    OBVIOUS
  <2>1. task' = task
    BY OptionsStay DEF given
  <2>2. (JoinReports /\ JoinStep) \/ UNCHANGED joinVars
    BY DEF Next, Terminated, vars, Parse, Inspect, Plan, CheckPlan, Execute, Collect, JoinReports, Point, Monitor,
           Rebuild, Save, Handle, Interrupt, Change
  <2>3. CASE JoinReports /\ JoinStep
    <3>1. task = "join"
      BY <2>3 DEF InvocationInv, FlowInv, JoinReports
    <3> QED
      BY <2>1, <2>3, <3>1, JoinKept DEF OnlyJoin
  <2>4. CASE UNCHANGED joinVars
    BY <2>1, <2>4, JoinStays DEF OnlyJoin, joinVars
  <2> QED
    BY <2>2, <2>3, <2>4
<1>3. OnlyJoin => JoinFaithful
  <2>1. ASSUME JoinInv PROVE JoinFaithful
    BY <2>1, JoinedAligned, JoinedDifferences, JoinedComparable, JoinedKept DEF JoinFaithful
  <2>2. ASSUME stage = "load" PROVE JoinFaithful
    BY <2>2 DEF JoinFaithful, SeriesAligned, DifferencesShown, SourcesComparable, SourcesKept
  <2> QED
    BY <2>1, <2>2 DEF OnlyJoin
<1> QED
  BY InvocationInvHolds, <1>1, <1>2, <1>3, PTL DEF Spec
=============================================================================
