---------------------------- MODULE SeriesProofs ----------------------------
(***************************************************************************)
(* Proofs about the series of points, for any number of iterations, any    *)
(* setups, and failures and cancellations at any of its control points:    *)
(* what is measured is kept, the controller is closed, the checkpoint      *)
(* stays available and the exit code is honest.                            *)
(***************************************************************************)
EXTENDS BenchmarkSeries, TLAPS

-----------------------------------------------------------------------------
(* The inductive invariant, one part per group of variables.               *)

Measuring == {"initialize", "before", "workload", "sampling", "after"}
Writing == {"write", "replace"}
Leaving == {"partial", "monitor", "disconnect", "save"}

\* The session is open from a point's preparation to its end, and beyond it
\* only as the one that is retained for the next point.
HoldInv ==
    /\ held => pc \in {"prepare", "closing", "append", "release"} \cup Measuring \cup Writing
    /\ pc \in {"prepare"} \cup Measuring => held
    /\ pc \in Measuring => retained = (Policy # "each-iteration")
    /\ pc = "open" => ~retained
    /\ (pc = "append") \/ (pc \in Writing /\ status = "running") =>
           retained = held /\ (held => idx < Iterations)
    /\ pc \in Writing /\ (status # "running" \/ idx = 0) => ~held

\* Where the series is decides what is in flight and how many points it has.
ProgressInv ==
    /\ error = NoError \/ error.kind \in Kinds
    /\ pc \in (Awaits \ {"sampling", "closing"}) \cup {"append", "monitor"} => error = NoError
    /\ pc \in {"stop", "release", "partial"} => error # NoError
    /\ pc \in Awaits \cup {"append"} => idx > 0 /\ Len(results) = idx - 1
    /\ pc \in {"release", "stop"} => idx > 0
    /\ pc = "release" => Len(results) = idx
    /\ pc \in Writing /\ status \in {"running", "complete"} => error = NoError /\ Len(results) = idx
    /\ pc \in Writing /\ status \in Kinds => error # NoError /\ idx > 0
    /\ (pc \in Writing /\ status = "complete") \/ (pc = "monitor") =>
           idx = Iterations /\ Len(results) = Iterations
    /\ Len(results) <= idx

\* Whatever went wrong was counted.
FaultInv == (error # NoError) \/ pending \/ ("aborted" \in result) => faults > 0

\* The entries of the point so far, and its sampler.
Loaded == {"init", "before"}
Measured == {"init", "before", "workload"}
PointInv ==
    /\ PointsComplete
    /\ pending => pc \in {"sampling", "killed"}
    /\ pc \in {"workload", "sampling"} =>
           sampler \in IF Sampled THEN {"collecting", "done"} ELSE {"none"}
    /\ pc \in {"open", "prepare", "initialize"} => result = {}
    /\ pc = "before" => result = {"init"}
    /\ pc = "workload" => result = Loaded
    /\ pc = "sampling" => IF error = NoError THEN result \in {Measured, Measured \cup {"aborted"}}
                          ELSE result = Loaded
    /\ pc = "after" => result = FullEvidence \ {"after"}
    /\ (pc = "append") \/ (pc = "closing" /\ error = NoError) => result = FullEvidence

\* The evidence of an iteration that failed is on its exception.
FailureInv ==
    /\ pc \in {"open", "prepare", "initialize", "before", "workload", "after"} => collected = result
    /\ pc = "sampling" => collected = Measured
    /\ pc = "sampling" /\ error # NoError => error.output /\ (pending => faults > 1)
    /\ pc \in {"closing", "stop"} \cup Writing /\ error # NoError /\ faults <= 1 /\ Len(results) < idx =>
           collected \subseteq error.run

\* What the checkpoint and its temporary file hold, and what they lack.
CheckpointInv ==
    /\ pc = "replace" => temp = Payload
    /\ disk.points <= Len(results)
    /\ pc \in Awaits => disk.points = Len(results)
    /\ pc \in Writing /\ (status = "complete" \/ idx = 0) => disk.points = Len(results)
    /\ faults <= 1 /\ pc \in Leaving \cup {"exited"} => disk.points = Len(results)
    /\ pc = "monitor" => disk.status = "complete"
    /\ disk.status \in Kinds =>
           /\ pc \in Leaving \cup Ended
           /\ faults <= 1 /\ Len(results) < idx => collected \subseteq disk.failed

\* The report and the exit code.
ReportInv ==
    /\ report.status = "completed" =>
           /\ Len(results) = Iterations
           /\ pc \in {"disconnect", "save"} \cup Ended
           /\ pc # "killed" => disk.status = "complete"
    /\ report # Absent => pc \in {"disconnect", "save"} \cup Ended
    /\ saved \in {{}, {"json"}, {"json", "html"}}
    /\ exit = "success" => pc = "exited" /\ saved = {"json", "html"} /\ report.status = "completed"

SeriesInv == TypeOK /\ HoldInv /\ ProgressInv /\ FaultInv /\ PointInv /\ FailureInv /\ CheckpointInv /\ ReportInv

-----------------------------------------------------------------------------
(* What an exception is, and where one raised in an iteration leads.       *)

Exceptions == [kind : {"none", "failed", "cancelled"}, output : BOOLEAN,
               run : SUBSET Entries, points : 0 .. Iterations]

LEMMA ErrorFacts ==
    ASSUME NEW kind \in {"none", "failed", "cancelled"}, NEW output \in BOOLEAN
    PROVE  /\ Error(kind, output) \in Exceptions
           /\ Error(kind, output).kind = kind /\ Error(kind, output).output = output
           /\ Error(kind, output).run = {}
<1>1. 0 \in 0 .. Iterations
  BY SeriesAssumption
<1>2. {} \in SUBSET Entries
  OBVIOUS
<1> QED
  BY <1>1, <1>2 DEF Error, Exceptions

LEMMA NoErrorFacts == NoError \in Exceptions /\ NoError.kind = "none"
  BY ErrorFacts DEF NoError

LEMMA AttachFacts ==
    ASSUME NEW raised \in Exceptions, NEW entries \in SUBSET Entries
    PROVE  /\ Attach(raised, entries) \in Exceptions
           /\ Attach(raised, entries).kind = raised.kind
           /\ Attach(raised, entries).points = raised.points
           /\ entries \subseteq Attach(raised, entries).run
           /\ raised.output => "workload" \in Attach(raised, entries).run
<1> DEFINE run == entries \cup IF raised.output THEN {"workload"} ELSE {}
<1>1. run \in SUBSET Entries /\ entries \subseteq run /\ (raised.output => "workload" \in run)
  BY DEF Entries
<1>2. Attach(raised, entries) = [raised EXCEPT !.run = run]
  BY DEF Attach
<1> HIDE DEF run
<1> QED
  BY <1>1, <1>2 DEF Exceptions

LEMMA RaiseFacts ==
    ASSUME TypeOK, NEW point, NEW entries \in SUBSET Entries, NEW open \in BOOLEAN,
           Raise(point, entries, open)
    PROVE  /\ error' \in Exceptions /\ error'.kind \in Kinds /\ error' # NoError
           /\ entries \subseteq error'.run
           /\ pc' = IF open THEN "closing" ELSE "stop"
           /\ faults' = faults + 1 /\ faults < MaxFaults
<1>1. PICK kind \in Kinds : /\ Interrupt(point, kind)
                            /\ error' = Attach(Error(kind, FALSE), entries)
                            /\ LeaveTry(error', open)
  BY DEF Raise
<1>2. Error(kind, FALSE) \in Exceptions /\ Error(kind, FALSE).kind = kind
  BY ErrorFacts DEF Kinds
<1>3. error' \in Exceptions /\ error'.kind = kind /\ entries \subseteq error'.run
  BY <1>1, <1>2, AttachFacts
<1>4. error' # NoError
  BY <1>3, NoErrorFacts DEF Kinds
<1>5. pc' = IF open THEN "closing" ELSE "stop"
  BY <1>1, <1>4 DEF LeaveTry, MustClose
<1> QED
  BY <1>1, <1>3, <1>4, <1>5 DEF Interrupt

-----------------------------------------------------------------------------
(* Types.                                                                  *)

LEMMA TypeInitially == Init => TypeOK
<1> SUFFICES ASSUME Init PROVE TypeOK
  OBVIOUS
<1>1. 0 \in 0 .. Iterations /\ 0 \in 0 .. MaxFaults
  BY SeriesAssumption
<1>2. Absent \in Files
  BY <1>1 DEF Absent, File, Files
<1>3. error \in Exceptions
  BY NoErrorFacts DEF Init
<1>4. results \in Seq([iteration : 1 .. Iterations, entries : SUBSET Entries])
  BY DEF Init
<1>5. temp \in Files /\ disk \in Files /\ report \in Files
  BY <1>2 DEF Init
<1>6. pc \in Points
  BY DEF Init, Points
<1> QED
  BY <1>1, <1>3, <1>4, <1>5, <1>6 DEF Init, TypeOK, Exceptions

LEMMA ControlKept ==
    ASSUME TypeOK, Next
    PROVE  pc' \in Points /\ idx' \in 0 .. Iterations
<1>1. idx' \in 0 .. Iterations
  <2>1. CASE idx' = idx
    BY <2>1 DEF TypeOK
  <2>2. CASE Replace
    BY <2>2, SeriesAssumption DEF Replace, NextIteration, MorePoints, TypeOK
  <2> QED
    BY <2>1, <2>2 DEF Next, Step, Open, Prepare, Initialize, SnapshotBefore, Workload, PutOff,
       FinishSampling, SnapshotAfter, CloseController, AppendPoint, Release, Stop, WriteTemporary,
       WriteFails, PartialReport, Monitor, Disconnect, Save, SamplerStops, SamplerEnds, Kill,
       PowerLoss, Terminated, vars
<1>2. pc' \in Points
  <2> USE DEF Points, Awaits, Ended
  <2>1. ASSUME NEW point, NEW entries, NEW open, Raise(point, entries, open) PROVE pc' \in Points
    BY <2>1 DEF Raise, LeaveTry
  <2>2. ASSUME NEW raised, NEW open, LeaveTry(raised, open) PROVE pc' \in Points
    BY <2>2 DEF LeaveTry
  <2>3. CASE Open \/ Prepare \/ Initialize \/ SnapshotBefore \/ SnapshotAfter
    BY <2>1, <2>2, <2>3 DEF Open, Prepare, Initialize, SnapshotBefore, SnapshotAfter
  <2>4. CASE Workload \/ PutOff \/ FinishSampling \/ CloseController
    BY <2>2, <2>4 DEF Workload, PutOff, FinishSampling, CloseController, TypeOK
  <2>5. CASE AppendPoint \/ Release \/ Stop \/ WriteTemporary \/ Replace \/ WriteFails
    BY <2>5 DEF AppendPoint, Release, Stop, WriteTemporary, Replace, NextIteration, WriteFails, WhereWriteRaises
  <2>6. CASE PartialReport \/ Monitor \/ Disconnect \/ Save
    BY <2>6 DEF PartialReport, Monitor, Disconnect, Save, TypeOK
  <2>7. CASE SamplerStops \/ SamplerEnds \/ Kill \/ PowerLoss \/ Terminated
    BY <2>7 DEF SamplerStops, SamplerEnds, Kill, PowerLoss, Terminated, vars, TypeOK
  <2> QED
    BY <2>3, <2>4, <2>5, <2>6, <2>7 DEF Next, Step
<1> QED
  BY <1>1, <1>2

LEMMA EntriesKept ==
    ASSUME TypeOK, Next
    PROVE  /\ result' \subseteq Entries /\ collected' \subseteq Entries
           /\ sampler' \in {"none", "collecting", "done"}
           /\ held' \in BOOLEAN /\ retained' \in BOOLEAN
           /\ stopping' \in BOOLEAN /\ pending' \in BOOLEAN
<1> USE DEF TypeOK, Entries
<1>1. CASE Open \/ Prepare \/ Initialize \/ SnapshotBefore \/ SnapshotAfter
  BY <1>1 DEF Open, Prepare, Initialize, SnapshotBefore, SnapshotAfter, Add, controller, evidence, sampling
<1>2. CASE Workload \/ PutOff \/ FinishSampling \/ CloseController
  BY <1>2 DEF Workload, PutOff, FinishSampling, CloseController, StopSampling, controller, evidence, sampling
<1>3. CASE AppendPoint \/ Release \/ Stop \/ WriteTemporary \/ Replace \/ WriteFails
  BY <1>3 DEF AppendPoint, Release, Stop, WriteTemporary, Replace, NextIteration, WriteFails, controller,
     evidence, sampling
<1>4. CASE PartialReport \/ Monitor \/ Disconnect \/ Save
  BY <1>4 DEF PartialReport, Monitor, Disconnect, Save, controller, evidence, sampling
<1>5. CASE SamplerStops \/ SamplerEnds \/ Kill \/ PowerLoss \/ Terminated
  BY <1>5 DEF SamplerStops, SamplerEnds, Kill, PowerLoss, Terminated, vars, controller, evidence, sampling
<1> QED
  BY <1>1, <1>2, <1>3, <1>4, <1>5 DEF Next, Step

\* An interruption is counted.
LEMMA InterruptFacts ==
    ASSUME TypeOK, NEW point, NEW kind, Interrupt(point, kind)
    PROVE  faults' = faults + 1 /\ faults < MaxFaults /\ faults' \in 0 .. MaxFaults /\ faults' > 0
BY SeriesAssumption DEF Interrupt, TypeOK

LEMMA ExceptionKept ==
    ASSUME TypeOK, Len(results) <= idx, Next
    PROVE  error' \in Exceptions
<1>1. error \in Exceptions /\ result \in SUBSET Entries /\ held \in BOOLEAN
  BY DEF TypeOK, Exceptions
<1>2. CASE UNCHANGED error
  BY <1>1, <1>2
<1>3. ASSUME NEW point, NEW entries \in SUBSET Entries, NEW open \in BOOLEAN,
             Raise(point, entries, open)
      PROVE  error' \in Exceptions
  BY <1>3, RaiseFacts
<1>4. CASE Open \/ Prepare \/ Initialize \/ SnapshotBefore \/ SnapshotAfter
  BY <1>1, <1>2, <1>3, <1>4 DEF Open, Prepare, Initialize, SnapshotBefore, SnapshotAfter
<1>5. CASE Workload
  BY <1>2, <1>5, ErrorFacts DEF Workload, Kinds
<1>6. CASE FinishSampling
  <2>1. RaisedAfterSampling \in Exceptions
    <3>1. (error.kind = "cancelled" /\ error.output) \in BOOLEAN
      OBVIOUS
    <3> QED
      BY <1>1, <3>1, ErrorFacts DEF RaisedAfterSampling
  <2>2. Error("failed", FALSE) \in Exceptions
    BY ErrorFacts
  <2>3. PICK raised \in Exceptions, entries \in {result, result \cup {"samples"}} :
            error' \in {error, Attach(raised, entries)}
    BY <1>6, <2>1, <2>2 DEF FinishSampling
  <2>4. entries \in SUBSET Entries
    BY <1>1, <2>3 DEF Entries
  <2> QED
    BY <1>1, <2>3, <2>4, AttachFacts
<1>7. CASE CloseController
  <2>1. {"cleanup"} \in SUBSET Entries
    BY DEF Entries
  <2>2. ASSUME NEW kind \in Kinds PROVE Attach(Error(kind, FALSE), {"cleanup"}) \in Exceptions
    BY <2>1, ErrorFacts, AttachFacts DEF Kinds
  <2> QED
    BY <1>2, <1>7, <2>2 DEF CloseController
<1>8. CASE Release
  BY <1>1, <1>8, AttachFacts DEF Release, Entries
<1>9. CASE Stop
  <2>1. Len(results) \in 0 .. Iterations
    BY SeriesAssumption DEF TypeOK
  <2> QED
    BY <1>1, <1>9, <2>1 DEF Stop, AttachPoints, Exceptions
<1>10. CASE WriteFails
  BY <1>10, ErrorFacts DEF WriteFails
<1> QED
  BY <1>2, <1>4, <1>5, <1>6, <1>7, <1>8, <1>9, <1>10 DEF Next, Step, PutOff, AppendPoint, WriteTemporary,
     Replace, PartialReport, Monitor, Disconnect, Save, SamplerStops, SamplerEnds, Kill, PowerLoss,
     Terminated, vars

LEMMA ResultsKept ==
    ASSUME TypeOK, pc \in {"closing", "append"} => idx > 0, Next
    PROVE  results' \in Seq([iteration : 1 .. Iterations, entries : SUBSET Entries])
<1>1. CASE UNCHANGED results
  BY <1>1 DEF TypeOK
<1>2. CASE CloseController \/ AppendPoint
  <2>1. idx > 0
    BY <1>2 DEF CloseController, AppendPoint
  <2>2. Point \in [iteration : 1 .. Iterations, entries : SUBSET Entries]
    BY <2>1, SeriesAssumption DEF Point, TypeOK
  <2> QED
    <3> DEFINE S == [iteration : 1 .. Iterations, entries : SUBSET Entries]
    <3>1. results \in Seq(S) /\ Point \in S
      BY <2>2 DEF TypeOK
    <3>2. UNCHANGED results \/ results' = Append(results, Point)
      BY <1>2 DEF CloseController, AppendPoint, KeepPoint
    <3> HIDE DEF S
    <3>3. results' \in Seq(S)
      BY <3>1, <3>2
    <3> QED
      BY <3>3 DEF S
<1> QED
  BY <1>1, <1>2 DEF Next, Step, Open, Prepare, Initialize, SnapshotBefore, Workload, PutOff,
     FinishSampling, SnapshotAfter, Release, Stop, WriteTemporary, Replace, WriteFails, PartialReport,
     Monitor, Disconnect, Save, SamplerStops, SamplerEnds, Kill, PowerLoss, Terminated, vars

LEMMA StatusKept ==
    ASSUME TypeOK, pc = "stop" => error.kind \in Kinds, Next
    PROVE  /\ status' \in {"running", "complete", "failed", "cancelled"}
           /\ saved' \subseteq {"json", "html"}
           /\ exit' \in {"none", "success", "execution_error", "cancelled"}
           /\ faults' \in 0 .. MaxFaults
<1> USE DEF checkpoint, outcome
<1>1. status' \in {"running", "complete", "failed", "cancelled"}
  BY DEF TypeOK, Kinds, Next, Step, Open, Prepare, Initialize, SnapshotBefore, Workload, PutOff,
     FinishSampling, SnapshotAfter, CloseController, AppendPoint, Release, Stop, WriteTemporary, Replace,
     NextIteration, WriteFails, PartialReport, Monitor, Disconnect, Save, SamplerStops, SamplerEnds, Kill,
     PowerLoss, Terminated, vars
<1>2. saved' \subseteq {"json", "html"} /\ exit' \in {"none", "success", "execution_error", "cancelled"}
  <2>1. CASE UNCHANGED <<saved, exit>>
    BY <2>1 DEF TypeOK
  <2>2. CASE Monitor \/ Disconnect \/ Save
    BY <2>2 DEF Monitor, Disconnect, Save, ExitCode, CodeOfReport, TypeOK
  <2> QED
    BY <2>1, <2>2 DEF Next, Step, Open, Prepare, Initialize, SnapshotBefore, Workload, PutOff,
       FinishSampling, SnapshotAfter, CloseController, AppendPoint, Release, Stop, WriteTemporary, Replace,
       WriteFails, PartialReport, SamplerStops, SamplerEnds, Kill, PowerLoss, Terminated, vars
<1>3. faults' \in 0 .. MaxFaults
  <2>1. CASE UNCHANGED faults
    BY <2>1 DEF TypeOK
  <2>2. ASSUME NEW point, NEW kind, Interrupt(point, kind) PROVE faults' \in 0 .. MaxFaults
    BY <2>2, InterruptFacts
  <2> QED
    BY <2>1, <2>2 DEF Next, Step, Open, Prepare, Initialize, SnapshotBefore, Workload, PutOff, Raise,
       FinishSampling, SnapshotAfter, CloseController, AppendPoint, Release, Stop, WriteTemporary, Replace,
       WriteFails, PartialReport, Monitor, Disconnect, Save, SamplerStops, SamplerEnds, Kill, PowerLoss,
       Terminated, vars
<1> QED
  BY <1>1, <1>2, <1>3

LEMMA FilesKept ==
    ASSUME TypeOK, Len(results) <= idx, pc = "partial" => error.kind \in Kinds, Next
    PROVE  temp' \in Files /\ disk' \in Files /\ report' \in Files
<1>1. /\ error \in Exceptions /\ Len(results) \in 0 .. Iterations /\ 0 \in 0 .. Iterations
      /\ temp \in Files /\ disk \in Files /\ report \in Files
  BY SeriesAssumption DEF TypeOK, Exceptions
<1>2. Absent \in Files /\ Torn \in Files
  BY <1>1 DEF Absent, Torn, File, Files
<1>3. Payload \in Files
  BY <1>1 DEF Payload, File, Files, Exceptions, TypeOK
<1>4. File("completed", Len(results), {}) \in Files
  BY <1>1 DEF File, Files
<1>5. pc = "partial" => File(error.kind, error.points, error.run) \in Files
  BY <1>1 DEF File, Files, Exceptions, Kinds
<1>6. CASE UNCHANGED <<temp, disk, report>>
  BY <1>1, <1>6
<1>7. CASE WriteTemporary \/ Replace \/ WriteFails
  BY <1>1, <1>2, <1>3, <1>7 DEF WriteTemporary, Replace, WriteFails, outcome
<1>8. CASE PartialReport \/ Monitor \/ Disconnect
  BY <1>1, <1>2, <1>4, <1>5, <1>8 DEF PartialReport, Monitor, Disconnect, checkpoint
<1>9. CASE PowerLoss
  BY <1>1, <1>2, <1>9 DEF PowerLoss, outcome
<1> QED
  BY <1>6, <1>7, <1>8, <1>9 DEF Next, Step, Open, Prepare, Initialize, SnapshotBefore, Workload, PutOff,
     FinishSampling, SnapshotAfter, CloseController, AppendPoint, Release, Stop, Save, SamplerStops,
     SamplerEnds, Kill, Terminated, vars, checkpoint, outcome

LEMMA TypeKept ==
    ASSUME SeriesInv, [Next /\ UNCHANGED setup]_<<setup, vars>>
    PROVE  TypeOK'
<1>1. CASE UNCHANGED vars
  BY <1>1 DEF SeriesInv, TypeOK, vars, Entries, Files
<1>2. CASE Next
  <2>1. /\ TypeOK /\ Len(results) <= idx
        /\ pc \in {"closing", "append"} => idx > 0
        /\ pc \in {"stop", "partial"} => error.kind \in Kinds
    BY DEF SeriesInv, ProgressInv, Awaits
  <2> QED
    BY <1>2, <2>1, ControlKept, EntriesKept, ExceptionKept, ResultsKept, StatusKept, FilesKept
       DEF TypeOK, Exceptions
<1> QED
  BY <1>1, <1>2

-----------------------------------------------------------------------------
(* The controller.                                                         *)

LEMMA HoldKept ==
    ASSUME SeriesInv, [Next /\ UNCHANGED setup]_<<setup, vars>>
    PROVE  HoldInv'
<1>0. /\ TypeOK /\ HoldInv /\ (pc = "stop" => error.kind \in Kinds)
      /\ held \in BOOLEAN /\ retained \in BOOLEAN /\ result \in SUBSET Entries
      /\ idx \in 0 .. Iterations /\ Iterations \in Nat \ {0}
      /\ pc \in Awaits \cup {"append"} => idx > 0
  BY SeriesAssumption DEF SeriesInv, TypeOK, ProgressInv
<1>r. ASSUME NEW point, NEW entries \in SUBSET Entries, NEW open \in BOOLEAN, Raise(point, entries, open)
      PROVE  pc' = IF open THEN "closing" ELSE "stop"
  BY <1>0, <1>r, RaiseFacts
<1> USE DEF HoldInv, Measuring, Writing, Policy
<1>1. CASE Open /\ UNCHANGED setup
  BY <1>0, <1>1, <1>r DEF Open, checkpoint
<1>2. CASE Prepare /\ UNCHANGED setup
  BY <1>0, <1>2, <1>r DEF Prepare, checkpoint
<1>3. CASE (Initialize \/ SnapshotBefore) /\ UNCHANGED setup
  BY <1>0, <1>3, <1>r DEF Initialize, SnapshotBefore, checkpoint, controller
<1>4. CASE (Workload \/ PutOff \/ SamplerStops \/ SamplerEnds) /\ UNCHANGED setup
  <2>1. UNCHANGED <<held, retained, idx, status, setup>>
        /\ (pc' = pc \/ (pc = "workload" /\ pc' = "sampling"))
    BY <1>4 DEF Workload, PutOff, SamplerStops, SamplerEnds, checkpoint, controller
  <2> QED
    BY <1>0, <2>1
<1>l. ASSUME NEW raised, LeaveTry(raised, held), held
      PROVE  pc' = "closing" \/ (pc' = "append" /\ Policy # "each-iteration" /\ idx < Iterations)
  <2>1. pc' = "closing" \/ (pc' = "append" /\ Policy # "each-iteration" /\ idx # Iterations)
    BY <1>l DEF LeaveTry, MustClose
  <2> QED
    BY <1>0, <2>1
<1>5. CASE FinishSampling /\ UNCHANGED setup
  <2>1. UNCHANGED <<held, retained, idx, status, setup>> /\ pc = "sampling" /\ held
    BY <1>0, <1>5 DEF FinishSampling, checkpoint, controller
  <2>2. pc' = "after" \/ \E raised : LeaveTry(raised, held)
    BY <1>5 DEF FinishSampling
  <2> QED
    BY <1>0, <1>l, <2>1, <2>2
<1>6. CASE SnapshotAfter /\ UNCHANGED setup
  <2>1. UNCHANGED <<held, retained, idx, status, setup>> /\ pc = "after" /\ held
    BY <1>0, <1>6 DEF SnapshotAfter, checkpoint, controller
  <2>2. pc' = "closing" \/ LeaveTry(NoError, held)
    BY <1>0, <1>6, <1>r, <2>1 DEF SnapshotAfter
  <2> QED
    BY <1>0, <1>l, <2>1, <2>2
<1>7. CASE CloseController /\ UNCHANGED setup
  BY <1>0, <1>7 DEF CloseController, checkpoint
<1>8. CASE AppendPoint /\ UNCHANGED setup
  BY <1>0, <1>8 DEF AppendPoint, controller
<1>9. CASE (Release \/ Stop) /\ UNCHANGED setup
  <2>1. ~held' /\ (pc' = "stop" \/ (pc' = "write" /\ status' \in Kinds))
    BY <1>0, <1>9 DEF Release, Stop, checkpoint, controller
  <2> QED
    BY <2>1 DEF Kinds
<1>10. CASE (WriteTemporary \/ WriteFails) /\ UNCHANGED setup
  <2>1. UNCHANGED <<held, retained, idx, status, setup>> /\ pc \in Writing
    BY <1>10 DEF WriteTemporary, WriteFails, controller
  <2>2. \/ pc' = "replace"
        \/ pc' = "partial" /\ (status # "running" \/ idx = 0)
        \/ pc' = "release" /\ status = "running"
        \/ pc' = "stop" /\ status = "running" /\ ~retained
    BY <1>10 DEF WriteTemporary, WriteFails, WhereWriteRaises
  <2> QED
    BY <1>0, <2>1, <2>2
<1>11. CASE Replace /\ UNCHANGED setup
  BY <1>0, <1>11 DEF Replace, NextIteration, MorePoints, controller
<1>12. CASE (PartialReport \/ Monitor \/ Disconnect \/ Save) /\ UNCHANGED setup
  BY <1>0, <1>12 DEF PartialReport, Monitor, Disconnect, Save, controller, checkpoint
<1>13. CASE (Kill \/ PowerLoss) /\ UNCHANGED setup
  BY <1>0, <1>13 DEF Kill, PowerLoss
<1>14. CASE UNCHANGED <<setup, vars>>
  BY <1>0, <1>14 DEF vars
<1> QED
  BY <1>1, <1>2, <1>3, <1>4, <1>5, <1>6, <1>7, <1>8, <1>9, <1>10, <1>11, <1>12, <1>13, <1>14
     DEF Next, Step, Terminated

-----------------------------------------------------------------------------
(* The progress of the series.                                             *)

LEMMA KeepFacts ==
    ASSUME TypeOK, KeepPoint
    PROVE  /\ Len(results') = Len(results) + 1
           /\ \A i \in 1 .. Len(results) : results'[i] = results[i]
           /\ results'[Len(results) + 1] = Point
BY DEF KeepPoint, TypeOK

\* What is in flight after the sampler: nothing, or an exception that has the
\* result, and the output unless a cancellation was put off.
LEMMA FinishFacts ==
    ASSUME TypeOK, error = NoError \/ error.kind \in Kinds, FinishSampling
    PROVE  \/ /\ error = NoError /\ UNCHANGED error /\ pc' = "after"
              /\ RaisedAfterSampling = NoError /\ "aborted" \notin result
           \/ /\ error'.kind \in Kinds /\ error' # NoError /\ pc' \in {"closing", "stop"}
              /\ result' \subseteq error'.run
              /\ ~pending /\ error.output => "workload" \in error'.run
              /\ ~(RaisedAfterSampling = NoError /\ "aborted" \notin result)
<1>0. error \in Exceptions /\ result \in SUBSET Entries
  BY DEF TypeOK, Exceptions
<1>1. /\ Error("failed", FALSE) \in Exceptions /\ Error("failed", FALSE) # NoError
      /\ Error("failed", FALSE).kind \in Kinds
  BY ErrorFacts, NoErrorFacts DEF Kinds
<1>2. /\ RaisedAfterSampling = NoError => ~pending /\ error = NoError
      /\ RaisedAfterSampling \in Exceptions
      /\ RaisedAfterSampling = NoError \/ RaisedAfterSampling.kind \in Kinds
      /\ ~pending => RaisedAfterSampling = error
  <2>1. CASE pending
    <3>1. (error.kind = "cancelled" /\ error.output) \in BOOLEAN
      OBVIOUS
    <3>2. RaisedAfterSampling \in Exceptions /\ RaisedAfterSampling.kind = "cancelled"
      BY <2>1, <3>1, ErrorFacts DEF RaisedAfterSampling
    <3> QED
      BY <2>1, <3>2, NoErrorFacts DEF Kinds
  <2>2. CASE ~pending
    BY <1>0, <2>2 DEF RaisedAfterSampling
  <2> QED
    BY <2>1, <2>2
<1> DEFINE entries == result \cup (IF sampler = "done" THEN {"samples"} ELSE {})
<1>3. /\ result' = entries
      /\ "aborted" \in entries <=> "aborted" \in result
      /\ entries \in SUBSET Entries
  BY <1>0 DEF FinishSampling, Entries
<1>4. CASE RaisedAfterSampling = NoError /\ "aborted" \notin result
  BY <1>2, <1>3, <1>4 DEF FinishSampling, Aborted
<1>5. CASE ~(RaisedAfterSampling = NoError /\ "aborted" \notin result)
  <2>1. PICK raised \in Exceptions : /\ error' = Attach(raised, entries) /\ LeaveTry(error', held)
                                     /\ raised.kind \in Kinds
                                     /\ ~pending /\ error.output /\ error # NoError => raised = error
    BY <1>1, <1>2, <1>3, <1>5 DEF FinishSampling, Aborted
  <2>2. error'.kind \in Kinds /\ error' # NoError /\ entries \subseteq error'.run
    BY <1>3, <2>1, AttachFacts, NoErrorFacts DEF Kinds
  <2>3. ~pending /\ error.output => "workload" \in error'.run
    <3>1. error.output => error # NoError
      BY ErrorFacts DEF NoError
    <3> QED
      BY <1>3, <2>1, <3>1, AttachFacts
  <2> QED
    BY <1>3, <1>5, <2>1, <2>2, <2>3 DEF LeaveTry
<1> QED
  BY <1>4, <1>5

LEMMA ProgressKept ==
    ASSUME SeriesInv, [Next /\ UNCHANGED setup]_<<setup, vars>>
    PROVE  ProgressInv'
<1>0. /\ TypeOK /\ ProgressInv
      /\ error \in Exceptions /\ held \in BOOLEAN /\ result \in SUBSET Entries
      /\ idx \in 0 .. Iterations /\ Iterations \in Nat \ {0} /\ Len(results) \in Nat
      /\ status \in {"running", "complete", "failed", "cancelled"}
  BY SeriesAssumption DEF SeriesInv, TypeOK, Exceptions
<1>r. ASSUME NEW point, NEW entries \in SUBSET Entries, NEW open \in BOOLEAN, Raise(point, entries, open)
      PROVE  error'.kind \in Kinds /\ error' # NoError /\ pc' \in {"closing", "stop"}
  BY <1>0, <1>r, RaiseFacts
<1>e. ASSUME NEW kind \in Kinds, NEW output \in BOOLEAN
      PROVE  Error(kind, output).kind = kind /\ Error(kind, output) # NoError
             /\ Error(kind, output) \in Exceptions
  BY <1>e, ErrorFacts, NoErrorFacts DEF Kinds
<1>a. ASSUME NEW raised \in Exceptions, NEW entries \in SUBSET Entries, raised.kind \in Kinds
      PROVE  Attach(raised, entries).kind \in Kinds /\ Attach(raised, entries) # NoError
  BY <1>a, AttachFacts, NoErrorFacts DEF Kinds
<1> USE DEF ProgressInv, Writing
<1>1. CASE Open \/ Prepare \/ Initialize \/ SnapshotBefore
  <2>1. UNCHANGED <<idx, results, status>> /\ pc \in {"open", "prepare", "initialize", "before"}
    BY <1>1 DEF Open, Prepare, Initialize, SnapshotBefore, checkpoint
  <2>2. \/ UNCHANGED error /\ pc' \in {"prepare", "initialize", "before", "workload"}
        \/ error'.kind \in Kinds /\ error' # NoError /\ pc' \in {"closing", "stop"}
    BY <1>0, <1>1, <1>r DEF Open, Prepare, Initialize, SnapshotBefore
  <2> QED
    BY <1>0, <2>1, <2>2 DEF Awaits
<1>2. CASE Workload
  <2>1. UNCHANGED <<idx, results, status>> /\ pc = "workload" /\ pc' = "sampling"
    BY <1>2 DEF Workload, checkpoint
  <2>2. UNCHANGED error
        \/ (error'.kind \in Kinds /\ error' # NoError)
    BY <1>2, <1>e DEF Workload
  <2> QED
    BY <1>0, <2>1, <2>2 DEF Awaits
<1>3. CASE PutOff \/ SamplerStops \/ SamplerEnds \/ Kill \/ PowerLoss
  <2>1. UNCHANGED <<idx, results, status, error>> /\ pc' \in {pc, "killed"}
    BY <1>3 DEF PutOff, SamplerStops, SamplerEnds, Kill, PowerLoss, checkpoint
  <2> QED
    BY <1>0, <2>1 DEF Awaits
<1>4. CASE FinishSampling
  <2>1. UNCHANGED <<idx, results, status>> /\ pc = "sampling"
    BY <1>4 DEF FinishSampling, checkpoint
  <2> QED
    BY <1>0, <1>4, <2>1, FinishFacts DEF Awaits
<1>5. CASE SnapshotAfter
  <2>1. UNCHANGED <<idx, results, status>> /\ pc = "after" /\ error = NoError
    BY <1>0, <1>5 DEF SnapshotAfter, checkpoint, Awaits
  <2>2. \/ UNCHANGED error /\ pc' \in {"closing", "append"}
        \/ error'.kind \in Kinds /\ error' # NoError /\ pc' \in {"closing", "stop"}
    BY <1>0, <1>5, <1>r DEF SnapshotAfter, LeaveTry
  <2> QED
    BY <1>0, <2>1, <2>2 DEF Awaits
<1>6. CASE CloseController
  <2>1. UNCHANGED <<idx, status>> /\ pc = "closing" /\ idx > 0 /\ Len(results) = idx - 1
    BY <1>0, <1>6 DEF CloseController, checkpoint, Awaits
  <2>2. {"cleanup"} \in SUBSET Entries
    BY DEF Entries
  <2>3. \/ UNCHANGED <<error, results>> /\ pc' = IF error = NoError THEN "append" ELSE "stop"
        \/ pc' = "stop" /\ error = NoError /\ KeepPoint
              /\ error'.kind \in Kinds /\ error' # NoError
        \/ pc' = "stop" /\ error # NoError /\ UNCHANGED <<error, results>>
    BY <1>0, <1>6, <1>e, <1>a, <2>2 DEF CloseController
  <2> QED
    BY <1>0, <2>1, <2>3, KeepFacts DEF Awaits
<1>7. CASE AppendPoint
  <2>1. UNCHANGED <<idx, error>> /\ pc = "append" /\ pc' = "write" /\ status' = "running" /\ KeepPoint
    BY <1>7 DEF AppendPoint
  <2>2. Len(results') = idx /\ error = NoError /\ idx > 0
    BY <1>0, <2>1, KeepFacts
  <2> QED
    BY <1>0, <2>1, <2>2 DEF Awaits, Kinds
<1>8. CASE Release \/ Stop
  <2>1. UNCHANGED <<idx, results>> /\ pc \in {"release", "stop"}
    BY <1>8 DEF Release, Stop
  <2>2. {"cleanup"} \in SUBSET Entries
    BY DEF Entries
  <2>3. error.kind \in Kinds /\ idx > 0
    BY <1>0, <2>1
  <2>4. [error EXCEPT !.points = Len(results)].kind = error.kind
    BY <1>0 DEF Exceptions
  <2>5. /\ error'.kind \in Kinds /\ error' # NoError
        /\ pc' = "stop" \/ (pc' = "write" /\ status' \in Kinds)
    BY <1>0, <1>8, <1>a, <2>2, <2>3, <2>4, NoErrorFacts DEF Release, Stop, AttachPoints, Kinds
  <2> QED
    BY <1>0, <2>1, <2>3, <2>5 DEF Awaits, Kinds
<1>9. CASE WriteTemporary \/ WriteFails
  <2>1. UNCHANGED <<idx, results, status>> /\ pc \in Writing
    BY <1>9 DEF WriteTemporary, WriteFails
  <2>2. \/ UNCHANGED error /\ pc' = "replace"
        \/ /\ error'.kind \in Kinds /\ error' # NoError
           /\ pc' = "partial" \/ (pc' \in {"release", "stop"} /\ idx # 0 /\ status = "running")
    BY <1>9, <1>e DEF WriteTemporary, WriteFails, WhereWriteRaises, Kinds
  <2> QED
    BY <1>0, <2>1, <2>2 DEF Awaits
<1>10. CASE Replace
  <2>1. UNCHANGED <<results, error>> /\ pc = "replace"
    BY <1>10 DEF Replace
  <2>2. \/ idx' = idx + 1 /\ pc' \in {"prepare", "open"} /\ status' = status /\ status = "running"
        \/ /\ idx' = idx /\ status = "running" /\ ~MorePoints /\ pc' = "write" /\ status' = "complete"
        \/ /\ idx' = idx /\ status = "complete" /\ pc' = "monitor" /\ status' = status
        \/ /\ idx' = idx /\ status \in Kinds /\ pc' = "partial" /\ status' = status
    BY <1>10 DEF Replace, NextIteration
  <2> QED
    BY <1>0, <2>1, <2>2 DEF Awaits, MorePoints, Kinds
<1>11. CASE PartialReport \/ Monitor \/ Disconnect \/ Save
  <2>1. UNCHANGED <<idx, results, status, error>> /\ pc' \in {"disconnect", "save", "exited"}
    BY <1>11 DEF PartialReport, Monitor, Disconnect, Save, checkpoint
  <2> QED
    BY <1>0, <2>1 DEF Awaits
<1>12. CASE UNCHANGED <<setup, vars>>
  BY <1>0, <1>12 DEF vars
<1> QED
  BY <1>1, <1>2, <1>3, <1>4, <1>5, <1>6, <1>7, <1>8, <1>9, <1>10, <1>11, <1>12 DEF Next, Step, Terminated

LEMMA FaultKept ==
    ASSUME SeriesInv, [Next /\ UNCHANGED setup]_<<setup, vars>>
    PROVE  FaultInv'
<1>0. TypeOK /\ FaultInv /\ (pc = "stop" => error # NoError)
  BY DEF SeriesInv, ProgressInv
<1>i. ASSUME NEW point, NEW kind, Interrupt(point, kind) PROVE faults' > 0 /\ faults' # faults
  BY <1>0, <1>i, InterruptFacts DEF TypeOK
<1>1. CASE UNCHANGED <<error, pending, result, faults>>
  BY <1>0, <1>1 DEF FaultInv
<1>2. CASE faults' > 0
  BY <1>2 DEF FaultInv
<1>3. CASE Initialize \/ SnapshotBefore \/ Workload \/ SnapshotAfter
  <2>1. ASSUME faults' = faults
        PROVE  UNCHANGED <<error, pending>> /\ ("aborted" \in result' => "aborted" \in result)
    BY <1>3, <1>i, <2>1 DEF Initialize, SnapshotBefore, Workload, SnapshotAfter, Add, Raise, sampling
  <2>2. faults' = faults \/ faults' > 0
    BY <1>3, <1>i DEF Initialize, SnapshotBefore, Workload, SnapshotAfter, Raise
  <2> QED
    BY <1>0, <1>2, <2>1, <2>2 DEF FaultInv
<1>4. CASE FinishSampling
  <2>1. faults' = faults /\ ~pending' /\ ("aborted" \in result' => "aborted" \in result)
    BY <1>4 DEF FinishSampling
  <2>2. UNCHANGED error \/ pending \/ ("aborted" \in result) \/ (error # NoError)
    BY <1>4 DEF FinishSampling, RaisedAfterSampling, Aborted
  <2> QED
    BY <1>0, <2>1, <2>2 DEF FaultInv
<1>5. CASE Replace
  <2>1. UNCHANGED <<error, faults>> /\ (UNCHANGED <<result, pending>> \/ (result' = {} /\ pending' = FALSE))
    BY <1>5 DEF Replace, NextIteration, evidence, sampling
  <2> QED
    BY <1>0, <2>1 DEF FaultInv
<1>6. CASE Stop
  <2>1. UNCHANGED faults /\ error # NoError
    BY <1>0, <1>6 DEF Stop
  <2> QED
    BY <1>0, <2>1 DEF FaultInv
<1> QED
  BY <1>i, <1>1, <1>2, <1>3, <1>4, <1>5, <1>6 DEF Next, Step, Open, Prepare, PutOff,
     CloseController, AppendPoint, Release, WriteTemporary, WriteFails, PartialReport, Monitor, Disconnect,
     Save, SamplerStops, SamplerEnds, Kill, PowerLoss, Terminated, Raise, vars, evidence, sampling

-----------------------------------------------------------------------------
(* The evidence of a point.                                                *)

LEMMA PointKept ==
    ASSUME SeriesInv, [Next /\ UNCHANGED setup]_<<setup, vars>>
    PROVE  PointInv'
<1>0. /\ TypeOK /\ PointInv /\ held \in BOOLEAN /\ result \in SUBSET Entries
      /\ pc \in {"open", "prepare", "initialize", "before", "workload", "after", "append"} => error = NoError
      /\ pc \in {"stop", "release"} => error # NoError
      /\ pc \in Measuring => held
      /\ error = NoError \/ error.kind \in Kinds
      /\ pc \in Awaits \cup {"append"} => Len(results) = idx - 1
      /\ idx \in 0 .. Iterations /\ Iterations \in Nat \ {0} /\ Len(results) \in Nat
  BY SeriesAssumption DEF SeriesInv, HoldInv, ProgressInv, TypeOK, Awaits
<1>s. UNCHANGED setup /\ FullEvidence' = FullEvidence /\ Sampled' = Sampled
  BY DEF vars, FullEvidence, Sampled
<1>r. ASSUME NEW point, NEW entries \in SUBSET Entries, NEW open \in BOOLEAN, Raise(point, entries, open)
      PROVE  error' # NoError /\ pc' \in {"closing", "stop"}
  BY <1>0, <1>r, RaiseFacts
<1>e. ASSUME NEW kind \in Kinds, NEW output \in BOOLEAN PROVE Error(kind, output) # NoError
  BY <1>e, ErrorFacts, NoErrorFacts DEF Kinds
\* The points that are kept are those of the iterations.
<1>p. PointsComplete'
  <2>1. CASE UNCHANGED <<results, idx>>
    BY <1>0, <1>s, <2>1 DEF PointInv, PointsComplete
  <2>2. CASE KeepPoint /\ UNCHANGED idx /\ result = FullEvidence /\ Len(results) = idx - 1
    <3>1. Len(results') = idx /\ Len(results) + 1 = idx /\ results'[idx] = [iteration |-> idx, entries |-> FullEvidence]
      BY <1>0, <2>2, KeepFacts DEF Point
    <3>2. ASSUME NEW i \in 1 .. Len(results'), i # idx
          PROVE  results'[i] = [iteration |-> i, entries |-> FullEvidence]
      <4>1. i \in 1 .. Len(results)
        BY <1>0, <3>1, <3>2
      <4> QED
        BY <1>0, <2>2, <4>1, KeepFacts DEF PointInv, PointsComplete
    <3> QED
      BY <1>0, <1>s, <2>2, <3>1, <3>2 DEF PointsComplete
  <2>3. CASE UNCHANGED results /\ idx' = idx + 1
    BY <1>0, <1>s, <2>3 DEF PointInv, PointsComplete
  <2>4. CASE CloseController
    BY <1>0, <2>1, <2>2, <2>4 DEF CloseController, PointInv, Awaits
  <2>5. CASE AppendPoint
    BY <1>0, <2>1, <2>2, <2>5 DEF AppendPoint, PointInv
  <2>6. CASE Replace
    BY <2>1, <2>3, <2>6 DEF Replace, NextIteration
  <2> QED
    BY <2>1, <2>4, <2>5, <2>6 DEF Next, Step, Open, Prepare, Initialize, SnapshotBefore, Workload, PutOff,
       FinishSampling, SnapshotAfter, Release, Stop, WriteTemporary, WriteFails, PartialReport, Monitor,
       Disconnect, Save, SamplerStops, SamplerEnds, Kill, PowerLoss, Terminated, vars
<1> USE DEF PointInv
<1>1. CASE Open \/ Prepare
  <2>1. UNCHANGED <<result, pending>> /\ result = {} /\ pc \in {"open", "prepare"}
    BY <1>0, <1>1 DEF Open, Prepare, evidence, sampling
  <2>2. pc' \in {"prepare", "initialize"} \/ (error' # NoError /\ pc' \in {"closing", "stop"})
    BY <1>0, <1>1, <1>r DEF Open, Prepare
  <2> QED
    BY <1>0, <1>p, <2>1, <2>2
<1>2. CASE Initialize
  <2>1. UNCHANGED pending /\ result = {} /\ pc = "initialize"
    BY <1>0, <1>2 DEF Initialize, sampling
  <2>2. (pc' = "before" /\ result' = {"init"}) \/ (error' # NoError /\ pc' \in {"closing", "stop"})
    BY <1>0, <1>2, <1>r, <2>1 DEF Initialize, Add
  <2> QED
    BY <1>0, <1>p, <2>1, <2>2
<1>3. CASE SnapshotBefore
  <2>1. UNCHANGED pending /\ result = {"init"} /\ pc = "before"
    BY <1>0, <1>3 DEF SnapshotBefore
  <2>2. \/ /\ pc' = "workload" /\ result' = Loaded
           /\ sampler' \in IF Sampled THEN {"collecting", "done"} ELSE {"none"}
        \/ error' # NoError /\ pc' \in {"closing", "stop"}
    BY <1>0, <1>3, <1>r, <2>1 DEF SnapshotBefore, Add, Loaded
  <2> QED
    BY <1>0, <1>p, <1>s, <2>1, <2>2
<1>4. CASE Workload
  <2>1. UNCHANGED <<sampler, pending>> /\ result = Loaded /\ pc = "workload" /\ pc' = "sampling" /\ error = NoError
    BY <1>0, <1>4 DEF Workload
  <2>2. \/ error' = NoError /\ result' \in {Measured, Measured \cup {"aborted"}}
        \/ error' # NoError /\ result' = Loaded
    BY <1>4, <1>e, <2>1 DEF Workload, Loaded, Measured
  <2> QED
    BY <1>0, <1>p, <1>s, <2>1, <2>2
<1>5. CASE PutOff \/ SamplerStops \/ SamplerEnds
  <2>1. UNCHANGED <<pc, result, error>>
        /\ (UNCHANGED sampler \/ (sampler = "collecting" /\ sampler' = "done"))
        /\ (UNCHANGED pending \/ pc = "sampling")
    BY <1>5 DEF PutOff, SamplerStops, SamplerEnds, evidence
  <2> QED
    BY <1>0, <1>p, <1>s, <2>1
<1>6. CASE FinishSampling
  <2>1. pc = "sampling" /\ pending' = FALSE /\ sampler = IF Sampled THEN "done" ELSE "none"
    BY <1>0, <1>6 DEF FinishSampling, SamplerSettled
  <2>2. CASE error' # NoError /\ pc' \in {"closing", "stop"}
    BY <1>0, <1>p, <1>s, <2>1, <2>2
  <2>3. CASE error = NoError /\ pc' = "after" /\ RaisedAfterSampling = NoError /\ "aborted" \notin result
    <3>1. result = Measured
      BY <1>0, <2>1, <2>3 DEF Measured
    <3>2. result' = FullEvidence \ {"after"}
      BY <1>6, <2>1, <3>1 DEF FinishSampling, FullEvidence, Measured
    <3> QED
      BY <1>p, <1>s, <2>1, <2>3, <3>2
  <2> QED
    BY <1>0, <1>6, <2>2, <2>3, FinishFacts
<1>7. CASE SnapshotAfter
  <2>1. UNCHANGED pending /\ pc = "after" /\ result = FullEvidence \ {"after"}
    BY <1>0, <1>7 DEF SnapshotAfter, sampling
  <2>2. \/ pc' \in {"closing", "append"} /\ result' = FullEvidence
        \/ error' # NoError /\ pc' \in {"closing", "stop"}
    <3>1. FullEvidence = (FullEvidence \ {"after"}) \cup {"after"}
      BY DEF FullEvidence
    <3> QED
      BY <1>0, <1>7, <1>r, <2>1, <3>1 DEF SnapshotAfter, Add, LeaveTry
  <2> QED
    BY <1>0, <1>p, <1>s, <2>1, <2>2
<1>8. CASE CloseController
  <2>1. UNCHANGED <<result, pending>> /\ pc = "closing" /\ pc' \in {"append", "stop"}
        /\ (pc' = "append" => error = NoError)
    BY <1>8 DEF CloseController, evidence, sampling
  <2> QED
    BY <1>0, <1>p, <1>s, <2>1
<1>9. CASE AppendPoint \/ Release \/ Stop \/ WriteTemporary \/ WriteFails
  <2>1. UNCHANGED pending /\ pc \in {"append", "release", "stop", "write", "replace"}
        /\ pc' \in {"write", "stop", "replace", "partial", "release"}
    BY <1>9 DEF AppendPoint, Release, Stop, WriteTemporary, WriteFails, WhereWriteRaises, sampling
  <2> QED
    BY <1>0, <1>p, <2>1
<1>10. CASE Replace
  <2>1. pc = "replace" /\ (UNCHANGED pending \/ ~pending')
    BY <1>10 DEF Replace, NextIteration, sampling
  <2>2. pc' \in {"write", "monitor", "partial"} \/ (pc' \in {"open", "prepare"} /\ result' = {})
    BY <1>10 DEF Replace, NextIteration
  <2> QED
    BY <1>0, <1>p, <2>1, <2>2
<1>11. CASE PartialReport \/ Monitor \/ Disconnect \/ Save \/ Kill \/ PowerLoss
  <2>1. pc \notin {"sampling"} => UNCHANGED pending
    BY <1>11 DEF PartialReport, Monitor, Disconnect, Save, Kill, PowerLoss, sampling
  <2>2. pc' \in {"disconnect", "save", "exited", "killed"} /\ (pc = "sampling" => pc' = "killed") /\ (pc = "killed" => FALSE)
    BY <1>11 DEF PartialReport, Monitor, Disconnect, Save, Kill, PowerLoss, Ended
  <2> QED
    BY <1>0, <1>p, <2>1, <2>2
<1>12. CASE UNCHANGED vars
  BY <1>0, <1>p, <1>s, <1>12 DEF vars
<1> QED
  BY <1>1, <1>2, <1>3, <1>4, <1>5, <1>6, <1>7, <1>8, <1>9, <1>10, <1>11, <1>12 DEF Next, Step, Terminated

-----------------------------------------------------------------------------
(* The evidence of a failure.                                              *)

LEMMA FailureKept ==
    ASSUME SeriesInv, [Next /\ UNCHANGED setup]_<<setup, vars>>
    PROVE  FailureInv'
<1>0. /\ TypeOK /\ PointInv /\ FailureInv /\ held \in BOOLEAN /\ result \in SUBSET Entries
      /\ pc \in {"open", "prepare", "initialize", "before", "workload", "after", "append"} => error = NoError
      /\ pc \in {"stop", "release"} => error # NoError
      /\ pc \in Measuring => held
      /\ error = NoError \/ error.kind \in Kinds
      /\ pc \in Awaits \cup {"append"} => Len(results) = idx - 1
      /\ pc \in Writing /\ status \in {"running", "complete"} => error = NoError /\ Len(results) = idx
      /\ pc \in {"replace", "write"} => status \in {"running", "complete"} \cup Kinds
      /\ error # NoError => faults > 0
      /\ idx \in Nat /\ Len(results) \in Nat /\ faults \in Nat
  BY SeriesAssumption DEF SeriesInv, HoldInv, ProgressInv, FaultInv, TypeOK, Awaits, Kinds
<1>r. ASSUME NEW point, NEW entries \in SUBSET Entries, NEW open \in BOOLEAN, Raise(point, entries, open)
      PROVE  error' # NoError /\ pc' \in {"closing", "stop"} /\ entries \subseteq error'.run
  BY <1>0, <1>r, RaiseFacts
<1>i. ASSUME NEW point, NEW kind, Interrupt(point, kind) PROVE faults' = faults + 1
  BY <1>0, <1>i, InterruptFacts
<1>e. ASSUME NEW kind \in Kinds, NEW output \in BOOLEAN
      PROVE  Error(kind, output) # NoError /\ Error(kind, output).output = output
  BY <1>e, ErrorFacts, NoErrorFacts DEF Kinds
<1> USE DEF FailureInv, Writing
<1>1. CASE Open \/ Prepare \/ Initialize \/ SnapshotBefore
  <2>1. pc \in {"open", "prepare", "initialize", "before"} /\ collected = result /\ UNCHANGED <<idx, results>>
    BY <1>0, <1>1 DEF Open, Prepare, Initialize, SnapshotBefore
  <2>2. \/ pc' \in {"prepare", "initialize", "before", "workload"} /\ collected' = result'
        \/ /\ pc' \in {"closing", "stop"} /\ error' # NoError
           /\ collected' = result /\ result \subseteq error'.run
    <3>1. pc \in {"open", "prepare", "initialize"} => result = {}
      BY <1>0 DEF PointInv
    <3>2. {} \in SUBSET Entries
      OBVIOUS
    <3>3. CASE Open \/ Prepare
      BY <1>0, <1>r, <2>1, <3>1, <3>2, <3>3 DEF Open, Prepare, evidence
    <3>4. CASE Initialize
      <4>1. result = {} /\ collected = {} /\ held
        BY <1>0, <2>1, <3>1, <3>4 DEF Initialize, Measuring
      <4>2. (pc' = "before" /\ Add("init")) \/ (Raise("initialize", {}, held) /\ UNCHANGED collected)
        BY <3>4 DEF Initialize, evidence
      <4> QED
        BY <1>0, <1>r, <3>2, <4>1, <4>2 DEF Add
    <3>5. CASE SnapshotBefore
      BY <1>0, <1>r, <2>1, <3>5 DEF SnapshotBefore, Add, evidence
    <3> QED
      BY <1>1, <3>3, <3>4, <3>5
  <2> QED
    BY <2>1, <2>2
<1>2. CASE Workload
  <2>1. collected = Loaded /\ ~pending /\ pc = "workload" /\ error = NoError
    BY <1>0, <1>2 DEF Workload, PointInv, TypeOK
  <2>2. collected' = Measured /\ ~pending' /\ pc' = "sampling"
    BY <1>2, <2>1 DEF Workload, Loaded, Measured
  <2>3. error' = NoError \/ error'.output
    BY <1>2, <1>e, <2>1 DEF Workload
  <2> QED
    BY <2>2, <2>3
<1>3. CASE PutOff
  <2>1. /\ UNCHANGED <<pc, idx, results, collected, error>> /\ pc = "sampling" /\ faults' = faults + 1
    BY <1>3, <1>i DEF PutOff, evidence
  <2> QED
    BY <1>0, <2>1
<1>4. CASE SamplerStops \/ SamplerEnds
  <2>1. UNCHANGED <<pc, idx, results, result, collected, error, pending, faults>>
    BY <1>4 DEF SamplerStops, SamplerEnds, evidence
  <2> QED
    BY <1>0, <2>1
<1>5. CASE FinishSampling
  <2>1. /\ pc = "sampling" /\ collected = Measured /\ UNCHANGED <<idx, results, faults>>
        /\ collected' \in {collected, collected \cup {"samples"}}
        /\ result' = result \cup (collected' \ collected)
    BY <1>0, <1>5 DEF FinishSampling, Measured
  <2>2. CASE error = NoError /\ pc' = "after" /\ RaisedAfterSampling = NoError /\ "aborted" \notin result
    <3>1. result = Measured
      BY <1>0, <2>1, <2>2 DEF PointInv, Measured
    <3> QED
      BY <2>1, <2>2, <3>1
  <2>3. CASE /\ error' # NoError /\ pc' \in {"closing", "stop"} /\ result' \subseteq error'.run
             /\ ~pending /\ error.output => "workload" \in error'.run
    <3>1. CASE error = NoError
      BY <1>0, <2>1, <2>3, <3>1 DEF PointInv, Measured
    <3>2. CASE error # NoError /\ faults <= 1
      <4>1. ~pending /\ error.output /\ result = Loaded
        BY <1>0, <2>1, <3>2 DEF PointInv, TypeOK
      <4> QED
        BY <2>1, <2>3, <4>1 DEF Loaded, Measured
    <3>3. CASE ~(faults <= 1)
      BY <2>1, <2>3, <3>3
    <3> QED
      BY <3>1, <3>2, <3>3
  <2> QED
    BY <1>0, <1>5, <2>2, <2>3, FinishFacts
<1>6. CASE SnapshotAfter
  <2>1. pc = "after" /\ collected = result /\ UNCHANGED <<idx, results>> /\ error = NoError
    BY <1>0, <1>6 DEF SnapshotAfter
  <2>2. \/ pc' \in {"closing", "append"} /\ error' = NoError
        \/ /\ pc' \in {"closing", "stop"} /\ collected' = result /\ result \subseteq error'.run
    BY <1>0, <1>6, <1>r, <2>1 DEF SnapshotAfter, LeaveTry, evidence
  <2> QED
    BY <2>2
<1>7. CASE CloseController
  <2>1. UNCHANGED <<idx, collected>> /\ pc = "closing" /\ pc' \in {"append", "stop"} /\ Len(results) = idx - 1
    BY <1>0, <1>7 DEF CloseController, evidence, Awaits
  <2>2. \/ UNCHANGED <<error, faults, results>>
        \/ KeepPoint
        \/ error # NoError /\ faults' = faults + 1
    BY <1>7, <1>i DEF CloseController
  <2> QED
    BY <1>0, <2>1, <2>2, KeepFacts
<1>8. CASE AppendPoint
  <2>1. pc = "append" /\ pc' = "write" /\ error' = NoError
    BY <1>0, <1>8 DEF AppendPoint
  <2> QED
    BY <2>1
<1>9. CASE Release
  <2>1. UNCHANGED <<idx, results>> /\ Len(results) = idx /\ pc' = "stop"
    BY <1>9 DEF Release, SeriesInv, ProgressInv
  <2> QED
    BY <1>0, <2>1
<1>10. CASE Stop
  <2>1. UNCHANGED <<idx, results, collected, faults>> /\ pc = "stop" /\ pc' = "write" /\ error # NoError
    BY <1>0, <1>10 DEF Stop, evidence
  <2>2. error'.run = error.run
    BY <1>10 DEF Stop, AttachPoints, TypeOK, SeriesInv
  <2> QED
    BY <1>0, <2>1, <2>2
<1>11. CASE WriteTemporary
  <2>1. UNCHANGED <<idx, results, collected, faults, error>> /\ pc = "write" /\ pc' = "replace"
    BY <1>11 DEF WriteTemporary, evidence
  <2> QED
    BY <1>0, <2>1
<1>12. CASE WriteFails
  <2>1. UNCHANGED <<idx, results>> /\ pc \in {"write", "replace"}
        /\ (pc' \in {"partial", "release"} \/ (pc' = "stop" /\ status = "running"))
    BY <1>12 DEF WriteFails, WhereWriteRaises
  <2> QED
    BY <1>0, <2>1
<1>13. CASE Replace
  <2>1. pc = "replace" /\ pc' \in {"write", "monitor", "partial", "open", "prepare"} /\ UNCHANGED error
        /\ (pc' \in {"open", "prepare"} => result' = {} /\ collected' = {})
        /\ (pc' = "write" => status = "running")
    BY <1>13 DEF Replace, NextIteration
  <2> QED
    BY <1>0, <2>1
<1>14. CASE PartialReport \/ Monitor \/ Disconnect \/ Save \/ Kill \/ PowerLoss
  <2>1. pc' \in {"disconnect", "save", "exited", "killed"}
    BY <1>14 DEF PartialReport, Monitor, Disconnect, Save, Kill, PowerLoss
  <2> QED
    BY <2>1
<1>15. CASE UNCHANGED vars
  BY <1>0, <1>15 DEF vars
<1> QED
  BY <1>1, <1>2, <1>3, <1>4, <1>5, <1>6, <1>7, <1>8, <1>9, <1>10, <1>11, <1>12, <1>13, <1>14, <1>15
     DEF Next, Step, Terminated

-----------------------------------------------------------------------------
(* The checkpoint.                                                         *)

LEMMA CheckpointKept ==
    ASSUME SeriesInv, [Next /\ UNCHANGED setup]_<<setup, vars>>
    PROVE  CheckpointInv'
<1>0. /\ TypeOK /\ CheckpointInv
      /\ error = NoError \/ error.kind \in Kinds
      /\ error # NoError => faults > 0
      /\ pc \in Awaits \cup {"append"} => Len(results) = idx - 1
      /\ pc \in Awaits \cup {"append", "stop", "release"} => idx > 0
      /\ pc \in Writing /\ status \in {"running", "complete"} => error = NoError /\ Len(results) = idx
      /\ pc \in Writing /\ status \in Kinds => error # NoError /\ idx > 0
      /\ pc \in Writing => status \in {"running", "complete"} \cup Kinds
      /\ idx \in Nat /\ Len(results) \in Nat /\ faults \in Nat /\ disk.points \in Nat
      /\ disk.status \notin Kinds \/ pc \in Leaving \cup Ended
  BY SeriesAssumption DEF SeriesInv, ProgressInv, FaultInv, CheckpointInv, TypeOK, Files, Awaits, Kinds
<1>f. ASSUME NEW state, NEW points, NEW failed
      PROVE  /\ File(state, points, failed).status = state
             /\ File(state, points, failed).points = points
             /\ File(state, points, failed).failed = failed
  BY DEF File
<1>i. ASSUME NEW point, NEW kind, Interrupt(point, kind) PROVE faults' = faults + 1
  BY <1>0, <1>i, InterruptFacts
<1>k. ASSUME KeepPoint PROVE Len(results') = Len(results) + 1
  BY <1>0, <1>k, KeepFacts
<1>n. Leaving \cap Writing = {} /\ Leaving \cap Awaits = {} /\ Ended \cap Awaits = {} /\ Ended \cap Writing = {}
      /\ Writing \cap Awaits = {}
  BY DEF Leaving, Writing, Awaits, Ended
<1> USE DEF CheckpointInv
\* The iteration, up to the step that ends it.
<1>1. CASE Open \/ Prepare \/ Initialize \/ SnapshotBefore \/ Workload \/ PutOff \/ FinishSampling \/ SnapshotAfter
  <2>1. UNCHANGED <<idx, results, disk>> /\ pc \in Awaits
    BY <1>1 DEF Open, Prepare, Initialize, SnapshotBefore, Workload, PutOff, FinishSampling, SnapshotAfter,
       checkpoint, Awaits
  <2>2. pc' \in Awaits \cup {"append", "stop"}
    BY <1>1, <2>1 DEF Open, Prepare, Initialize, SnapshotBefore, Workload, PutOff, FinishSampling,
       SnapshotAfter, Raise, LeaveTry, Awaits
  <2> QED
    BY <1>0, <2>1, <2>2 DEF Leaving, Writing, Awaits, Ended
<1>2. CASE CloseController
  <2>1. UNCHANGED disk /\ pc = "closing" /\ pc' \in {"append", "stop"}
        /\ (UNCHANGED results \/ KeepPoint)
    BY <1>2 DEF CloseController, checkpoint
  <2> QED
    BY <1>0, <1>k, <2>1 DEF Leaving, Writing, Awaits, Ended
<1>3. CASE AppendPoint
  <2>1. UNCHANGED <<disk, idx>> /\ pc = "append" /\ pc' = "write" /\ status' = "running" /\ KeepPoint
    BY <1>3 DEF AppendPoint
  <2> QED
    BY <1>0, <1>k, <2>1 DEF Leaving, Writing, Awaits, Ended, Kinds
<1>4. CASE Release \/ Stop
  <2>1. UNCHANGED <<disk, idx, results>> /\ pc \in {"release", "stop"}
        /\ (pc' = "stop" \/ (pc' = "write" /\ status' \in Kinds))
    <3>1. pc = "stop" => error.kind \in Kinds
      BY DEF SeriesInv, ProgressInv
    <3> QED
      BY <1>4, <3>1 DEF Release, Stop, checkpoint
  <2> QED
    BY <1>0, <2>1 DEF Leaving, Writing, Awaits, Ended, Kinds
<1>5. CASE WriteTemporary
  <2>1. UNCHANGED <<idx, results, error, status, disk>> /\ pc = "write" /\ pc' = "replace" /\ temp' = Payload
    BY <1>5 DEF WriteTemporary
  <2>2. temp' = Payload'
    BY <2>1 DEF Payload
  <2> QED
    BY <1>0, <2>1, <2>2 DEF Leaving, Writing, Awaits, Ended
<1>6. CASE WriteFails
  <2>1. UNCHANGED <<idx, results, status, disk>> /\ pc \in Writing /\ faults' = faults + 1
    BY <1>6, <1>i DEF WriteFails, Writing
  <2>2. \/ pc' = "partial" /\ (status # "running" \/ idx = 0)
        \/ pc' \in {"release", "stop"}
    BY <1>6 DEF WriteFails, WhereWriteRaises
  <2>3. status \in Kinds => faults' > 1
    BY <1>0, <2>1
  <2>4. pc' = "partial" => faults' > 1 \/ disk.points = Len(results)
    BY <1>0, <2>1, <2>2, <2>3
  <2>5. disk.status \notin Kinds
    BY <1>0, <1>n, <2>1
  <2> QED
    BY <1>0, <2>1, <2>2, <2>4, <2>5 DEF Leaving, Writing, Awaits, Ended
<1>7. CASE Replace
  <2>1. UNCHANGED <<results, error, faults>> /\ pc = "replace" /\ disk' = Payload
    BY <1>0, <1>7 DEF Replace
  <2>2. disk'.points = Len(results) /\ disk'.status = status /\ disk'.failed = error.run
    BY <1>f, <2>1 DEF Payload
  <2>3. \/ pc' \in {"prepare", "open"} /\ status = "running"
        \/ pc' = "write" /\ status = "running"
        \/ pc' = "monitor" /\ status = "complete"
        \/ /\ pc' = "partial" /\ status \in Kinds /\ UNCHANGED <<idx, collected>>
    BY <1>7 DEF Replace, NextIteration, evidence
  <2>4. pc' = "partial" /\ faults <= 1 /\ Len(results) < idx => collected \subseteq error.run
    BY <1>0, <2>1, <2>3 DEF SeriesInv, FailureInv, Writing
  <2> QED
    BY <1>0, <2>1, <2>2, <2>3, <2>4 DEF Leaving, Writing, Awaits, Ended, Kinds
<1>8. CASE PartialReport \/ Monitor \/ Disconnect \/ Save
  <2>1. UNCHANGED <<idx, results, collected, disk>> /\ pc \in Leaving
        /\ pc' \in {"disconnect", "save", "exited"}
        /\ (UNCHANGED faults \/ faults' = faults + 1)
    BY <1>8, <1>i DEF PartialReport, Monitor, Disconnect, Save, Leaving, evidence, checkpoint
  <2> QED
    BY <1>0, <2>1 DEF Leaving, Writing, Awaits, Ended
<1>9. CASE SamplerStops \/ SamplerEnds
  <2>1. UNCHANGED <<pc, idx, results, collected, error, status, temp, disk, faults>>
    BY <1>9 DEF SamplerStops, SamplerEnds, evidence, checkpoint
  <2>2. Payload' = Payload
    BY <2>1 DEF Payload
  <2> QED
    BY <1>0, <2>1, <2>2
<1>10. CASE Kill \/ PowerLoss
  <2>1. UNCHANGED <<idx, results, collected, faults>> /\ pc' = "killed" /\ disk' \in {disk, Torn} /\ pc \notin Ended
    BY <1>10 DEF Kill, PowerLoss, evidence, checkpoint
  <2>2. Torn.points = 0 /\ Torn.status \notin Kinds
    BY <1>f DEF Torn, Kinds
  <2> QED
    BY <1>0, <2>1, <2>2 DEF Leaving, Writing, Awaits, Ended
<1>11. CASE UNCHANGED vars
  <2>1. Payload' = Payload
    BY <1>11 DEF Payload, vars
  <2> QED
    BY <1>0, <1>11, <2>1 DEF vars
<1> QED
  BY <1>1, <1>2, <1>3, <1>4, <1>5, <1>6, <1>7, <1>8, <1>9, <1>10, <1>11 DEF Next, Step, Terminated

-----------------------------------------------------------------------------
(* The report.                                                             *)

LEMMA ReportKept ==
    ASSUME SeriesInv, [Next /\ UNCHANGED setup]_<<setup, vars>>
    PROVE  ReportInv'
<1>0. /\ TypeOK /\ ReportInv
      /\ pc = "monitor" => disk.status = "complete" /\ Len(results) = Iterations
      /\ error = NoError \/ error.kind \in Kinds
  BY DEF SeriesInv, ProgressInv, CheckpointInv
<1>f. ASSUME NEW state, NEW points, NEW failed PROVE File(state, points, failed).status = state
  BY DEF File
<1> USE DEF ReportInv
<1>1. CASE UNCHANGED <<report, saved, exit>> /\ pc \notin {"disconnect", "save"} \cup Ended
  <2>1. report = Absent /\ report.status = "absent" /\ exit # "success"
    BY <1>0, <1>1, <1>f DEF Absent, Ended
  <2> QED
    BY <1>0, <1>1, <2>1
<1>2. CASE PartialReport
  <2>1. /\ UNCHANGED <<saved, exit>> /\ pc = "partial" /\ pc' = "disconnect"
        /\ report'.status = error.kind
    BY <1>2, <1>f DEF PartialReport
  <2>2. error.kind # "completed" /\ exit # "success"
    BY <1>0, <2>1, NoErrorFacts DEF Kinds
  <2> QED
    BY <1>0, <2>1, <2>2
<1>3. CASE Monitor
  <2>1. /\ UNCHANGED <<saved, disk, results>> /\ pc = "monitor" /\ pc' = "disconnect"
        /\ (UNCHANGED report \/ report'.status = "completed") /\ (UNCHANGED exit \/ exit' # "success")
    BY <1>3, <1>f DEF Monitor, checkpoint, ExitCode
  <2>2. exit # "success" /\ report.status # "completed"
    BY <1>0, <2>1, <1>f DEF Ended
  <2> QED
    BY <1>0, <2>1, <2>2 DEF Ended
<1>4. CASE Disconnect
  <2>1. /\ UNCHANGED <<saved, disk, results>> /\ pc = "disconnect" /\ pc' \in {"exited", "save"}
        /\ (UNCHANGED report \/ report' = Absent) /\ (UNCHANGED exit \/ exit' # "success")
    BY <1>4 DEF Disconnect, checkpoint, ExitCode
  <2>2. exit # "success" /\ Absent.status # "completed"
    BY <1>0, <2>1, <1>f DEF Absent
  <2> QED
    BY <1>0, <2>1, <2>2 DEF Ended
<1>5. CASE Save
  <2>1. UNCHANGED <<report, disk, results>> /\ pc = "save" /\ pc' \in {"save", "exited"}
    BY <1>5 DEF Save, checkpoint
  <2>2. saved' \in {{}, {"json"}, {"json", "html"}}
    BY <1>0, <1>5 DEF Save
  <2>3. exit # "success"
    BY <1>0, <2>1
  <2>4. exit' = "success" => pc' = "exited" /\ saved' = {"json", "html"} /\ report.status = "completed"
    BY <1>5, <2>3 DEF Save, ExitCode, CodeOfReport
  <2> QED
    BY <1>0, <2>1, <2>2, <2>4 DEF Ended
<1>6. CASE SamplerStops \/ SamplerEnds
  BY <1>0, <1>6 DEF SamplerStops, SamplerEnds, checkpoint, outcome
<1>7. CASE Kill \/ PowerLoss
  <2>1. UNCHANGED <<results, report, saved, exit>> /\ pc \notin Ended /\ pc' = "killed"
    BY <1>7 DEF Kill, PowerLoss, outcome
  <2>2. exit # "success"
    BY <1>0, <2>1 DEF Ended
  <2> QED
    BY <1>0, <2>1, <2>2 DEF Ended
<1>8. CASE UNCHANGED vars
  BY <1>0, <1>8 DEF vars
<1> QED
  BY <1>1, <1>2, <1>3, <1>4, <1>5, <1>6, <1>7, <1>8 DEF Next, Step, Terminated, Open, Prepare, Initialize,
     SnapshotBefore, Workload, PutOff, FinishSampling, SnapshotAfter, CloseController, AppendPoint, Release,
     Stop, WriteTemporary, WriteFails, Replace, outcome, Ended

-----------------------------------------------------------------------------
(* The theorems.                                                           *)

LEMMA SeriesInvInitially == Init => SeriesInv
<1> SUFFICES ASSUME Init PROVE SeriesInv
  OBVIOUS
<1>1. TypeOK
  BY TypeInitially
<1>2. /\ pc = "write" /\ idx = 0 /\ ~held /\ ~retained /\ result = {} /\ ~pending /\ error = NoError
      /\ Len(results) = 0 /\ status = "running" /\ saved = {} /\ exit = "none"
      /\ report = Absent /\ disk = Absent
  BY DEF Init
<1>3. Absent.status = "absent" /\ Absent.points = 0
  BY DEF Absent, File
<1>4. HoldInv
  <2>1. retained = held /\ ~held /\ pc = "write"
    BY DEF Init
  <2> QED
    BY <1>2, <2>1 DEF HoldInv, Measuring, Writing
<1>5. ProgressInv
  BY <1>2, SeriesAssumption DEF ProgressInv, Writing, Awaits, Kinds
<1>6. FaultInv
  BY <1>2 DEF FaultInv
<1>7. PointInv
  BY <1>2 DEF PointInv, PointsComplete
<1>8. FailureInv
  BY <1>2 DEF FailureInv, Writing
<1>9. CheckpointInv
  BY <1>2, <1>3 DEF CheckpointInv, Writing, Leaving, Awaits, Kinds
<1>10. ReportInv
  BY <1>2, <1>3 DEF ReportInv
<1> QED
  BY <1>1, <1>4, <1>5, <1>6, <1>7, <1>8, <1>9, <1>10 DEF SeriesInv

LEMMA SeriesInvInductive ==
    ASSUME SeriesInv, [Next /\ UNCHANGED setup]_<<setup, vars>>
    PROVE  SeriesInv'
BY TypeKept, HoldKept, ProgressKept, FaultKept, PointKept, FailureKept, CheckpointKept, ReportKept
   DEF SeriesInv

LEMMA SeriesInvHolds == Spec => []SeriesInv
BY SeriesInvInitially, SeriesInvInductive, PTL DEF Spec

(* Every variable keeps its type.                                          *)
THEOREM TypeCorrect == Spec => []TypeOK
<1>1. SeriesInv => TypeOK
  BY DEF SeriesInv
<1> QED
  BY <1>1, SeriesInvHolds, PTL

(* What was measured is kept, and nothing else: the points are complete,   *)
(* the checkpoint has every one of them while the next is prepared and     *)
(* measured, and no single failure costs one.                              *)
THEOREM PointsKeptHolds == Spec => []PointsKept
<1>1. SeriesInv => PointsKept
  <2> SUFFICES ASSUME SeriesInv PROVE PointsKept
    OBVIOUS
  <2>1. PointsComplete
    BY DEF SeriesInv, PointInv
  <2>2. CheckpointCurrent
    BY DEF SeriesInv, CheckpointInv, CheckpointCurrent
  <2>3. NoPointLost
    BY DEF SeriesInv, CheckpointInv, NoPointLost
  <2> QED
    BY <2>1, <2>2, <2>3 DEF PointsKept
<1> QED
  BY <1>1, SeriesInvHolds, PTL

(* The last checkpoint has the evidence of an iteration that one failure   *)
(* or cancellation ended.                                                  *)
THEOREM EvidenceKeptHolds == Spec => []EvidenceKept
<1>1. SeriesInv => EvidenceKept
  BY DEF SeriesInv, CheckpointInv, EvidenceKept, Kinds
<1> QED
  BY <1>1, SeriesInvHolds, PTL

(* Only a complete series with both of its files exits as a success.       *)
THEOREM ExitHonestHolds == Spec => []ExitHonest
<1>1. SeriesInv => ExitHonest
  BY DEF SeriesInv, ReportInv, ExitHonest
<1> QED
  BY <1>1, SeriesInvHolds, PTL

(* The controller does not outlive the series.                             *)
THEOREM ControllerClosedHolds == Spec => []ControllerClosed
<1>1. SeriesInv => ControllerClosed
  BY DEF SeriesInv, HoldInv, ControllerClosed, Measuring, Writing, Ended
<1> QED
  BY <1>1, SeriesInvHolds, PTL

\* Only a power loss damages the checkpoint.
TornInv == disk = Torn => PowerLosses

LEMMA DiskFacts ==
    ASSUME SeriesInv, [Next /\ UNCHANGED setup]_<<setup, vars>>
    PROVE  /\ PowerLosses' = PowerLosses
           /\ UNCHANGED disk \/ (disk' = Payload /\ Payload # Torn) \/ PowerLoss
<1>1. PowerLosses' = PowerLosses
  BY DEF PowerLosses, vars
<1>2. CASE Replace
  <2>1. disk' = Payload
    BY <1>2 DEF Replace, SeriesInv, CheckpointInv
  <2>2. Payload.status = status /\ Torn.status = "torn"
    BY DEF Payload, Torn, File
  <2>3. status # "torn"
    BY DEF SeriesInv, TypeOK
  <2> QED
    BY <1>1, <2>1, <2>2, <2>3
<1> QED
  BY <1>1, <1>2 DEF Next, Step, Open, Prepare, Initialize, SnapshotBefore, Workload, PutOff, FinishSampling,
     SnapshotAfter, CloseController, AppendPoint, Release, Stop, WriteTemporary, WriteFails, PartialReport,
     Monitor, Disconnect, Save, SamplerStops, SamplerEnds, Kill, Terminated, vars, checkpoint

LEMMA TornInvHolds == Spec => []TornInv
<1>1. Init => TornInv
  BY DEF Init, TornInv, Absent, Torn, File
<1>2. ASSUME SeriesInv, TornInv, [Next /\ UNCHANGED setup]_<<setup, vars>> PROVE TornInv'
  <2>1. Torn' = Torn
    BY DEF Torn, File
  <2> QED
    BY <1>2, <2>1, DiskFacts DEF TornInv, PowerLoss
<1> QED
  BY <1>1, <1>2, SeriesInvHolds, PTL DEF Spec

(* While the machine keeps its power, the checkpoint is never damaged and  *)
(* never loses a point.                                                    *)
THEOREM CheckpointAvailableHolds == Spec => CheckpointAvailable
<1>1. ASSUME SeriesInv, TornInv, [Next /\ UNCHANGED setup]_<<setup, vars>>
      PROVE  [disk # Absent /\ ~PowerLosses => disk' # Torn /\ disk'.points >= disk.points]_vars
  <2>0. SUFFICES ASSUME ~PowerLosses PROVE disk' # Torn /\ disk'.points >= disk.points
    OBVIOUS
  <2>1. disk.points \in Nat /\ disk.points <= Len(results) /\ Len(results) \in Nat
    BY <1>1, SeriesAssumption DEF SeriesInv, TypeOK, Files, CheckpointInv
  <2>2. CASE UNCHANGED disk
    BY <1>1, <2>0, <2>1, <2>2 DEF TornInv
  <2>3. CASE disk' = Payload /\ Payload # Torn
    <3>1. disk'.points = Len(results)
      BY <2>3 DEF Payload, File
    <3> QED
      BY <2>1, <2>3, <3>1
  <2> QED
    BY <1>1, <2>0, <2>2, <2>3, DiskFacts DEF PowerLoss
<1> QED
  BY <1>1, SeriesInvHolds, TornInvHolds, PTL DEF Spec, CheckpointAvailable

(* A cancellation that was put off ends the series as a cancellation.      *)
THEOREM CancellationHonouredHolds == Spec => CancellationHonoured
<1>1. ASSUME SeriesInv, [Next /\ UNCHANGED setup]_<<setup, vars>>
      PROVE  [pending /\ ~pending' => error'.kind = "cancelled"]_vars
  <2>0. SUFFICES ASSUME pending, ~pending' PROVE error'.kind = "cancelled" \/ UNCHANGED vars
    OBVIOUS
  <2>1. pc \in {"sampling", "killed"} /\ pending \in BOOLEAN /\ result \in SUBSET Entries
    BY <1>1, <2>0 DEF SeriesInv, PointInv, TypeOK
  <2>2. CASE FinishSampling
    <3>1. (error.kind = "cancelled" /\ error.output) \in BOOLEAN
      OBVIOUS
    <3>2. RaisedAfterSampling \in Exceptions /\ RaisedAfterSampling.kind = "cancelled"
      BY <2>0, <3>1, ErrorFacts DEF RaisedAfterSampling
    <3>3. RaisedAfterSampling # NoError
      BY <3>2, NoErrorFacts
    <3>4. PICK entries \in {result, result \cup {"samples"}} : error' = Attach(RaisedAfterSampling, entries)
      BY <2>2, <3>3 DEF FinishSampling
    <3>5. entries \in SUBSET Entries
      BY <2>1, <3>4 DEF Entries
    <3> QED
      BY <3>2, <3>4, <3>5, AttachFacts
  <2> QED
    BY <1>1, <2>0, <2>1, <2>2 DEF Next, Step, Open, Prepare, Initialize, SnapshotBefore, Workload, PutOff,
       SnapshotAfter, CloseController, AppendPoint, Release, Stop, WriteTemporary, Replace, WriteFails, PartialReport,
       Monitor, Disconnect, Save, SamplerStops, SamplerEnds, Kill, PowerLoss, Terminated, vars, sampling
<1> QED
  BY <1>1, SeriesInvHolds, PTL DEF Spec, CancellationHonoured
=============================================================================
