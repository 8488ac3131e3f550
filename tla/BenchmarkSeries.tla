--------------------------- MODULE BenchmarkSeries ---------------------------
(***************************************************************************)
(* The series of measured points of one benchmark run, the evidence it     *)
(* keeps and the files it leaves (benchmark.py, run_benchmark_iterations   *)
(* to run_benchmark_and_collect_metrics, and cli.py, main).                *)
(*                                                                         *)
(* Every point opens or reuses the controller, prepares and loads the      *)
(* target, takes a storage snapshot, runs the workload with a sampler      *)
(* beside it, takes another snapshot, closes the controller when it must   *)
(* and appends the point; then the checkpoint is written.  An error ends   *)
(* the series and turns the evidence attached to the exception into the    *)
(* last checkpoint and a partial report.                                   *)
(*                                                                         *)
(* A failure may arise at the control points of FailsAt, a cancellation be *)
(* delivered at those of CancelsAt; the process may be killed anywhere.    *)
(***************************************************************************)
EXTENDS Naturals, Sequences

CONSTANTS
    Iterations,   \* points of the series
    Setups,       \* the policies, whether the OS is sampled, and whether power may be lost
    FailsAt,      \* control points that may fail
    CancelsAt,    \* control points at which a cancellation may arrive
    MaxFaults     \* bound on failures and cancellations

Awaits == {"open", "prepare", "initialize", "before", "workload", "sampling",
           "after", "closing"}
Ended == {"exited", "killed"}
Points == Awaits \cup Ended \cup {"append", "stop", "release", "write", "replace",
                                  "partial", "monitor", "disconnect", "save"}

ASSUME SeriesAssumption ==
    /\ Iterations \in Nat \ {0}
    /\ Setups \subseteq [policy : {"each-iteration", "once", "skip"},
                         sampled : BOOLEAN, powerLosses : BOOLEAN]
    /\ FailsAt \subseteq Points /\ CancelsAt \subseteq Points
    /\ MaxFaults \in Nat

VARIABLES
    setup,       \* which of Setups this run is
    pc,
    idx,         \* the current iteration
    held,        \* is the controller's session open?
    retained,    \* retained_preflight
    result,      \* the entries of the result of this iteration
    collected,   \* the evidence this iteration produced so far
    sampler,     \* the sampler task: "none", "collecting", "done"
    stopping,    \* the stop_sampling event
    pending,     \* finish_sampling has put off a cancellation
    error,       \* the exception that ends the series, with what is attached
    results,     \* the completed points
    status,      \* the status of the checkpoint being written
    temp, disk,  \* the temporary file and the checkpoint
    report,      \* the report that was built
    saved,       \* the report files on disk
    exit,        \* the exit code
    faults       \* failures and cancellations so far

Policy == setup.policy             \* --init-policy
Sampled == setup.sampled           \* not for a managed server
PowerLosses == setup.powerLosses

vars == <<pc, idx, held, retained, result, collected, sampler, stopping, pending,
          error, results, status, temp, disk, report, saved, exit, faults>>
controller == <<held, retained>>
evidence == <<result, collected>>
sampling == <<sampler, stopping, pending>>
checkpoint == <<status, temp, disk>>
outcome == <<report, saved, exit>>

\* An exception: can the output of the interrupted command be read from it
\* (failure), the evidence of its iteration (benchmark_run) and the number of
\* points (completed_runs)?
Error(kind, output) == [kind |-> kind, output |-> output, run |-> {}, points |-> 0]
NoError == Error("none", FALSE)

\* A checkpoint, or a report.
File(state, points, failed) == [status |-> state, points |-> points, failed |-> failed]
Absent == File("absent", 0, {})
Torn == File("torn", 0, {})

Init ==
    /\ setup \in Setups
    /\ pc = "write" /\ idx = 0
    /\ held = FALSE /\ retained = FALSE
    /\ result = {} /\ collected = {}
    /\ sampler = "none" /\ stopping = FALSE /\ pending = FALSE
    /\ error = NoError /\ results = <<>>
    /\ status = "running" /\ temp = Absent /\ disk = Absent
    /\ report = Absent /\ saved = {} /\ exit = "none"
    /\ faults = 0

-----------------------------------------------------------------------------
\* An exception of that kind arises at a control point.
Interrupt(point, kind) ==
    /\ \/ kind = "failed" /\ point \in FailsAt
       \/ kind = "cancelled" /\ point \in CancelsAt
    /\ faults < MaxFaults
    /\ faults' = faults + 1

Kinds == {"failed", "cancelled"}

\* initializes_iteration
Initializes == \/ Policy = "each-iteration"
               \/ Policy = "once" /\ idx = 1

\* Mutant: a controller kept by an earlier point is forgotten on errors.
MustCloseLast(raised) == Policy = "each-iteration" \/ idx = Iterations
\* Must the finally clause close the controller?
MustClose(raised) ==
    \/ Policy = "each-iteration"
    \/ raised # NoError
    \/ idx = Iterations

\* The finally clause of an iteration, with the exception in flight.
LeaveTry(raised, open) ==
    pc' = IF open /\ MustClose(raised) THEN "closing"
          ELSE IF raised = NoError THEN "append" ELSE "stop"

\* benchmark_run: the entries of the result, and the output of the
\* interrupted command if the exception still leads to it.
Attach(raised, entries) ==
    [raised EXCEPT !.run = entries \cup IF raised.output THEN {"workload"} ELSE {}]

\* A step of the iteration that raises, with no output of its own.
Raise(point, entries, open) ==
    \E kind \in Kinds :
        /\ Interrupt(point, kind)
        /\ error' = Attach(Error(kind, FALSE), entries)
        /\ LeaveTry(error', open)

Add(entry) == result' = result \cup {entry} /\ collected' = collected \cup {entry}

\* preflight.open; it disconnects by itself when it fails.
Open ==
    /\ pc = "open"
    /\ \/ /\ pc' = "prepare" /\ held' = TRUE
          /\ UNCHANGED <<error, faults>>
       \/ /\ Raise("open", {}, FALSE)
          /\ UNCHANGED held
    /\ UNCHANGED <<idx, retained, evidence, sampling, results, checkpoint, outcome>>

\* assert_held, the reset of the target and the checks around it.
Prepare ==
    /\ pc = "prepare"
    /\ \/ /\ pc' = "initialize"
          /\ retained' = (Policy # "each-iteration")
          /\ UNCHANGED <<error, faults>>
       \/ /\ Raise("prepare", {}, held)
          /\ UNCHANGED retained
    /\ UNCHANGED <<idx, held, evidence, sampling, results, checkpoint, outcome>>

\* The load, or the note that the dataset is reused.
Initialize ==
    /\ pc = "initialize"
    /\ \/ /\ pc' = "before" /\ Add("init")
          /\ UNCHANGED <<error, faults>>
       \/ /\ Initializes
          /\ Raise("initialize", {}, held)
          /\ UNCHANGED evidence
    /\ UNCHANGED <<idx, controller, sampling, results, checkpoint, outcome>>

\* The storage snapshot before the workload; then the sampler starts.
SnapshotBefore ==
    /\ pc = "before"
    /\ \/ /\ pc' = "workload" /\ Add("before")
          /\ sampler' = IF Sampled THEN "collecting" ELSE "none"
          /\ UNCHANGED <<error, faults>>
       \/ /\ Raise("before", result, held)
          /\ UNCHANGED <<evidence, sampler>>
    /\ UNCHANGED <<idx, controller, stopping, pending, results, checkpoint, outcome>>

\* Mutant: the sampler is not told to stop.
KeepSampling == UNCHANGED stopping
StopSampling == stopping' = TRUE

\* pgbench: it ends, well or with an error status, or is interrupted (a
\* timeout is a failure) and leaves its output on the exception.
Workload ==
    /\ pc = "workload"
    /\ pc' = "sampling"
    /\ StopSampling
    /\ collected' = collected \cup {"workload"}
    /\ \/ /\ result' = result \cup {"workload"}
          /\ UNCHANGED <<error, faults>>
       \/ /\ Interrupt("workload", "failed")
          /\ result' = result \cup {"workload", "aborted"}
          /\ UNCHANGED error
       \/ \E kind \in Kinds :
              /\ Interrupt("workload", kind)
              /\ error' = Error(kind, TRUE)
              /\ UNCHANGED result
    /\ UNCHANGED <<idx, controller, sampler, pending, results, checkpoint, outcome>>

\* The sampler ends its last window after the stop event.
SamplerStops ==
    /\ sampler = "collecting" /\ stopping /\ pc \notin Ended
    /\ sampler' = "done"
    /\ UNCHANGED <<pc, idx, controller, evidence, stopping, pending, error, results,
                   checkpoint, outcome, faults>>

\* It may also end on its own: duration limit or collector error.
SamplerEnds ==
    /\ sampler = "collecting" /\ pc \notin Ended
    /\ sampler' = "done"
    /\ UNCHANGED <<pc, idx, controller, evidence, stopping, pending, error, results,
                   checkpoint, outcome, faults>>

\* finish_sampling is cancelled: it waits on and remembers.
PutOff ==
    /\ pc = "sampling" /\ sampler = "collecting"
    /\ Interrupt("sampling", "cancelled")
    /\ pending' = TRUE
    /\ UNCHANGED <<pc, idx, controller, evidence, sampler, stopping, error, results,
                   checkpoint, outcome>>

\* Mutant: finish_sampling drops a cancellation it has put off.
RaisedBefore == error
\* What is in flight after finish_sampling.  A cancellation that was put off
\* replaces the exception of the workload; exception_evidence follows the
\* context of a CancelledError to another CancelledError only.
RaisedAfterSampling ==
    IF pending THEN Error("cancelled", error.kind = "cancelled" /\ error.output)
    ELSE error

\* A failed pgbench: its status, its messages or its missing TPS.
Aborted(entries) == "aborted" \in entries

SamplerSettled == sampler # "collecting"

\* The final window is in: the result is examined.
FinishSampling ==
    /\ pc = "sampling" /\ SamplerSettled
    /\ LET samples == IF sampler = "done" THEN {"samples"} ELSE {}
           entries == result \cup samples
           raised == RaisedAfterSampling
       IN /\ result' = entries /\ collected' = collected \cup samples
          /\ pending' = FALSE
          /\ IF raised = NoError /\ ~Aborted(entries)
             THEN pc' = "after" /\ UNCHANGED error
             ELSE /\ error' = Attach(IF raised # NoError THEN raised
                                     ELSE Error("failed", FALSE), entries)
                  /\ LeaveTry(error', held)
    /\ UNCHANGED <<idx, controller, sampler, stopping, results, checkpoint, outcome,
                   faults>>

\* The storage snapshot after the workload completes the result.
SnapshotAfter ==
    /\ pc = "after"
    /\ \/ /\ Add("after") /\ LeaveTry(NoError, held)
          /\ UNCHANGED <<error, faults>>
       \/ /\ Raise("after", result, held)
          /\ UNCHANGED evidence
    /\ UNCHANGED <<idx, controller, sampling, results, checkpoint, outcome>>

Point == [iteration |-> idx, entries |-> result]

\* Mutant: a failed close loses the point that was measured.
KeepNothing == UNCHANGED results
KeepPoint == results' = Append(results, Point)

\* close_initialization_settings always ends with the session closed.  When it
\* raises after a measurement the point is kept and the series stops; after
\* another error it is only noted.
CloseController ==
    /\ pc = "closing"
    /\ held' = FALSE
    /\ \/ /\ pc' = IF error = NoError THEN "append" ELSE "stop"
          /\ retained' = FALSE
          /\ UNCHANGED <<error, results, faults>>
       \/ /\ \E kind \in Kinds :
                 /\ Interrupt("closing", kind)
                 /\ IF error = NoError
                    THEN KeepPoint /\ error' = Attach(Error(kind, FALSE), {"cleanup"})
                    ELSE UNCHANGED <<error, results>>
          /\ pc' = "stop"
          /\ UNCHANGED retained
    /\ UNCHANGED <<idx, evidence, sampling, checkpoint, outcome>>

\* The result is a point now; its checkpoint is written next.
AppendPoint ==
    /\ pc = "append"
    /\ KeepPoint
    /\ pc' = "write" /\ status' = "running"
    /\ UNCHANGED <<idx, controller, evidence, sampling, error, temp, disk,
                   outcome, faults>>

\* The failed write of a point's checkpoint closes a retained controller.
Release ==
    /\ pc = "release"
    /\ pc' = "stop"
    /\ held' = FALSE
    /\ \/ UNCHANGED <<error, faults>>
       \/ \E kind \in Kinds :
              /\ Interrupt("release", kind)
              /\ error' = Attach(error, {"cleanup"})
    /\ UNCHANGED <<idx, retained, evidence, sampling, results, checkpoint, outcome>>

\* completed_runs
AttachPoints == error' = [error EXCEPT !.points = Len(results)]

\* The error leaves the series.
Stop ==
    /\ pc = "stop"
    /\ AttachPoints
    /\ pc' = "write" /\ status' = error.kind
    /\ UNCHANGED <<idx, controller, evidence, sampling, results, temp, disk,
                   outcome, faults>>

-----------------------------------------------------------------------------
(* write_checkpoint *)

Payload == File(status, Len(results), error.run)

\* Mutant: the checkpoint is written in place.
WriteInPlace ==
    /\ pc = "write"
    /\ pc' = "replace"
    /\ temp' = Payload /\ disk' = Torn
    /\ UNCHANGED <<idx, controller, evidence, sampling, error, results, status,
                   outcome, faults>>
WriteTemporary ==
    /\ pc = "write"
    /\ pc' = "replace"
    /\ temp' = Payload
    /\ UNCHANGED <<idx, controller, evidence, sampling, error, results, status, disk,
                   outcome, faults>>

\* The next iteration.
NextIteration ==
    /\ idx' = idx + 1
    /\ pc' = IF retained THEN "prepare" ELSE "open"
    /\ result' = {} /\ collected' = {}
    /\ sampler' = "none" /\ stopping' = FALSE /\ pending' = FALSE
    /\ UNCHANGED status

MorePoints == idx < Iterations

Replace ==
    /\ pc = "replace"
    /\ disk' = temp
    /\ IF status = "running" /\ MorePoints THEN NextIteration
       ELSE /\ \/ status = "running" /\ pc' = "write" /\ status' = "complete"
               \/ status = "complete" /\ pc' = "monitor" /\ UNCHANGED status
               \/ status \in Kinds /\ pc' = "partial" /\ UNCHANGED status
            /\ UNCHANGED <<idx, evidence, sampling>>
    /\ UNCHANGED <<controller, error, results, temp, outcome, faults>>

\* Mutant: no error of a write passes through the series.
LeaveAtOnce == "partial"
WhereWriteRaises ==
    IF status # "running" \/ idx = 0 THEN "partial"
    ELSE IF retained THEN "release" ELSE "stop"

\* The write raises: after a point the error takes its way through the series,
\* otherwise it leaves it with nothing attached.
WriteFails ==
    /\ pc \in {"write", "replace"}
    /\ Interrupt("write", "failed")
    /\ temp' = IF pc = "write" THEN Torn ELSE temp
    /\ error' = Error("failed", FALSE)
    /\ pc' = WhereWriteRaises
    /\ UNCHANGED <<idx, controller, evidence, sampling, results, status, disk,
                   outcome>>

-----------------------------------------------------------------------------
(* The report and the exit code *)

ExitCode(kind) == IF kind = "cancelled" THEN "cancelled" ELSE "execution_error"

\* partial_report
PartialReport ==
    /\ pc = "partial"
    /\ report' = File(error.kind, error.points, error.run)
    /\ pc' = "disconnect"
    /\ UNCHANGED <<idx, controller, evidence, sampling, error, results, checkpoint,
                   saved, exit, faults>>

\* collect_monitoring_metrics and the complete report.
Monitor ==
    /\ pc = "monitor"
    /\ pc' = "disconnect"
    /\ \/ /\ report' = File("completed", Len(results), {})
          /\ UNCHANGED <<exit, faults>>
       \/ /\ \E kind \in Kinds : Interrupt("monitor", kind) /\ exit' = ExitCode(kind)
          /\ UNCHANGED report
    /\ UNCHANGED <<idx, controller, evidence, sampling, error, results, checkpoint,
                   saved>>

\* The end of "async with connection": an exception there replaces the report.
Disconnect ==
    /\ pc = "disconnect"
    /\ \/ /\ pc' = IF report = Absent THEN "exited" ELSE "save"
          /\ UNCHANGED <<report, exit, faults>>
       \/ /\ \E kind \in Kinds : Interrupt("disconnect", kind) /\ exit' = ExitCode(kind)
          /\ pc' = "exited" /\ report' = Absent
    /\ UNCHANGED <<idx, controller, evidence, sampling, error, results, checkpoint,
                   saved>>

\* Mutant: every report that was saved is a success.
CodeSaved == "success"
\* "success" stands for both codes of a complete series, with and without
\* warnings.
CodeOfReport == IF report.status = "completed" THEN "success" ELSE ExitCode(report.status)

\* save_report: the JSON file, then the HTML file, each written atomically.
Save ==
    /\ pc = "save"
    /\ \/ /\ "json" \notin saved
          /\ saved' = {"json"}
          /\ UNCHANGED <<pc, exit, faults>>
       \/ /\ "json" \in saved
          /\ saved' = {"json", "html"}
          /\ pc' = "exited" /\ exit' = CodeOfReport
          /\ UNCHANGED faults
       \/ /\ \E kind \in Kinds : Interrupt("save", kind) /\ exit' = ExitCode(kind)
          /\ pc' = "exited"
          /\ UNCHANGED saved
    /\ UNCHANGED <<idx, controller, evidence, sampling, error, results, checkpoint,
                   report>>

-----------------------------------------------------------------------------
\* The process is killed; its session ends with it.
Kill ==
    /\ pc \notin Ended
    /\ pc' = "killed" /\ held' = FALSE
    /\ UNCHANGED <<idx, retained, evidence, sampling, error, results, checkpoint,
                   outcome, faults>>

\* The machine stops.  Neither the temporary file nor its new name was
\* synchronized, so the checkpoint may be lost.
PowerLoss ==
    /\ PowerLosses
    /\ pc \notin Ended
    /\ pc' = "killed" /\ held' = FALSE
    /\ disk' \in IF disk = Absent THEN {disk} ELSE {disk, Torn}
    /\ UNCHANGED <<idx, retained, evidence, sampling, error, results, status, temp,
                   outcome, faults>>

Terminated == pc \in Ended /\ UNCHANGED vars

Step == \/ Open \/ Prepare \/ Initialize \/ SnapshotBefore \/ Workload
        \/ PutOff \/ FinishSampling \/ SnapshotAfter \/ CloseController
        \/ AppendPoint \/ Release \/ Stop \/ WriteTemporary \/ Replace \/ WriteFails
        \/ PartialReport \/ Monitor \/ Disconnect \/ Save

Next == Step \/ SamplerStops \/ SamplerEnds \/ Kill \/ PowerLoss \/ Terminated

Spec == Init /\ [][Next /\ UNCHANGED setup]_<<setup, vars>>

\* Every await is bounded by a timeout, and so is a window of the sampler.
Fairness == WF_vars(Step) /\ WF_vars(SamplerStops)
FairSpec == Spec /\ Fairness

-----------------------------------------------------------------------------
(* Properties.                                                             *)

Entries == {"init", "before", "workload", "aborted", "samples", "after", "cleanup"}
Files == [status : {"absent", "torn", "running", "complete", "failed", "cancelled",
                    "completed"},
          points : 0 .. Iterations, failed : SUBSET Entries]

\* Every variable keeps its type.
TypeOK ==
    /\ pc \in Points /\ idx \in 0 .. Iterations
    /\ held \in BOOLEAN /\ retained \in BOOLEAN
    /\ result \subseteq Entries /\ collected \subseteq Entries
    /\ sampler \in {"none", "collecting", "done"}
    /\ stopping \in BOOLEAN /\ pending \in BOOLEAN
    /\ error \in [kind : {"none", "failed", "cancelled"}, output : BOOLEAN,
                  run : SUBSET Entries, points : 0 .. Iterations]
    /\ results \in Seq([iteration : 1 .. Iterations, entries : SUBSET Entries])
    /\ status \in {"running", "complete", "failed", "cancelled"}
    /\ temp \in Files /\ disk \in Files /\ report \in Files
    /\ saved \subseteq {"json", "html"}
    /\ exit \in {"none", "success", "execution_error", "cancelled"}
    /\ faults \in 0 .. MaxFaults

\* What a point must hold to be compared with others.
FullEvidence == {"init", "before", "workload", "after"}
                    \cup IF Sampled THEN {"samples"} ELSE {}

\* "Failed iterations never contribute a TPS point": the points are those of
\* the iterations in order, once each and with all their evidence.
PointsComplete ==
    /\ Len(results) <= idx
    /\ \A i \in 1 .. Len(results) :
           results[i] = [iteration |-> i, entries |-> FullEvidence]

\* Whatever ends the process while a point is prepared or measured, the
\* checkpoint holds every completed point.
CheckpointCurrent == pc \in Awaits => disk.points = Len(results)

\* "The last successfully written checkpoint remains available": it is never
\* damaged and no point of it is ever lost, whatever fails and whenever the
\* process is killed.
CheckpointAvailable ==
    [][disk # Absent /\ ~PowerLosses => disk' # Torn /\ disk'.points >= disk.points]_vars

\* "The failed_iteration entry retains available initialization evidence, the
\* before-workload storage snapshot, raw command output, and OS samples" of an
\* iteration that one failure or cancellation ended.
EvidenceKept ==
    disk.status \in {"failed", "cancelled"} /\ Len(results) < idx /\ faults <= 1
        => collected \subseteq disk.failed

\* "A failure or cancellation during iterations also produces a partial
\* HTML/JSON report, with completed points."
ReportHasPoints == report # Absent => report.points = Len(results)

\* No single failure or cancellation costs a point: a run that is not killed
\* leaves every one it measured in its report or in its checkpoint.
NoPointLost ==
    pc = "exited" /\ faults <= 1 =>
        \/ disk.points = Len(results)
        \/ "json" \in saved /\ report.points = Len(results)

\* What is measured is kept, and nothing else.
PointsKept == PointsComplete /\ CheckpointCurrent /\ NoPointLost

\* The exit code is a success only for a complete series with both files, and
\* the report says the same.
ExitHonest ==
    exit = "success" => /\ Len(results) = Iterations
                        /\ saved = {"json", "html"}
                        /\ report.status = "completed" /\ disk.status = "complete"

\* The controller, and so the server lock, never outlives the series, whatever
\* the policy and whichever step of it failed.
ControllerClosed == pc \in {"partial", "monitor", "disconnect", "save"} \cup Ended => ~held

\* A cancellation is never lost: a run that put one off does not go on
\* measuring.
CancellationHonoured == [][pending /\ ~pending' => error'.kind = "cancelled"]_vars

\* Every run ends.
Ends == <>(pc \in Ended)
=============================================================================
