----------------------------- MODULE Invocation -----------------------------
(***************************************************************************)
(* One invocation of the command line interface (cli.py): main parses the  *)
(* arguments, checks the plan of a benchmark, executes the command, builds *)
(* its configuration a last time, saves the report, and answers with an    *)
(* exit code and, with --machine, one JSON envelope.                       *)
(*                                                                         *)
(* The join command is the module Join. A benchmark is the sequence of its *)
(* points with the effects of Configuration; the files and clients of the  *)
(* machine may change at any time while it runs.                           *)
(***************************************************************************)
EXTENDS Configuration, Join

CONSTANTS
    Requests,      \* the benchmarks that may be asked for
    Points,        \* how many points one has
    MaxChanges     \* bound on the changes of files and clients

ASSUME InvocationAssumption == Requests \subseteq Request /\ Requests # {} /\ Points \in Nat \ {0}

VARIABLES
    pc,
    task,       \* the command: "benchmark", "collect", "join", "plan" or "inspect"
    machine,    \* --machine
    request,    \* of a benchmark or its plan
    hash,       \* the inputs --plan-hash was computed from; 0 without it
    patroni,    \* does Patroni manage the server?
    host,       \* the Machine
    changes,    \* how often it changed
    done,       \* per point, its effects and the inputs it used
    evidence,   \* the configuration file whose hash the report has
    report,     \* "none", "failed" or "cancelled" (partial), "partial" (warnings), "full"
    saved,
    failure,    \* what is raised: "none" or a kind of exception
    reply       \* the envelopes and the exit code: <<status, code>>, or <<>>

given == <<task, machine, request, hash, patroni>>
outside == <<host, changes>>
product == <<done, evidence, report, saved>>
vars == <<pc, given, outside, product, failure, reply, joinVars>>

Host(inputs, clients) == [inputs |-> inputs, pgbench |-> clients, psql |-> clients]

Init ==
    /\ pc = "parse" /\ task \in {"benchmark", "collect", "join", "plan", "inspect"}
    /\ machine \in BOOLEAN
    /\ request \in IF task \in {"benchmark", "plan"} THEN Requests ELSE {CHOOSE q \in Requests : TRUE}
    /\ hash \in IF task = "benchmark" THEN 0 .. 2 ELSE {0}
    /\ patroni \in IF task = "benchmark" THEN BOOLEAN ELSE {FALSE}
    /\ IF task = "join" THEN Selected ELSE files = <<>> /\ reference = 0
    /\ JoinInit
    /\ host = Host(1, {1}) /\ changes = 0
    /\ done = <<>> /\ evidence = 0 /\ report = "none" /\ saved = FALSE
    /\ failure = "none" /\ reply = <<>>
-----------------------------------------------------------------------------
Go(next) == pc' = next /\ UNCHANGED failure
Raise(kind) == pc' = "handle" /\ failure' = kind

(* build_runtime_config, with the files and clients as they are; a client  *)
(* that does not tell its version in time is an error too.                 *)
Build(next) ==
    \/ IF Accepted(request, host) THEN Go(next) ELSE Raise("configuration")
    \/ Raise("unanswered")

\* parse_args, with the global options moved to the front; its error() raises.
Parse ==
    /\ pc = "parse"
    /\ \/ Raise("configuration")
       \/ Go(IF task = "benchmark" THEN "check"
             ELSE IF task \in {"join", "collect"} THEN "build" ELSE task)
    /\ UNCHANGED <<given, outside, product, reply, joinVars>>

\* The commands that only read: catalogs, artifacts, packaged content.
Answer(status, code) == pc' = "ended" /\ reply' = <<status, code>>
Inspect ==
    /\ pc = "inspect"
    /\ \/ Answer("succeeded", 0) /\ UNCHANGED failure
       \/ Answer("failed", 2) /\ UNCHANGED failure                \* validate
       \/ \E kind \in {"missing", "execution"} : Raise(kind) /\ UNCHANGED reply
    /\ UNCHANGED <<given, outside, product, joinVars>>
Plan ==
    /\ pc = "plan"
    /\ \/ IF Accepted(request, host)
             THEN Answer("succeeded", 0) /\ UNCHANGED failure
             ELSE Raise("configuration") /\ UNCHANGED reply
       \/ Raise("unanswered") /\ UNCHANGED reply
    /\ UNCHANGED <<given, outside, product, joinVars>>

(* A benchmark of another program needs the hash of its plan; anybody's is *)
(* compared with the files as they are now.                                *)
CheckPlan ==
    /\ pc = "check"
    /\ IF hash = 0 THEN (IF machine THEN Raise("precondition") ELSE Go("build"))
       ELSE \/ Raise("unanswered")
            \/ IF ~Accepted(request, host) THEN Raise("configuration")
               ELSE IF hash # host.inputs THEN Raise("precondition") ELSE Go("build")
    /\ UNCHANGED <<given, outside, product, reply, joinVars>>

\* execute_namespace.
Execute ==
    /\ pc = "build"
    /\ IF task = "benchmark" THEN Build("point") ELSE Go(task)
    /\ UNCHANGED <<given, outside, product, reply, joinVars>>

Collect ==
    /\ pc = "collect"
    /\ \/ Go("rebuild") /\ report' \in {"full", "partial"}
       \/ \E kind \in {"missing", "execution"} : Raise(kind) /\ UNCHANGED report
    /\ UNCHANGED <<given, outside, done, evidence, saved, reply, joinVars>>

JoinReports ==
    /\ pc = "join"
    /\ IF ~JoinEnded THEN JoinStep /\ UNCHANGED <<pc, failure, report>>
       ELSE /\ UNCHANGED joinVars
            /\ IF stage = "refused" THEN Raise("execution") /\ UNCHANGED report
               ELSE Go("rebuild") /\ report' \in {"full", "partial"}
    /\ UNCHANGED <<given, outside, done, evidence, saved, reply>>

\* An iteration that fails, or an interrupt while the points are measured.
Partial(status) == Go("rebuild") /\ report' = status /\ UNCHANGED done

(* A point resets, loads and measures; it reads the files of the workload  *)
(* again. Before the first one, the connection may fail, which is answered *)
(* here as an execution error, whatever its exception.                     *)
Point ==
    /\ pc = "point" /\ Len(done) < Points
    /\ \/ done = <<>> /\ Raise("execution") /\ UNCHANGED <<done, report>>
       \/ \E status \in {"failed", "cancelled"} : Partial(status)
       \/ /\ ~PatroniRefuses(request, patroni) /\ host.inputs # 0
          /\ done' = Append(done, [effects |-> Effects(request, Len(done) + 1), inputs |-> host.inputs])
          /\ UNCHANGED <<pc, failure, report>>
    /\ UNCHANGED <<given, outside, evidence, saved, reply, joinVars>>

\* The final collection; the supplied configuration is hashed only now.
Monitor ==
    /\ pc = "point" /\ Len(done) = Points
    /\ \/ Raise("execution") /\ UNCHANGED <<report, evidence>>
       \/ /\ request.config => host.inputs # 0
          /\ evidence' = IF request.config THEN host.inputs ELSE 0
          /\ Go("rebuild") /\ report' \in {"full", "partial"}
    /\ UNCHANGED <<given, outside, done, saved, reply, joinVars>>

\* Mutant: the plan is compared again after the run.
RebuildPlanned ==
    /\ pc = "rebuild"
    /\ IF task = "benchmark" /\ hash # 0 /\ hash # host.inputs
          THEN Raise("precondition") ELSE Go("save")
    /\ UNCHANGED <<given, outside, product, reply, joinVars>>
\* The directory of the report comes from a configuration built once more.
Rebuild ==
    /\ pc = "rebuild"
    /\ IF task = "benchmark" THEN Build("save") ELSE Go("save")
    /\ UNCHANGED <<given, outside, product, reply, joinVars>>

\* Mutant: warnings make the envelope partial, but not the exit code.
OutcomeWarned ==
    [full |-> <<"succeeded", 0>>, partial |-> <<"partial", 0>>, failed |-> <<"failed", 6>>,
     cancelled |-> <<"cancelled", IF machine THEN 7 ELSE 130>>][report]
Outcome ==
    [full |-> <<"succeeded", 0>>, partial |-> <<"partial", 5>>, failed |-> <<"failed", 6>>,
     cancelled |-> <<"cancelled", IF machine THEN 7 ELSE 130>>][report]

Save ==
    /\ pc = "save"
    /\ \/ saved' = TRUE /\ reply' = Outcome /\ pc' = "ended" /\ UNCHANGED failure
       \/ \E kind \in {"missing", "execution"} : Raise(kind) /\ UNCHANGED <<saved, reply>>
    /\ UNCHANGED <<given, outside, done, evidence, report, joinVars>>

\* The exception handlers of main.
Handle ==
    /\ pc = "handle" /\ pc' = "ended"
    /\ reply' = [configuration |-> <<"failed", 2>>, unanswered |-> <<"failed", 2>>,
                 precondition |-> <<"blocked", 3>>,
                 missing |-> <<"failed", 3>>,                \* file, permission, connection
                 execution |-> <<"failed", 6>>,
                 interrupted |-> <<"cancelled", IF machine THEN 7 ELSE 130>>][failure]
    /\ UNCHANGED <<given, outside, product, failure, joinVars>>

(* Ctrl-C. While the points are measured it is the cancelled Point above,  *)
(* elsewhere it is raised where it finds main.                             *)
Interrupt ==
    /\ pc \notin {"handle", "ended"} /\ ~(pc = "point" /\ Len(done) \in 1 .. Points - 1)
    /\ Raise("interrupted")
    /\ UNCHANGED <<given, outside, product, reply, joinVars>>

\* Somebody edits or removes a file the request names, or updates the clients.
Change ==
    /\ pc # "ended" /\ task = "benchmark" /\ changes < MaxChanges /\ changes' = changes + 1
    /\ host' \in {Host(2, {1}), Host(0, {1}), Host(host.inputs, {1, 2}), Host(host.inputs, {})}
    /\ UNCHANGED <<pc, given, product, failure, reply, joinVars>>

Terminated == pc = "ended" /\ UNCHANGED vars

Next == Parse \/ Inspect \/ Plan \/ CheckPlan \/ Execute \/ Collect \/ JoinReports \/ Point
        \/ Monitor \/ Rebuild \/ Save \/ Handle \/ Interrupt \/ Change \/ Terminated
Spec == Init /\ [][Next]_vars
-----------------------------------------------------------------------------
Kept(effects) == effects \cap {"database", "schemas", "restart", "caches", "config", "fsync-off"} = {}

(* No accepted combination of options reaches more of the target than it   *)
(* was given: data are dropped only with the confirmation and never of a   *)
(* protected database, the host of a managed server is left alone, a schema*)
(* reset never restarts it or turns fsync off, and --init-policy skip      *)
(* changes nothing (build_runtime_config against reset_db_environment).    *)
TargetSpared ==
    \A i \in DOMAIN done :
        LET effects == done[i].effects
        IN  /\ effects \cap {"database", "schemas"} # {} => request.allow /\ ~request.protected
            /\ request.managed => Kept(effects \ {"database", "schemas"})
            /\ request.reset = "schema" => Kept(effects \ {"schemas"})
            /\ request.policy = "skip" => effects = {}

(* What the methodology of a complete report says was done before each     *)
(* point was done before each of them (benchmark_methodology).             *)
MethodologyTrue ==
    report \in {"full", "partial"} /\ task = "benchmark" =>
        \A i \in DOMAIN done : Claims(request) \subseteq done[i].effects

(* A report with the hash of a supplied postgresql.conf is of a server     *)
(* that was given one and restarted before the first point, and it is that *)
(* file unless the file changed meanwhile.                                 *)
ConfigurationInstalled ==
    report \in {"full", "partial"} /\ evidence # 0 =>
        /\ {"config", "restart"} \subseteq done[1].effects
        /\ done[1].inputs = evidence \/ changes > 0

(* A benchmark that another program starts touches the target only with    *)
(* the hash of its plan, and while no file changes it measures what that   *)
(* plan described.                                                         *)
PlanHonoured ==
    machine /\ done # <<>> =>
        hash # 0 /\ (changes = 0 => \A i \in DOMAIN done : done[i].inputs = hash)

(* A report and a plan describe what was done, and with which inputs.      *)
ReportTruthful == MethodologyTrue /\ ConfigurationInstalled /\ PlanHonoured

(* A report that was built is lost only if it cannot be written, the user  *)
(* interrupts, or its configuration could not be built again: a client did *)
(* not tell its version, or somebody changed the files or clients.         *)
ReportSaved ==
    pc = "ended" /\ report # "none" /\ ~saved =>
        \/ failure \in {"missing", "execution", "interrupted", "unanswered"}
        \/ failure = "configuration" /\ changes > 0

(* The status of the envelope and the exit code tell the same, and neither *)
(* tells of a report that was not saved.                                   *)
ReplyConsistent ==
    pc = "ended" =>
        /\ (reply[1] = "succeeded") = (reply[2] = 0)
        /\ (reply[1] = "partial") = (reply[2] = 5)
        /\ (reply[1] = "cancelled") = (reply[2] \in {7, 130})
        /\ reply[2] \in {0, 5} /\ task \in {"benchmark", "collect", "join"} => saved
=============================================================================
