----------------------------- MODULE Collection -----------------------------
(***************************************************************************)
(* One collect-sys-info or collect-all-info command (collect_info.py):     *)
(* the transport and a read-only session are opened, the items of the      *)
(* report template are collected one after the other (report/commands.py), *)
(* the logs are archived (FileCopy), and everything is closed again, also  *)
(* after an error or a cancellation. A shell item on the local or the      *)
(* Docker host is a call of run_local_process (ProcessGroup).              *)
(***************************************************************************)
EXTENDS Naturals, Sequences, FiniteSetsExt

CONSTANTS
    Template,       \* the kinds of the items in order; one at most is "shell"
    MaxCancels,     \* cancellations of one command
    Kinds, Jobs     \* the transports, and the copy a command makes: "logs"

ASSUME TemplateAssumption ==
    /\ Template \in Seq({"sql", "shell", "python"})
    /\ Quantify(DOMAIN Template, LAMBDA i : Template[i] = "shell") <= 1

ASSUME CopyAssumption == Kinds \subseteq {"local", "docker", "ssh"} /\ Jobs \subseteq {"config", "logs"}

VARIABLES step, leader, child, holds, stubborn, told, killed, late, cut, ended, why, cancels
Group == INSTANCE ProcessGroup

VARIABLES kind, job, caller, phase, at, temp, dest, error, outcome, up
Copy == INSTANCE FileCopy

VARIABLES
    pc,
    database,   \* the command collects from the database too
    item,       \* the next item
    warned,     \* an item or the logs so far are "error", "partial" or "skipped"
    session,    \* its settings: "none", "set", "reset", "failed", "cut" by a cancellation,
                \* or "gone" with their backend
    connected,  \* the read-only session is open
    server,     \* what is at its other end: it "answers", is "silent" or has "closed" it
    transport,  \* the transport is open
    failure     \* what ended the command: "no", "connect", "reset" or "cancelled"

own == <<pc, database, item, warned, session, connected, server, transport, failure>>
group == <<step, leader, child, holds, stubborn, told, killed, late, cut, ended, why, cancels>>
copy == <<kind, job, caller, phase, at, temp, dest, error, outcome, up>>
vars == <<own, group, copy>>

Items == DOMAIN Template

Init ==
    /\ Group!Init /\ Copy!Init
    /\ kind = "ssh" => ~holds /\ stubborn = {}     \* no process of ours runs
    /\ pc = "open" /\ database \in BOOLEAN /\ item = 1 /\ warned = FALSE
    /\ session = "none" /\ connected = FALSE /\ server = "answers"
    /\ transport = FALSE /\ failure = "no"
-----------------------------------------------------------------------------
(* Where an exception or a cancellation leads: __aexit__ closes the        *)
(* transport, then the finally clause the session.                         *)
Raise(cause) == failure' = cause /\ pc' = IF transport THEN "leave" ELSE "raised"

\* start() of the transport: one that cannot be opened is closed and raises.
Open ==
    /\ pc = "open"
    /\ \/ transport' = TRUE /\ pc' = (IF database THEN "connect" ELSE "items") /\ UNCHANGED failure
       \/ Raise("connect") /\ UNCHANGED transport
    /\ UNCHANGED <<database, item, warned, session, connected, server, group, copy>>

\* handle_db_info: a session with read-only settings and a statement timeout.
Connect ==
    /\ pc = "connect"
    /\ \/ session' = "set" /\ connected' = TRUE /\ pc' = "items" /\ UNCHANGED failure
       \/ Raise("connect") /\ UNCHANGED <<session, connected>>
    /\ UNCHANGED <<database, item, warned, server, transport, group, copy>>

\* collection_status after each kind of item: the SQL value NULL sets none.
Results == [sql    |-> {"ok", "empty", "error", "none"},
            shell  |-> {"ok", "empty", "partial", "error"},
            python |-> {"ok", "empty", "partial", "error"}]

\* A peer that is lost fails an item, by an error or by its timeout.
Lost(k) == \/ k = "sql" /\ server # "answers"
           \/ k = "shell" /\ kind = "ssh" /\ ~up
Possible(k) == IF Lost(k) THEN {"error"} ELSE Results[k]

Counted == {"error", "partial", "skipped"}
Note(s) == warned' = (warned \/ s \in Counted)
Settle(s) == Note(s) /\ item' = item + 1

InShell == Template[item] = "shell" /\ kind # "ssh"

\* execute_steps_in_order: what an item raises is its status.
Collect ==
    /\ pc = "items" /\ item \in Items /\ ~InShell
    /\ IF Template[item] = "sql" /\ ~database
          THEN item' = item + 1 /\ UNCHANGED warned      \* not in the template of this command
          ELSE \E s \in Possible(Template[item]) : Settle(s)
    /\ UNCHANGED <<pc, database, session, connected, server, transport, failure, group, copy>>

\* run_local_shell on the local host, or on the host of the container.
EnterShell ==
    /\ pc = "items" /\ item \in Items /\ InShell /\ pc' = "shell"
    /\ UNCHANGED <<database, item, warned, session, connected, server, transport, failure, group, copy>>
RunShell == pc = "shell" /\ Group!Code /\ UNCHANGED <<own, copy>>
LeaveShellCatching ==
    /\ pc = "shell" /\ step = "end" /\ pc' = "items" /\ UNCHANGED failure
    /\ IF ended = "ok" THEN \E s \in Results["shell"] : Settle(s) ELSE Settle("error")
    /\ UNCHANGED <<database, session, connected, server, transport, group, copy>>
LeaveShell ==
    /\ pc = "shell" /\ step = "end"
    /\ \/ ended = "cancelled" /\ Raise("cancelled") /\ UNCHANGED <<item, warned>>
       \/ /\ ended # "cancelled" /\ pc' = "items" /\ UNCHANGED failure
          /\ IF ended = "ok" THEN \E s \in Results["shell"] : Settle(s) ELSE Settle("error")
    /\ UNCHANGED <<database, session, connected, server, transport, group, copy>>

\* collect_logs_if_needed: the directory of the logs is asked for, then copied.
EndItems ==
    /\ pc = "items" /\ item \notin Items
    /\ pc' \in IF database THEN {"ask", "cleanup"} ELSE {"leave"}
    /\ UNCHANGED <<database, item, warned, session, connected, server, transport, failure, group, copy>>
AskDirectory ==
    /\ pc = "ask"
    /\ \/ server = "answers" /\ pc' = "copy" /\ UNCHANGED warned
       \/ pc' = "cleanup" /\ Note("error")
    /\ UNCHANGED <<database, item, session, connected, server, transport, failure, group, copy>>
RunCopy == pc = "copy" /\ Copy!Body /\ UNCHANGED <<own, group>>
LeaveCopy ==
    /\ pc = "copy" /\ Copy!Return
    /\ IF error = "cancelled"
          THEN Raise("cancelled") /\ UNCHANGED warned
          ELSE /\ pc' = "cleanup" /\ UNCHANGED failure
               /\ Note(IF error = "no" THEN "ok" ELSE "error")
    /\ UNCHANGED <<database, item, session, connected, server, transport, group>>
\* A thread that was abandoned goes on.
CopyGoesOn == caller # "await" /\ Copy!Body /\ UNCHANGED <<own, group>>

\* How the command ends when everything is closed.
Answer == IF failure = "no" THEN "returned" ELSE "raised"

(* close_diagnostic_connection: a task of its own resets the session, with *)
(* a timeout, and closes it, so that a pool gets a clean backend back. A   *)
(* RESET that fails is raised when the session is closed, in the place of  *)
(* the report or of what the command has failed with before.               *)
Resets == [answers |-> {"reset", "failed"},
           silent  |-> {"failed"},
           closed  |-> {"gone"}]          \* no RESET then
Reset ==
    /\ pc \in {"cleanup", "hold"} /\ session = "set" /\ session' \in Resets[server]
    /\ failure' = IF session' = "failed" THEN "reset" ELSE failure
    /\ UNCHANGED <<pc, database, item, warned, connected, server, transport, group, copy>>
CloseSession ==
    /\ pc \in {"cleanup", "hold"} /\ session # "set" /\ connected' = FALSE
    /\ pc' = IF transport THEN "leave" ELSE Answer
    /\ UNCHANGED <<database, item, warned, session, server, transport, failure, group, copy>>

\* __aexit__: then the finally clause, when the session is still open.
CloseTransport == /\ transport' = FALSE
                  /\ IF caller = "close" THEN Copy!Close ELSE UNCHANGED copy
Leave ==
    /\ pc = "leave" /\ CloseTransport
    /\ pc' = IF connected THEN "cleanup" ELSE Answer
    /\ UNCHANGED <<database, item, warned, session, connected, server, failure, group>>

(* A cancellation interrupts whatever is awaited. The cleanup is shielded  *)
(* from the first one, which gives way to the error of a RESET; a second   *)
(* one ends the RESET, but not the close. A transport that is being closed *)
(* is left as it is (the local one has nothing to wait for).               *)
Unshielded ==
    /\ failure' = "cancelled" /\ pc' = "hold"
    /\ session' = IF session = "set" THEN "cut" ELSE session
Shielded ==
    /\ pc' = "hold"
    /\ failure' = IF pc = "cleanup" /\ session = "failed" THEN failure ELSE "cancelled"
    /\ session' = IF pc = "hold" /\ session = "set" THEN "cut" ELSE session
CancelClose ==
    /\ pc = "leave" /\ kind # "local" /\ CloseTransport
    /\ failure' = "cancelled" /\ pc' = IF connected THEN "cleanup" ELSE "raised"
    /\ UNCHANGED session
Cancel ==
    \/ pc = "shell" /\ Group!Interrupt /\ UNCHANGED <<own, copy>>
    \/ /\ pc = "copy" /\ cancels < MaxCancels /\ cancels' = cancels + 1 /\ Copy!Cancel
       /\ IF caller' = "close" THEN Raise("cancelled") ELSE UNCHANGED <<pc, failure>>
       /\ UNCHANGED <<database, item, warned, session, connected, server, transport>>
       /\ UNCHANGED <<step, leader, child, holds, stubborn, told, killed, late, cut, ended, why>>
    \/ /\ cancels < MaxCancels /\ cancels' = cancels + 1
       /\ \/ /\ pc \in {"open", "connect", "items", "ask"} /\ Raise("cancelled")
             /\ UNCHANGED <<session, transport, copy>>
          \/ pc \in {"cleanup", "hold"} /\ Shielded /\ UNCHANGED <<transport, copy>>
          \/ CancelClose
       /\ UNCHANGED <<database, item, warned, connected, server>>
       /\ UNCHANGED <<step, leader, child, holds, stubborn, told, killed, late, cut, ended, why>>

(* The host, or the Docker daemon while it copies, is lost; the database   *)
(* server closes the session or is not heard of any more.                  *)
LoseHost == /\ transport /\ (kind = "docker" => pc = "copy") /\ Copy!Disconnect
            /\ UNCHANGED <<own, group>>
LoseServer ==
    /\ connected /\ pc # "shell" /\ server = "answers" /\ server' \in {"silent", "closed"}
    /\ UNCHANGED <<pc, database, item, warned, session, connected, transport, failure, group, copy>>

Ended == pc \in {"returned", "raised"}
Terminated == Ended /\ UNCHANGED vars

Code == Open \/ Connect \/ Collect \/ EnterShell \/ RunShell \/ LeaveShell \/ EndItems
        \/ AskDirectory \/ RunCopy \/ LeaveCopy \/ Reset \/ CloseSession \/ Leave
System == pc = "shell" /\ Group!System /\ UNCHANGED <<own, copy>>
Next == Code \/ System \/ CopyGoesOn \/ Cancel \/ LoseHost \/ LoseServer \/ Terminated

(* The awaits that no timeout bounds, while their peer is lost: sftp.get,  *)
(* wait_closed, SHOW log_directory and db.close(). The commands, the items *)
(* and the RESET have a timeout, the local and Docker copies run in        *)
(* threads.                                                                *)
Hanging ==
    \/ pc = "copy" /\ Copy!Stuck
    \/ pc = "leave" /\ kind = "ssh" /\ ~up
    \/ pc = "ask" /\ server = "silent"
    \/ pc \in {"cleanup", "hold"} /\ session # "set" /\ server = "silent"

\* The command runs, unless it hangs; processes that must die do, and are reaped.
Fairness ==
    /\ WF_vars(Code /\ ~Hanging)
    /\ WF_vars(Group!Die /\ UNCHANGED <<own, copy>>)
    /\ WF_vars(Group!Reap /\ UNCHANGED <<own, copy>>)
Spec == Init /\ [][Next]_vars /\ Fairness
-----------------------------------------------------------------------------
(* An item or the logs that cannot be collected never cost the report: a   *)
(* command without a report could not connect, was cancelled, or could not *)
(* reset its session, which does discard what it has collected             *)
(* (execute_steps_in_order, collect_db_logs, close_diagnostic_connection). *)
ReportKept ==
    pc = "raised" /\ failure # "cancelled" =>
        \/ failure = "connect" /\ session = "none" /\ item = 1
        \/ failure = "reset" /\ session = "failed"

(* A backend that goes back to its pool keeps the read-only mode of the    *)
(* command only when the RESET failed or a second cancellation cut it      *)
(* short, and then never behind a report (close_diagnostic_connection);    *)
(* nothing else stays open either.                                         *)
BackendClean ==
    Ended => /\ ~connected /\ ~transport /\ session # "set"
             /\ session = "cut" => cancels > 1
             /\ pc = "returned" => session \notin {"failed", "cut"}

(* A command of an item that failed or ran into its timeout, and a log     *)
(* archive that was not written, are counted as warnings, so that the CLI  *)
(* exits with 5 and not with 0.                                            *)
FailuresCounted ==
    pc = "returned" =>
        (ended \in {"failed", "timeout"} \/ outcome \in {"failed", "timeout"} => warned)

(* A command that was cancelled does not end with a report, unless the     *)
(* cancellation came while the output of a timed out item was collected    *)
(* (_attach_interrupted_output swallows it).                               *)
CancellationEnds == pc = "returned" /\ cancels > 0 => ended = "timeout"

(* The answer of a command, its report and its exit code, hides nothing.   *)
AnswerHonest == ReportKept /\ FailuresCounted /\ CancellationEnds

(* The processes of an item that was interrupted, and the copy of the logs,*)
(* are left as ProcessGroup and FileCopy say.                              *)
GroupStopped == Group!GroupStopped
CopySettled == Copy!CopySettled

(* Every command ends, whatever the processes of its items do, or hangs    *)
(* for good in an await without a bound on a peer that is lost.            *)
CommandEnds == <>Ended \/ <>[]Hanging
=============================================================================
