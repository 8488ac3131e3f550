---------------------------- MODULE ProcessGroup ----------------------------
(***************************************************************************)
(* One call of run_local_process (executors/process.py): a command started *)
(* as the leader of a session of its own, that may leave a child in the    *)
(* same process group, and the coroutine that reads its output until the   *)
(* deadline, an error or a cancellation, and then stops the group.         *)
(*                                                                         *)
(* A zombie is a leader that has exited before the event loop has noticed: *)
(* until then process.returncode is None and the group can be signalled.   *)
(***************************************************************************)
EXTENDS Naturals

CONSTANT MaxCancels     \* cancellations that may reach one call

VARIABLES
    step,       \* where the coroutine stands
    leader,     \* "none", "runs", "zombie" or "reaped"
    child,      \* "none", "early", "later" (forked after the stop began) or "gone"
    holds,      \* the child keeps the output pipes of the command open
    stubborn,   \* the processes that ignore SIGTERM
    told,       \* the processes a signal was sent to
    killed,     \* SIGKILL was sent
    late,       \* the leader was already reaped when the group was to stop
    cut,        \* a cancellation ended the stop itself
    ended,      \* how the call ended: "no", "ok", "failed", "timeout" or "cancelled"
    why,        \* what interrupted it: "no", "timeout" or "cancelled"
    cancels

proc == <<leader, child, holds, stubborn>>
stop == <<told, killed, late, cut>>
call == <<ended, why, cancels>>
groupVars == <<step, proc, stop, call>>

Members == {"leader", "child"}
ChildRuns == child \in {"early", "later"}

TypeOK ==
    /\ step \in {"new", "communicate", "stop", "grace", "kill", "attach", "end"}
    /\ leader \in {"none", "runs", "zombie", "reaped"}
    /\ child \in {"none", "early", "later", "gone"}
    /\ holds \in BOOLEAN /\ killed \in BOOLEAN /\ late \in BOOLEAN /\ cut \in BOOLEAN
    /\ stubborn \subseteq Members /\ told \subseteq Members
    /\ why \in {"no", "timeout", "cancelled"}
    /\ ended \in {"no", "ok", "failed", "timeout", "cancelled"}
    /\ cancels \in 0..MaxCancels

Init ==
    /\ step = "new" /\ leader = "none" /\ child = "none"
    /\ holds \in BOOLEAN /\ stubborn \in SUBSET Members
    /\ told = {} /\ killed = FALSE /\ late = FALSE /\ cut = FALSE
    /\ why = "no" /\ ended = "no" /\ cancels = 0
-----------------------------------------------------------------------------
(* The operating system: the command forks, exits, and is noticed.         *)
Fork ==
    /\ leader = "runs" /\ child = "none"
    /\ child' = IF told = {} THEN "early" ELSE "later"
    /\ UNCHANGED <<step, leader, holds, stubborn, stop, call>>
ExitLeader ==
    /\ leader = "runs" /\ leader' = "zombie"
    /\ UNCHANGED <<step, child, holds, stubborn, stop, call>>
ExitChild ==
    /\ ChildRuns /\ child' = "gone"
    /\ UNCHANGED <<step, leader, holds, stubborn, stop, call>>
Reap ==
    /\ leader = "zombie" /\ leader' = "reaped"
    /\ UNCHANGED <<step, child, holds, stubborn, stop, call>>

\* A process that was sent a signal it cannot ignore.
Doomed(m) == m \in told /\ (killed \/ m \notin stubborn)
Die == \/ Doomed("leader") /\ ExitLeader
       \/ Doomed("child") /\ ExitChild
-----------------------------------------------------------------------------
Start ==
    /\ step = "new"
    /\ \/ step' = "communicate" /\ leader' = "runs" /\ UNCHANGED ended
       \/ step' = "end" /\ ended' = "failed" /\ UNCHANGED leader   \* no such file
    /\ UNCHANGED <<child, holds, stubborn, stop, why, cancels>>

\* communicate() has read both pipes to their end and the leader is reaped.
Drained == leader = "reaped" /\ ~(ChildRuns /\ holds)

\* A command read to its end: check=True turns its status into an error.
Return ==
    /\ step = "communicate" /\ Drained
    /\ step' = "end" /\ ended' \in {"ok", "failed"}
    /\ UNCHANGED <<proc, stop, why, cancels>>

Expire ==
    /\ step = "communicate" /\ step' = "stop" /\ why' = "timeout"
    /\ UNCHANGED <<proc, stop, ended, cancels>>

\* killpg reaches every member that has not gone.
Signalled == {"leader"} \cup {m \in {"child"} : ChildRuns}

Stop ==
    /\ step = "stop"
    /\ IF leader = "reaped"
          THEN late' = TRUE /\ step' = "attach" /\ UNCHANGED told
          ELSE told' = Signalled /\ step' = "grace" /\ UNCHANGED late
    /\ UNCHANGED <<proc, killed, cut, call>>

Stopped ==
    /\ step \in {"grace", "kill"} /\ leader = "reaped" /\ step' = "attach"
    /\ UNCHANGED <<proc, stop, call>>

\* 0.5 s have passed and the leader has not been reaped: SIGKILL.
GraceGivesUp ==
    /\ step = "grace" /\ leader # "reaped" /\ step' = "attach"
    /\ UNCHANGED <<proc, stop, call>>
GraceExpires ==
    /\ step = "grace" /\ leader # "reaped"
    /\ step' = "kill" /\ killed' = TRUE /\ told' = told \cup Signalled
    /\ UNCHANGED <<proc, late, cut, call>>

\* The output read so far, or after 5 s the note that reading it did not end.
AttachAll ==
    /\ step = "attach" /\ Drained /\ step' = "end" /\ ended' = why
    /\ UNCHANGED <<proc, stop, why, cancels>>
Attach ==
    /\ step = "attach" /\ step' = "end" /\ ended' = why
    /\ UNCHANGED <<proc, stop, why, cancels>>

(* A cancellation interrupts the read and starts the stop; one that comes  *)
(* during the stop leaves the call at once, and one that comes while the   *)
(* output is collected is swallowed by _attach_interrupted_output.         *)
Interrupt ==
    /\ cancels < MaxCancels
    /\ cancels' = cancels + 1
    /\ \/ /\ step = "communicate" /\ step' = "stop" /\ why' = "cancelled"
          /\ UNCHANGED <<cut, ended>>
       \/ /\ step \in {"grace", "kill"} /\ step' = "end" /\ cut' = TRUE
          /\ why' = "cancelled" /\ ended' = "cancelled"
       \/ step = "attach" /\ step' = "end" /\ ended' = why /\ UNCHANGED <<why, cut>>
    /\ UNCHANGED <<proc, told, killed, late>>

Rest == step = "end" /\ UNCHANGED groupVars

Code == Start \/ Return \/ Expire \/ Stop \/ Stopped \/ GraceExpires \/ Attach
System == Fork \/ ExitLeader \/ ExitChild \/ Reap
Next == Code \/ System \/ Interrupt \/ Rest

(* The coroutine runs and its timers expire; the kernel ends a process     *)
(* that cannot ignore its signal, and the loop reaps the leader. Nothing   *)
(* makes a command end or a child close its pipes by itself.               *)
Fairness == WF_groupVars(Code) /\ WF_groupVars(Die) /\ WF_groupVars(Reap)
Spec == Init /\ [][Next]_groupVars /\ Fairness
-----------------------------------------------------------------------------
(* A call of run_local_process that ends, with a result, at its deadline   *)
(* or by a cancellation, leaves no running leader behind, unless a further *)
(* cancellation cut the stop itself short (lines 158 to 174).              *)
LeaderStopped == step = "end" /\ ~cut => leader \in {"none", "reaped"}

(* A child of the command that outlives an interrupted call was sent the   *)
(* signal and ignored it, unless it was forked after the signal, or the    *)
(* leader had been reaped before the stop and killpg was never called.     *)
GroupAsked ==
    step = "end" /\ why # "no" /\ child = "early"
        => late \/ "child" \in told

(* Whatever interrupts a call, what it started has ended, or was asked to. *)
GroupStopped == LeaderStopped /\ GroupAsked
=============================================================================
