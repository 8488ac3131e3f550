------------------------------ MODULE FileCopy ------------------------------
(***************************************************************************)
(* The transports (connections/local.py, ssh.py, docker.py) copying a file *)
(* to or from the server: send_pg_config_file installs postgresql.conf,    *)
(* copy_db_log_files fetches an archive of the logs.                       *)
(*                                                                         *)
(* The local and the Docker copy run in a thread that a cancellation of    *)
(* the awaiting coroutine does not stop; the SSH copy is the coroutine     *)
(* itself, which a cancellation or a timeout interrupts at any step.       *)
(***************************************************************************)
EXTENDS Naturals, Sequences

CONSTANTS Kinds, Jobs     \* the transports and the copies of a run

VARIABLES
    kind, job,
    caller,     \* who asked: it awaits, has its answer ("close"), or "closed" the transport
    phase,      \* the body of the copy: "steps", "cleanup" or "done"
    at,         \* its next step
    temp,       \* its temporary file or directory exists
    dest,       \* what it writes: "old", "torn" or "new"
    error,      \* what the body raises: "no", "failed", "timeout" or "cancelled"
    outcome,    \* what the caller gets: "none", "ok" or an error
    up          \* the connection to the host works

input == <<kind, job>>
body == <<phase, at, temp, dest, error>>
copyVars == <<input, caller, body, outcome, up>>

Errors == {"failed", "timeout", "cancelled"}

Init ==
    /\ kind \in Kinds /\ job \in Jobs
    /\ caller = "await" /\ phase = "steps" /\ at = 1
    /\ temp = FALSE /\ dest = "old" /\ error = "no" /\ outcome = "none" /\ up = TRUE
-----------------------------------------------------------------------------
SSHInPlace == [config |-> <<"write">>,                  logs |-> <<"make", "fill", "write">>]
LocalSteps == [config |-> <<"make", "fill", "rename">>, logs |-> <<"write">>]
DockerSteps == [config |-> <<"put", "write">>,           logs |-> <<"write">>]
SSHSteps == [config |-> <<"put", "rename">>,          logs |-> <<"make", "fill", "write">>]
Steps == [local |-> LocalSteps, docker |-> DockerSteps, ssh |-> SSHSteps][kind][job]

Step == Steps[at]
Creating == {"make", "put"}
InThread == kind # "ssh"
Reachable == up /\ ~(kind = "docker" /\ caller = "closed")   \* aclose() forgot the container

\* The except or finally clause that removes the temporary covers this step.
CoveredNever == FALSE
Covered ==
    \/ kind = "ssh" /\ job = "config"
    \/ kind = "docker" /\ job = "config" /\ Step # "put"
    \/ Steps[1] = "make" /\ Step # "make"

\* put, rename and get over SFTP have no timeout, and nothing probes the
\* connection: with its peer lost the step fails late, or never ends.
Stuck ==
    /\ kind = "ssh" /\ phase = "steps" /\ ~up
    /\ Step \in {"put", "rename", "write"}

StepDone ==
    /\ phase = "steps" /\ Reachable
    /\ temp' = IF Step = "rename" THEN FALSE ELSE temp \/ Step \in Creating
    /\ dest' = IF Step \in {"rename", "write"} THEN "new" ELSE dest
    /\ at' = at + 1
    /\ phase' = IF at < Len(Steps) THEN "steps" ELSE IF temp' THEN "cleanup" ELSE "done"
    /\ UNCHANGED <<input, caller, error, outcome, up>>

\* What a step that did not end may leave: nothing, part or all of its effect.
Interrupted ==
    /\ temp' \in {temp, temp \/ Step \in Creating}
    /\ dest' \in {dest} \cup {d \in {"torn"} : Step = "write"}
                        \cup {d \in {"new"} : Step \in {"write", "rename"}}

\* A step fails, the connection is gone, or run_command over SSH times out.
StepFails ==
    /\ phase = "steps"
    /\ IF Reachable THEN Interrupted ELSE UNCHANGED <<temp, dest>>
    /\ error' \in {"failed"} \cup {e \in {"timeout"} : ~InThread /\ Step \in {"make", "fill"}}
    /\ Step = "make" /\ error' = "failed" => temp' = temp
    /\ phase' = IF Covered THEN "cleanup" ELSE "done"
    /\ UNCHANGED <<input, caller, at, outcome, up>>

\* unlink(missing_ok), rm -f or rm -rf.
Cleanup ==
    /\ phase = "cleanup"
    /\ temp' = (temp /\ ~Reachable) /\ phase' = "done"
    /\ error' = IF Reachable \/ error # "no" THEN error ELSE "failed"
    /\ UNCHANGED <<input, caller, at, dest, outcome, up>>

Return ==
    /\ caller = "await" /\ phase = "done"
    /\ caller' = "close" /\ outcome' = IF error = "no" THEN "ok" ELSE error
    /\ UNCHANGED <<input, body, up>>

(* A cancellation abandons a thread; over SSH it interrupts the step, and  *)
(* of the two handlers only the finally of the log copy sees it.           *)
Cancel ==
    /\ caller = "await" /\ phase # "done"
    /\ IF InThread
          THEN caller' = "close" /\ outcome' = "cancelled" /\ UNCHANGED body
          ELSE /\ error' = "cancelled" /\ UNCHANGED <<at, caller, outcome>>
               /\ IF phase = "steps" THEN Interrupted ELSE UNCHANGED <<temp, dest>>
               /\ phase' = IF phase = "steps" /\ job = "logs" /\ Covered THEN "cleanup" ELSE "done"
    /\ UNCHANGED <<input, up>>

Close == caller = "close" /\ caller' = "closed" /\ UNCHANGED <<input, body, outcome, up>>

Disconnect ==
    /\ up /\ kind # "local" /\ caller # "closed" /\ up' = FALSE
    /\ UNCHANGED <<input, caller, body, outcome>>

CopyRests == caller = "closed" /\ phase = "done" /\ UNCHANGED copyVars

Body == StepDone \/ StepFails \/ Cleanup
Next == Body \/ Return \/ Cancel \/ Close \/ Disconnect \/ CopyRests
Spec == Init /\ [][Next]_copyVars
-----------------------------------------------------------------------------
(* PostgreSQL finds the old or the new postgresql.conf, never a part of    *)
(* one, when it was sent locally or over SSH: both rename a complete file  *)
(* over it. (Docker installs it in place.)                                 *)
ConfigWhole == job = "config" /\ kind # "docker" => dest # "torn"

(* A copy reported as done was done: postgresql.conf or the archive is the *)
(* new one, and stays so.                                                  *)
DoneMeansNew == outcome = "ok" => dest = "new"

(* A copy that succeeded or failed left no temporary on the server, while  *)
(* the connection works; one that was cancelled or timed out may, and so   *)
(* may a Docker copy whose first write to /tmp failed.                     *)
NoTemporaryLeft ==
    outcome \in {"ok", "failed"} /\ up /\ ~(kind = "docker" /\ at = 1) => ~temp

(* Once a caller that was not cancelled has its answer, the copy is over:  *)
(* no thread goes on behind it.                                            *)
QuietAfterReturn == outcome \in {"ok", "failed", "timeout"} => phase = "done"

(* A copy leaves the server as its answer says.                            *)
CopySettled == ConfigWhole /\ DoneMeansNew /\ NoTemporaryLeft /\ QuietAfterReturn
=============================================================================
