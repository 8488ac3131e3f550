--------------------------- MODULE PatroniRestart ---------------------------
(***************************************************************************)
(* The reset of a database whose server may be managed by Patroni          *)
(* (db_operations/patroni.py, and the two helpers that run on the host,    *)
(* patroni_probe.py and patroni_member.py): what manages the selected data *)
(* directory is detected, the SQL connection is checked against it, and    *)
(* the server is restarted through the REST API of the member. Without     *)
(* Patroni it is stopped and started directly.                             *)
(*                                                                         *)
(* Member 1 is the one on the selected host. Start times are values of a   *)
(* clock that advances with every start of a PostgreSQL server.            *)
(***************************************************************************)
EXTENDS Naturals

CONSTANTS
    Hosts,         \* what the selected host may look like
    MaxFaults      \* bound on failovers and restarts by others

Host == [python   : {"fit", "old", "none"},   \* for the helpers; old: older than 3.10
         ours     : 0 .. 2,     \* Patroni processes with the selected data directory
         closed   : BOOLEAN,    \* one whose configuration cannot be read
         marker   : BOOLEAN]    \* Patroni's mark in the data directory

VARIABLES
    host,
    proxied,       \* the SQL address leads to the leader, wherever it is
    silent,        \* nothing is heard from that address any more
    leader,        \* the primary: member 1 or 2
    start,         \* the start time of each member
    pid,           \* of the Patroni process
    faults,
    next,          \* the next step of the reset, "reset" or "refused" at its end
    member,        \* what detect returned
    previous,      \* the start time before the restart
    dropped,       \* the database has been dropped
    began,         \* the clock when restart() began
    forced,        \* how often member 1 was restarted by restart()
    wronged        \* it was not the primary then

cluster == <<leader, start, pid, faults>>
setting == <<host, proxied, silent>>
evidence == <<began, forced, wronged>>
resetVars == <<setting, cluster, next, member, previous, dropped, evidence>>

Nobody == [pid |-> 0, start |-> 0]
Clock == IF start[1] > start[2] THEN start[1] ELSE start[2]

Init ==
    /\ host \in Hosts /\ proxied \in BOOLEAN /\ silent = FALSE
    /\ leader = 1 /\ start = [m \in 1 .. 2 |-> m] /\ pid = 1 /\ faults = 0
    /\ next = "detect" /\ member = Nobody /\ previous = 0 /\ dropped = FALSE
    /\ began = 0 /\ forced = 0 /\ wronged = FALSE
-----------------------------------------------------------------------------
\* What the SQL connection reaches, and what a restart of a member does.
Reached == IF proxied THEN leader ELSE 1
Started(m) == [start EXCEPT ![m] = Clock + 1]

\* The other member is promoted, and the old primary restarted as its replica.
Failover ==
    /\ leader' = 3 - leader /\ start' = Started(leader) /\ UNCHANGED pid
PostgresRestarts == \E m \in 1 .. 2 : start' = Started(m) /\ UNCHANGED <<leader, pid>>
PatroniRestarts == pid' = pid + 1 /\ UNCHANGED <<leader, start>>
Fault ==
    /\ host.ours = 1 /\ faults < MaxFaults /\ faults' = faults + 1
    /\ Failover \/ PostgresRestarts \/ PatroniRestarts
    /\ UNCHANGED <<setting, next, member, previous, dropped, evidence>>
Silence ==
    /\ ~silent /\ silent' = TRUE
    /\ UNCHANGED <<host, proxied, cluster, next, member, previous, dropped, evidence>>
-----------------------------------------------------------------------------
Refuse == next' = "refused"

\* Steps with statements of DBTasks: only their connect has a timeout, so a
\* silent server fails them, late, or they never end.
Statements == {"check", "drop", "restart", "access", "verify", "direct", "create"}

\* GET /patroni of the selected member.
RunningPrimary == leader = 1

(* Exactly one process may manage the directory. Any doubt is an error: a  *)
(* process that cannot be inspected or whose member is not the primary,    *)
(* and a directory with the mark of Patroni but without its process.       *)
Discover ==
    CASE host.python = "old" -> "error"
      [] host.python = "none" -> IF host.marker THEN "error" ELSE "none"
      [] host.ours = 1 /\ RunningPrimary -> "member"
      [] host.ours = 0 /\ ~host.closed /\ ~host.marker -> "none"
      [] OTHER -> "error"

Detected == [pid |-> pid, start |-> start[1]]
Detect ==
    /\ next = "detect"
    /\ CASE Discover = "member" -> next' = "check" /\ member' = Detected
         [] Discover = "none"   -> next' = "direct" /\ UNCHANGED member
         [] OTHER               -> Refuse /\ UNCHANGED member
    /\ UNCHANGED <<setting, cluster, previous, dropped, evidence>>

\* Mutant: any primary will do.
SameMemberRole == ~silent /\ Reached = leader
\* verify_database: the session is at the start time of the member.
SameMember == ~silent /\ Reached = leader /\ start[Reached] = member.start

Check ==
    /\ next = "check" /\ IF SameMember THEN next' = "drop" ELSE Refuse
    /\ UNCHANGED <<setting, cluster, member, previous, dropped, evidence>>
\* The database is dropped and the host synchronized.
Drop ==
    /\ next = "drop"
    /\ \/ ~silent /\ next' = "restart" /\ dropped' = TRUE
       \/ Refuse /\ UNCHANGED dropped
    /\ UNCHANGED <<setting, cluster, member, previous, evidence>>
Restart ==
    /\ next = "restart" /\ began' = Clock
    /\ IF SameMember THEN next' = "inspect" /\ previous' = start[1]
       ELSE Refuse /\ UNCHANGED previous
    /\ UNCHANGED <<setting, cluster, member, dropped, forced, wronged>>

\* The process must still be the one that was detected, its member the primary.
Inspect ==
    /\ next = "inspect"
    /\ IF pid = member.pid /\ RunningPrimary THEN next' = "post" ELSE Refuse
    /\ UNCHANGED <<setting, cluster, member, previous, dropped, evidence>>

(* POST /restart. Patroni restarts a member in the requested role only, and *)
(* the response may be lost.                                               *)
Restarted ==
    /\ start' = Started(1) /\ forced' = forced + 1 /\ wronged' = (wronged \/ leader # 1)
    /\ UNCHANGED <<leader, pid, faults, began>>
Refused == leader # 1
\* Mutant: a request without a role.
PostAnyRole ==
    /\ next = "post"
    /\ Restarted /\ next' \in {"access", "refused"}
    /\ UNCHANGED <<setting, member, previous, dropped>>
Post ==
    /\ next = "post"
    /\ IF Refused THEN Refuse /\ UNCHANGED <<cluster, evidence>>
       ELSE Restarted /\ next' \in {"access", "refused"}
    /\ UNCHANGED <<setting, member, previous, dropped>>

\* check_db_access, then the member is detected again.
Access ==
    /\ next = "access"
    /\ IF ~silent /\ Discover = "member" THEN next' = "verify" /\ member' = Detected
       ELSE Refuse /\ UNCHANGED member
    /\ UNCHANGED <<setting, cluster, previous, dropped, evidence>>
Verify ==
    /\ next = "verify"
    /\ IF SameMember /\ member.start > previous THEN next' = "create" ELSE Refuse
    /\ UNCHANGED <<setting, cluster, member, previous, dropped, evidence>>

\* Without Patroni: start, drop, stop, sync, start.
Direct ==
    /\ next = "direct"
    /\ \/ ~silent /\ next' = "create" /\ dropped' = TRUE /\ start' = Started(1)
       \/ Refuse /\ dropped' \in BOOLEAN /\ start' \in {start, Started(1)}
    /\ UNCHANGED <<setting, leader, pid, faults, member, previous, evidence>>

\* The lock is taken again, the database created and waited for.
Create ==
    /\ next = "create" /\ next' \in (IF silent THEN {} ELSE {"reset"}) \cup {"refused"}
    /\ UNCHANGED <<setting, cluster, member, previous, dropped, evidence>>

ResetStep == Detect \/ Check \/ Drop \/ Restart \/ Inspect \/ Post \/ Access \/ Verify \/ Direct \/ Create
ResetEnded == next \in {"reset", "refused"}
-----------------------------------------------------------------------------
(* A server that Patroni manages is never stopped and started behind its   *)
(* back, however little of it the helper can see (discover and the marker  *)
(* that Patroni leaves in its data directory).                             *)
NeverBehindPatroni == next = "direct" => ~host.marker

(* restart() restarts the selected server at most once, and never while it *)
(* is a replica, although the leader may change between the inspection and *)
(* the request and the response may be lost.                               *)
RestartedOnce == forced <= 1 /\ ~wronged

(* When restart() succeeds, the SQL connection reaches the selected member,*)
(* as primary, and its server was started after restart() began: no start  *)
(* of another member, or from before, passes for it.                       *)
RestartVerified ==
    [][(next = "verify" /\ next' = "create") =>
        Reached = 1 /\ leader = 1 /\ start[1] > began]_resetVars

(* A restart goes through whoever manages the server, and takes effect once*)
(* at most, on the selected member.                                        *)
RestartSafe == NeverBehindPatroni /\ RestartedOnce
=============================================================================
