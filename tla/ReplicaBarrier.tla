--------------------------- MODULE ReplicaBarrier ---------------------------
(***************************************************************************)
(* The replay barrier of the common loader (initialization_settings.py):   *)
(* the replicas seen before the load, and those seen after it, must have   *)
(* replayed the WAL of the load before the workload is measured.           *)
(*                                                                         *)
(* A replica is known by its replication slot, or without one by the       *)
(* application name and address of its connection, which several replicas  *)
(* may share and which changes when it comes back from elsewhere. Logical  *)
(* replication and base backups are no replicas.                           *)
(***************************************************************************)
EXTENDS Naturals, FiniteSets

CONSTANTS Replicas, Addresses, MaxMoves, MaxLsn

VARIABLES
    slots,       \* the replicas with a slot of their own
    address,     \* where the connection of a replica comes from
    connected,   \* the replicas that pg_stat_replication shows
    streaming,   \* those of them that have caught up once
    replayed,    \* the position each replica has replayed
    lsn,         \* the insert position of the primary
    moves,       \* how often a replica came or went
    replicas,    \* how many replicas had a key before the load
    before,      \* history: which replicas these were
    required,    \* how many must have caught up
    target,
    polling      \* "no", "yes", "passed" or "failed"

standby == <<slots, address, connected, streaming, replayed, moves>>
remembered == <<replicas, before>>
barrier == <<remembered, required, target, polling>>
barrierVars == <<standby, lsn, barrier>>

Keys == Replicas \cup Addresses
Key(r) == IF r \in slots THEN r ELSE address[r]
Nothing == [k \in Keys |-> 0]
ReplicaKeys(rs) == [k \in Keys |-> Cardinality({r \in rs : Key(r) = k})]
Union(f, g) == [k \in Keys |-> IF f[k] > g[k] THEN f[k] ELSE g[k]]

Init ==
    /\ slots \in SUBSET Replicas /\ connected \in SUBSET Replicas
    /\ address \in [Replicas -> Addresses]
    /\ streaming = connected /\ replayed = [r \in Replicas |-> 0]
    /\ lsn = 0 /\ moves = 0 /\ replicas = Nothing /\ before = {}
    /\ required = Nothing /\ target = 0 /\ polling = "no"
-----------------------------------------------------------------------------
Leave ==
    /\ moves < MaxMoves /\ moves' = moves + 1
    /\ \E r \in connected :
          connected' = connected \ {r} /\ streaming' = streaming \ {r}
    /\ UNCHANGED <<slots, address, replayed>>
Come ==
    /\ moves < MaxMoves /\ moves' = moves + 1
    /\ \E r \in Replicas \ connected, a \in Addresses :
          connected' = connected \cup {r} /\ address' = [address EXCEPT ![r] = a]
    /\ UNCHANGED <<slots, streaming, replayed>>
Replay ==
    /\ \E r \in connected :
          \/ /\ replayed[r] < lsn /\ replayed' = [replayed EXCEPT ![r] = @ + 1]
             /\ UNCHANGED streaming
          \/ r \notin streaming /\ streaming' = streaming \cup {r} /\ UNCHANGED replayed
    /\ UNCHANGED <<slots, address, connected, moves>>
Standby == (Leave \/ Come \/ Replay) /\ UNCHANGED <<lsn, barrier>>

\* The restart of the primary ends every connection; the replicas come back.
Disconnected ==
    /\ connected' = {} /\ streaming' = {} /\ UNCHANGED <<slots, address, replayed, moves>>

\* The load, or another client, writes WAL.
Write == lsn < MaxLsn /\ lsn' = lsn + 1

\* open: the replicas before the reset.
Remember ==
    /\ replicas' = ReplicaKeys(connected) /\ before' = connected
    /\ UNCHANGED <<required, target, polling>>

\* Mutant: those that are there when the load has ended.
EnterNow ==
    /\ polling = "no" /\ polling' = "yes" /\ target' = lsn
    /\ required' = ReplicaKeys(connected)
    /\ UNCHANGED <<standby, lsn, remembered>>
Enter ==
    /\ polling = "no" /\ polling' = "yes" /\ target' = lsn
    /\ required' = Union(replicas, ReplicaKeys(connected))
    /\ UNCHANGED <<standby, lsn, remembered>>

CaughtUp == ReplicaKeys({r \in streaming : replayed[r] >= target})
Ready == \A k \in Keys : CaughtUp[k] >= required[k]

Pass ==
    /\ polling = "yes" /\ Ready /\ polling' = "passed"
    /\ UNCHANGED <<standby, lsn, remembered, required, target>>
\* Mutant: no deadline.
FailNever ==
    /\ polling = "yes" /\ Ready /\ polling' = "failed"
    /\ UNCHANGED <<standby, lsn, remembered, required, target>>
\* The timeout has passed and the replicas are not ready, or the query fails.
Fail ==
    /\ polling = "yes" /\ polling' = "failed"
    /\ UNCHANGED <<standby, lsn, remembered, required, target>>
=============================================================================
