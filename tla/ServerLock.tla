----------------------------- MODULE ServerLock -----------------------------
(***************************************************************************)
(* What the benchmark lock of pg_perf_bench promises about one PostgreSQL  *)
(* server: at any time at most one run owns the server; a run becomes the  *)
(* owner only while nobody else is; an owner may stop being one at any     *)
(* time (it releases the lock, or the server drops its session).           *)
(* BenchmarkLock implements this specification, FsyncJournal builds on it. *)
(***************************************************************************)

CONSTANT Runs                  \* the processes contending for one server

VARIABLE owner                 \* the runs that own the server

Init == owner = {}

\* A run passes the lock check.
Acquire(r) == /\ owner = {}
              /\ owner' = {r}

\* Runs unlock, or lose the session that carries the lock.  A stopped server
\* takes every session at once.
Release(S) == /\ S \cap owner # {}
              /\ owner' = owner \ S

Next == \/ \E r \in Runs : Acquire(r)
        \/ \E S \in SUBSET Runs : Release(S)

Spec == Init /\ [][Next]_owner
=============================================================================
