---------------------------- MODULE Configuration ----------------------------
(***************************************************************************)
(* What a benchmark request is accepted for (config.py, client_tools.py),  *)
(* what an accepted one does to its target before each point (benchmark.py)*)
(* and what its report claims it did (benchmark_methodology).              *)
(*                                                                         *)
(* The options that only need a value of the right form (host, port, user, *)
(* timeouts, report name) are one: whether the request is well formed.     *)
(***************************************************************************)
EXTENDS Naturals, FiniteSets, FiniteSetsExt

Request == [
    formed   : BOOLEAN,                                  \* required values and numbers
    managed  : BOOLEAN,                                  \* --managed, --managed-pg-info
    policy   : {"each-iteration", "once", "skip"},       \* --init-policy
    reset    : {"database", "schema"},                   \* --reset-mode
    init     : {"auto", "fast", "legacy"},               \* --init-mode
    command  : BOOLEAN,                                  \* --init-command
    workload : {"profile", "planned", "plain"},          \* bundled, or a path with or without a plan
    fsync    : {"keep", "off"},                          \* --init-fsync
    config   : BOOLEAN,                                  \* --pg-custom-config
    caches   : BOOLEAN,                                  \* --drop-os-caches
    allow    : BOOLEAN,                                  \* --allow-database-reset
    protected : BOOLEAN,                                 \* the database is postgres or a template
    axis     : {"clients", "time"}]                      \* --pgbench-clients or --pgbench-time

(* The machine that runs the command: the content of its workload and      *)
(* configuration files (0: gone) and the versions of its clients.          *)
Machine == [inputs : Nat, pgbench : SUBSET Nat, psql : SUBSET Nat]

-----------------------------------------------------------------------------
HasPlan(q) == q.workload # "plain"

\* --init-mode auto.
Fast(q) == q.init = "fast" \/ (q.init = "auto" /\ HasPlan(q) /\ ~q.command)

\* read_managed_pg_info and the options that need a host.
HostAccepted(q) == q.managed => ~q.config /\ ~q.caches

\* Mutant: the caches may be dropped before some of the points only.
PolicyAcceptedOnce(q) ==
    /\ q.policy = "skip" => ~q.config /\ ~q.caches /\ ~q.command
    /\ q.policy # "skip" => q.allow
    /\ ~q.protected
PolicyAccepted(q) ==
    /\ q.policy = "skip" => ~q.config /\ ~q.caches /\ ~q.command
    /\ q.policy # "each-iteration" => ~q.caches
    /\ q.policy # "skip" => q.allow
    /\ ~q.protected

\* A bundled profile measures clients; the files must exist when they are read.
WorkloadAccepted(q, m) ==
    /\ q.workload = "profile" => q.axis = "clients"
    /\ m.inputs # 0

LoaderAccepted(q) ==
    Fast(q) => /\ HasPlan(q) /\ ~q.command
               /\ q.policy # "skip" /\ q.managed => q.fsync = "keep"

\* Mutant: a schema reset with the options of a full one.
ResetAcceptedPartly(q) == q.reset = "schema" /\ q.policy # "skip" => Fast(q)
ResetAccepted(q) ==
    q.reset = "schema" /\ q.policy # "skip" =>
        Fast(q) /\ q.fsync = "keep" /\ ~q.config /\ ~q.caches

\* Only the legacy loader needs a command; a profile may bring its own.
CommandAccepted(q) ==
    ~Fast(q) /\ q.policy # "skip" => q.command \/ q.workload = "profile"

\* select_local_clients: the newest pgbench, and the psql beside it.
ClientsAccepted(m) == m.pgbench # {} /\ m.psql # {} /\ Max(m.pgbench) \in m.psql

\* build_runtime_config raises nothing.
Accepted(q, m) ==
    /\ q.formed /\ HostAccepted(q) /\ PolicyAccepted(q) /\ WorkloadAccepted(q, m)
    /\ LoaderAccepted(q) /\ ResetAccepted(q) /\ CommandAccepted(q) /\ ClientsAccepted(m)

-----------------------------------------------------------------------------
Initializes(q, point) == q.policy = "each-iteration" \/ (q.policy = "once" /\ point = 1)

\* PatroniController.validate_options, when Patroni manages the server.
PatroniRefuses(q, patroni) == patroni /\ ~q.managed /\ (q.config \/ q.caches) /\ q.policy # "skip"

\* reset_db_environment: the schemas, or the database and with it the server.
Resets(q) ==
    IF q.reset = "schema" THEN {"schemas"}
    ELSE {"database"} \cup (IF q.managed THEN {} ELSE {"restart"})
                      \cup {x \in {"caches"} : q.caches /\ ~q.managed}

\* What is done to the target before a point is measured.
Effects(q, point) ==
    IF ~Initializes(q, point) THEN {}
    ELSE Resets(q) \cup {"load", "vacuum"}
            \cup {x \in {"config"} : q.config /\ point = 1 /\ ~q.managed}
            \cup {x \in {"fsync-off"} : Fast(q) /\ q.fsync = "off"}

\* What the methodology says was done before each point.
Claims(q) ==
    LET always == q.policy = "each-iteration"
    IN  {x \in {"database"} : q.reset # "schema" /\ always}
        \cup {x \in {"restart"} : ~q.managed /\ q.reset # "schema" /\ always}
        \cup {x \in {"caches"} : q.caches}
        \cup {x \in {"vacuum"} : always}
=============================================================================
