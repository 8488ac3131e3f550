-------------------------- MODULE MCBenchmarkLock ---------------------------
(***************************************************************************)
(* Runs for TLC.  "plain" and "patroni" reset the whole database and keep  *)
(* their controller in postgres; "schema" and "skip" keep it in the target *)
(* that "plain" and "managed" drop.  "once" and "skip" policies retain the *)
(* controller across points.                                               *)
(***************************************************************************)
EXTENDS BenchmarkLock

CONSTANTS plain, patroni, schema, managed, skip, bench, other

MCMode(R) == [r \in R |-> CASE r = plain -> "restart"
                            [] r = patroni -> "patroni"
                            [] r = managed -> "managed"
                            [] OTHER -> "schema"]
MCTarget(R) == [r \in R |-> IF r = patroni THEN other ELSE bench]
MCPolicy(R) == [r \in R |-> CASE r = skip -> "skip"
                              [] r \in {patroni, managed} -> "once"
                              [] OTHER -> "each-iteration"]

ThreeRuns == {plain, patroni, schema}
ModeThree == MCMode(ThreeRuns)
TargetThree == MCTarget(ThreeRuns)
PolicyThree == MCPolicy(ThreeRuns)

SameTarget == {plain, managed, skip}
ModeSame == MCMode(SameTarget)
TargetSame == MCTarget(SameTarget)
PolicySame == MCPolicy(SameTarget)

\* Two runs on different databases.
Apart == {managed, schema}
ModeApart == MCMode(Apart)
TargetApart == [r \in Apart |-> IF r = managed THEN other ELSE bench]
PolicyApart == MCPolicy(Apart)

AllPoints == Points
\* The controller is never lost on its own before close().
OutsideCritical == Points \ Critical
DuringWorkload == {"workload"}
=============================================================================
