-------------------------- MODULE MCBenchmarkSeries --------------------------
(***************************************************************************)
(* Series of points for TLC.                                               *)
(***************************************************************************)
EXTENDS BenchmarkSeries

\* Wherever the code awaits, or writes a file.
AnyFailure == Awaits \cup {"write", "release", "monitor", "disconnect", "save"}
AnyCancellation == Awaits \cup {"release", "monitor", "disconnect", "save"}

\* Each policy with and without a sampler, on a machine that may lose power.
AnySetup == [policy : {"each-iteration", "once", "skip"}, sampled : BOOLEAN,
             powerLosses : BOOLEAN]
=============================================================================
