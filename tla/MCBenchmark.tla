----------------------------- MODULE MCBenchmark -----------------------------
(* Benchmark on small instances; the bounds are given in the .cfg files.   *)
EXTENDS Benchmark
=============================================================================
