------------------------------ MODULE BenchMC -------------------------------
(* A pump for model-checking Bench.                                         *)
EXTENDS Bench
=============================================================================
