----------------------------- MODULE MCBenchmark -----------------------------
(***************************************************************************)
(* Small instances of Benchmark for TLC.                                   *)
(***************************************************************************)
EXTENDS Benchmark

MCPlans == {<<"bus", "valkey">>, <<"bus">>, <<"valkey">>}
MCBusOnly == {<<"bus">>}
MCCounts == {0, 1}
MCCount == {2}

\* On a boundary, on either side of it, and beyond the last.
MCLatencies == {249, 250, 2000000}
MCLatency == {250}
=============================================================================
