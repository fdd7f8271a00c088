-------------------------- MODULE MCPipeTransport --------------------------
(***************************************************************************)
(* The instances of PipeTransport that TLC checks: process a reports from  *)
(* one thread, without a lock; process b has one thread that reports under *)
(* globalMutex and one that does not.                                      *)
(***************************************************************************)
EXTENDS PipeTransport

CONSTANTS a, b, a1, b1, b2

TwoProcesses == [s \in {a1, b1, b2} |-> IF s = a1 THEN a ELSE b]
RacingProcess == [s \in {b1, b2} |-> b]

\* Negative, zero, and longer than any report.
MCMisread == {-1, 0, 3}
=============================================================================
