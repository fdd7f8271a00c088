--------------------------- MODULE MCReportViews ---------------------------
(***************************************************************************)
(* The instance of ReportViews that TLC checks: process a has two threads  *)
(* that report under globalMutex, process b one thread without a lock.     *)
(* One of the two gets a connection; the other has failed to, which is the *)
(* first step some behaviours of ViewSpec take.                            *)
(***************************************************************************)
EXTENDS ReportViews

CONSTANTS a, b, a1, a2, b1

TwoProcesses == [s \in {a1, a2, b1} |-> IF s = b1 THEN b ELSE a]

\* Negative, zero, and longer than any report.
MCMisread == {-1, 0, 3}

OneConnects(c) == [d \in Clients |-> IF d = c THEN "connecting" ELSE "failed"]
MCInit ==
    /\ ViewStart
    /\ \E c \in Clients :
         Start(OneConnects(c)) /\ \A d \in Clients \ {c} : source[d] = "cannelloni"
MCSpec == MCInit /\ [][ViewNext]_allVars /\ ViewFairness
=============================================================================
