---------------------------- MODULE PassThruApi ----------------------------
(***************************************************************************)
(* What a host program may rely on, whatever back end is configured: once  *)
(* the DLL is loaded every call it makes is answered, independently of     *)
(* the calls of its other threads.  The process ends inside the DLL only   *)
(*   - in DllMain, where that is risky in this installation,               *)
(*   - with a call underway that passes NULL or whose function is risky,   *)
(*   - with two calls underway at once whose functions race;               *)
(* complete calls of other functions are safe.                             *)
(***************************************************************************)
EXTENDS PassThruFunctions

CONSTANTS
    Threads,
    NoCall

VARIABLES
    process,    \* "loading", "serving", "ended"
    pending,    \* the call a thread is in
    risky,      \* what may end the process, if it is called completely
    racing      \* functions two calls of which at once may end the process

apiVars == <<process, pending, risky, racing>>

ApiInit ==
    /\ process = "loading"
    /\ pending = [t \in Threads |-> NoCall]
    /\ risky \in SUBSET (Functions \union {"DllMain"})
    /\ racing \in SUBSET Functions

Loaded ==
    /\ process = "loading"
    /\ process' = "serving"
    /\ UNCHANGED <<pending, risky, racing>>

Call(t) ==
    /\ process = "serving"
    /\ pending[t] = NoCall
    /\ \E c \in Calls : pending' = [pending EXCEPT ![t] = c]
    /\ UNCHANGED <<process, risky, racing>>

Answer(t) ==
    /\ process = "serving"
    /\ pending[t] # NoCall
    /\ pending' = [pending EXCEPT ![t] = NoCall]
    /\ UNCHANGED <<process, risky, racing>>

Excused(c) == c # NoCall /\ (c.missing # Complete \/ c.fn \in risky)
Race(c, d) == NoCall \notin {c, d} /\ c.fn \in racing /\ d.fn \in racing

EndWhileLoading ==
    /\ process = "loading"
    /\ "DllMain" \in risky
    /\ process' = "ended"
    /\ UNCHANGED <<pending, risky, racing>>

EndInCall ==
    /\ process = "serving"
    /\ \E t, u \in Threads :
         \/ Excused(pending[t])
         \/ t # u /\ Race(pending[t], pending[u])
    /\ process' = "ended"
    /\ UNCHANGED <<pending, risky, racing>>

ApiNext ==
    \/ Loaded \/ EndWhileLoading \/ EndInCall
    \/ \E t \in Threads : Call(t) \/ Answer(t)

ApiSpec ==
    /\ ApiInit /\ [][ApiNext]_apiVars
    /\ WF_apiVars(Loaded)
    /\ \A t \in Threads : WF_apiVars(Answer(t))
=============================================================================
