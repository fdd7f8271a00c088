------------------------------ MODULE DebugLog ------------------------------
(***************************************************************************)
(* ExDbg, the log all threads of a process share.  A log statement is      *)
(*     EXDBG_LOG << text << ... << EXDBG_END                               *)
(* Each text is appended to buffer_ under mutex_; the end marker sends     *)
(* buffer_.str() and then clears the buffer with buffer_.str(""), both     *)
(* without the mutex.  A text is known by the thread and by the place of   *)
(* its statement that appended it.  Two threads that access buffer_ at     *)
(* once, one of them without the mutex, race: the process may end, a clear *)
(* may be lost, or the accesses happen one after the other.  No thread is  *)
(* ever blocked here: what is done under mutex_ is one step.               *)
(***************************************************************************)

VARIABLES
    text,      \* texts in buffer_
    unsent     \* history: texts of statements underway no report has carried yet

logVars == <<text, unsent>>

LogInit == text = {} /\ unsent = {}

-----------------------------------------------------------------------------
\* Faulty variant: an end marker that leaves the buffer as it is.
LogClear_Forgotten(t, overlapped) == UNCHANGED logVars

-----------------------------------------------------------------------------
\* operator<<(const T&)
LogAppend(t, part) ==
    /\ text' = text \union {<<t, part>>}
    /\ unsent' = unsent \union {<<t, part>>}

\* operator<<(const ExDbgEndMarker&): send(buffer_.str()) ...
LogSend ==
    /\ unsent' = unsent \ text
    /\ UNCHANGED text

\* ... buffer_.str(""), which an append it overlaps may undo.
LogClear(t, overlapped) ==
    /\ text' \in {{}} \union (IF overlapped THEN {text} ELSE {})
    /\ unsent' = {x \in unsent : x[1] # t}

\* Two accesses of buffer_ that are a data race: both appends are under the
\* mutex, and two reads do not disturb each other.
Races(x, y) ==
    /\ x # "none" /\ y # "none"
    /\ {x, y} \notin {{"append"}, {"read"}}
=============================================================================
