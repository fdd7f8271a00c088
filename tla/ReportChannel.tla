--------------------------- MODULE ReportChannel ---------------------------
(***************************************************************************)
(* What the report channel of a process promises, without bytes, frames,   *)
(* threads or timers: the reports of a process are handed to the           *)
(* application one by one and in order, and once a channel is over nothing *)
(* comes through it any more.  A channel that ends because its process     *)
(* does has lost no report but the last, which the process may not have    *)
(* finished; only the end of the application loses more.                   *)
(***************************************************************************)
EXTENDS Naturals, Sequences

CONSTANTS
    Clients,   \* the processes that report
    Reports    \* what they report

VARIABLES
    running,    \* the application is there
    link,       \* what is known of a channel's two ends
    sent,       \* the reports of a process, in order
    delivered,  \* those the application was handed
    over        \* the channels through which nothing comes any more

vars == <<running, link, sent, delivered, over>>

Init ==
    /\ running \in BOOLEAN
    /\ link = [c \in Clients |-> "connecting"]
    /\ sent = [c \in Clients |-> <<>>]
    /\ delivered = [c \in Clients |-> <<>>]
    /\ over = {}

\* At most the last report of a process is missing.
Complete(c) == Len(sent[c]) <= Len(delivered'[c]) + 1

\* The channel of a process that ended may be over, if it is complete.
MayEnd(c) == over' = over \/ (Complete(c) /\ over' = over \union {c})

Open(c) ==
    /\ running
    /\ link[c] = "connecting"
    /\ link' = [link EXCEPT ![c] = "open"]
    /\ UNCHANGED <<running, sent, delivered, over>>

Fail(c) ==
    /\ link[c] = "connecting"
    /\ link' = [link EXCEPT ![c] = "failed"]
    /\ over' = over \union {c}
    /\ UNCHANGED <<running, sent, delivered>>

Send(c) ==
    /\ link[c] = "open"
    /\ \E r \in Reports : sent' = [sent EXCEPT ![c] = Append(@, r)]
    /\ UNCHANGED <<running, link, delivered, over>>

\* The process ends.
Close(c) ==
    /\ link[c] = "open"
    /\ link' = [link EXCEPT ![c] = "closed"]
    /\ UNCHANGED <<running, sent, delivered>>
    /\ MayEnd(c)

\* The next report is handed over; it may be the last one to come through.
Deliver(c) ==
    /\ c \notin over
    /\ Len(delivered[c]) < Len(sent[c])
    /\ delivered' = [delivered EXCEPT ![c] = Append(@, sent[c][Len(@) + 1])]
    /\ UNCHANGED <<running, link, sent>>
    /\ over' = over \/ (link[c] # "open" /\ MayEnd(c))

\* What is left of an unfinished report is thrown away.
Lapse(c) ==
    /\ link[c] = "closed"
    /\ c \notin over
    /\ UNCHANGED <<running, link, sent, delivered>>
    /\ MayEnd(c)

AppStart ==
    /\ ~running
    /\ running' = TRUE
    /\ UNCHANGED <<link, sent, delivered, over>>

\* The application exits, and with it all channels there are.
AppExit ==
    /\ running
    /\ running' = FALSE
    /\ link' = [c \in Clients |-> IF link[c] = "open" THEN "broken" ELSE link[c]]
    /\ over' = {c \in Clients : link[c] # "connecting"}
    /\ UNCHANGED <<sent, delivered>>

Next ==
    \/ \E c \in Clients : Open(c) \/ Fail(c) \/ Send(c) \/ Close(c) \/ Deliver(c) \/ Lapse(c)
    \/ AppStart \/ AppExit

Spec == Init /\ [][Next]_vars
=============================================================================
