--------------------------- MODULE VirtualDevices ---------------------------
(***************************************************************************)
(* What J2534CannelloniClient promises an application, without threads,    *)
(* locks, sockets or return codes: a limited set of open devices, each with*)
(* an inbox.  A device hears the network from the moment it is open until  *)
(* it goes deaf; a deaf device keeps its inbox and can only be closed.     *)
(***************************************************************************)
EXTENDS Naturals, Sequences, FiniteSets

CONSTANTS
    Devices,  \* the devices that exist
    Limit,    \* how many may be open at once
    Bursts    \* message sequences the network may deliver at once

VARIABLES
    open,       \* the devices that are open
    listening,  \* the open devices that still hear the network
    inbox       \* messages received and not yet read, per device

vars == <<open, listening, inbox>>

Init ==
    /\ open = {}
    /\ listening = {}
    /\ inbox = [d \in Devices |-> <<>>]

\* A device opens empty, and only below the limit.
Open(d) ==
    /\ d \notin open
    /\ inbox[d] = <<>>
    /\ Cardinality(open) < Limit
    /\ open' = open \union {d}
    /\ listening' = listening \union {d}
    /\ UNCHANGED inbox

GoDeaf(d) ==
    /\ d \in listening
    /\ listening' = listening \ {d}
    /\ UNCHANGED <<open, inbox>>

\* Only a deaf device can be closed; what nobody read is gone.
Close(d) ==
    /\ d \in open \ listening
    /\ open' = open \ {d}
    /\ inbox' = [inbox EXCEPT ![d] = <<>>]
    /\ UNCHANGED listening

Receive(d, burst) ==
    /\ d \in listening
    /\ inbox' = [inbox EXCEPT ![d] = @ \o burst]
    /\ UNCHANGED <<open, listening>>

Take(d) ==
    /\ d \in open
    /\ inbox[d] # <<>>
    /\ inbox' = [inbox EXCEPT ![d] = Tail(@)]
    /\ UNCHANGED <<open, listening>>

Next == \E d \in Devices :
    \/ Open(d) \/ GoDeaf(d) \/ Close(d) \/ Take(d)
    \/ \E burst \in Bursts : Receive(d, burst)

Spec == Init /\ [][Next]_vars
=============================================================================
