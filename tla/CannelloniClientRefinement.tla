--------------------- MODULE CannelloniClientRefinement ---------------------
(***************************************************************************)
(* CannelloniClient implements VirtualDevices, for any callers, ports,     *)
(* limits and inputs.  Five steps are visible: the one that puts a context *)
(* in the map, the one that erases it, a pop, a datagram that is queued,   *)
(* and a receive thread that leaves its loop.  All others stutter.         *)
(***************************************************************************)
EXTENDS CannelloniClientProofs

\* The devices that hear the network, as the refinement mapping sees them.
Listening == {p \in Ports : thread[p] \in {"loop", "select"}}

\* The mapping of one step.
Mapped == [Device!Next]_(Device!vars)

\* The specification of the devices counts as the client does.
LEMMA SameCardinality == ASSUME NEW S PROVE Device!Cardinality(S) = Cardinality(S)
  BY DEF Cardinality, Device!Cardinality

\* Steps that leave the map, the threads and the queues alone are stutters.
LEMMA Stutters ==
  ASSUME UNCHANGED channelMap, UNCHANGED Listening, UNCHANGED queue
  PROVE  Mapped
  BY DEF Mapped, Device!vars, Listening

\* The client starts with no device open.
LEMMA InitRefines == Init => Device!Init
<1> SUFFICES ASSUME Init PROVE Device!Init
  OBVIOUS
<1>1. channelMap = {} /\ Listening = {} /\ queue = [p \in Ports |-> <<>>]
  BY DEF Init, Listening
<1> QED BY <1>1 DEF Device!Init, Listening

\* PassThruOpen opens the device when its context enters the map, and finds
\* the device empty.
LEMMA InstallRefines ==
  ASSUME SafetyInv, NEW t \in Callers, OpenInstall(t)
  PROVE  Mapped
<1> DEFINE p == local[t].chan
<1>1. p \in Ports
  BY DEF OpenInstall, In, OnChannel, SafetyInv, TypeInv, CallerInv
<1>2. p \notin channelMap /\ Cardinality(channelMap) < NumPorts
  BY DEF OpenInstall, In, SafetyInv, Ownership, OpeningInv
<1>3. queue[p] = <<>>
  BY <1>1, <1>2 DEF SafetyInv, Ownership, ClosedInv
<1>4. /\ channelMap' = channelMap \union {p} /\ UNCHANGED queue
      /\ thread' = [thread EXCEPT ![p] = "loop"]
  BY DEF OpenInstall
<1>5. thread \in [Ports -> {"none", "loop", "select", "ended"}]
  BY DEF SafetyInv, TypeInv, DeviceType
<1> HIDE DEF p
<1>6. Listening' = Listening \union {p}
  BY <1>1, <1>4, <1>5 DEF Listening
<1>7. p \in Ports /\ Device!Open(p)
  BY <1>1, <1>2, <1>3, <1>4, <1>6, SameCardinality DEF Device!Open, Listening
<1> QED BY <1>7 DEF Mapped, Device!Next, Device!Open

\* PassThruClose closes a device that hears nothing any more.
LEMMA EraseRefines ==
  ASSUME SafetyInv, NEW t \in Callers, CloseErase(t)
  PROVE  Mapped
<1> DEFINE p == local[t].chan
<1>1. p \in channelMap /\ thread[p] = "ended" /\ p \in Ports
  BY DEF CloseErase, In, SafetyInv, Ownership, ErasingInv, TypeInv, DeviceType
<1>2. /\ channelMap' = channelMap \ {p} /\ queue' = [queue EXCEPT ![p] = <<>>]
      /\ thread' = [thread EXCEPT ![p] = "none"]
  BY DEF CloseErase, DestroyContext
<1>3. thread \in [Ports -> {"none", "loop", "select", "ended"}]
  BY DEF SafetyInv, TypeInv, DeviceType
<1> HIDE DEF p
<1>4. Listening' = Listening /\ p \notin Listening
  BY <1>1, <1>2, <1>3 DEF Listening
<1>5. Device!Close(p)
  BY <1>1, <1>2, <1>4 DEF Device!Close, Listening
<1> QED BY <1>1, <1>5 DEF Mapped, Device!Next

\* PassThruReadMsgs takes one message of an open device per pop.
LEMMA PopRefines ==
  ASSUME SafetyInv, NEW t \in Callers, ReadPop(t)
  PROVE  Mapped
<1> DEFINE p == local[t].chan
<1>1. p \in channelMap /\ p \in Ports
  BY DEF ReadPop, In, SafetyInv, Ownership, ContextValid, UsesContext, TypeInv,
         DeviceType
<1>2. /\ queue[p] # <<>> /\ queue' = [queue EXCEPT ![p] = Tail(@)]
      /\ UNCHANGED <<channelMap, thread>>
  BY DEF ReadPop
<1> HIDE DEF p
<1>3. Device!Take(p)
  BY <1>1, <1>2 DEF Device!Take
<1> QED BY <1>1, <1>3 DEF Mapped, Device!Next

\* The receive thread delivers a burst, or leaves its loop and is deaf.
LEMMA RecvRefines ==
  ASSUME SafetyInv, NEW p \in Ports, Recv(p)
  PROVE  Mapped
<1>1. /\ thread[p] \in {"loop", "select"} /\ UNCHANGED channelMap
      /\ thread' = [thread EXCEPT ![p] = thread'[p]]
      /\ thread'[p] \in {"loop", "select", "ended"}
  BY DEF Recv, RecvCheckStop, RecvPoll, RecvPacket, AfterDatagram, SafetyInv,
         TypeInv, DeviceType
<1>2. thread \in [Ports -> {"none", "loop", "select", "ended"}]
  BY DEF SafetyInv, TypeInv, DeviceType
<1>3. p \in Listening
  BY <1>1 DEF Listening
<1>4. thread'[p] # "ended" => Listening' = Listening
  BY <1>1, <1>2 DEF Listening
<1>5. thread'[p] = "ended" => Listening' = Listening \ {p}
  BY <1>1, <1>2 DEF Listening
<1>6. ASSUME UNCHANGED queue PROVE Mapped
  <2>1. CASE thread'[p] # "ended"
    BY <1>1, <1>4, <1>6, <2>1, Stutters
  <2>2. CASE thread'[p] = "ended"
    <3>1. Device!GoDeaf(p)
      BY <1>1, <1>3, <1>5, <1>6, <2>2 DEF Device!GoDeaf, Listening
    <3> QED BY <3>1 DEF Mapped, Device!Next
  <2> QED BY <2>1, <2>2
<1>7. CASE RecvCheckStop(p) \/ RecvPoll(p)
  BY <1>6, <1>7 DEF RecvCheckStop, RecvPoll
<1>8. CASE RecvPacket(p)
  <2> DEFINE d == Head(rx[p])
  <2>1. d \in Datagrams
    BY <1>8 DEF RecvPacket, SafetyInv, TypeInv, DeviceType
  <2>2. /\ queue' = [queue EXCEPT ![p] = queue[p] \o d.frames]
        /\ thread'[p] = AfterDatagram(d)
    BY <1>2, <1>8 DEF RecvPacket
  <2>3. queue \in [Ports -> Seq(Frames)]
    BY DEF SafetyInv, TypeInv, DeviceType
  <2>4. /\ d.kind \in BadKinds \union {"ignored"} => d.frames = <<>>
        /\ d.kind \notin BadKinds \union {"ignored"} =>
             d.kind = "data" /\ d.frames \in Batches
    BY <2>1 DEF Datagrams, BadKinds
  <2> HIDE DEF d
  <2>5. CASE d.kind \in BadKinds \union {"ignored"}
    <3>1. queue[p] \o <<>> = queue[p]
      BY <2>3
    <3>2. UNCHANGED queue
      BY <2>2, <2>3, <2>4, <2>5, <3>1
    <3> QED BY <1>6, <3>2
  <2>6. CASE d.kind \notin BadKinds \union {"ignored"}
    <3>1. Listening' = Listening
      BY <1>4, <2>2, <2>6 DEF AfterDatagram
    <3>2. Device!Receive(p, d.frames)
      BY <1>1, <1>3, <2>2, <3>1 DEF Device!Receive, Listening
    <3> QED BY <2>4, <2>6, <3>2 DEF Mapped, Device!Next
  <2> QED BY <2>5, <2>6
<1> QED BY <1>7, <1>8 DEF Recv

\* Every other step of a call is a stutter.
LEMMA CallStutters ==
  ASSUME NEW t \in Callers, Call(t) \/ Expire(t),
         ~OpenInstall(t), ~CloseErase(t), ~ReadPop(t)
  PROVE  UNCHANGED <<channelMap, thread, queue>>
<1>1. CASE Open(t) \/ Close(t) \/ Simple(t)
  BY <1>1
  DEF Open, OpenFail, OpenSocket, OpenAbandon, Close, CloseUnknown, CloseRequest,
      CloseJoin, Simple, Connect, Unlocked, Disconnect, Inquire, Unsupported,
      GetLastError, context
<1>2. CASE Read(t) \/ Write(t)
  BY <1>2
  DEF Read, UnknownChannel, ReadBegin, ReadEnd, Write, WriteBegin, WriteBuild,
      WriteSend, WriteInvalid, WriteEnd, context
<1>3. CASE Select(t) \/ Expire(t)
  BY <1>3
  DEF Select, SelectReject, SelectBegin, SelectPass, SelectPoll, SelectDecide,
      Expire, context
<1> QED BY <1>1, <1>2, <1>3 DEF Call

\* Every step of the client is a step of the virtual devices or a stutter.
LEMMA StepRefines == SafetyInv /\ [Next]_vars => [Device!Next]_(Device!vars)
<1> SUFFICES ASSUME SafetyInv, [Next]_vars PROVE Mapped
  BY DEF Mapped
<1>1. ASSUME UNCHANGED <<channelMap, thread, queue>> PROVE Mapped
  BY <1>1, Stutters DEF Listening
<1>2. ASSUME NEW t \in Callers, Call(t) \/ Expire(t) PROVE Mapped
  BY <1>1, <1>2, CallStutters, InstallRefines, EraseRefines, PopRefines
<1>3. ASSUME NEW p \in Ports, Recv(p) PROVE Mapped
  BY <1>3, RecvRefines
<1>4. ASSUME NEW p \in Ports, NEW d \in Datagrams, Arrive(p, d) PROVE Mapped
  BY <1>1, <1>4 DEF Arrive, context
<1>5. CASE UNCHANGED vars
  BY <1>1, <1>5 DEF vars, context
<1> QED BY <1>2, <1>3, <1>4, <1>5 DEF Next, Aborted

\* The client implements the devices an application is promised: whatever the
\* threads, the locks, the sockets and the datagrams do, an application sees
\* devices that open empty, receive, are read in order, go deaf and close.
THEOREM ClientRefinesDevices == Spec => RefinesVirtualDevices
<1>1. Init => Device!Init
  BY InitRefines
<1>2. SafetyInv /\ [Next]_vars => [Device!Next]_(Device!vars)
  BY StepRefines
<1> QED BY <1>1, <1>2, SafetyHolds, PTL DEF Spec, RefinesVirtualDevices, Device!Spec

=============================================================================
