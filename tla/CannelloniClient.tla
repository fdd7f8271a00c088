-------------------------- MODULE CannelloniClient --------------------------
(***************************************************************************)
(* J2534CannelloniClient: the PassThru back end that turns every virtual   *)
(* device into a UDP socket.  A device is identified by its port; its      *)
(* ChannelContext holds the socket, a receive thread, a stop flag, the     *)
(* transmit sequence number and the queue of parsed messages.              *)
(*                                                                         *)
(* Application threads (Callers) enter the PassThru functions; a function  *)
(* that works on the client's state holds globalMutex from its first line  *)
(* to its return, so a call that does not finish in one step keeps `lock'  *)
(* between its steps.  PassThruDisconnect, PassThruIoctl,                  *)
(* PassThruReadVersion and the unsupported calls take no lock and touch no *)
(* state.  Receive threads never take globalMutex; they meet the callers   *)
(* at msgQueueMutex only, and each critical section of it is one step.     *)
(***************************************************************************)
EXTENDS Naturals, Sequences, FiniteSets

CONSTANTS
    Callers,     \* application threads that call into the DLL
    Ports,       \* ports PassThruOpen can choose: 20000..20002 and the default
    NumPorts,    \* numPorts, the most devices open at once (3 in the code)
    SeqMod,      \* values of the transmit sequence number (256: uint8_t)
    Batches,     \* frame sequences a well-formed datagram may carry
    ReadSizes,   \* values of *pNumMsgs a caller passes to PassThruReadMsgs
    WriteLists,  \* message lists a caller passes to PassThruWriteMsgs
    SelectLists, \* channel lists a caller passes to PassThruSelect
    Thresholds,  \* ChannelThreshold values passed to PassThruSelect
    RxCapacity,  \* bound: datagrams the socket buffer of one port holds
    MaxFrames,   \* bound: no data arrives once a session accepted this many
    MaxSends,    \* bound: packets one session transmits
    NoCaller,    \* globalMutex is free
    NoPort       \* a call that works on no channel

Frames == UNION { {b[i] : i \in DOMAIN b} : b \in Batches }

\* What the validity test of PassThruWriteMsgs tells apart.
MsgKinds == {"can", "invalid"}

ASSUME ClientAssumption ==
    /\ NumPorts \in Nat \ {0}
    /\ SeqMod \in Nat \ {0}
    /\ Batches \subseteq Seq(Frames)
    /\ ReadSizes \subseteq Nat
    /\ WriteLists \subseteq Seq(MsgKinds)
    /\ SelectLists \subseteq Seq(Ports)
    /\ Thresholds \subseteq Nat
    /\ RxCapacity \in Nat /\ MaxFrames \in Nat /\ MaxSends \in Nat
    /\ NoCaller \notin Callers
    /\ NoPort \notin Ports

VARIABLES
    alive,         \* FALSE once the process was torn down by heap corruption
    lock,          \* the owner of globalMutex
    pc, local,     \* where each caller is, and the locals of its call
    channelMap,    \* ports that have a ChannelContext
    sock,          \* the UDP socket of a port
    stop,          \* ChannelContext::stopRequested
    seqNo,         \* ChannelContext::seqNo
    queue,         \* ChannelContext::msgQueue
    thread,        \* ChannelContext::recvThread and where it is
    rx,            \* datagrams the OS holds for the socket
    lastError,     \* the failure the text in lastError describes
    lastErrorLong, \* lastErrorLong
    ret,           \* result of the most recent call to return
    accepted,      \* history: frames the receive thread queued this session
    taken,         \* history: frames callers read this session
    wire           \* history: sequence numbers in the order sendto got them

context == <<stop, seqNo, queue, thread>>
errors  == <<lastError, lastErrorLong>>
history == <<accepted, taken, wire>>
caller  == <<lock, pc, local>>
vars == <<alive, caller, channelMap, sock, context, rx, errors, ret, history>>

-----------------------------------------------------------------------------
Codes == { "STATUS_NOERROR", "ERR_NULL_PARAMETER", "ERR_DEVICE_IN_USE",
           "ERR_DEVICE_NOT_CONNECTED", "ERR_INVALID_DEVICE_ID",
           "ERR_INVALID_CHANNEL_ID", "ERR_BUFFER_EMPTY",
           "ERR_BUFFER_OVERFLOW", "ERR_FAILED", "ERR_TIMEOUT",
           "ERR_NOT_SUPPORTED" }

\* Datagrams as the receive loop classifies them: recv fails or returns 0;
\* shorter than the header; another version; fewer bytes than `count' frames;
\* well formed.
BadKinds  == {"short", "version", "undersized"}
Datagrams == [kind : BadKinds \union {"ignored"}, frames : {<<>>}]
               \union [kind : {"data"}, frames : Batches]

Locals == [ chan  : Ports \union {NoPort},       \* it->second
            want  : Nat,                         \* *pNumMsgs, ChannelThreshold
            count : Nat,                         \* readCount, sentMsgs, readyCount
            batch : Seq(MsgKinds),               \* messages still to write
            list  : Seq(Ports), at : Nat,        \* ChannelList, 0 = top of a pass
            clock : {"off", "running", "expired"} ]  \* elapsed against Timeout

NoLocals == [ chan |-> NoPort, want |-> 0, count |-> 0, batch |-> <<>>,
              list |-> <<>>, at |-> 0, clock |-> "off" ]

PcSet == { "idle", "opening", "closing", "erasing", "reading", "writing",
           "sending", "selecting" }

Init ==
    /\ alive = TRUE
    /\ lock = NoCaller
    /\ pc = [t \in Callers |-> "idle"]
    /\ local = [t \in Callers |-> NoLocals]
    /\ channelMap = {}
    /\ sock = [p \in Ports |-> "closed"]
    /\ stop = [p \in Ports |-> FALSE]
    /\ seqNo = [p \in Ports |-> 0]
    /\ queue = [p \in Ports |-> <<>>]
    /\ thread = [p \in Ports |-> "none"]
    /\ rx = [p \in Ports |-> <<>>]
    /\ lastErrorLong \in {"STATUS_NOERROR", "ERR_DEVICE_NOT_CONNECTED"} \* WSAStartup
    /\ lastError = lastErrorLong
    /\ ret = [code |-> "STATUS_NOERROR", count |-> 0]
    /\ accepted = [p \in Ports |-> <<>>]
    /\ taken = [p \in Ports |-> <<>>]
    /\ wire = [p \in Ports |-> <<>>]

-----------------------------------------------------------------------------
(* The lock guard and the ways a call ends.                                *)

MayEnter(t) == alive /\ pc[t] = "idle" /\ lock = NoCaller
In(t, where) == alive /\ pc[t] = where

\* The call keeps globalMutex and goes on at `where' with locals `l'.
Hold(t, where, l) ==
    /\ lock' = t
    /\ pc' = [pc EXCEPT ![t] = where]
    /\ local' = [local EXCEPT ![t] = l]
    /\ UNCHANGED <<alive, ret>>

Return(t, code, count) ==
    /\ lock' = NoCaller
    /\ pc' = [pc EXCEPT ![t] = "idle"]
    /\ local' = [local EXCEPT ![t] = NoLocals]
    /\ ret' = [code |-> code, count |-> count]
    /\ UNCHANGED alive

\* A call that returns in the step that took the lock.
ReturnAtOnce(code, count) ==
    /\ ret' = [code |-> code, count |-> count]
    /\ UNCHANGED <<alive, caller>>

RecordFailure(code) == lastError' = code /\ lastErrorLong' = code

\* Success clears the code; the text of the last failure stays.
RecordSuccess == lastErrorLong' = "STATUS_NOERROR" /\ UNCHANGED lastError

-----------------------------------------------------------------------------
(* Faulty variants of the operators below.  None is part of Next: each is  *)
(* what a plausible mistake in the code would make of one operator, and    *)
(* shows that a property can fail.                                         *)

\* The capacity test off by one.
OpenSocket_OneTooMany(t, p) ==
    /\ MayEnter(t)
    /\ Cardinality(channelMap) <= NumPorts
    /\ p \notin channelMap
    /\ sock' = [sock EXCEPT ![p] = "open"]
    /\ Hold(t, "opening", [NoLocals EXCEPT !.chan = p])
    /\ UNCHANGED <<channelMap, context, rx, errors, history>>

\* A failure path of PassThruOpen without closesocket.
OpenAbandon_KeepsSocket(t) ==
    /\ In(t, "opening")
    /\ RecordFailure("ERR_DEVICE_NOT_CONNECTED")
    /\ Return(t, "ERR_DEVICE_NOT_CONNECTED", 0)
    /\ UNCHANGED <<channelMap, sock, rx, context, history>>

\* PassThruClose without join().
CloseJoin_NoWait(t) ==
    /\ In(t, "closing")
    /\ sock' = [sock EXCEPT ![local[t].chan] = "closed"]
    /\ rx' = [rx EXCEPT ![local[t].chan] = <<>>]
    /\ Hold(t, "erasing", local[t])
    /\ UNCHANGED <<channelMap, context, errors, history>>

\* A context that outlives its device keeps its messages ...
DestroyContext_KeepsQueue(p) ==
    /\ stop' = [stop EXCEPT ![p] = FALSE]
    /\ seqNo' = [seqNo EXCEPT ![p] = 0]
    /\ thread' = [thread EXCEPT ![p] = "none"]
    /\ UNCHANGED queue

\* ... or its sequence number.
DestroyContext_KeepsSeqNo(p) ==
    /\ stop' = [stop EXCEPT ![p] = FALSE]
    /\ queue' = [queue EXCEPT ![p] = <<>>]
    /\ thread' = [thread EXCEPT ![p] = "none"]
    /\ UNCHANGED seqNo

\* PassThruConnect that starts a receive thread again if it has ended.
Connect_Restarts(t, p) ==
    /\ MayEnter(t)
    /\ p \in channelMap
    /\ thread' = [thread EXCEPT ![p] = "loop"]
    /\ RecordSuccess
    /\ ReturnAtOnce("STATUS_NOERROR", 0)
    /\ UNCHANGED <<channelMap, sock, stop, seqNo, queue, rx, history>>

\* PassThruReadMsgs and PassThruWriteMsgs without the lock guard.
ReadBegin_Unlocked(t, p) ==
    /\ In(t, "idle")
    /\ p \in channelMap
    /\ \E n \in ReadSizes, c \in {"off", "running"} :
         Hold(t, "reading", [NoLocals EXCEPT !.chan = p, !.want = n, !.clock = c])
    /\ UNCHANGED <<channelMap, sock, context, rx, errors, history>>

WriteBegin_Unlocked(t, p) ==
    /\ In(t, "idle")
    /\ p \in channelMap
    /\ \E msgs \in WriteLists :
         Hold(t, "writing", [NoLocals EXCEPT !.chan = p, !.batch = msgs])
    /\ UNCHANGED <<channelMap, sock, context, rx, errors, history>>

\* A sequence number wider than the byte on the wire.
WriteBuild_NoWrap(t) ==
    LET p == local[t].chan IN
    /\ In(t, "writing")
    /\ local[t].batch # <<>>
    /\ Head(local[t].batch) = "can"
    /\ seqNo' = [seqNo EXCEPT ![p] = @ + 1]
    /\ Hold(t, "sending", [local[t] EXCEPT !.at = seqNo[p]])
    /\ UNCHANGED <<channelMap, sock, stop, queue, thread, rx, errors, history>>

\* A receive loop that does not look at stopRequested.
RecvCheckStop_Blind(p) ==
    /\ alive
    /\ thread[p] = "loop"
    /\ thread' = [thread EXCEPT ![p] = "select"]
    /\ UNCHANGED <<alive, caller, channelMap, sock, stop, seqNo, queue, rx,
                   errors, ret, history>>

\* A receive thread that needs globalMutex for every datagram ...
RecvPacket_Locked(p) ==
    /\ alive
    /\ lock = NoCaller
    /\ thread[p] = "select"
    /\ rx[p] # <<>>
    /\ rx' = [rx EXCEPT ![p] = Tail(@)]
    /\ thread' = [thread EXCEPT ![p] = "loop"]
    /\ queue' = [queue EXCEPT ![p] = @ \o Head(rx[p]).frames]
    /\ accepted' = [accepted EXCEPT ![p] = @ \o Head(rx[p]).frames]
    /\ UNCHANGED <<alive, caller, channelMap, sock, stop, seqNo, errors, ret,
                   taken, wire>>

\* ... or that queues the newest frames first.
RecvPacket_Lifo(p) ==
    /\ alive
    /\ thread[p] = "select"
    /\ rx[p] # <<>>
    /\ rx' = [rx EXCEPT ![p] = Tail(@)]
    /\ thread' = [thread EXCEPT ![p] = "loop"]
    /\ queue' = [queue EXCEPT ![p] = Head(rx[p]).frames \o @]
    /\ accepted' = [accepted EXCEPT ![p] = @ \o Head(rx[p]).frames]
    /\ UNCHANGED <<alive, caller, channelMap, sock, stop, seqNo, errors, ret,
                   taken, wire>>

-----------------------------------------------------------------------------
(* PassThruOpen                                                            *)

OpenRejected(p, code) ==
    \/ code = "ERR_NULL_PARAMETER"
    \/ code = "ERR_DEVICE_IN_USE"
         /\ (Cardinality(channelMap) >= NumPorts \/ p \in channelMap)
    \/ code = "ERR_DEVICE_NOT_CONNECTED"          \* socket() failed
         /\ Cardinality(channelMap) < NumPorts /\ p \notin channelMap

OpenFail(t, p) ==
    /\ MayEnter(t)
    /\ \E code \in Codes :
         /\ OpenRejected(p, code)
         /\ RecordFailure(code)
         /\ ReturnAtOnce(code, 0)
    /\ UNCHANGED <<channelMap, sock, context, rx, history>>

OpenSocket(t, p) ==
    /\ MayEnter(t)
    /\ Cardinality(channelMap) < NumPorts
    /\ p \notin channelMap
    /\ sock' = [sock EXCEPT ![p] = "open"]
    /\ Hold(t, "opening", [NoLocals EXCEPT !.chan = p])
    /\ UNCHANGED <<channelMap, context, rx, errors, history>>

\* InetPtonA rejects the host, or connect() fails: the socket is closed.
OpenAbandon(t) ==
    /\ In(t, "opening")
    /\ sock' = [sock EXCEPT ![local[t].chan] = "closed"]
    /\ rx' = [rx EXCEPT ![local[t].chan] = <<>>]
    /\ \E code \in {"ERR_INVALID_DEVICE_ID", "ERR_DEVICE_NOT_CONNECTED"} :
         RecordFailure(code) /\ Return(t, code, 0)
    /\ UNCHANGED <<channelMap, context, history>>

\* The context enters the map and its receive thread starts.
OpenInstall(t) ==
    /\ In(t, "opening")
    /\ channelMap' = channelMap \union {local[t].chan}
    /\ thread' = [thread EXCEPT ![local[t].chan] = "loop"]
    /\ RecordSuccess
    /\ Return(t, "STATUS_NOERROR", 0)
    /\ UNCHANGED <<sock, stop, seqNo, queue, rx, history>>

Open(t) == (\E p \in Ports : OpenFail(t, p) \/ OpenSocket(t, p))
             \/ OpenAbandon(t) \/ OpenInstall(t)

-----------------------------------------------------------------------------
(* PassThruClose                                                           *)

\* The text is recorded, the code is not.
CloseUnknown(t, p) ==
    /\ MayEnter(t)
    /\ p \notin channelMap
    /\ lastError' = "ERR_INVALID_DEVICE_ID"
    /\ ReturnAtOnce("ERR_INVALID_DEVICE_ID", 0)
    /\ UNCHANGED <<channelMap, sock, context, rx, lastErrorLong, history>>

CloseRequest(t, p) ==
    /\ MayEnter(t)
    /\ p \in channelMap
    /\ stop' = [stop EXCEPT ![p] = TRUE]
    /\ Hold(t, "closing", [NoLocals EXCEPT !.chan = p])
    /\ UNCHANGED <<channelMap, sock, seqNo, queue, thread, rx, errors, history>>

\* join() returns once the thread has ended; then closesocket().
CloseJoin(t) ==
    /\ In(t, "closing")
    /\ thread[local[t].chan] = "ended"
    /\ sock' = [sock EXCEPT ![local[t].chan] = "closed"]
    /\ rx' = [rx EXCEPT ![local[t].chan] = <<>>]
    /\ Hold(t, "erasing", local[t])
    /\ UNCHANGED <<channelMap, context, errors, history>>

\* channelMap.erase destroys the context; what a new one starts from.
DestroyContext(p) ==
    /\ stop' = [stop EXCEPT ![p] = FALSE]
    /\ seqNo' = [seqNo EXCEPT ![p] = 0]
    /\ queue' = [queue EXCEPT ![p] = <<>>]
    /\ thread' = [thread EXCEPT ![p] = "none"]

CloseErase(t) ==
    /\ In(t, "erasing")
    /\ channelMap' = channelMap \ {local[t].chan}
    /\ DestroyContext(local[t].chan)
    /\ accepted' = [accepted EXCEPT ![local[t].chan] = <<>>]
    /\ taken' = [taken EXCEPT ![local[t].chan] = <<>>]
    /\ wire' = [wire EXCEPT ![local[t].chan] = <<>>]
    /\ Return(t, "STATUS_NOERROR", 0)
    /\ UNCHANGED <<sock, rx, errors>>

Close(t) == (\E p \in Ports : CloseUnknown(t, p) \/ CloseRequest(t, p))
              \/ CloseJoin(t) \/ CloseErase(t)

-----------------------------------------------------------------------------
(* PassThruConnect, PassThruGetLastError, calls that keep no state         *)

Connect(t, p) ==
    /\ MayEnter(t)
    /\ \/ /\ p \in channelMap
          /\ RecordSuccess
          /\ ReturnAtOnce("STATUS_NOERROR", 0)
       \/ /\ p \notin channelMap
          /\ RecordFailure("ERR_INVALID_DEVICE_ID")
          /\ ReturnAtOnce("ERR_INVALID_DEVICE_ID", 0)
    /\ UNCHANGED <<channelMap, sock, context, rx, history>>

\* Calls that take no lock, look at nothing and change nothing.
Unlocked(t, code) ==
    /\ In(t, "idle")
    /\ ReturnAtOnce(code, 0)
    /\ UNCHANGED <<channelMap, sock, context, rx, errors, history>>

Disconnect(t)  == Unlocked(t, "STATUS_NOERROR")     \* the channel stays usable
Inquire(t)     == Unlocked(t, "STATUS_NOERROR")     \* Ioctl, ReadVersion
Unsupported(t) == Unlocked(t, "ERR_NOT_SUPPORTED")  \* periodic messages, filters, ...

GetLastError(t) ==
    /\ MayEnter(t)
    /\ \/ /\ ReturnAtOnce(lastErrorLong, 0)
          /\ UNCHANGED errors
       \/ /\ lastError' = "ERR_NULL_PARAMETER"
          /\ ReturnAtOnce("ERR_NULL_PARAMETER", 0)
          /\ UNCHANGED lastErrorLong
    /\ UNCHANGED <<channelMap, sock, context, rx, history>>

-----------------------------------------------------------------------------
(* PassThruReadMsgs: one step per message popped.                          *)

\* find() fails in PassThruReadMsgs or PassThruWriteMsgs.
UnknownChannel(t, p) ==
    /\ MayEnter(t)
    /\ p \notin channelMap
    /\ RecordFailure("ERR_INVALID_CHANNEL_ID")
    /\ ReturnAtOnce("ERR_INVALID_CHANNEL_ID", 0)
    /\ UNCHANGED <<channelMap, sock, context, rx, history>>

ReadBegin(t, p) ==
    /\ MayEnter(t)
    /\ p \in channelMap
    /\ \E n \in ReadSizes, c \in {"off", "running"} :
         Hold(t, "reading", [NoLocals EXCEPT !.chan = p, !.want = n, !.clock = c])
    /\ UNCHANGED <<channelMap, sock, context, rx, errors, history>>

ReadPop(t) ==
    LET p == local[t].chan IN
    /\ In(t, "reading")
    /\ local[t].count < local[t].want
    /\ local[t].clock # "expired"
    /\ queue[p] # <<>>
    /\ queue' = [queue EXCEPT ![p] = Tail(@)]
    /\ taken' = [taken EXCEPT ![p] = Append(@, Head(queue[p]))]
    /\ Hold(t, "reading", [local[t] EXCEPT !.count = @ + 1])
    /\ UNCHANGED <<channelMap, sock, stop, seqNo, thread, rx, errors,
                   accepted, wire>>

\* *pNumMsgs is overwritten with readCount before the two are compared, so
\* the result is STATUS_NOERROR whatever was read.
ReadEnd(t) ==
    /\ In(t, "reading")
    /\ \/ local[t].count >= local[t].want
       \/ local[t].clock = "expired"
       \/ queue[local[t].chan] = <<>>
    /\ LET pNumMsgs == local[t].count
           code == IF local[t].count > 0 \/ pNumMsgs = 0
                     THEN "STATUS_NOERROR" ELSE "ERR_BUFFER_EMPTY"
       IN /\ lastErrorLong' = code
          /\ Return(t, code, pNumMsgs)
    /\ UNCHANGED <<channelMap, sock, context, rx, lastError, history>>

Read(t) == (\E p \in Ports : UnknownChannel(t, p) \/ ReadBegin(t, p))
             \/ ReadPop(t) \/ ReadEnd(t)

-----------------------------------------------------------------------------
(* PassThruWriteMsgs: per message, the sequence number, then the send.     *)

WriteBegin(t, p) ==
    /\ MayEnter(t)
    /\ p \in channelMap
    /\ \E msgs \in WriteLists :
         /\ Len(wire[p]) + Len(msgs) <= MaxSends
         /\ Hold(t, "writing", [NoLocals EXCEPT !.chan = p, !.batch = msgs,
                                                !.want = Len(msgs)])
    /\ UNCHANGED <<channelMap, sock, context, rx, errors, history>>

\* seqNo.fetch_add(1) while the packet is built.
WriteBuild(t) ==
    LET p == local[t].chan IN
    /\ In(t, "writing")
    /\ local[t].batch # <<>>
    /\ Head(local[t].batch) = "can"
    /\ seqNo' = [seqNo EXCEPT ![p] = (@ + 1) % SeqMod]
    /\ Hold(t, "sending", [local[t] EXCEPT !.at = seqNo[p]])
    /\ UNCHANGED <<channelMap, sock, stop, queue, thread, rx, errors, history>>

WriteSend(t) ==
    /\ In(t, "sending")
    /\ wire' = [wire EXCEPT ![local[t].chan] = Append(@, local[t].at)]
    /\ \/ /\ Hold(t, "writing", [local[t] EXCEPT !.count = @ + 1, !.at = 0,
                                                 !.batch = Tail(@)])
          /\ UNCHANGED errors
       \/ /\ RecordFailure("ERR_FAILED")       \* *pNumMsgs is left as passed
          /\ Return(t, "ERR_FAILED", local[t].want)
    /\ UNCHANGED <<channelMap, sock, context, rx, accepted, taken>>

\* An invalid message ends the loop; the code it recorded is overwritten with
\* STATUS_NOERROR, since sentMsgs is compared with a *pNumMsgs it was just
\* assigned to.  The report freed in the loop is used and freed again: the
\* call returns all the same, or the heap check ends the process.
WriteInvalid(t) ==
    /\ In(t, "writing")
    /\ local[t].batch # <<>>
    /\ Head(local[t].batch) = "invalid"
    /\ lastError' = "ERR_BUFFER_OVERFLOW"
    /\ \/ /\ lastErrorLong' = "STATUS_NOERROR"
          /\ Return(t, "STATUS_NOERROR", local[t].count)
       \/ /\ lastErrorLong' = "STATUS_NOERROR"
          /\ alive' = FALSE
          /\ UNCHANGED <<caller, ret>>
    /\ UNCHANGED <<channelMap, sock, context, rx, history>>

WriteEnd(t) ==
    /\ In(t, "writing")
    /\ local[t].batch = <<>>
    /\ RecordSuccess
    /\ Return(t, "STATUS_NOERROR", local[t].count)
    /\ UNCHANGED <<channelMap, sock, context, rx, history>>

Write(t) == (\E p \in Ports : WriteBegin(t, p))
              \/ WriteBuild(t) \/ WriteSend(t) \/ WriteInvalid(t) \/ WriteEnd(t)

-----------------------------------------------------------------------------
(* PassThruSelect: a polling loop that keeps globalMutex.                  *)

SelectReject(t) ==
    /\ MayEnter(t)
    /\ \E code \in {"ERR_NULL_PARAMETER", "ERR_INVALID_CHANNEL_ID"} :
         lastError' = code /\ ReturnAtOnce(code, 0)
    /\ UNCHANGED <<channelMap, sock, context, rx, lastErrorLong, history>>

SelectBegin(t) ==
    /\ MayEnter(t)
    /\ \E chans \in SelectLists, n \in Thresholds, c \in {"running", "expired"} :
         /\ chans # <<>>
         /\ Hold(t, "selecting", [NoLocals EXCEPT !.list = chans, !.want = n,
                                                  !.clock = c])
    /\ UNCHANGED <<channelMap, sock, context, rx, errors, history>>

\* Top of a pass: readyCount = 0, then the deadline.
SelectPass(t) ==
    /\ In(t, "selecting")
    /\ local[t].at = 0
    /\ \/ /\ local[t].clock = "expired"
          /\ Return(t, "ERR_TIMEOUT", 0)
       \/ /\ local[t].clock # "expired"
          /\ Hold(t, "selecting", [local[t] EXCEPT !.at = 1, !.count = 0])
    /\ UNCHANGED <<channelMap, sock, context, rx, errors, history>>

Ready(p) == p \in channelMap /\ queue[p] # <<>>

SelectPoll(t) ==
    /\ In(t, "selecting")
    /\ local[t].at \in DOMAIN local[t].list
    /\ Hold(t, "selecting",
            [local[t] EXCEPT !.at = @ + 1,
                             !.count = IF Ready(local[t].list[local[t].at])
                                         THEN @ + 1 ELSE @])
    /\ UNCHANGED <<channelMap, sock, context, rx, errors, history>>

\* Below the threshold the pass starts again (after a sleep of 10 ms).
SelectDecide(t) ==
    /\ In(t, "selecting")
    /\ local[t].at = Len(local[t].list) + 1
    /\ \/ /\ local[t].count >= local[t].want
          /\ Return(t, IF local[t].count > 0 THEN "STATUS_NOERROR"
                                             ELSE "ERR_TIMEOUT", local[t].count)
       \/ /\ local[t].count < local[t].want
          /\ Hold(t, "selecting", [local[t] EXCEPT !.at = 0, !.count = 0])
    /\ UNCHANGED <<channelMap, sock, context, rx, errors, history>>

Select(t) == SelectReject(t) \/ SelectBegin(t) \/ SelectPass(t)
               \/ SelectPoll(t) \/ SelectDecide(t)

\* The steady clock passes the Timeout of a call that looks at it.
Expire(t) ==
    /\ alive
    /\ local[t].clock = "running"
    /\ local' = [local EXCEPT ![t].clock = "expired"]
    /\ UNCHANGED <<alive, lock, pc, channelMap, sock, context, rx, errors, ret,
                   history>>

-----------------------------------------------------------------------------
(* startReceiveThread: the loop of one receive thread.                     *)

RecvCheckStop(p) ==
    /\ alive
    /\ thread[p] = "loop"
    /\ thread' = [thread EXCEPT ![p] = IF stop[p] THEN "ended" ELSE "select"]
    /\ UNCHANGED <<alive, caller, channelMap, sock, stop, seqNo, queue, rx,
                   errors, ret, history>>

\* select() reports nothing to read within its timeout.
RecvPoll(p) ==
    /\ alive
    /\ thread[p] = "select"
    /\ rx[p] = <<>>
    /\ thread' = [thread EXCEPT ![p] = "loop"]
    /\ UNCHANGED <<alive, caller, channelMap, sock, stop, seqNo, queue, rx,
                   errors, ret, history>>

\* Any datagram that fails a test leaves the loop for good.
AfterDatagram(d) == IF d.kind \in BadKinds THEN "ended" ELSE "loop"

RecvPacket(p) ==
    LET d == Head(rx[p]) IN
    /\ alive
    /\ thread[p] = "select"
    /\ rx[p] # <<>>
    /\ rx' = [rx EXCEPT ![p] = Tail(@)]
    /\ thread' = [thread EXCEPT ![p] = AfterDatagram(d)]
    /\ queue' = [queue EXCEPT ![p] = @ \o d.frames]
    /\ accepted' = [accepted EXCEPT ![p] = @ \o d.frames]
    /\ UNCHANGED <<alive, caller, channelMap, sock, stop, seqNo, errors, ret,
                   taken, wire>>

Recv(p) == RecvCheckStop(p) \/ RecvPoll(p) \/ RecvPacket(p)

\* The network hands the OS any datagram: lost ones never arrive, repeated
\* and reordered ones are further choices of d.
Arrive(p, d) ==
    /\ alive
    /\ sock[p] = "open"
    /\ Len(rx[p]) < RxCapacity
    /\ d.kind = "data" => Len(accepted[p]) < MaxFrames
    /\ rx' = [rx EXCEPT ![p] = Append(@, d)]
    /\ UNCHANGED <<alive, caller, channelMap, sock, context, errors, ret, history>>

\* A process that was torn down takes no further step.
Aborted == ~alive /\ UNCHANGED vars

-----------------------------------------------------------------------------
Simple(t) == (\E p \in Ports : Connect(t, p)) \/ GetLastError(t)
               \/ Disconnect(t) \/ Inquire(t) \/ Unsupported(t)

Call(t) == Open(t) \/ Close(t) \/ Simple(t) \/ Read(t) \/ Write(t) \/ Select(t)

Next ==
    \/ \E t \in Callers : Call(t) \/ Expire(t)
    \/ \E p \in Ports : Recv(p) \/ (\E d \in Datagrams : Arrive(p, d))
    \/ Aborted

Spec == Init /\ [][Next]_vars

\* The scheduler runs every thread that can run, and time passes.  Callers are
\* free not to call, the network is free not to deliver.
Continue(t) ==
    \/ OpenAbandon(t) \/ OpenInstall(t) \/ CloseJoin(t) \/ CloseErase(t)
    \/ ReadPop(t) \/ ReadEnd(t)
    \/ WriteBuild(t) \/ WriteSend(t) \/ WriteInvalid(t) \/ WriteEnd(t)
    \/ SelectPass(t) \/ SelectPoll(t) \/ SelectDecide(t)

Fairness ==
    /\ \A t \in Callers : WF_vars(Continue(t)) /\ WF_vars(Expire(t))
    /\ \A p \in Ports : WF_vars(Recv(p))

FairSpec == Spec /\ Fairness

-----------------------------------------------------------------------------
(* Properties                                                              *)

\* Every variable stays in its type.
TypeOK ==
    /\ alive \in BOOLEAN
    /\ lock \in Callers \union {NoCaller}
    /\ pc \in [Callers -> PcSet]
    /\ local \in [Callers -> Locals]
    /\ channelMap \subseteq Ports
    /\ sock \in [Ports -> {"closed", "open"}]
    /\ stop \in [Ports -> BOOLEAN]
    /\ seqNo \in [Ports -> 0 .. SeqMod - 1]
    /\ queue \in [Ports -> Seq(Frames)]
    /\ thread \in [Ports -> {"none", "loop", "select", "ended"}]
    /\ rx \in [Ports -> Seq(Datagrams)]
    /\ lastError \in Codes
    /\ lastErrorLong \in Codes
    /\ ret \in [code : Codes, count : Nat]
    /\ accepted \in [Ports -> Seq(Frames)]
    /\ taken \in [Ports -> Seq(Frames)]
    /\ wire \in [Ports -> Seq(0 .. SeqMod - 1)]

\* A call in progress never works on a ChannelContext that was erased or whose
\* socket was closed under it: the iterator and the reference a call keeps
\* across its steps stay good until it returns.
UsesContext == {"closing", "reading", "writing", "sending"}
ContextValid ==
    \A t \in Callers : pc[t] \in UsesContext =>
        local[t].chan \in channelMap /\ sock[local[t].chan] = "open"

\* A receive thread that still runs owns an open socket and a context in the
\* map: closesocket and erase wait for the thread.
ThreadOwnsContext ==
    \A p \in Ports : thread[p] \in {"loop", "select"} =>
        p \in channelMap /\ sock[p] = "open"

\* A socket is open only for a device in the map or for the call that is
\* opening it: no failure path of PassThruOpen and no close leaks one.
NoLeakedSocket ==
    \A p \in Ports : sock[p] = "open" =>
        \/ p \in channelMap
        \/ \E t \in Callers : pc[t] = "opening" /\ local[t].chan = p

\* No more devices are open than the code allows, whatever the interleaving.
DeviceLimit == Cardinality(channelMap) <= NumPorts

\* Callers read exactly the frames the receive thread accepted in this session,
\* in order, none twice, none left over from the session before.
FifoDelivery == \A p \in Ports : accepted[p] = taken[p] \o queue[p]

\* The packets of PassThruWriteMsgs leave with the consecutive sequence numbers
\* of their session, from 0 and wrapping at SeqMod, although number and sendto
\* are separate steps and calls overlap.  (The packet PassThruOpen itself sends
\* always carries 0 and is not in wire.)  A send that fails ends its call and
\* uses its number up.
WireInOrder ==
    \A p \in Ports : \A i \in 1 .. Len(wire[p]) : wire[p][i] = (i - 1) % SeqMod

\* A channel PassThruSelect counted as ready stays ready until it returns, since
\* nobody can read it meanwhile: the count never exceeds the ready entries.
SelectCountHolds ==
    \A t \in Callers : pc[t] = "selecting" =>
        local[t].count <=
          Cardinality({i \in 1 .. local[t].at - 1 :
                         i \in DOMAIN local[t].list /\ Ready(local[t].list[i])})

\* Once its receive thread has ended, a device never receives again until it is
\* closed: nothing restarts the thread of a context in the map.
NoRevival ==
    [][\A p \in Ports : thread[p] = "ended" /\ thread'[p] # "ended"
          => p \notin channelMap' /\ thread'[p] = "none"]_vars

\* Every PassThru call that has started returns, or the process ended.
CallsReturn ==
    \A t \in Callers : pc[t] # "idle" ~> (pc[t] = "idle" \/ ~alive)

\* A full socket buffer is read from again, unless the device is closed or its
\* receive thread has ended: callers that hold globalMutex for long, as
\* PassThruSelect does, do not keep a device from receiving.
SocketDrained ==
    \A p \in Ports :
        Len(rx[p]) = RxCapacity /\ thread[p] \in {"loop", "select"}
          ~> (Len(rx[p]) < RxCapacity \/ thread[p] \in {"ended", "none"} \/ ~alive)

\* With sockets, threads, locks and codes hidden, the client is the set of
\* virtual devices an application is promised.
Device == INSTANCE VirtualDevices WITH
    Devices <- Ports, Limit <- NumPorts, Bursts <- Batches,
    open <- channelMap,
    listening <- {p \in Ports : thread[p] \in {"loop", "select"}},
    inbox <- queue

RefinesVirtualDevices == Device!Spec

-----------------------------------------------------------------------------
(* Statements of the comments in the code that the code does not keep.     *)

\* "Packet size too small for CannelloniCanFrame. Continue.": the receive loop
\* goes on after a datagram with fewer bytes than its count of frames needs.
UndersizedPacketSkipped ==
    [][\A p \in Ports :
         (thread[p] = "select" /\ rx[p] # <<>> /\ Head(rx[p]).kind = "undersized")
           => thread'[p] # "ended"]_vars

\* "Return readyCount (even on timeout, per spec)": PassThruSelect does not
\* report a bare timeout while a channel of its list has messages.
SelectReportsReady ==
    [][\A t \in Callers :
         pc[t] = "selecting" /\ pc'[t] = "idle" /\ ret'.code = "ERR_TIMEOUT"
           => \A i \in DOMAIN local[t].list : ~Ready(local[t].list[i])]_vars

\* "Return lastErrorLong (0 for no error, else J2534 error code)": zero is
\* stored only if the call before it did not fail.
ZeroMeansNoError ==
    lastErrorLong = "STATUS_NOERROR" => ret.code = "STATUS_NOERROR"
=============================================================================
