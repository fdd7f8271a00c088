----------------------- MODULE CannelloniClientProofs -----------------------
(***************************************************************************)
(* Proofs about CannelloniClient, for any callers, ports, limits and       *)
(* inputs.                                                                 *)
(*                                                                         *)
(* Types: the type invariant is inductive once it says which calls work on *)
(* a channel, and what PassThruWriteMsgs carries from building a packet to *)
(* sending it.                                                             *)
(*                                                                         *)
(* Safety: contexts and sockets are good as long as a call or a receive    *)
(* thread uses them, and messages are delivered in order.  The argument is *)
(* the ownership that globalMutex gives.  At most one call is in progress; *)
(* what it may assume of the device it works on depends on where it is,    *)
(* and only itself and the receive thread of that device can change that,  *)
(* which they do in one direction only.                                    *)
(***************************************************************************)
EXTENDS CannelloniClient, FiniteSetTheorems, SequenceTheorems, TLAPS

\* Where a call has a ChannelContext or a socket in its hands.
OnChannel == {"opening", "closing", "erasing", "reading", "writing", "sending"}

\* The variables a call carries its own state in; a call about to send still
\* has the message it builds the packet of, and a number the packet can hold.
CallerInv ==
    /\ alive \in BOOLEAN
    /\ lock \in Callers \union {NoCaller}
    /\ pc \in [Callers -> PcSet]
    /\ local \in [Callers -> Locals]
    /\ ret \in [code : Codes, count : Nat]
    /\ \A t \in Callers : pc[t] \in OnChannel => local[t].chan \in Ports
    /\ \A t \in Callers : pc[t] = "sending" =>
         local[t].batch # <<>> /\ local[t].at \in 0 .. SeqMod - 1

\* The variables of the devices.
DeviceType ==
    /\ channelMap \subseteq Ports
    /\ sock \in [Ports -> {"closed", "open"}]
    /\ stop \in [Ports -> BOOLEAN]
    /\ seqNo \in [Ports -> 0 .. SeqMod - 1]
    /\ queue \in [Ports -> Seq(Frames)]
    /\ thread \in [Ports -> {"none", "loop", "select", "ended"}]
    /\ rx \in [Ports -> Seq(Datagrams)]

\* The error state and the history.
RecordType ==
    /\ lastError \in Codes
    /\ lastErrorLong \in Codes
    /\ accepted \in [Ports -> Seq(Frames)]
    /\ taken \in [Ports -> Seq(Frames)]
    /\ wire \in [Ports -> Seq(0 .. SeqMod - 1)]

TypeInv == CallerInv /\ DeviceType /\ RecordType

-----------------------------------------------------------------------------
(* What the lock guard and the ways a call ends do to the callers' state.  *)

\* The strengthened invariant contains the type invariant.
LEMMA TypeParts == TypeInv => TypeOK
  BY DEF TypeInv, TypeOK, CallerInv, DeviceType, RecordType

\* The locals a call starts from are locals.
LEMMA NoLocalsType == NoLocals \in Locals
  BY DEF NoLocals, Locals

\* Locals with another sequence number or position in the list are locals.
LEMMA LocalsAt ==
  ASSUME NEW l \in Locals, NEW a \in Nat
  PROVE  [l EXCEPT !.at = a] \in Locals
  BY DEF Locals

\* So are locals with another position and another count ...
LEMMA LocalsPoll ==
  ASSUME NEW l \in Locals, NEW a \in Nat, NEW n \in Nat
  PROVE  [l EXCEPT !.at = a, !.count = n] \in Locals
  BY DEF Locals

\* ... and locals with other messages left to write.
LEMMA LocalsSent ==
  ASSUME NEW l \in Locals, NEW a \in Nat, NEW n \in Nat, NEW b \in Seq(MsgKinds)
  PROVE  [l EXCEPT !.count = n, !.at = a, !.batch = b] \in Locals
  BY DEF Locals

\* A call that goes on under the lock keeps the types of the callers' state.
LEMMA HoldType ==
  ASSUME CallerInv, NEW t \in Callers, NEW where \in PcSet, NEW l \in Locals,
         where \in OnChannel => l.chan \in Ports,
         where = "sending" => l.batch # <<>> /\ l.at \in 0 .. SeqMod - 1,
         Hold(t, where, l)
  PROVE  CallerInv'
  BY DEF CallerInv, Hold

\* So does a call that returns ...
LEMMA ReturnType ==
  ASSUME CallerInv, NEW t \in Callers, NEW code \in Codes, NEW n \in Nat,
         Return(t, code, n)
  PROVE  CallerInv'
  BY NoLocalsType DEF CallerInv, Return, PcSet, OnChannel

\* ... and one that returns in the step it started in.
LEMMA ReturnAtOnceType ==
  ASSUME CallerInv, NEW code \in Codes, NEW n \in Nat, ReturnAtOnce(code, n)
  PROVE  CallerInv'
  BY DEF CallerInv, ReturnAtOnce, caller

\* A step of a receive thread or of the network is none of the callers'.
LEMMA CallersIdleType ==
  ASSUME CallerInv, UNCHANGED <<alive, caller, ret>>
  PROVE  CallerInv'
  BY DEF CallerInv, caller

\* A step that leaves the devices and the records alone keeps their types.
LEMMA KeptType ==
  /\ DeviceType /\ UNCHANGED <<channelMap, sock, context, rx>> => DeviceType'
  /\ RecordType /\ UNCHANGED <<errors, history>> => RecordType'
  BY DEF DeviceType, RecordType, context, errors, history

\* closesocket, on an open that fails or on a close, drops what the socket held.
LEMMA ClosedSocketType ==
  ASSUME DeviceType, NEW p,
         sock' = [sock EXCEPT ![p] = "closed"], rx' = [rx EXCEPT ![p] = <<>>],
         UNCHANGED <<channelMap, context>>
  PROVE  DeviceType'
<1>1. /\ channelMap' \subseteq Ports
      /\ stop' \in [Ports -> BOOLEAN]
      /\ seqNo' \in [Ports -> 0 .. SeqMod - 1]
      /\ queue' \in [Ports -> Seq(Frames)]
      /\ thread' \in [Ports -> {"none", "loop", "select", "ended"}]
  BY DEF DeviceType, context
<1>2. sock' \in [Ports -> {"closed", "open"}]
  BY DEF DeviceType
<1>3. rx' \in [Ports -> Seq(Datagrams)]
  <2> DEFINE D == Seq(Datagrams)
  <2>1. <<>> \in D /\ rx \in [Ports -> D]
    BY DEF DeviceType
  <2>2. rx' \in [Ports -> D]
    <3> HIDE DEF D
    <3> QED BY <2>1
  <2> QED BY <2>2
<1> QED BY <1>1, <1>2, <1>3 DEF DeviceType

-----------------------------------------------------------------------------
(* The type invariant, one lemma per PassThru function.                    *)

\* The initial state has its types.
LEMMA InitType == Init => TypeInv
  BY ClientAssumption, NoLocalsType
  DEF Init, TypeInv, CallerInv, DeviceType, RecordType, Codes, PcSet, OnChannel

\* PassThruOpen keeps the types.
LEMMA OpenType ==
  ASSUME TypeInv, NEW t \in Callers, Open(t)
  PROVE  TypeInv'
<1> USE DEF TypeInv
<1>1. ASSUME NEW p \in Ports, OpenFail(t, p) PROVE TypeInv'
  <2>1. CallerInv'
    BY <1>1, ReturnAtOnceType DEF OpenFail
  <2>2. DeviceType' /\ RecordType'
    BY <1>1, KeptType DEF OpenFail, RecordFailure, RecordType, history
  <2> QED BY <2>1, <2>2
<1>2. ASSUME NEW p \in Ports, OpenSocket(t, p) PROVE TypeInv'
  <2>1. CallerInv'
    <3> DEFINE l == [NoLocals EXCEPT !.chan = p]
    <3>1. l \in Locals /\ l.chan = p
      BY NoLocalsType DEF Locals
    <3>2. Hold(t, "opening", l)
      BY <1>2 DEF OpenSocket
    <3> QED BY <3>1, <3>2, HoldType DEF PcSet
  <2>2. DeviceType' /\ RecordType'
    BY <1>2, KeptType DEF OpenSocket, DeviceType, context
  <2> QED BY <2>1, <2>2
<1>3. CASE OpenAbandon(t)
  <2>1. CallerInv'
    BY <1>3, ReturnType DEF OpenAbandon, Codes
  <2>2. DeviceType'
    BY <1>3, ClosedSocketType DEF OpenAbandon
  <2>3. lastError' \in Codes /\ lastErrorLong' \in Codes
    BY <1>3 DEF OpenAbandon, RecordFailure, Codes
  <2>4. RecordType'
    BY <1>3, <2>3 DEF OpenAbandon, RecordType, history
  <2> QED BY <2>1, <2>2, <2>4
<1>4. CASE OpenInstall(t)
  <2>1. local[t].chan \in Ports
    BY <1>4 DEF OpenInstall, In, CallerInv, OnChannel
  <2>2. CallerInv'
    BY <1>4, ReturnType DEF OpenInstall, Codes
  <2>3. DeviceType' /\ RecordType'
    BY <1>4, <2>1 DEF OpenInstall, DeviceType, RecordSuccess, RecordType, history, Codes
  <2> QED BY <2>2, <2>3
<1> QED BY <1>1, <1>2, <1>3, <1>4 DEF Open

\* PassThruClose keeps the types: the context it destroys starts from zero.
LEMMA CloseType ==
  ASSUME TypeInv, NEW t \in Callers, Close(t)
  PROVE  TypeInv'
<1> USE DEF TypeInv
<1>1. ASSUME NEW p \in Ports, CloseUnknown(t, p) PROVE TypeInv'
  <2>1. CallerInv'
    BY <1>1, ReturnAtOnceType DEF CloseUnknown, Codes
  <2>2. DeviceType' /\ RecordType'
    BY <1>1, KeptType DEF CloseUnknown, RecordType, history, Codes
  <2> QED BY <2>1, <2>2
<1>2. ASSUME NEW p \in Ports, CloseRequest(t, p) PROVE TypeInv'
  <2>1. CallerInv'
    <3> DEFINE l == [NoLocals EXCEPT !.chan = p]
    <3>1. l \in Locals /\ l.chan = p
      BY NoLocalsType DEF Locals
    <3>2. Hold(t, "closing", l)
      BY <1>2 DEF CloseRequest
    <3> QED BY <3>1, <3>2, HoldType DEF PcSet
  <2>2. DeviceType' /\ RecordType'
    BY <1>2, KeptType DEF CloseRequest, DeviceType
  <2> QED BY <2>1, <2>2
<1>3. CASE CloseJoin(t)
  <2>1. CallerInv'
    <3>1. local[t] \in Locals /\ local[t].chan \in Ports
      BY <1>3 DEF CloseJoin, In, CallerInv, OnChannel
    <3> QED BY <1>3, <3>1, HoldType DEF CloseJoin, PcSet
  <2>2. DeviceType' /\ RecordType'
    BY <1>3, KeptType, ClosedSocketType DEF CloseJoin
  <2> QED BY <2>1, <2>2
<1>4. CASE CloseErase(t)
  <2>1. CallerInv'
    BY <1>4, ReturnType DEF CloseErase, Codes
  <2>2. <<>> \in Seq(Frames) /\ <<>> \in Seq(0 .. SeqMod - 1) /\ 0 \in 0 .. SeqMod - 1
    BY ClientAssumption
  <2>3. DeviceType'
    <3>1. DeviceType /\ DestroyContext(local[t].chan) /\ UNCHANGED <<sock, rx>>
      BY <1>4 DEF CloseErase
    <3>2. channelMap' \subseteq Ports
      BY <1>4 DEF CloseErase, DeviceType
    <3> HIDE DEF TypeInv
    <3> QED BY <2>2, <3>1, <3>2 DEF DestroyContext, DeviceType
  <2>4. RecordType'
    BY <1>4, <2>2 DEF CloseErase, RecordType, errors
  <2> QED BY <2>1, <2>3, <2>4
<1> QED BY <1>1, <1>2, <1>3, <1>4 DEF Close

\* The calls that are done in one step keep the types.
LEMMA SimpleType ==
  ASSUME TypeInv, NEW t \in Callers, Simple(t)
  PROVE  TypeInv'
<1> USE DEF TypeInv
<1>1. ASSUME NEW p \in Ports, Connect(t, p) PROVE TypeInv'
  <2>1. CallerInv'
    BY <1>1, ReturnAtOnceType DEF Connect, Codes
  <2>2. DeviceType' /\ RecordType'
    BY <1>1, KeptType
    DEF Connect, RecordFailure, RecordSuccess, RecordType, history, Codes
  <2> QED BY <2>1, <2>2
<1>2. ASSUME NEW code \in Codes, Unlocked(t, code) PROVE TypeInv'
  <2>1. CallerInv'
    BY <1>2, ReturnAtOnceType DEF Unlocked
  <2>2. DeviceType' /\ RecordType'
    BY <1>2, KeptType DEF Unlocked
  <2> QED BY <2>1, <2>2
<1>3. CASE GetLastError(t)
  <2>1. CallerInv'
    BY <1>3, ReturnAtOnceType DEF GetLastError, RecordType, Codes
  <2>2. DeviceType' /\ RecordType'
    BY <1>3, KeptType DEF GetLastError, RecordType, errors, history, Codes
  <2> QED BY <2>1, <2>2
<1> QED BY <1>1, <1>2, <1>3 DEF Simple, Disconnect, Inquire, Unsupported, Codes

\* PassThruReadMsgs keeps the types: what it pops is a frame of the queue.
LEMMA ReadType ==
  ASSUME TypeInv, NEW t \in Callers, Read(t)
  PROVE  TypeInv'
<1> USE DEF TypeInv
<1>1. ASSUME NEW p \in Ports, UnknownChannel(t, p) PROVE TypeInv'
  <2>1. CallerInv'
    BY <1>1, ReturnAtOnceType DEF UnknownChannel, Codes
  <2>2. DeviceType' /\ RecordType'
    BY <1>1, KeptType DEF UnknownChannel, RecordFailure, RecordType, history, Codes
  <2> QED BY <2>1, <2>2
<1>2. ASSUME NEW p \in Ports, ReadBegin(t, p) PROVE TypeInv'
  <2>1. PICK n \in ReadSizes, c \in {"off", "running"} :
          Hold(t, "reading", [NoLocals EXCEPT !.chan = p, !.want = n, !.clock = c])
    BY <1>2 DEF ReadBegin
  <2>2. CallerInv'
    <3> DEFINE l == [NoLocals EXCEPT !.chan = p, !.want = n, !.clock = c]
    <3>1. l \in Locals /\ l.chan = p
      BY NoLocalsType, ClientAssumption DEF Locals
    <3> QED BY <2>1, <3>1, HoldType DEF PcSet
  <2>3. DeviceType' /\ RecordType'
    BY <1>2, KeptType DEF ReadBegin
  <2> QED BY <2>2, <2>3
<1>3. CASE ReadPop(t)
  <2>1. local[t] \in Locals /\ local[t].chan \in Ports
    BY <1>3 DEF ReadPop, In, CallerInv, OnChannel
  <2>2. CallerInv'
    <3> DEFINE l == [local[t] EXCEPT !.count = @ + 1]
    <3>1. l \in Locals /\ l.chan = local[t].chan
      BY <2>1 DEF Locals
    <3>2. Hold(t, "reading", l)
      BY <1>3 DEF ReadPop
    <3> QED BY <2>1, <3>1, <3>2, HoldType DEF PcSet
  <2>3. Tail(queue[local[t].chan]) \in Seq(Frames) /\ Head(queue[local[t].chan]) \in Frames
    BY <1>3, <2>1 DEF ReadPop, DeviceType
  <2>4. DeviceType'
    BY <1>3, <2>3 DEF ReadPop, DeviceType
  <2>5. RecordType'
    BY <1>3, <2>1, <2>3 DEF ReadPop, RecordType, errors
  <2> QED BY <2>2, <2>4, <2>5
<1>4. CASE ReadEnd(t)
  <2>1. local[t].count \in Nat
    BY DEF CallerInv, Locals
  <2>2. CallerInv'
    BY <1>4, <2>1, ReturnType DEF ReadEnd, Codes
  <2>3. DeviceType' /\ RecordType'
    BY <1>4, KeptType DEF ReadEnd, RecordType, history, Codes
  <2> QED BY <2>2, <2>3
<1> QED BY <1>1, <1>2, <1>3, <1>4 DEF Read

\* PassThruWriteMsgs keeps the types: the number a packet goes out with is one
\* the counter had.
LEMMA WriteType ==
  ASSUME TypeInv, NEW t \in Callers, Write(t)
  PROVE  TypeInv'
<1> USE DEF TypeInv
<1>0. local[t] \in Locals /\ (pc[t] \in OnChannel => local[t].chan \in Ports)
  BY DEF CallerInv
<1>1. ASSUME NEW p \in Ports, WriteBegin(t, p) PROVE TypeInv'
  <2>1. PICK msgs \in WriteLists :
          Hold(t, "writing", [NoLocals EXCEPT !.chan = p, !.batch = msgs,
                                              !.want = Len(msgs)])
    BY <1>1 DEF WriteBegin
  <2>2. CallerInv'
    <3> DEFINE l == [NoLocals EXCEPT !.chan = p, !.batch = msgs, !.want = Len(msgs)]
    <3>1. msgs \in Seq(MsgKinds) /\ Len(msgs) \in Nat
      BY ClientAssumption
    <3>2. l \in Locals /\ l.chan = p
      BY <3>1, NoLocalsType DEF Locals
    <3> QED BY <2>1, <3>2, HoldType DEF PcSet
  <2>3. DeviceType' /\ RecordType'
    BY <1>1, KeptType DEF WriteBegin
  <2> QED BY <2>2, <2>3
<1>2. CASE WriteBuild(t)
  <2>1. local[t].chan \in Ports
    BY <1>0, <1>2 DEF WriteBuild, In, OnChannel
  <2>2. seqNo[local[t].chan] \in 0 .. SeqMod - 1
    BY <2>1 DEF DeviceType
  <2>3. CallerInv'
    <3> DEFINE l == [local[t] EXCEPT !.at = seqNo[local[t].chan]]
    <3>1. l \in Locals
      <4>1. seqNo[local[t].chan] \in Nat
        BY <2>2, ClientAssumption
      <4> QED BY <1>0, <4>1, LocalsAt
    <3>2. /\ l.chan = local[t].chan /\ l.batch = local[t].batch
          /\ l.at = seqNo[local[t].chan]
      BY <1>0 DEF Locals
    <3>3. Hold(t, "sending", l) /\ local[t].batch # <<>>
      BY <1>2 DEF WriteBuild
    <3> QED BY <2>1, <2>2, <3>1, <3>2, <3>3, HoldType DEF PcSet
  <2>4. (seqNo[local[t].chan] + 1) % SeqMod \in 0 .. SeqMod - 1
    BY <2>2, ClientAssumption
  <2>5. DeviceType'
    BY <1>2, <2>4 DEF WriteBuild, DeviceType
  <2>6. RecordType'
    BY <1>2, KeptType DEF WriteBuild
  <2> QED BY <2>3, <2>5, <2>6
<1>3. CASE WriteSend(t)
  <2>1. /\ local[t].chan \in Ports
        /\ local[t].batch # <<>> /\ local[t].at \in 0 .. SeqMod - 1
    BY <1>0, <1>3 DEF WriteSend, In, CallerInv, OnChannel
  <2>2. CallerInv'
    <3>1. CASE Hold(t, "writing", [local[t] EXCEPT !.count = @ + 1, !.at = 0,
                                                   !.batch = Tail(@)])
      <4> DEFINE l == [local[t] EXCEPT !.count = @ + 1, !.at = 0, !.batch = Tail(@)]
      <4>1. Tail(local[t].batch) \in Seq(MsgKinds)
        BY <1>0, <2>1 DEF Locals
      <4>2. local[t].count + 1 \in Nat
        BY <1>0 DEF Locals
      <4>3. l \in Locals
        BY <1>0, <4>1, <4>2, LocalsSent
      <4>4. l.chan = local[t].chan
        BY <1>0 DEF Locals
      <4> QED BY <2>1, <3>1, <4>3, <4>4, HoldType DEF PcSet
    <3>2. CASE Return(t, "ERR_FAILED", local[t].want)
      <4>1. local[t].want \in Nat
        BY <1>0 DEF Locals
      <4> QED BY <3>2, <4>1, ReturnType DEF Codes
    <3> QED BY <1>3, <3>1, <3>2 DEF WriteSend
  <2>3. DeviceType'
    BY <1>3, KeptType DEF WriteSend
  <2>4. wire' \in [Ports -> Seq(0 .. SeqMod - 1)]
    BY <1>3, <2>1 DEF WriteSend, RecordType
  <2>5. RecordType'
    BY <1>3, <2>4 DEF WriteSend, RecordFailure, RecordType, errors, Codes
  <2> QED BY <2>2, <2>3, <2>5
<1>4. CASE WriteInvalid(t)
  <2>1. CallerInv'
    <3>1. local[t].count \in Nat
      BY <1>0 DEF Locals
    <3>2. CASE Return(t, "STATUS_NOERROR", local[t].count)
      BY <3>1, <3>2, ReturnType DEF Codes
    <3>3. CASE alive' = FALSE /\ UNCHANGED <<caller, ret>>
      BY <3>3 DEF CallerInv, caller
    <3> QED BY <1>4, <3>2, <3>3 DEF WriteInvalid
  <2>2. DeviceType' /\ RecordType'
    BY <1>4, KeptType DEF WriteInvalid, RecordType, history, Codes
  <2> QED BY <2>1, <2>2
<1>5. CASE WriteEnd(t)
  <2>1. local[t].count \in Nat
    BY <1>0 DEF Locals
  <2>2. CallerInv'
    BY <1>5, <2>1, ReturnType DEF WriteEnd, Codes
  <2>3. DeviceType' /\ RecordType'
    BY <1>5, KeptType DEF WriteEnd, RecordSuccess, RecordType, history, Codes
  <2> QED BY <2>2, <2>3
<1> QED BY <1>1, <1>2, <1>3, <1>4, <1>5 DEF Write

\* PassThruSelect and the clock keep the types: a poll looks at nothing but
\* ports of the list.
LEMMA SelectType ==
  ASSUME TypeInv, NEW t \in Callers, Select(t)
  PROVE  TypeInv'
<1> USE DEF TypeInv
<1>0. local[t] \in Locals
  BY DEF CallerInv
<1>1. CASE SelectReject(t)
  <2>1. CallerInv'
    BY <1>1, ReturnAtOnceType DEF SelectReject, Codes
  <2>2. DeviceType' /\ RecordType'
    BY <1>1, KeptType DEF SelectReject, RecordType, history, Codes
  <2> QED BY <2>1, <2>2
<1>2. CASE SelectBegin(t)
  <2>1. PICK chans \in SelectLists, n \in Thresholds, c \in {"running", "expired"} :
          Hold(t, "selecting", [NoLocals EXCEPT !.list = chans, !.want = n, !.clock = c])
    BY <1>2 DEF SelectBegin
  <2>2. [NoLocals EXCEPT !.list = chans, !.want = n, !.clock = c] \in Locals
    BY NoLocalsType, ClientAssumption DEF Locals
  <2>3. CallerInv'
    BY <2>1, <2>2, HoldType DEF PcSet, OnChannel
  <2>4. DeviceType' /\ RecordType'
    BY <1>2, KeptType DEF SelectBegin
  <2> QED BY <2>3, <2>4
<1>3. CASE SelectPass(t)
  <2>1. [local[t] EXCEPT !.at = 1, !.count = 0] \in Locals
    BY <1>0 DEF Locals
  <2>2. CallerInv'
    BY <1>3, <2>1, HoldType, ReturnType DEF SelectPass, PcSet, OnChannel, Codes
  <2>3. DeviceType' /\ RecordType'
    BY <1>3, KeptType DEF SelectPass
  <2> QED BY <2>2, <2>3
<1>4. CASE SelectPoll(t)
  <2> DEFINE l == [local[t] EXCEPT !.at = @ + 1,
                                   !.count = IF Ready(local[t].list[local[t].at])
                                               THEN @ + 1 ELSE @]
  <2>1. l \in Locals
    <3>1. local[t].at + 1 \in Nat /\ local[t].count + 1 \in Nat /\ local[t].count \in Nat
      BY <1>0 DEF Locals
    <3> QED BY <1>0, <3>1, LocalsPoll
  <2>2. Hold(t, "selecting", l)
    BY <1>4 DEF SelectPoll
  <2>3. CallerInv'
    BY <2>1, <2>2, HoldType DEF PcSet, OnChannel
  <2>4. DeviceType' /\ RecordType'
    BY <1>4, KeptType DEF SelectPoll
  <2> QED BY <2>3, <2>4
<1>5. CASE SelectDecide(t)
  <2>1. /\ [local[t] EXCEPT !.at = 0, !.count = 0] \in Locals
        /\ local[t].count \in Nat
    BY <1>0 DEF Locals
  <2>2. CallerInv'
    BY <1>5, <2>1, HoldType, ReturnType DEF SelectDecide, PcSet, OnChannel, Codes
  <2>3. DeviceType' /\ RecordType'
    BY <1>5, KeptType DEF SelectDecide
  <2> QED BY <2>2, <2>3
<1> QED BY <1>1, <1>2, <1>3, <1>4, <1>5 DEF Select

\* The clock of a call keeps the types.
LEMMA ExpireType ==
  ASSUME TypeInv, NEW t \in Callers, Expire(t)
  PROVE  TypeInv'
<1> USE DEF TypeInv
<1>1. [local[t] EXCEPT !.clock = "expired"] \in Locals
  BY DEF CallerInv, Locals
<1>2. /\ [local[t] EXCEPT !.clock = "expired"].chan = local[t].chan
      /\ [local[t] EXCEPT !.clock = "expired"].batch = local[t].batch
      /\ [local[t] EXCEPT !.clock = "expired"].at = local[t].at
  BY DEF CallerInv, Locals
<1>3. local' = [local EXCEPT ![t] = [local[t] EXCEPT !.clock = "expired"]]
  BY DEF Expire
<1>4. CallerInv'
  BY <1>1, <1>2, <1>3 DEF Expire, CallerInv
<1>5. DeviceType' /\ RecordType'
  BY KeptType DEF Expire
<1> QED BY <1>4, <1>5

\* The receive thread and the network keep the types: what is queued are
\* frames of a datagram that passed every test.
LEMMA RecvType ==
  ASSUME TypeInv, NEW p \in Ports, Recv(p)
  PROVE  TypeInv'
<1> USE DEF TypeInv
<1>1. CallerInv'
  BY CallersIdleType DEF Recv, RecvCheckStop, RecvPoll, RecvPacket
<1>2. CASE RecvCheckStop(p) \/ RecvPoll(p)
  BY <1>1, <1>2, KeptType DEF RecvCheckStop, RecvPoll, DeviceType
<1>3. CASE RecvPacket(p)
  <2>1. Head(rx[p]) \in Datagrams /\ Tail(rx[p]) \in Seq(Datagrams)
    BY <1>3 DEF RecvPacket, DeviceType
  <2>2. Head(rx[p]).frames \in Seq(Frames)
    <3>1. <<>> \in Seq(Frames) /\ Batches \subseteq Seq(Frames)
      BY ClientAssumption
    <3>2. Head(rx[p]).frames \in Batches \union {<<>>}
      BY <2>1 DEF Datagrams
    <3> QED BY <3>1, <3>2
  <2>3. AfterDatagram(Head(rx[p])) \in {"ended", "loop"}
    BY DEF AfterDatagram
  <2>4. queue[p] \o Head(rx[p]).frames \in Seq(Frames)
    BY <2>2 DEF DeviceType
  <2>5. accepted[p] \o Head(rx[p]).frames \in Seq(Frames)
    BY <2>2 DEF RecordType
  <2>6. DeviceType'
    BY <1>3, <2>1, <2>3, <2>4 DEF RecvPacket, DeviceType
  <2>7. RecordType'
    BY <1>3, <2>5 DEF RecvPacket, RecordType, errors
  <2> QED BY <1>1, <2>6, <2>7
<1> QED BY <1>2, <1>3 DEF Recv

\* The network keeps the types.
LEMMA ArriveType ==
  ASSUME TypeInv, NEW p \in Ports, NEW d \in Datagrams, Arrive(p, d)
  PROVE  TypeInv'
<1> USE DEF TypeInv
<1>1. CallerInv' /\ RecordType'
  BY CallersIdleType, KeptType DEF Arrive
<1>2. DeviceType'
  BY DEF Arrive, DeviceType, context
<1> QED BY <1>1, <1>2

\* Every step keeps the types.
LEMMA TypeStep == TypeInv /\ [Next]_vars => TypeInv'
<1> SUFFICES ASSUME TypeInv, [Next]_vars PROVE TypeInv'
  OBVIOUS
<1>1. ASSUME NEW t \in Callers, Call(t) PROVE TypeInv'
  BY <1>1, OpenType, CloseType, SimpleType, ReadType, WriteType, SelectType DEF Call
<1>2. ASSUME NEW t \in Callers, Expire(t) PROVE TypeInv'
  BY <1>2, ExpireType
<1>3. ASSUME NEW p \in Ports, Recv(p) PROVE TypeInv'
  BY <1>3, RecvType
<1>4. ASSUME NEW p \in Ports, NEW d \in Datagrams, Arrive(p, d) PROVE TypeInv'
  BY <1>4, ArriveType
<1>5. CASE UNCHANGED vars
  BY <1>5, CallersIdleType, KeptType DEF TypeInv, vars
<1> QED BY <1>1, <1>2, <1>3, <1>4, <1>5 DEF Next, Aborted

\* No execution of the client leaves the types: in particular the sequence
\* number fits the byte it is sent in, whatever the callers write.
THEOREM TypeCorrect == Spec => []TypeOK
<1>1. Init => TypeInv
  BY InitType
<1>2. TypeInv /\ [Next]_vars => TypeInv'
  BY TypeStep
<1>3. TypeInv => TypeOK
  BY TypeParts
<1> QED BY <1>1, <1>2, <1>3, PTL DEF Spec

-----------------------------------------------------------------------------
(* Safety.                                                                 *)

\* A call is in progress exactly if it owns globalMutex.
LockInv == \A t \in Callers : pc[t] # "idle" <=> lock = t

\* PassThruOpen between its checks and the map: they still hold.
OpeningInv ==
    \A t \in Callers : pc[t] = "opening" =>
        /\ local[t].chan \notin channelMap
        /\ sock[local[t].chan] = "open"
        /\ Cardinality(channelMap) < NumPorts

\* PassThruClose between join() and erase().
ErasingInv ==
    \A t \in Callers : pc[t] = "erasing" =>
        /\ local[t].chan \in channelMap
        /\ thread[local[t].chan] = "ended"
        /\ sock[local[t].chan] = "closed"

\* A port without a context has neither a receive thread nor messages.
ClosedInv ==
    \A p \in Ports : p \notin channelMap => thread[p] = "none" /\ queue[p] = <<>>

\* The socket of a context is open, or is being closed with it.
OpenInv ==
    \A p \in channelMap : \/ sock[p] = "open"
                          \/ \E t \in Callers : pc[t] = "erasing" /\ local[t].chan = p

Ownership ==
    LockInv /\ OpeningInv /\ ErasingInv /\ ContextValid
      /\ ThreadOwnsContext /\ NoLeakedSocket /\ ClosedInv /\ OpenInv

\* The map is finite, so that its size can be counted.
LimitInv == IsFiniteSet(channelMap) /\ DeviceLimit

SafetyInv == TypeInv /\ Ownership /\ LimitInv /\ FifoDelivery

-----------------------------------------------------------------------------
(* Steps that leave the map, the sockets and the threads alone.            *)

\* The queue of a port without a context is as it was.
QueueKept == \A p \in Ports : p \notin channelMap => queue'[p] = queue[p]

\* A call that returns in the step it started in, or none at all.
LEMMA AtOnceOwnership ==
  ASSUME Ownership, UNCHANGED <<lock, pc, channelMap, sock, thread>>, QueueKept,
         \A t \in Callers : local'[t].chan = local[t].chan
  PROVE  Ownership'
<1> USE DEF Ownership
<1>1. LockInv' /\ OpeningInv' /\ ErasingInv' /\ ContextValid'
  BY DEF LockInv, OpeningInv, ErasingInv, ContextValid
<1>2. ThreadOwnsContext' /\ NoLeakedSocket' /\ ClosedInv' /\ OpenInv'
  BY DEF ThreadOwnsContext, NoLeakedSocket, ClosedInv, OpenInv, QueueKept
<1> QED BY <1>1, <1>2

\* A call that starts or goes on with a context of the map in its hands.
LEMMA HoldOwnership ==
  ASSUME TypeInv, Ownership, UNCHANGED <<channelMap, sock, thread>>, QueueKept,
         NEW t \in Callers, pc[t] \notin {"opening", "erasing"},
         lock = NoCaller \/ pc[t] # "idle",
         NEW where, NEW l, Hold(t, where, l),
         \/ where = "selecting"
         \/ where \in UsesContext /\ l.chan \in channelMap /\ sock[l.chan] = "open"
  PROVE  Ownership'
<1> USE DEF Ownership
<1>1. /\ pc' = [pc EXCEPT ![t] = where] /\ local' = [local EXCEPT ![t] = l]
      /\ lock' = t /\ pc \in [Callers -> PcSet] /\ local \in [Callers -> Locals]
      /\ pc'[t] = where /\ local'[t] = l
  BY DEF Hold, TypeInv, CallerInv
<1>2. \A u \in Callers \ {t} : pc'[u] = "idle" /\ pc[u] = "idle"
  BY <1>1, ClientAssumption DEF LockInv
<1>3. where \notin {"idle", "opening", "erasing"}
  BY DEF UsesContext
<1>4. LockInv'
  BY <1>1, <1>2, <1>3 DEF LockInv
<1>5. OpeningInv' /\ ErasingInv'
  BY <1>1, <1>2, <1>3 DEF OpeningInv, ErasingInv
<1>6. ContextValid'
  BY <1>1, <1>2 DEF ContextValid, UsesContext
<1>7. ThreadOwnsContext' /\ ClosedInv'
  BY DEF ThreadOwnsContext, ClosedInv, QueueKept
<1>8. NoLeakedSocket' /\ OpenInv'
  BY <1>2 DEF NoLeakedSocket, OpenInv
<1> QED BY <1>4, <1>5, <1>6, <1>7, <1>8

\* A call that returns and was not opening or erasing.
LEMMA ReturnOwnership ==
  ASSUME TypeInv, Ownership, UNCHANGED <<channelMap, sock, thread>>, QueueKept,
         NEW t \in Callers, pc[t] \notin {"idle", "opening", "erasing"},
         NEW code, NEW n, Return(t, code, n)
  PROVE  Ownership'
<1> USE DEF Ownership
<1>1. /\ pc' = [pc EXCEPT ![t] = "idle"] /\ lock' = NoCaller
      /\ pc \in [Callers -> PcSet] /\ pc'[t] = "idle"
  BY DEF Return, TypeInv, CallerInv
<1>2. \A u \in Callers : pc'[u] = "idle" /\ (u # t => pc[u] = "idle")
  BY <1>1 DEF LockInv
<1>3. LockInv' /\ OpeningInv' /\ ErasingInv' /\ ContextValid'
  BY <1>1, <1>2, ClientAssumption
  DEF LockInv, OpeningInv, ErasingInv, ContextValid, UsesContext
<1>4. ThreadOwnsContext' /\ ClosedInv'
  BY DEF ThreadOwnsContext, ClosedInv, QueueKept
<1>5. NoLeakedSocket' /\ OpenInv'
  BY <1>2 DEF NoLeakedSocket, OpenInv
<1> QED BY <1>3, <1>4, <1>5

-----------------------------------------------------------------------------
(* Ownership, one lemma per group of actions.                              *)

\* Nobody owns anything at first.
LEMMA InitOwnership == Init => Ownership
  BY ClientAssumption
  DEF Init, Ownership, LockInv, OpeningInv, ErasingInv, ContextValid, UsesContext,
      ThreadOwnsContext, NoLeakedSocket, ClosedInv, OpenInv

\* PassThruOpen: its socket is the call's own until the context is in the map.
LEMMA OpenOwnership ==
  ASSUME TypeInv, Ownership, NEW t \in Callers, Open(t)
  PROVE  Ownership'
<1> USE DEF Ownership
<1>1. ASSUME NEW p \in Ports, OpenFail(t, p) PROVE Ownership'
  BY <1>1, AtOnceOwnership DEF OpenFail, ReturnAtOnce, caller, context, QueueKept
<1>2. ASSUME NEW p \in Ports, OpenSocket(t, p) PROVE Ownership'
  <2>1. /\ pc' = [pc EXCEPT ![t] = "opening"] /\ lock' = t
        /\ pc'[t] = "opening" /\ local'[t].chan = p
        /\ p \notin channelMap /\ sock' = [sock EXCEPT ![p] = "open"]
        /\ sock'[p] = "open"
        /\ Cardinality(channelMap) < NumPorts
        /\ UNCHANGED <<channelMap, queue, thread>>
    BY <1>2, NoLocalsType
    DEF OpenSocket, Hold, TypeInv, CallerInv, DeviceType, Locals, context
  <2>2. \A u \in Callers : u # t => pc'[u] = "idle"
    BY <1>2, <2>1, ClientAssumption DEF OpenSocket, MayEnter, LockInv
  <2>3. LockInv' /\ OpeningInv' /\ ErasingInv' /\ ContextValid'
    BY <2>1, <2>2 DEF LockInv, OpeningInv, ErasingInv, ContextValid, UsesContext
  <2>4. \A q \in Ports : q # p => sock'[q] = sock[q]
    BY <2>1 DEF TypeInv, DeviceType
  <2>5. \A u \in Callers : pc[u] = "idle"
    BY <1>2, ClientAssumption DEF OpenSocket, MayEnter, LockInv
  <2>6. ThreadOwnsContext' /\ ClosedInv'
    BY <2>1, <2>4 DEF ThreadOwnsContext, ClosedInv
  <2>7. NoLeakedSocket' /\ OpenInv'
    BY <2>1, <2>4, <2>5 DEF NoLeakedSocket, OpenInv, TypeInv, DeviceType
  <2> QED BY <2>3, <2>6, <2>7
<1>3. ASSUME pc[t] = "opening", Return(t, ret'.code, 0),
             NEW p, p = local[t].chan, UNCHANGED queue,
             \A q \in Ports : q # p => sock'[q] = sock[q] /\ thread'[q] = thread[q],
             \/ channelMap' = channelMap /\ sock'[p] = "closed" /\ UNCHANGED thread
             \/ channelMap' = channelMap \union {p} /\ UNCHANGED sock
      PROVE  Ownership'
  <2>1. /\ pc' = [pc EXCEPT ![t] = "idle"] /\ lock' = NoCaller /\ pc'[t] = "idle"
        /\ p \in Ports /\ p \notin channelMap /\ sock[p] = "open"
        /\ channelMap \subseteq Ports
    BY <1>3 DEF Return, OpeningInv, OnChannel, TypeInv, CallerInv, DeviceType
  <2>2. \A u \in Callers : pc'[u] = "idle" /\ (u # t => pc[u] = "idle")
    BY <1>3, <2>1 DEF LockInv
  <2>3. LockInv' /\ OpeningInv' /\ ErasingInv' /\ ContextValid'
    BY <2>1, <2>2, ClientAssumption
    DEF LockInv, OpeningInv, ErasingInv, ContextValid, UsesContext
  <2>4. ThreadOwnsContext' /\ ClosedInv'
    BY <1>3, <2>1 DEF ThreadOwnsContext, ClosedInv
  <2>5. NoLeakedSocket' /\ OpenInv'
    BY <1>3, <2>1, <2>2 DEF NoLeakedSocket, OpenInv
  <2> QED BY <2>3, <2>4, <2>5
<1>4. ASSUME OpenAbandon(t) \/ OpenInstall(t) PROVE local[t].chan \in Ports
  BY <1>4 DEF OpenAbandon, OpenInstall, In, OnChannel, TypeInv, CallerInv
<1>5. CASE OpenAbandon(t)
  BY <1>3, <1>4, <1>5
  DEF OpenAbandon, In, Return, context, TypeInv, DeviceType
<1>6. CASE OpenInstall(t)
  BY <1>3, <1>4, <1>6
  DEF OpenInstall, In, Return, TypeInv, DeviceType
<1> QED BY <1>1, <1>2, <1>5, <1>6 DEF Open

\* PassThruClose: join() makes the context its own, and only then are the
\* socket and the context given up.
LEMMA CloseOwnership ==
  ASSUME TypeInv, Ownership, NEW t \in Callers, Close(t)
  PROVE  Ownership'
<1> USE DEF Ownership
<1>1. ASSUME NEW p \in Ports, CloseUnknown(t, p) PROVE Ownership'
  BY <1>1, AtOnceOwnership DEF CloseUnknown, ReturnAtOnce, caller, context, QueueKept
<1>2. ASSUME NEW p \in Ports, CloseRequest(t, p) PROVE Ownership'
  <2> DEFINE l == [NoLocals EXCEPT !.chan = p]
  <2>1. l.chan = p
    BY NoLocalsType DEF Locals
  <2>2. \A u \in Callers : pc[u] = "idle"
    BY <1>2, ClientAssumption DEF CloseRequest, MayEnter, LockInv
  <2>3. p \in channelMap /\ sock[p] = "open"
    BY <1>2, <2>2 DEF CloseRequest, OpenInv
  <2>4. Hold(t, "closing", l) /\ lock = NoCaller /\ pc[t] = "idle"
    BY <1>2 DEF CloseRequest, MayEnter
  <2>5. UNCHANGED <<channelMap, sock, thread, queue>>
    BY <1>2 DEF CloseRequest
  <2> HIDE DEF l
  <2> QED BY <2>1, <2>3, <2>4, <2>5, HoldOwnership DEF UsesContext, QueueKept
<1>3. CASE CloseJoin(t)
  <2> DEFINE p == local[t].chan
  <2>1. /\ pc[t] = "closing" /\ p \in channelMap /\ p \in Ports
        /\ thread[p] = "ended"
        /\ pc' = [pc EXCEPT ![t] = "erasing"] /\ pc'[t] = "erasing" /\ lock' = t
        /\ local'[t] = local[t] /\ sock' = [sock EXCEPT ![p] = "closed"]
        /\ sock'[p] = "closed" /\ UNCHANGED <<channelMap, queue, thread>>
    <3>1. pc[t] = "closing" /\ thread[p] = "ended" /\ Hold(t, "erasing", local[t])
      BY <1>3 DEF CloseJoin, In
    <3>2. p \in channelMap /\ p \in Ports
      BY <3>1 DEF ContextValid, UsesContext, TypeInv, DeviceType
    <3>3. sock' = [sock EXCEPT ![p] = "closed"] /\ UNCHANGED <<channelMap, queue, thread>>
      BY <1>3 DEF CloseJoin, context
    <3> QED BY <3>1, <3>2, <3>3 DEF Hold, TypeInv, CallerInv, DeviceType
  <2>2. \A u \in Callers : u # t => pc[u] = "idle" /\ pc'[u] = "idle"
    BY <2>1 DEF LockInv
  <2>3. LockInv' /\ OpeningInv' /\ ErasingInv' /\ ContextValid'
    BY <2>1, <2>2 DEF LockInv, OpeningInv, ErasingInv, ContextValid, UsesContext
  <2>4. \A q \in Ports : q # p => sock'[q] = sock[q]
    BY <2>1 DEF TypeInv, DeviceType
  <2>5. ThreadOwnsContext' /\ ClosedInv'
    BY <2>1, <2>4 DEF ThreadOwnsContext, ClosedInv
  <2>6. NoLeakedSocket'
    BY <2>1, <2>2, <2>4 DEF NoLeakedSocket
  <2>7. OpenInv'
    <3> SUFFICES ASSUME NEW q \in channelMap
                 PROVE  \/ sock'[q] = "open"
                        \/ \E u \in Callers : pc'[u] = "erasing" /\ local'[u].chan = q
      BY <2>1 DEF OpenInv
    <3>1. CASE q = p
      BY <2>1, <3>1
    <3>2. CASE q # p
      <4>1. sock[q] = "open" /\ q \in Ports
        BY <2>1, <2>2 DEF OpenInv, TypeInv, DeviceType
      <4> QED BY <2>4, <3>2, <4>1
    <3> QED BY <3>1, <3>2
  <2> QED BY <2>3, <2>5, <2>6, <2>7
<1>4. CASE CloseErase(t)
  <2> DEFINE p == local[t].chan
  <2>1. /\ pc[t] = "erasing" /\ p \in channelMap /\ p \in Ports
        /\ sock[p] = "closed"
        /\ pc' = [pc EXCEPT ![t] = "idle"] /\ pc'[t] = "idle" /\ lock' = NoCaller
        /\ channelMap' = channelMap \ {p} /\ sock' = sock
    <3>1. pc[t] = "erasing" /\ Return(t, "STATUS_NOERROR", 0)
      BY <1>4 DEF CloseErase, In
    <3>2. p \in channelMap /\ p \in Ports /\ sock[p] = "closed"
      BY <3>1 DEF ErasingInv, TypeInv, DeviceType
    <3>3. channelMap' = channelMap \ {p} /\ sock' = sock
      BY <1>4 DEF CloseErase
    <3> QED BY <3>1, <3>2, <3>3 DEF Return, TypeInv, CallerInv
  <2>2. \A u \in Callers : pc'[u] = "idle" /\ (u # t => pc[u] = "idle")
    BY <2>1 DEF LockInv
  <2>3. /\ thread'[p] = "none" /\ queue'[p] = <<>>
        /\ \A q \in Ports : q # p => thread'[q] = thread[q] /\ queue'[q] = queue[q]
    BY <1>4, <2>1 DEF CloseErase, DestroyContext, TypeInv, DeviceType
  <2>4. LockInv' /\ OpeningInv' /\ ErasingInv' /\ ContextValid'
    BY <2>1, <2>2, ClientAssumption
    DEF LockInv, OpeningInv, ErasingInv, ContextValid, UsesContext
  <2>5. ThreadOwnsContext' /\ ClosedInv'
    BY <2>1, <2>3 DEF ThreadOwnsContext, ClosedInv
  <2>6. NoLeakedSocket'
    BY <2>1, <2>2 DEF NoLeakedSocket
  <2>7. OpenInv'
    <3> SUFFICES ASSUME NEW q \in channelMap, q # p PROVE sock[q] = "open"
      BY <2>1 DEF OpenInv
    <3> QED BY <2>1, <2>2 DEF OpenInv
  <2> QED BY <2>4, <2>5, <2>6, <2>7
<1> QED BY <1>1, <1>2, <1>3, <1>4 DEF Close

\* The calls that start and return in one step own nothing.
LEMMA SimpleOwnership ==
  ASSUME Ownership, NEW t \in Callers,
         \/ Simple(t)
         \/ \E p \in Ports : UnknownChannel(t, p)
         \/ SelectReject(t)
  PROVE  Ownership'
<1>1. UNCHANGED <<caller, channelMap, sock, thread, queue>>
  BY DEF Simple, Connect, Unlocked, Disconnect, Inquire, Unsupported,
      GetLastError, UnknownChannel, SelectReject,
         ReturnAtOnce, context
<1> QED BY <1>1, AtOnceOwnership DEF caller, QueueKept

\* With globalMutex free, the socket of every context is open.
LEMMA EntryOpen ==
  ASSUME Ownership, NEW t \in Callers, MayEnter(t)
  PROVE  \A p \in channelMap : sock[p] = "open"
  BY ClientAssumption DEF Ownership, MayEnter, LockInv, OpenInv

\* PassThruReadMsgs: the context it pops from stays its own.
LEMMA ReadOwnership ==
  ASSUME TypeInv, Ownership, NEW t \in Callers, Read(t)
  PROVE  Ownership'
<1>1. ASSUME NEW p \in Ports, ReadBegin(t, p) PROVE Ownership'
  <2>1. PICK n \in ReadSizes, c \in {"off", "running"} :
          Hold(t, "reading", [NoLocals EXCEPT !.chan = p, !.want = n, !.clock = c])
    BY <1>1 DEF ReadBegin
  <2> DEFINE l == [NoLocals EXCEPT !.chan = p, !.want = n, !.clock = c]
  <2>2. l.chan = p
    BY NoLocalsType DEF Locals
  <2>3. p \in channelMap /\ MayEnter(t) /\ UNCHANGED <<channelMap, sock, thread, queue>>
    BY <1>1 DEF ReadBegin, context
  <2>4. sock[p] = "open" /\ lock = NoCaller /\ pc[t] = "idle"
    BY <2>3, EntryOpen DEF MayEnter
  <2>5. Hold(t, "reading", l)
    BY <2>1
  <2> HIDE DEF l
  <2> QED BY <2>2, <2>3, <2>4, <2>5, HoldOwnership DEF UsesContext, QueueKept
<1>2. CASE ReadPop(t)
  <2> DEFINE l == [local[t] EXCEPT !.count = @ + 1]
  <2>1. pc[t] = "reading" /\ Hold(t, "reading", l)
        /\ UNCHANGED <<channelMap, sock, thread>>
    BY <1>2 DEF ReadPop, In
  <2>2. l.chan = local[t].chan
    BY DEF TypeInv, CallerInv, Locals
  <2>3. l.chan \in channelMap /\ sock[l.chan] = "open"
    BY <2>1, <2>2 DEF Ownership, ContextValid, UsesContext
  <2>4. QueueKept
    BY <1>2, <2>2, <2>3 DEF ReadPop, QueueKept, TypeInv, DeviceType
  <2> HIDE DEF l
  <2> QED BY <2>1, <2>3, <2>4, HoldOwnership DEF UsesContext
<1>3. CASE ReadEnd(t)
  <2>1. pc[t] = "reading" /\ (\E code, n : Return(t, code, n))
        /\ UNCHANGED <<channelMap, sock, thread, queue>>
    BY <1>3 DEF ReadEnd, In, context
  <2> QED BY <2>1, ReturnOwnership DEF QueueKept
<1> QED BY <1>1, <1>2, <1>3, SimpleOwnership DEF Read

\* PassThruWriteMsgs: so does the context it takes sequence numbers from.
LEMMA WriteOwnership ==
  ASSUME TypeInv, Ownership, NEW t \in Callers, Write(t)
  PROVE  Ownership'
<1>0. UNCHANGED <<channelMap, sock, thread, queue>>
  BY DEF Write, WriteBegin, WriteBuild, WriteSend, WriteInvalid, WriteEnd, context
<1>1. ASSUME NEW p \in Ports, WriteBegin(t, p) PROVE Ownership'
  <2>1. PICK msgs \in WriteLists :
          Hold(t, "writing", [NoLocals EXCEPT !.chan = p, !.batch = msgs,
                                              !.want = Len(msgs)])
    BY <1>1 DEF WriteBegin
  <2> DEFINE l == [NoLocals EXCEPT !.chan = p, !.batch = msgs, !.want = Len(msgs)]
  <2>2. l.chan = p
    BY NoLocalsType DEF Locals
  <2>3. p \in channelMap /\ MayEnter(t)
    BY <1>1 DEF WriteBegin
  <2>4. sock[p] = "open" /\ lock = NoCaller /\ pc[t] = "idle"
    BY <2>3, EntryOpen DEF MayEnter
  <2>5. Hold(t, "writing", l)
    BY <2>1
  <2> HIDE DEF l
  <2> QED BY <1>0, <2>2, <2>3, <2>4, <2>5, HoldOwnership DEF UsesContext, QueueKept
<1>2. ASSUME pc[t] \in {"writing", "sending"}, NEW where \in {"writing", "sending"},
             NEW l, Hold(t, where, l), l.chan = local[t].chan
      PROVE  Ownership'
  <2>1. l.chan \in channelMap /\ sock[l.chan] = "open"
    BY <1>2 DEF Ownership, ContextValid, UsesContext
  <2> QED BY <1>0, <1>2, <2>1, HoldOwnership DEF UsesContext, QueueKept
<1>3. ASSUME pc[t] \in {"writing", "sending"}, NEW code, NEW n, Return(t, code, n)
      PROVE  Ownership'
  BY <1>0, <1>3, ReturnOwnership DEF QueueKept
<1>4. CASE WriteBuild(t)
  <2> DEFINE l == [local[t] EXCEPT !.at = seqNo[local[t].chan]]
  <2>1. l.chan = local[t].chan
    BY DEF TypeInv, CallerInv, Locals
  <2>2. pc[t] = "writing" /\ Hold(t, "sending", l)
    BY <1>4 DEF WriteBuild, In
  <2> HIDE DEF l
  <2> QED BY <1>2, <2>1, <2>2
<1>5. CASE WriteSend(t)
  <2> DEFINE l == [local[t] EXCEPT !.count = @ + 1, !.at = 0, !.batch = Tail(@)]
  <2>1. l.chan = local[t].chan
    BY DEF TypeInv, CallerInv, Locals
  <2>2. pc[t] = "sending" /\ (Hold(t, "writing", l) \/ \E code, n : Return(t, code, n))
    BY <1>5 DEF WriteSend, In
  <2> HIDE DEF l
  <2> QED BY <1>2, <1>3, <2>1, <2>2
<1>6. CASE WriteInvalid(t)
  <2>1. pc[t] = "writing"
        /\ ((\E code, n : Return(t, code, n)) \/ UNCHANGED caller)
    BY <1>6 DEF WriteInvalid, In
  <2> QED BY <1>0, <1>3, <2>1, AtOnceOwnership DEF caller, QueueKept
<1>7. CASE WriteEnd(t)
  BY <1>3, <1>7 DEF WriteEnd, In
<1> QED BY <1>1, <1>4, <1>5, <1>6, <1>7 DEF Write

\* PassThruSelect only looks.
LEMMA SelectOwnership ==
  ASSUME TypeInv, Ownership, NEW t \in Callers, Select(t)
  PROVE  Ownership'
<1>1. UNCHANGED <<channelMap, sock, thread, queue>>
  BY DEF Select, SelectReject, SelectBegin, SelectPass, SelectPoll, SelectDecide, context
<1>2. ASSUME pc[t] = "selecting" \/ MayEnter(t), NEW l, Hold(t, "selecting", l)
      PROVE  Ownership'
  BY <1>1, <1>2, HoldOwnership DEF MayEnter, QueueKept
<1>3. ASSUME pc[t] = "selecting", NEW code, NEW n, Return(t, code, n)
      PROVE  Ownership'
  BY <1>1, <1>3, ReturnOwnership DEF QueueKept
<1>4. CASE SelectBegin(t)
  BY <1>2, <1>4 DEF SelectBegin
<1>5. CASE SelectPass(t) \/ SelectDecide(t)
  BY <1>2, <1>3, <1>5 DEF SelectPass, SelectDecide, In
<1>6. CASE SelectPoll(t)
  BY <1>2, <1>6 DEF SelectPoll, In
<1> QED BY <1>4, <1>5, <1>6, SimpleOwnership DEF Select

\* The clock of a call.
LEMMA ExpireOwnership ==
  ASSUME TypeInv, Ownership, NEW t \in Callers, Expire(t)
  PROVE  Ownership'
<1>1. local' = [local EXCEPT ![t] = [local[t] EXCEPT !.clock = "expired"]]
  BY DEF Expire
<1>2. [local[t] EXCEPT !.clock = "expired"].chan = local[t].chan
  BY DEF TypeInv, CallerInv, Locals
<1>3. \A u \in Callers : local'[u].chan = local[u].chan
  BY <1>1, <1>2 DEF TypeInv, CallerInv
<1> QED BY <1>3, AtOnceOwnership DEF Expire, context, QueueKept

\* A receive thread gives its context up, and never takes another.
LEMMA RecvOwnership ==
  ASSUME TypeInv, Ownership, NEW p \in Ports, Recv(p)
  PROVE  Ownership'
<1> USE DEF Ownership
<1>1. /\ UNCHANGED <<lock, pc, local, channelMap, sock>>
      /\ thread[p] \in {"loop", "select"}
      /\ \A q \in Ports : q # p => thread'[q] = thread[q] /\ queue'[q] = queue[q]
  BY DEF Recv, RecvCheckStop, RecvPoll, RecvPacket, caller, TypeInv, DeviceType
<1>2. p \in channelMap
  BY <1>1 DEF ThreadOwnsContext
<1>3. LockInv' /\ OpeningInv' /\ ContextValid' /\ NoLeakedSocket' /\ OpenInv'
  BY <1>1 DEF LockInv, OpeningInv, ContextValid, NoLeakedSocket, OpenInv
<1>4. ErasingInv'
  BY <1>1 DEF ErasingInv, TypeInv, DeviceType
<1>5. ThreadOwnsContext' /\ ClosedInv'
  BY <1>1, <1>2 DEF ThreadOwnsContext, ClosedInv
<1> QED BY <1>3, <1>4, <1>5

\* Every step keeps what is owned.
LEMMA OwnershipStep == TypeInv /\ Ownership /\ [Next]_vars => Ownership'
<1> SUFFICES ASSUME TypeInv, Ownership, [Next]_vars PROVE Ownership'
  OBVIOUS
<1>1. ASSUME NEW t \in Callers, Call(t) PROVE Ownership'
  BY <1>1, OpenOwnership, CloseOwnership, SimpleOwnership, ReadOwnership,
     WriteOwnership, SelectOwnership DEF Call
<1>2. ASSUME NEW t \in Callers, Expire(t) PROVE Ownership'
  BY <1>2, ExpireOwnership
<1>3. ASSUME NEW p \in Ports, Recv(p) PROVE Ownership'
  BY <1>3, RecvOwnership
<1>4. ASSUME NEW p \in Ports, NEW d \in Datagrams, Arrive(p, d) PROVE Ownership'
  BY <1>4, AtOnceOwnership DEF Arrive, caller, context, QueueKept
<1>5. CASE UNCHANGED vars
  BY <1>5, AtOnceOwnership DEF vars, caller, context, QueueKept
<1> QED BY <1>1, <1>2, <1>3, <1>4, <1>5 DEF Next, Aborted

-----------------------------------------------------------------------------
(* Messages.                                                               *)

\* Moving the head of a queue to the end of what was taken loses nothing.
LEMMA PopKeepsAll ==
  ASSUME NEW S, NEW a \in Seq(S), NEW q \in Seq(S), q # <<>>
  PROVE  Append(a, Head(q)) \o Tail(q) = a \o q
  OBVIOUS

\* Frames added behind a queue are added behind what was taken and queued.
LEMMA ConcatAssoc ==
  \A a, q, f \in Seq(Frames) : (a \o q) \o f = a \o (q \o f)
  BY ConcatAssociative

\* Every step keeps delivery first in, first out.
LEMMA FifoStep == TypeInv /\ FifoDelivery /\ [Next]_vars => FifoDelivery'
<1> SUFFICES ASSUME TypeInv, FifoDelivery, [Next]_vars PROVE FifoDelivery'
  OBVIOUS
<1>1. CASE UNCHANGED <<accepted, taken, queue>>
  BY <1>1 DEF FifoDelivery
<1>2. ASSUME NEW t \in Callers, ReadPop(t) PROVE FifoDelivery'
  <2> DEFINE p == local[t].chan
  <2>1. p \in Ports /\ queue[p] # <<>>
    BY <1>2 DEF ReadPop, In, OnChannel, TypeInv, CallerInv
  <2>2. queue[p] \in Seq(Frames) /\ taken[p] \in Seq(Frames)
    BY <2>1 DEF TypeInv, DeviceType, RecordType
  <2>3. Append(taken[p], Head(queue[p])) \o Tail(queue[p]) = taken[p] \o queue[p]
    BY <2>1, <2>2, PopKeepsAll
  <2>4. /\ taken' = [taken EXCEPT ![p] = Append(taken[p], Head(queue[p]))]
        /\ queue' = [queue EXCEPT ![p] = Tail(queue[p])]
        /\ accepted' = accepted
    BY <1>2 DEF ReadPop
  <2>5. taken'[p] \o queue'[p] = accepted'[p]
    BY <2>1, <2>3, <2>4 DEF FifoDelivery, TypeInv, DeviceType, RecordType
  <2>6. \A q \in Ports : q # p => taken'[q] = taken[q] /\ queue'[q] = queue[q]
    BY <2>4 DEF TypeInv, DeviceType, RecordType
  <2> HIDE DEF p
  <2> QED BY <2>4, <2>5, <2>6 DEF FifoDelivery
<1>3. ASSUME NEW t \in Callers, CloseErase(t) PROVE FifoDelivery'
  <2> DEFINE p == local[t].chan
  <2>1. /\ queue' = [queue EXCEPT ![p] = <<>>] /\ taken' = [taken EXCEPT ![p] = <<>>]
        /\ accepted' = [accepted EXCEPT ![p] = <<>>]
    BY <1>3 DEF CloseErase, DestroyContext
  <2>2. <<>> = <<>> \o <<>>
    OBVIOUS
  <2> HIDE DEF p
  <2> QED BY <2>1, <2>2 DEF FifoDelivery, TypeInv, DeviceType, RecordType
<1>4. ASSUME NEW p \in Ports, RecvPacket(p) PROVE FifoDelivery'
  <2> DEFINE f == Head(rx[p]).frames
  <2>1. Head(rx[p]) \in Datagrams
    BY <1>4 DEF RecvPacket, TypeInv, DeviceType
  <2>2. f \in Seq(Frames)
    <3>1. <<>> \in Seq(Frames) /\ Batches \subseteq Seq(Frames)
      BY ClientAssumption
    <3>2. f \in Batches \union {<<>>}
      BY <2>1 DEF Datagrams
    <3> QED BY <3>1, <3>2
  <2>3. queue[p] \in Seq(Frames) /\ taken[p] \in Seq(Frames)
    BY DEF TypeInv, DeviceType, RecordType
  <2>4. /\ queue' = [queue EXCEPT ![p] = queue[p] \o f] /\ taken' = taken
        /\ accepted' = [accepted EXCEPT ![p] = accepted[p] \o f]
    BY <1>4 DEF RecvPacket
  <2> HIDE DEF f
  <2>5. (taken[p] \o queue[p]) \o f = taken[p] \o (queue[p] \o f)
    BY <2>2, <2>3, ConcatAssoc, Zenon
  <2> QED BY <2>4, <2>5 DEF FifoDelivery, TypeInv, DeviceType, RecordType
<1>5. ASSUME NEW t \in Callers, Open(t) \/ Close(t) PROVE FifoDelivery'
  BY <1>1, <1>3, <1>5
  DEF Open, OpenFail, OpenSocket, OpenAbandon, OpenInstall,
      Close, CloseUnknown, CloseRequest, CloseJoin, context, history
<1>6. ASSUME NEW t \in Callers, Simple(t) \/ Read(t) PROVE FifoDelivery'
  BY <1>1, <1>2, <1>6
  DEF Simple, Connect, Unlocked, Disconnect, Inquire, Unsupported,
      GetLastError, Read, UnknownChannel, ReadBegin,
      ReadEnd, context, history
<1>7. ASSUME NEW t \in Callers, Write(t) \/ Select(t) \/ Expire(t) PROVE FifoDelivery'
  BY <1>1, <1>7
  DEF Write, WriteBegin, WriteBuild, WriteSend, WriteInvalid, WriteEnd, Select,
      SelectReject, SelectBegin, SelectPass, SelectPoll, SelectDecide, Expire,
      context, history
<1>8. ASSUME NEW p \in Ports, Recv(p) PROVE FifoDelivery'
  BY <1>1, <1>4, <1>8 DEF Recv, RecvCheckStop, RecvPoll, history
<1>9. ASSUME NEW p \in Ports, NEW d \in Datagrams, Arrive(p, d) PROVE FifoDelivery'
  BY <1>1, <1>9 DEF Arrive, context, history
<1>10. CASE UNCHANGED vars
  BY <1>1, <1>10 DEF vars, context, history
<1> QED BY <1>5, <1>6, <1>7, <1>8, <1>9, <1>10 DEF Next, Call, Aborted

-----------------------------------------------------------------------------
(* The number of devices.                                                  *)

\* Every step keeps the number of open devices within the limit.
LEMMA LimitStep == TypeInv /\ Ownership /\ LimitInv /\ [Next]_vars => LimitInv'
<1> SUFFICES ASSUME TypeInv, Ownership, LimitInv, [Next]_vars PROVE LimitInv'
  OBVIOUS
<1>1. CASE UNCHANGED channelMap
  BY <1>1 DEF LimitInv, DeviceLimit
<1>2. ASSUME NEW t \in Callers, OpenInstall(t) PROVE LimitInv'
  <2> DEFINE p == local[t].chan
  <2>1. p \notin channelMap /\ Cardinality(channelMap) < NumPorts
    BY <1>2 DEF OpenInstall, In, Ownership, OpeningInv
  <2>2. channelMap' = channelMap \union {p}
    BY <1>2 DEF OpenInstall
  <2>3. IsFiniteSet(channelMap') /\ Cardinality(channelMap') = Cardinality(channelMap) + 1
    BY <2>1, <2>2, FS_AddElement DEF LimitInv
  <2>4. Cardinality(channelMap) \in Nat /\ NumPorts \in Nat
    BY FS_CardinalityType, ClientAssumption DEF LimitInv
  <2> QED BY <2>1, <2>3, <2>4 DEF LimitInv, DeviceLimit
<1>3. ASSUME NEW t \in Callers, CloseErase(t) PROVE LimitInv'
  <2> DEFINE p == local[t].chan
  <2>1. p \in channelMap
    BY <1>3 DEF CloseErase, In, Ownership, ErasingInv
  <2>2. channelMap' = channelMap \ {p}
    BY <1>3 DEF CloseErase
  <2>3. IsFiniteSet(channelMap') /\ Cardinality(channelMap') = Cardinality(channelMap) - 1
    BY <2>1, <2>2, FS_RemoveElement DEF LimitInv
  <2>4. Cardinality(channelMap) \in Nat /\ NumPorts \in Nat
    BY FS_CardinalityType, ClientAssumption DEF LimitInv
  <2> QED BY <2>3, <2>4 DEF LimitInv, DeviceLimit
<1>4. ASSUME NEW t \in Callers, Open(t) \/ Close(t) PROVE LimitInv'
  BY <1>1, <1>2, <1>3, <1>4
  DEF Open, OpenFail, OpenSocket, OpenAbandon, Close, CloseUnknown, CloseRequest,
      CloseJoin
<1>5. ASSUME NEW t \in Callers, Simple(t) \/ Read(t) PROVE LimitInv'
  BY <1>1, <1>5
  DEF Simple, Connect, Unlocked, Disconnect, Inquire, Unsupported,
      GetLastError, Read, UnknownChannel, ReadBegin,
      ReadPop, ReadEnd
<1>6. ASSUME NEW t \in Callers, Write(t) \/ Select(t) \/ Expire(t) PROVE LimitInv'
  BY <1>1, <1>6
  DEF Write, WriteBegin, WriteBuild, WriteSend, WriteInvalid, WriteEnd, Select,
      SelectReject, SelectBegin, SelectPass, SelectPoll, SelectDecide, Expire
<1>7. ASSUME NEW p \in Ports, Recv(p) \/ \E d \in Datagrams : Arrive(p, d)
      PROVE  LimitInv'
  BY <1>1, <1>7 DEF Recv, RecvCheckStop, RecvPoll, RecvPacket, Arrive
<1>8. CASE UNCHANGED vars
  BY <1>1, <1>8 DEF vars
<1> QED BY <1>4, <1>5, <1>6, <1>7, <1>8 DEF Next, Call, Aborted

-----------------------------------------------------------------------------
(* The theorems.                                                           *)

\* The inductive invariant holds.
LEMMA SafetyHolds == Spec => []SafetyInv
<1>1. Init => SafetyInv
  <2>1. Init => LimitInv
    <3> SUFFICES ASSUME Init PROVE LimitInv
      OBVIOUS
    <3>1. channelMap = {}
      BY DEF Init
    <3>2. IsFiniteSet(channelMap) /\ Cardinality(channelMap) = 0
      BY <3>1, FS_EmptySet
    <3> QED BY <3>2, ClientAssumption DEF LimitInv, DeviceLimit
  <2>2. Init => FifoDelivery
    <3>1. <<>> = <<>> \o <<>>
      OBVIOUS
    <3> QED BY <3>1 DEF Init, FifoDelivery
  <2> QED BY <2>1, <2>2, InitType, InitOwnership DEF SafetyInv
<1>2. SafetyInv /\ [Next]_vars => SafetyInv'
  BY TypeStep, OwnershipStep, LimitStep, FifoStep DEF SafetyInv
<1> QED BY <1>1, <1>2, PTL DEF Spec

\* No call ever works on a context that was erased or whose socket was closed
\* under it, however many threads call.
THEOREM ContextsStayValid == Spec => []ContextValid
<1>1. SafetyInv => ContextValid
  BY DEF SafetyInv, Ownership
<1> QED BY <1>1, SafetyHolds, PTL

\* PassThruClose never closes the socket or erases the context of a receive
\* thread that still runs.
THEOREM ThreadsOwnContexts == Spec => []ThreadOwnsContext
<1>1. SafetyInv => ThreadOwnsContext
  BY DEF SafetyInv, Ownership
<1> QED BY <1>1, SafetyHolds, PTL

\* No path through PassThruOpen or PassThruClose leaks a socket.
THEOREM SocketsNeverLeak == Spec => []NoLeakedSocket
<1>1. SafetyInv => NoLeakedSocket
  BY DEF SafetyInv, Ownership
<1> QED BY <1>1, SafetyHolds, PTL

\* No interleaving of PassThruOpen calls opens more devices than numPorts.
THEOREM DevicesStayLimited == Spec => []DeviceLimit
<1>1. SafetyInv => DeviceLimit
  BY DEF SafetyInv, LimitInv
<1> QED BY <1>1, SafetyHolds, PTL

\* PassThruReadMsgs delivers what the receive thread accepted, in order, once,
\* and nothing of an earlier session.
THEOREM DeliveryIsFifo == Spec => []FifoDelivery
<1>1. SafetyInv => FifoDelivery
  BY DEF SafetyInv
<1> QED BY <1>1, SafetyHolds, PTL

\* What a step does to the receive thread of one device.
LEMMA ThreadStep ==
  ASSUME TypeInv, Ownership, Next, NEW p \in Ports
  PROVE  \/ thread'[p] = thread[p]
         \/ thread[p] = "none" /\ thread'[p] = "loop"
         \/ thread[p] \in {"loop", "select"} /\ thread'[p] # "none"
         \/ thread[p] = "ended" /\ thread'[p] = "none" /\ p \notin channelMap'
<1>1. CASE UNCHANGED thread
  BY <1>1
<1>2. ASSUME NEW t \in Callers, OpenInstall(t)
      PROVE  \/ thread'[p] = thread[p]
             \/ thread[p] = "none" /\ thread'[p] = "loop"
  <2>1. local[t].chan \notin channelMap
    BY <1>2 DEF OpenInstall, In, Ownership, OpeningInv
  <2>2. thread' = [thread EXCEPT ![local[t].chan] = "loop"]
    BY <1>2 DEF OpenInstall
  <2>3. p \notin channelMap => thread[p] = "none"
    BY DEF Ownership, ClosedInv
  <2>4. thread \in [Ports -> {"none", "loop", "select", "ended"}]
    BY DEF TypeInv, DeviceType
  <2> QED BY <2>1, <2>2, <2>3, <2>4
<1>3. ASSUME NEW t \in Callers, CloseErase(t)
      PROVE  \/ thread'[p] = thread[p]
             \/ thread[p] = "ended" /\ thread'[p] = "none" /\ p \notin channelMap'
  <2>1. thread[local[t].chan] = "ended" /\ channelMap' = channelMap \ {local[t].chan}
    BY <1>3 DEF CloseErase, In, Ownership, ErasingInv
  <2> QED BY <1>3, <2>1 DEF CloseErase, DestroyContext, TypeInv, DeviceType
<1>4. ASSUME NEW t \in Callers, Call(t), ~OpenInstall(t), ~CloseErase(t)
      PROVE  UNCHANGED thread
  <2>1. CASE Open(t) \/ Close(t) \/ Simple(t)
    BY <1>4, <2>1
    DEF Open, OpenFail, OpenSocket, OpenAbandon, Close, CloseUnknown, CloseRequest,
        CloseJoin, Simple, Connect, Unlocked, Disconnect, Inquire, Unsupported,
      GetLastError, context
  <2>2. CASE Read(t) \/ Write(t) \/ Select(t)
    BY <2>2
    DEF Read, UnknownChannel, ReadBegin, ReadPop, ReadEnd, Write, WriteBegin,
        WriteBuild, WriteSend, WriteInvalid, WriteEnd, Select, SelectReject,
        SelectBegin, SelectPass, SelectPoll, SelectDecide, context
  <2> QED BY <1>4, <2>1, <2>2 DEF Call
<1>5. ASSUME NEW q \in Ports, Recv(q)
      PROVE  \/ thread'[p] = thread[p]
             \/ thread[p] \in {"loop", "select"} /\ thread'[p] # "none"
  BY <1>5
  DEF Recv, RecvCheckStop, RecvPoll, RecvPacket, AfterDatagram, TypeInv, DeviceType
<1>6. ASSUME \/ \E t \in Callers : Expire(t)
             \/ \E q \in Ports, d \in Datagrams : Arrive(q, d)
             \/ Aborted
      PROVE  UNCHANGED thread
  BY <1>6 DEF Expire, Arrive, Aborted, vars, context
<1> QED BY <1>1, <1>2, <1>3, <1>4, <1>5, <1>6 DEF Next

\* A receive thread that ended, at a malformed datagram for instance, is never
\* started again: the device stays deaf until PassThruClose.
THEOREM ThreadsNeverRevive == Spec => NoRevival
<1>1. SafetyInv /\ [Next]_vars =>
        [\A p \in Ports : thread[p] = "ended" /\ thread'[p] # "ended"
           => p \notin channelMap' /\ thread'[p] = "none"]_vars
  <2> SUFFICES ASSUME SafetyInv, Next
               PROVE  \A p \in Ports : thread[p] = "ended" /\ thread'[p] # "ended"
                        => p \notin channelMap' /\ thread'[p] = "none"
    OBVIOUS
  <2> QED BY ThreadStep DEF SafetyInv
<1> QED BY <1>1, SafetyHolds, PTL DEF Spec, NoRevival

=============================================================================
