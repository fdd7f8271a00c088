----------------------- MODULE CannelloniClientOrder ------------------------
(***************************************************************************)
(* What globalMutex gives to a sequence of steps of one call: the packets  *)
(* of PassThruWriteMsgs carry consecutive sequence numbers, and what       *)
(* PassThruSelect counted stays true until it returns.                     *)
(***************************************************************************)
EXTENDS CannelloniClientProofs

-----------------------------------------------------------------------------
(* Numbers that wrap.                                                      *)

\* The quotient and the remainder make up the number ...
LEMMA Division ==
  ASSUME NEW M \in Nat \ {0}, NEW a \in Nat
  PROVE  a = M * (a \div M) + (a % M) /\ a \div M \in Nat /\ a % M \in 0 .. M - 1
  OBVIOUS

\* ... and there is one remainder only.
LEMMA Remainder ==
  ASSUME NEW M \in Nat \ {0}, NEW q \in Nat, NEW r \in 0 .. M - 1
  PROVE  (M * q + r) % M = r
  OBVIOUS

\* Counting up a number that wraps is wrapping the number counted up.
LEMMA NextNumber ==
  ASSUME NEW M \in Nat \ {0}, NEW a \in Nat
  PROVE  ((a % M) + 1) % M = (a + 1) % M
<1> DEFINE q == a \div M
           r == a % M
<1>1. a = M * q + r /\ q \in Nat /\ r \in 0 .. M - 1
  BY Division
<1> HIDE DEF q, r
<1>2. CASE r + 1 < M
  <2>1. (M * q + (r + 1)) % M = r + 1 /\ (M * 0 + (r + 1)) % M = r + 1
    <3>1. r + 1 \in 0 .. M - 1 /\ 0 \in Nat
      BY <1>1, <1>2
    <3> QED BY <1>1, <3>1, Remainder
  <2>2. M * q + (r + 1) = a + 1 /\ M * 0 + (r + 1) = r + 1
    BY <1>1
  <2>3. (a + 1) % M = (r + 1) % M
    BY <2>1, <2>2
  <2> QED BY <2>3 DEF r
<1>3. CASE r + 1 = M
  <2>1. (M * (q + 1) + 0) % M = 0 /\ (M * 1 + 0) % M = 0
    <3>1. 0 \in 0 .. M - 1 /\ q + 1 \in Nat /\ 1 \in Nat
      BY <1>1
    <3> QED BY <1>1, <3>1, Remainder
  <2>2. M * (q + 1) = M * q + M
    BY <1>1
  <2>3. M * (q + 1) + 0 = a + 1 /\ M * 1 + 0 = r + 1
    BY <1>1, <1>3, <2>2
  <2>4. (a + 1) % M = (r + 1) % M
    BY <2>1, <2>3
  <2> QED BY <2>4 DEF r
<1> QED BY <1>1, <1>2, <1>3

-----------------------------------------------------------------------------
(* Sequence numbers.                                                       *)

\* A call about to send p's next packet.
Sends(t, p) == pc[t] = "sending" /\ local[t].chan = p

\* seqNo is the number of the next packet, or, between building a packet and
\* its sendto, the number after the one the call carries.
NumberInv ==
    \A p \in Ports :
      \/ /\ \A t \in Callers : ~Sends(t, p)
         /\ seqNo[p] = Len(wire[p]) % SeqMod
      \/ \E t \in Callers :
           /\ Sends(t, p)
           /\ local[t].at = Len(wire[p]) % SeqMod
           /\ seqNo[p] = (Len(wire[p]) + 1) % SeqMod

OrderInv == NumberInv /\ WireInOrder

\* A step that neither begins nor ends a send.
LEMMA NumbersKept ==
  ASSUME OrderInv, UNCHANGED <<seqNo, wire>>,
         \A t \in Callers : (pc[t] = "sending" \/ pc'[t] = "sending") =>
            pc'[t] = pc[t] /\ local'[t].chan = local[t].chan /\ local'[t].at = local[t].at
  PROVE  OrderInv'
<1>1. \A t \in Callers, p \in Ports : Sends(t, p)' = Sends(t, p)
  BY DEF Sends
<1>2. NumberInv'
  BY <1>1 DEF OrderInv, NumberInv, Sends
<1> QED BY <1>2 DEF OrderInv, WireInOrder

\* A call that goes on elsewhere, or returns, and was not sending.
LEMMA HeldNumbers ==
  ASSUME TypeInv, OrderInv, UNCHANGED <<seqNo, wire>>,
         NEW t \in Callers, pc[t] # "sending",
         \/ \E where, l : where # "sending" /\ Hold(t, where, l)
         \/ \E code, n : Return(t, code, n)
  PROVE  OrderInv'
<1>1. /\ \A u \in Callers : u # t => pc'[u] = pc[u] /\ local'[u] = local[u]
      /\ pc'[t] # "sending"
  BY DEF Hold, Return, TypeInv, CallerInv
<1> QED BY <1>1, NumbersKept

\* A new packet at the end of the wire.
LEMMA WireAppend ==
  ASSUME TypeInv, WireInOrder, NEW p \in Ports, NEW n \in 0 .. SeqMod - 1,
         n = Len(wire[p]) % SeqMod,
         wire' = [wire EXCEPT ![p] = Append(wire[p], n)]
  PROVE  WireInOrder' /\ Len(wire'[p]) = Len(wire[p]) + 1
<1>1. wire \in [Ports -> Seq(0 .. SeqMod - 1)] /\ wire[p] \in Seq(0 .. SeqMod - 1)
  BY DEF TypeInv, RecordType
<1>2. wire'[p] = Append(wire[p], n) /\ \A q \in Ports : q # p => wire'[q] = wire[q]
  BY <1>1
<1>3. Len(wire'[p]) = Len(wire[p]) + 1 /\ Len(wire[p]) \in Nat
  BY <1>1, <1>2
<1>4. ASSUME NEW i \in 1 .. Len(wire'[p]) PROVE wire'[p][i] = (i - 1) % SeqMod
  <2>1. CASE i \in 1 .. Len(wire[p])
    BY <1>1, <1>2, <2>1 DEF WireInOrder
  <2>2. CASE i = Len(wire[p]) + 1
    <3>1. wire'[p][i] = n
      BY <1>1, <1>2, <2>2
    <3>2. i - 1 = Len(wire[p])
      BY <1>3, <2>2
    <3> QED BY <3>1, <3>2
  <2> QED BY <1>3, <2>1, <2>2
<1>5. ASSUME NEW q \in Ports, q # p, NEW i \in 1 .. Len(wire'[q])
      PROVE  wire'[q][i] = (i - 1) % SeqMod
  BY <1>2, <1>5 DEF WireInOrder
<1> QED BY <1>3, <1>4, <1>5 DEF WireInOrder

\* fetch_add: the number in hand is the one the wire expects next.
LEMMA BuildNumbers ==
  ASSUME TypeInv, Ownership, OrderInv, NEW t \in Callers, WriteBuild(t)
  PROVE  OrderInv'
<1>0. PICK p \in Ports : p = local[t].chan
  BY DEF WriteBuild, In, TypeInv, CallerInv, OnChannel
<1> DEFINE l == [local[t] EXCEPT !.at = seqNo[p]]
<1>1. /\ pc[t] = "writing" /\ Hold(t, "sending", l) /\ wire' = wire
      /\ seqNo' = [seqNo EXCEPT ![p] = (seqNo[p] + 1) % SeqMod]
  BY <1>0 DEF WriteBuild, In, history
<1>2. l.chan = p /\ l.at = seqNo[p]
  BY <1>0 DEF TypeInv, CallerInv, Locals
<1> HIDE DEF l
<1>3. pc'[t] = "sending" /\ local'[t] = l
      /\ \A u \in Callers : u # t => pc'[u] = pc[u] /\ local'[u] = local[u]
  BY <1>1 DEF Hold, TypeInv, CallerInv
<1>4. \A u \in Callers : pc[u] # "sending"
  BY <1>1 DEF Ownership, LockInv
<1>5. /\ seqNo[p] = Len(wire[p]) % SeqMod
      /\ \A q \in Ports : seqNo[q] = Len(wire[q]) % SeqMod
  BY <1>2, <1>4 DEF OrderInv, NumberInv, Sends
<1>6. \A q \in Ports : Len(wire[q]) \in Nat
  BY DEF TypeInv, RecordType
<1>7. /\ seqNo'[p] = (Len(wire[p]) + 1) % SeqMod
      /\ \A q \in Ports : q # p => seqNo'[q] = seqNo[q]
  <2>1. seqNo'[p] = (seqNo[p] + 1) % SeqMod /\ \A q \in Ports : q # p => seqNo'[q] = seqNo[q]
    BY <1>1, <1>2 DEF TypeInv, DeviceType
  <2>2. ((Len(wire[p]) % SeqMod) + 1) % SeqMod = (Len(wire[p]) + 1) % SeqMod
    BY <1>2, <1>6, NextNumber, ClientAssumption
  <2> QED BY <1>5, <2>1, <2>2
<1>8. ASSUME NEW q \in Ports, q # p
      PROVE  (\A u \in Callers : ~Sends(u, q)') /\ seqNo'[q] = Len(wire'[q]) % SeqMod
  BY <1>1, <1>2, <1>3, <1>4, <1>5, <1>7, <1>8 DEF Sends
<1>9. /\ Sends(t, p)' /\ local'[t].at = Len(wire'[p]) % SeqMod
      /\ seqNo'[p] = (Len(wire'[p]) + 1) % SeqMod
  BY <1>1, <1>2, <1>3, <1>5, <1>7 DEF Sends
<1>10. NumberInv'
  BY <1>8, <1>9 DEF NumberInv
<1> QED BY <1>1, <1>10 DEF OrderInv, WireInOrder

\* sendto, whether it succeeds or not.
LEMMA SendNumbers ==
  ASSUME TypeInv, Ownership, OrderInv, NEW t \in Callers, WriteSend(t)
  PROVE  OrderInv'
<1>1. pc[t] = "sending" /\ UNCHANGED seqNo
      /\ wire' = [wire EXCEPT ![local[t].chan] = Append(@, local[t].at)]
  BY DEF WriteSend, In, context
<1>2. PICK p \in Ports, n \in 0 .. SeqMod - 1 : p = local[t].chan /\ n = local[t].at
  BY <1>1 DEF TypeInv, CallerInv, OnChannel
<1>3. \A u \in Callers : u # t => pc[u] = "idle"
  BY <1>1 DEF Ownership, LockInv
<1>4. n = Len(wire[p]) % SeqMod /\ seqNo[p] = (Len(wire[p]) + 1) % SeqMod
  BY <1>1, <1>2, <1>3 DEF OrderInv, NumberInv, Sends
<1>5. \A q \in Ports : q # p => seqNo[q] = Len(wire[q]) % SeqMod
  BY <1>1, <1>2, <1>3 DEF OrderInv, NumberInv, Sends
<1>6. pc'[t] \in {"writing", "idle"} /\ \A u \in Callers : u # t => pc'[u] = pc[u]
  BY <1>1 DEF WriteSend, Hold, Return, TypeInv, CallerInv
<1>7. WireInOrder' /\ Len(wire'[p]) = Len(wire[p]) + 1
  BY <1>1, <1>2, <1>4, WireAppend DEF OrderInv
<1>8. \A q \in Ports : q # p => wire'[q] = wire[q]
  BY <1>1, <1>2 DEF TypeInv, RecordType
<1>9. \A q \in Ports, u \in Callers : ~Sends(u, q)'
  BY <1>3, <1>6 DEF Sends
<1>10. \A q \in Ports : seqNo'[q] = Len(wire'[q]) % SeqMod
  BY <1>1, <1>4, <1>5, <1>7, <1>8
<1> QED BY <1>7, <1>9, <1>10 DEF OrderInv, NumberInv

\* A new session starts at 0.
LEMMA EraseNumbers ==
  ASSUME TypeInv, Ownership, OrderInv, NEW t \in Callers, CloseErase(t)
  PROVE  OrderInv'
<1>0. PICK p \in Ports : p = local[t].chan
  BY DEF CloseErase, In, TypeInv, CallerInv, OnChannel
<1>1. /\ pc[t] = "erasing" /\ wire' = [wire EXCEPT ![p] = <<>>]
      /\ seqNo' = [seqNo EXCEPT ![p] = 0]
  BY <1>0 DEF CloseErase, DestroyContext, In
<1>2. pc'[t] = "idle" /\ \A u \in Callers : u # t => pc'[u] = pc[u]
  BY DEF CloseErase, Return, TypeInv, CallerInv
<1>3. \A u \in Callers : pc[u] # "sending" /\ pc'[u] # "sending"
  BY <1>1, <1>2 DEF Ownership, LockInv
<1>4. ASSUME NEW q \in Ports
      PROVE  \/ seqNo'[q] = seqNo[q] /\ wire'[q] = wire[q]
             \/ seqNo'[q] = 0 /\ wire'[q] = <<>>
  BY <1>1 DEF TypeInv, DeviceType, RecordType
<1>5. \A q \in Ports : seqNo[q] = Len(wire[q]) % SeqMod
  BY <1>3 DEF OrderInv, NumberInv, Sends
<1>6. 0 % SeqMod = 0 /\ Len(<<>>) = 0
  BY ClientAssumption
<1>7. NumberInv'
  BY <1>3, <1>4, <1>5, <1>6 DEF NumberInv, Sends
<1>8. WireInOrder'
  BY <1>4, <1>6 DEF OrderInv, WireInOrder
<1> QED BY <1>7, <1>8 DEF OrderInv

\* Every step keeps the numbers in order.
LEMMA OrderStep == TypeInv /\ Ownership /\ OrderInv /\ [Next]_vars => OrderInv'
<1> SUFFICES ASSUME TypeInv, Ownership, OrderInv, [Next]_vars PROVE OrderInv'
  OBVIOUS
<1>1. ASSUME UNCHANGED <<seqNo, wire, pc, local>> PROVE OrderInv'
  BY <1>1, NumbersKept
<1>2. ASSUME NEW t \in Callers, pc[t] # "sending", UNCHANGED <<seqNo, wire>>,
             NEW where, where # "sending", NEW l, Hold(t, where, l)
      PROVE  OrderInv'
  BY <1>2, HeldNumbers
<1>3. ASSUME NEW t \in Callers, pc[t] # "sending", UNCHANGED <<seqNo, wire>>,
             NEW code, NEW n, Return(t, code, n)
      PROVE  OrderInv'
  BY <1>3, HeldNumbers
<1>4. ASSUME NEW t \in Callers, Open(t) PROVE OrderInv'
  BY <1>1, <1>2, <1>3, <1>4
  DEF Open, OpenFail, OpenSocket, OpenAbandon, OpenInstall, MayEnter, In,
      ReturnAtOnce, caller, context, history
<1>5. ASSUME NEW t \in Callers, Close(t) PROVE OrderInv'
  BY <1>1, <1>2, <1>3, <1>5, EraseNumbers
  DEF Close, CloseUnknown, CloseRequest, CloseJoin, MayEnter, In, ReturnAtOnce,
      caller, context, history
<1>6. ASSUME NEW t \in Callers, Simple(t) PROVE OrderInv'
  BY <1>1, <1>6
  DEF Simple, Connect, Unlocked, Disconnect, Inquire, Unsupported, GetLastError,
      ReturnAtOnce, caller, context, history
<1>7. ASSUME NEW t \in Callers, Read(t) PROVE OrderInv'
  BY <1>1, <1>2, <1>3, <1>7
  DEF Read, UnknownChannel, ReadBegin, ReadPop, ReadEnd, MayEnter, In,
      ReturnAtOnce, caller, context, history
<1>8. ASSUME NEW t \in Callers, Write(t) PROVE OrderInv'
  <2>1. CASE \E p \in Ports : WriteBegin(t, p)
    BY <1>2, <2>1 DEF WriteBegin, MayEnter, context, history
  <2>2. CASE WriteInvalid(t)
    BY <1>1, <1>3, <2>2 DEF WriteInvalid, In, caller, context, history
  <2>3. CASE WriteEnd(t)
    BY <1>3, <2>3 DEF WriteEnd, In, context, history
  <2> QED BY <1>8, <2>1, <2>2, <2>3, BuildNumbers, SendNumbers DEF Write
<1>9. ASSUME NEW t \in Callers, Select(t) PROVE OrderInv'
  BY <1>1, <1>2, <1>3, <1>9
  DEF Select, SelectReject, SelectBegin, SelectPass, SelectPoll, SelectDecide,
      MayEnter, In, ReturnAtOnce, caller, context, history
<1>10. ASSUME NEW t \in Callers, Expire(t) PROVE OrderInv'
  <2>1. UNCHANGED <<pc, seqNo, wire>>
        /\ local' = [local EXCEPT ![t] = [local[t] EXCEPT !.clock = "expired"]]
    BY <1>10 DEF Expire, context, history
  <2>2. \A u \in Callers : local'[u].chan = local[u].chan /\ local'[u].at = local[u].at
    BY <2>1 DEF TypeInv, CallerInv, Locals
  <2> QED BY <2>1, <2>2, NumbersKept
<1>11. ASSUME NEW p \in Ports, Recv(p) \/ \E d \in Datagrams : Arrive(p, d)
       PROVE  OrderInv'
  BY <1>1, <1>11
  DEF Recv, RecvCheckStop, RecvPoll, RecvPacket, Arrive, caller, context, history
<1>12. CASE UNCHANGED vars
  BY <1>1, <1>12 DEF vars, caller, context, history
<1> QED
  BY <1>4, <1>5, <1>6, <1>7, <1>8, <1>9, <1>10, <1>11, <1>12 DEF Next, Call, Aborted

-----------------------------------------------------------------------------
(* PassThruSelect's count.                                                 *)

\* The entries of the list that a pass has looked at and that are ready.
ReadySeen(t) ==
    {i \in 1 .. local[t].at - 1 :
       i \in DOMAIN local[t].list /\ Ready(local[t].list[i])}

\* There are finitely many, and more of them are no fewer.
LEMMA SeenCount ==
  ASSUME NEW n \in Nat, NEW S, NEW T, S \subseteq T, T \subseteq 1 .. n - 1
  PROVE  /\ Cardinality(S) \in Nat /\ Cardinality(T) \in Nat
         /\ Cardinality(S) <= Cardinality(T)
<1>1. IsFiniteSet(1 .. n - 1)
  BY FS_Interval
<1>2. IsFiniteSet(T)
  BY <1>1, FS_Subset
<1>3. IsFiniteSet(S) /\ Cardinality(S) <= Cardinality(T)
  BY <1>2, FS_Subset
<1> QED BY <1>2, <1>3, FS_CardinalityType

\* A call that is not in a pass, or at its top, has counted nothing.
LEMMA NothingCounted ==
  ASSUME TypeInv', NEW t \in Callers,
         \A u \in Callers : u # t => pc'[u] = "idle",
         pc'[t] = "selecting" => local'[t].count = 0
  PROVE  SelectCountHolds'
<1>1. local'[t].at \in Nat
  BY DEF TypeInv, CallerInv, Locals
<1>2. ReadySeen(t)' \subseteq 1 .. local'[t].at - 1
  BY DEF ReadySeen
<1>3. Cardinality(ReadySeen(t)') \in Nat
  BY <1>1, <1>2, SeenCount
<1>4. 0 <= Cardinality(ReadySeen(t)')
  BY <1>3
<1> QED BY <1>4 DEF SelectCountHolds, ReadySeen

\* What was ready stays ready as long as no context goes and no queue that had
\* messages empties.
LEMMA ReadyKept ==
  ASSUME TypeInv, SelectCountHolds, UNCHANGED <<pc, channelMap>>,
         \A p \in channelMap : queue[p] # <<>> => queue'[p] # <<>>,
         \A u \in Callers : /\ local'[u].at = local[u].at
                            /\ local'[u].list = local[u].list
                            /\ local'[u].count = local[u].count
  PROVE  SelectCountHolds'
<1> SUFFICES ASSUME NEW t \in Callers, pc[t] = "selecting"
             PROVE  local[t].count <= Cardinality(ReadySeen(t)')
  BY DEF SelectCountHolds, ReadySeen
<1>1. local[t].count \in Nat /\ local[t].at \in Nat
  BY DEF TypeInv, CallerInv, Locals
<1>2. ReadySeen(t) \subseteq ReadySeen(t)' /\ ReadySeen(t)' \subseteq 1 .. local[t].at - 1
  BY DEF ReadySeen, Ready
<1>3. /\ Cardinality(ReadySeen(t)) <= Cardinality(ReadySeen(t)')
      /\ Cardinality(ReadySeen(t)) \in Nat /\ Cardinality(ReadySeen(t)') \in Nat
  BY <1>1, <1>2, SeenCount
<1>4. local[t].count <= Cardinality(ReadySeen(t))
  BY DEF SelectCountHolds, ReadySeen
<1> QED BY <1>1, <1>3, <1>4

\* One more entry of the list, which is counted if it is ready.
LEMMA PollCount ==
  ASSUME TypeInv, LockInv, SelectCountHolds, NEW t \in Callers, SelectPoll(t)
  PROVE  SelectCountHolds'
<1> DEFINE a == local[t].at
           n == local[t].count
           m == IF Ready(local[t].list[a]) THEN n + 1 ELSE n
           l == [local[t] EXCEPT !.at = a + 1, !.count = m]
<1>1. /\ pc[t] = "selecting" /\ a \in DOMAIN local[t].list
      /\ Hold(t, "selecting", l) /\ UNCHANGED <<channelMap, queue>>
  BY DEF SelectPoll, In, context
<1>2. /\ local[t] \in Locals /\ a \in Nat /\ n \in Nat /\ a >= 1
  BY <1>1 DEF TypeInv, CallerInv, Locals
<1>3. l.at = a + 1 /\ l.count = m /\ l.list = local[t].list
  BY <1>2 DEF Locals
<1> HIDE DEF l
<1>4. local'[t] = l /\ pc'[t] = "selecting"
      /\ \A u \in Callers : u # t => pc'[u] = "idle"
  BY <1>1 DEF Hold, TypeInv, CallerInv, LockInv
<1>5. PICK S : S = ReadySeen(t)
  OBVIOUS
<1>6. PICK k \in Nat : k = a
  BY <1>2
<1>7. S \subseteq 1 .. k - 1 /\ n <= Cardinality(S)
  BY <1>1, <1>5, <1>6 DEF SelectCountHolds, ReadySeen
<1>8. ReadySeen(t)' = IF Ready(local[t].list[k]) THEN S \union {k} ELSE S
  <2>1. ReadySeen(t)' = {i \in 1 .. k : i \in DOMAIN local[t].list /\ Ready(local[t].list[i])}
    BY <1>1, <1>3, <1>4, <1>6 DEF ReadySeen, Ready
  <2> QED BY <1>1, <1>2, <1>5, <1>6, <2>1 DEF ReadySeen
<1>9. IsFiniteSet(S) /\ Cardinality(S) \in Nat
  <2>1. IsFiniteSet(1 .. k - 1)
    BY FS_Interval
  <2> QED BY <1>7, <2>1, FS_Subset, FS_CardinalityType
<1>10. k \notin S /\ Cardinality(S \union {k}) = Cardinality(S) + 1
  <2>1. k \notin S
    BY <1>7
  <2> QED BY <1>9, <2>1, FS_AddElement
<1>11. m <= Cardinality(ReadySeen(t)')
  BY <1>2, <1>6, <1>7, <1>8, <1>9, <1>10
<1>12. local'[t].count <= Cardinality(ReadySeen(t)')
  BY <1>3, <1>4, <1>11
<1> QED BY <1>4, <1>12 DEF SelectCountHolds, ReadySeen

\* Every step keeps the count of every PassThruSelect in progress.
LEMMA SelectStep ==
  TypeInv /\ Ownership /\ TypeInv' /\ Ownership' /\ SelectCountHolds /\ [Next]_vars
    => SelectCountHolds'
<1> SUFFICES ASSUME TypeInv, Ownership, TypeInv', Ownership', SelectCountHolds,
                    [Next]_vars
             PROVE  SelectCountHolds'
  OBVIOUS
<1>0. LockInv /\ LockInv'
  BY DEF Ownership
<1>1. ASSUME UNCHANGED <<pc, local, channelMap, queue>> PROVE SelectCountHolds'
  BY <1>1, ReadyKept
<1>2. ASSUME NEW t \in Callers, NEW where, NEW l, Hold(t, where, l),
             where = "selecting" => l.count = 0
      PROVE  SelectCountHolds'
  <2>1. lock' = t /\ pc'[t] = where /\ local'[t] = l
    BY <1>2 DEF Hold, TypeInv, CallerInv
  <2>2. \A u \in Callers : u # t => pc'[u] = "idle"
    BY <1>0, <2>1 DEF LockInv
  <2> QED BY <1>2, <2>1, <2>2, NothingCounted
<1>3. ASSUME NEW t \in Callers, NEW code, NEW n, Return(t, code, n)
      PROVE  SelectCountHolds'
  <2>1. \A u \in Callers : pc'[u] = "idle"
    BY <1>0, <1>3, ClientAssumption DEF Return, LockInv
  <2> QED BY <2>1, NothingCounted
<1>4. ASSUME NEW t \in Callers, Open(t) \/ Close(t) PROVE SelectCountHolds'
  BY <1>1, <1>2, <1>3, <1>4
  DEF Open, OpenFail, OpenSocket, OpenAbandon, OpenInstall, Close, CloseUnknown,
      CloseRequest, CloseJoin, CloseErase, ReturnAtOnce, caller, context
<1>5. ASSUME NEW t \in Callers, Simple(t) PROVE SelectCountHolds'
  BY <1>1, <1>5
  DEF Simple, Connect, Unlocked, Disconnect, Inquire, Unsupported, GetLastError,
      ReturnAtOnce, caller, context
<1>6. ASSUME NEW t \in Callers, Read(t) PROVE SelectCountHolds'
  BY <1>1, <1>2, <1>3, <1>6
  DEF Read, UnknownChannel, ReadBegin, ReadPop, ReadEnd, ReturnAtOnce, caller, context
<1>7. ASSUME NEW t \in Callers, Write(t) PROVE SelectCountHolds'
  BY <1>1, <1>2, <1>3, <1>7
  DEF Write, WriteBegin, WriteBuild, WriteSend, WriteInvalid, WriteEnd, caller, context
<1>8. ASSUME NEW t \in Callers, Select(t) PROVE SelectCountHolds'
  <2>1. CASE SelectReject(t)
    BY <1>1, <2>1 DEF SelectReject, ReturnAtOnce, caller, context
  <2>2. CASE SelectBegin(t)
    <3>1. PICK chans \in SelectLists, n \in Thresholds, c \in {"running", "expired"} :
            Hold(t, "selecting", [NoLocals EXCEPT !.list = chans, !.want = n, !.clock = c])
      BY <2>2 DEF SelectBegin
    <3>2. [NoLocals EXCEPT !.list = chans, !.want = n, !.clock = c].count = 0
      BY DEF NoLocals
    <3> QED BY <1>2, <3>1, <3>2
  <2>3. CASE SelectPass(t) \/ SelectDecide(t)
    <3>1. local[t] \in Locals
      BY DEF TypeInv, CallerInv
    <3>2. \A a \in {0, 1} : [local[t] EXCEPT !.at = a, !.count = 0].count = 0
      BY <3>1 DEF Locals
    <3> QED BY <1>2, <1>3, <2>3, <3>2 DEF SelectPass, SelectDecide
  <2>4. CASE SelectPoll(t)
    BY <1>0, <2>4, PollCount
  <2> QED BY <1>8, <2>1, <2>2, <2>3, <2>4 DEF Select
<1>9. ASSUME NEW t \in Callers, Expire(t) PROVE SelectCountHolds'
  <2>1. UNCHANGED <<pc, channelMap, queue>>
        /\ local' = [local EXCEPT ![t] = [local[t] EXCEPT !.clock = "expired"]]
    BY <1>9 DEF Expire, context
  <2>2. \A u \in Callers : /\ local'[u].at = local[u].at
                           /\ local'[u].list = local[u].list
                           /\ local'[u].count = local[u].count
    <3>1. local \in [Callers -> Locals]
      BY DEF TypeInv, CallerInv
    <3>2. PICK x : x = [local[t] EXCEPT !.clock = "expired"]
      OBVIOUS
    <3>3. x.at = local[t].at /\ x.list = local[t].list /\ x.count = local[t].count
      <4>1. local[t] \in Locals
        BY <3>1
      <4> QED BY <3>2, <4>1 DEF Locals
    <3>4. local' = [local EXCEPT ![t] = x]
      BY <2>1, <3>2
    <3>5. local'[t] = x /\ \A u \in Callers : u # t => local'[u] = local[u]
      BY <3>1, <3>4
    <3> QED BY <3>3, <3>5
  <2> QED BY <2>1, <2>2, ReadyKept
<1>10. ASSUME NEW p \in Ports, RecvPacket(p) PROVE SelectCountHolds'
  <2>1. PICK f : /\ queue' = [queue EXCEPT ![p] = queue[p] \o f]
                 /\ f \in Seq(Frames)
    <3>1. Head(rx[p]) \in Datagrams
      BY <1>10 DEF RecvPacket, TypeInv, DeviceType
    <3>2. Head(rx[p]).frames \in Batches \union {<<>>}
      BY <3>1 DEF Datagrams
    <3>3. Batches \subseteq Seq(Frames) /\ <<>> \in Seq(Frames)
      BY ClientAssumption
    <3> QED BY <1>10, <3>2, <3>3 DEF RecvPacket
  <2>2. \A q \in Ports : queue[q] # <<>> => queue'[q] # <<>>
    <3>1. queue \in [Ports -> Seq(Frames)]
      BY DEF TypeInv, DeviceType
    <3>2. queue[p] # <<>> => queue[p] \o f # <<>>
      BY <2>1, <3>1
    <3> QED BY <2>1, <3>1, <3>2
  <2>3. UNCHANGED <<pc, local, channelMap>> /\ channelMap \subseteq Ports
    BY <1>10 DEF RecvPacket, caller, TypeInv, DeviceType
  <2> QED BY <2>2, <2>3, ReadyKept
<1>11. ASSUME NEW p \in Ports, Recv(p) \/ \E d \in Datagrams : Arrive(p, d)
       PROVE  SelectCountHolds'
  BY <1>1, <1>10, <1>11 DEF Recv, RecvCheckStop, RecvPoll, Arrive, caller, context
<1>12. CASE UNCHANGED vars
  BY <1>1, <1>12 DEF vars, caller, context
<1> QED
  BY <1>4, <1>5, <1>6, <1>7, <1>8, <1>9, <1>11, <1>12 DEF Next, Call, Aborted

-----------------------------------------------------------------------------
(* The theorems.                                                           *)

\* Nothing was sent and nobody selects at first.
LEMMA InitOrder == Init => OrderInv /\ SelectCountHolds
<1> SUFFICES ASSUME Init PROVE OrderInv /\ SelectCountHolds
  OBVIOUS
<1>1. \A t \in Callers : pc[t] = "idle"
  BY DEF Init
<1>2. \A p \in Ports : seqNo[p] = 0 /\ wire[p] = <<>>
  BY DEF Init
<1>3. 0 % SeqMod = 0 /\ Len(<<>>) = 0
  BY ClientAssumption
<1>4. OrderInv
  BY <1>1, <1>2, <1>3 DEF OrderInv, NumberInv, WireInOrder, Sends
<1> QED BY <1>1, <1>4 DEF SelectCountHolds

\* The packets PassThruWriteMsgs sends on a channel carry the numbers 0, 1, 2
\* and so on, wrapping at a byte, whatever calls overlap.
THEOREM PacketsInOrder == Spec => []WireInOrder
<1>1. Init => OrderInv
  BY InitOrder
<1>2. SafetyInv /\ OrderInv /\ [Next]_vars => OrderInv'
  BY OrderStep DEF SafetyInv
<1>3. OrderInv => WireInOrder
  BY DEF OrderInv
<1> QED BY <1>1, <1>2, <1>3, SafetyHolds, PTL DEF Spec

\* PassThruSelect never counts a channel as ready that somebody emptied or
\* closed before it returns.
THEOREM SelectedStayReady == Spec => []SelectCountHolds
<1>1. Init => SelectCountHolds
  BY InitOrder
<1>2. SafetyInv /\ SafetyInv' /\ SelectCountHolds /\ [Next]_vars => SelectCountHolds'
  BY SelectStep DEF SafetyInv
<1> QED BY <1>1, <1>2, SafetyHolds, PTL DEF Spec
=============================================================================
