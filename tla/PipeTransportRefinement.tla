---------------------- MODULE PipeTransportRefinement ----------------------
(***************************************************************************)
(* PipeTransport implements ReportChannel, for any clients, threads and    *)
(* reports.  Visible are the steps of a connect that ends it, the first    *)
(* write of a report, the end of a process, a timer that hands a report    *)
(* over, the removal of a closed socket whose reports are all handed over, *)
(* and what the application does as a whole; reading and cutting stutter.  *)
(***************************************************************************)
EXTENDS PipeTransportProofs

\* The mapping of one step.
Mapped == [Channel!Next]_(Channel!vars)

\* The refinement mapping, variable by variable.
Runs    == (server = "up")
Link    == [c \in Serialised |-> conn[c]]
SentBy  == [c \in Serialised |-> sent[c]]
Handed  == [c \in Serialised |-> delivered[c]]
OverSet == {c \in Serialised : Over(c)}

\* The application still has a report of the client to hand over.
Waiting(c) == \E i \in DOMAIN events : events[i].from = c

\* Nothing comes any more from a silent client none of whose reports waits.
LEMMA OverMeans == ASSUME NEW c PROVE Over(c) <=> Silent(c) /\ ~Waiting(c)
  BY DEF Over, Silent, Waiting

LEMMA EventPlaces == ASSUME TypeOK PROVE DOMAIN events = 1 .. Len(events)
<1>1. events \in Seq(Events)
  BY DEF TypeOK, Events
<1> QED BY <1>1

\* A step is a stutter if nothing that is mapped changes.
LEMMA Stutters ==
  ASSUME UNCHANGED <<Runs, Link, SentBy, Handed, OverSet>>
  PROVE  Mapped
  BY DEF Mapped, Channel!vars, Runs, Link, SentBy, Handed, OverSet

\* Whether a channel is over depends on its pipe and on the events.
LEMMA OverKept ==
  ASSUME NEW c, conn'[c] = conn[c], stream'[c] = stream[c], buffer'[c] = buffer[c],
         size'[c] = size[c], Waiting(c)' <=> Waiting(c)
  PROVE  Over(c)' <=> Over(c)
<1>1. Silent(c)' <=> Silent(c)
  BY DEF Silent
<1> QED BY <1>1, OverMeans DEF Over, Silent, Waiting

\* The channels that are over, if no other than that of client a is concerned.
LEMMA OverSetStep ==
  ASSUME NEW a, \A c \in Serialised : c # a => (Over(c)' <=> Over(c))
  PROVE  /\ (a \in Serialised => (Over(a)' <=> Over(a))) => OverSet' = OverSet
         /\ a \in Serialised /\ Over(a)' => OverSet' = OverSet \union {a}
  BY DEF OverSet, Serialised

-----------------------------------------------------------------------------
(* What is in a pipe that ends.                                            *)

\* No event of a client: all reports that were cut out are handed over.
LEMMA NoneWaiting ==
  ASSUME TypeOK, NEW c \in Serialised, NEW n, ReaderAt(c, n), ~Waiting(c)
  PROVE  n = Len(delivered[c]) + 1
<1>1. PICK N \in Nat, d \in Nat, l \in Nat :
        N = Len(sent[c]) /\ d = Len(delivered[c]) /\ l = Len(events)
  BY ClientType DEF Serialised
<1>2. Queued(events, l, c, d, sent[c], N, n)
  BY <1>1 DEF ReaderAt
<1>3. \A i \in 1 .. l : events[i].from # c
  BY <1>1, EventPlaces DEF Waiting
<1>4. n \in d + 1 .. N + 1 /\ \A id \in d + 1 .. n - 1 : FALSE
  BY <1>2, <1>3 DEF Queued
<1>5. n > d + 1 => d + 1 \in d + 1 .. n - 1
  BY <1>4
<1> QED BY <1>1, <1>4, <1>5

\* An empty pipe has brought all reports but the last one, unless it broke.
LEMMA EmptyPipe ==
  ASSUME TypeOK, WriterInv, NEW c \in Serialised, NEW n, ReaderAt(c, n),
         stream[c] = <<>>, buffer[c] = <<>>, size[c] = 0
  PROVE  \/ n >= Len(sent[c])
         \/ Silent(c) /\ n = Len(delivered[c]) + 1
<1>0. c \in Clients
  BY DEF Serialised
<1>1. PICK b, S : b = <<>> /\ S = sent[c]
  OBVIOUS
<1>2. PICK N \in Nat, B \in Nat, z \in Int : N = Len(S) /\ B = Written(c) /\ z = 0
  BY <1>0, <1>1, ClientType, WrittenType
<1>3. CASE Silent(c) /\ (n >= Len(sent[c]) \/ n = Len(delivered[c]) + 1)
  BY <1>3
<1>4. CASE Sync(buffer[c], stream[c], size[c], sent[c], Len(sent[c]), Written(c), n)
  <2>1. Sync(b, <<>>, z, S, N, B, n) /\ \A m \in 1 .. N : S[m] \in Reports
    BY <1>0, <1>1, <1>2, <1>4, ClientType
  <2>2. Bytes(b) /\ Count(b) = 0 /\ (z = 0 => Count(b) < 2) /\ (z > 0 => Count(b) < z)
    BY <1>1, <1>2 DEF Bytes, Count
  <2>3. n >= N
    BY <2>1, <2>2, SyncUnfinished
  <2> QED BY <1>1, <1>2, <2>3
<1> QED BY <1>3, <1>4 DEF ReaderAt

\* Nothing has come from a client that has not connected.
LEMMA NotConnected ==
  ASSUME TypeOK, WriterInv, NEW c \in Serialised, ReaderInv(c), conn[c] = "connecting"
  PROVE  stream[c] = <<>> /\ buffer[c] = <<>> /\ size[c] = 0 /\ ~Waiting(c)
<1>0. c \in Clients
  BY DEF Serialised
<1>1. PICK N \in Nat, d \in Nat, l \in Nat :
        N = Len(sent[c]) /\ d = Len(delivered[c]) /\ l = Len(events)
  BY <1>0, ClientType
<1>2. sent[c] = <<>> /\ N = 0 /\ d = 0
  <2>1. sent[c] = <<>> /\ d <= N
    BY <1>0, <1>1 DEF WriterInv, ReaderInv, DeliveredInv
  <2> QED BY <1>1, <2>1
<1>3. PICK n : ReaderAt(c, n)
  BY DEF ReaderInv
<1>4. Queued(events, l, c, 0, sent[c], 0, n)
  BY <1>1, <1>2, <1>3 DEF ReaderAt
<1>5. n = 1
  BY <1>4 DEF Queued
<1>6. ~Waiting(c)
  <2>1. \A i \in 1 .. l : events[i].from = c => events[i].id \in 0 + 1 .. n - 1
    BY <1>4 DEF Queued
  <2>2. \A i \in 1 .. l : events[i].from # c
    BY <1>5, <2>1
  <2> QED BY <1>1, <2>2, EventPlaces DEF Waiting
<1>7. PICK b, t, z, S, B : b = buffer[c] /\ t = stream[c] /\ z = size[c] /\ S = sent[c]
                           /\ B = Written(c)
  OBVIOUS
<1>8. Sync(b, t, z, S, 0, B, n)
  BY <1>1, <1>2, <1>3, <1>7 DEF ReaderAt, Silent
<1>9. z = 0 /\ Count(Cat(b, t)) = 0
  <2>1. z = 0
    BY <1>5, <1>8 DEF Sync
  <2>2. Layout(Cat(b, t), Count(Cat(b, t)), S, 0, B, n)
    BY <1>8, <2>1 DEF Sync, Ahead
  <2> QED BY <1>5, <2>1, <2>2 DEF Layout
<1>10. Bytes(b) /\ Bytes(t)
  BY <1>0, <1>7, ClientType
<1>11. Count(b) = 0 /\ Count(t) = 0
  <2>1. Count(b) \in Nat /\ Count(t) \in Nat /\ Count(Cat(b, t)) = Count(b) + Count(t)
    <3>1. Count(b) \in Nat /\ Count(Cat(b, t)) = Count(b) + Count(t)
      BY <1>10, Joined
    <3> QED BY <1>10, <3>1 DEF Bytes, Count
  <2> QED BY <1>9, <2>1
<1>12. b = <<>> /\ t = <<>>
  BY <1>10, <1>11 DEF Bytes, Count
<1> QED BY <1>6, <1>7, <1>9, <1>12

-----------------------------------------------------------------------------
(* The actions.                                                            *)

\* A connect opens the channel, gives it up, or tries again.
LEMMA ConnectRefines ==
  ASSUME PipeInv, NEW a \in Clients, Connect(a)
  PROVE  Mapped
<1>0. TypeOK /\ WriterInv
  BY DEF PipeInv
<1>1. /\ UNCHANGED <<stream, buffer, size, events, sent, delivered, Runs>>
      /\ conn[a] = "connecting"
      /\ \/ conn' = conn
         \/ conn' = [conn EXCEPT ![a] = "failed"]
         \/ server = "up" /\ conn' = [conn EXCEPT ![a] = "open"]
  <2>1. CASE ConnectRetry(a)
    <3>1. \E x \in {"failed", "connecting"} : conn' = [conn EXCEPT ![a] = x]
      BY <2>1 DEF ConnectRetry
    <3>2. conn' = [conn EXCEPT ![a] = "failed"] \/ conn' = conn
      BY <1>0, <2>1, <3>1 DEF ConnectRetry, TypeOK
    <3> QED BY <2>1, <3>2 DEF ConnectRetry, app, Runs
  <2>2. CASE ConnectOpen(a) \/ ConnectFail(a)
    BY <2>2 DEF ConnectOpen, ConnectFail, app, Runs
  <2> QED BY <2>1, <2>2 DEF Connect
<1>2. UNCHANGED <<SentBy, Handed>>
  BY <1>1 DEF SentBy, Handed, Serialised
<1>3. \A c \in Serialised : c # a => (Over(c)' <=> Over(c))
  <2> TAKE c \in Serialised
  <2> HAVE c # a
  <2>1. conn'[c] = conn[c]
    BY <1>0, <1>1 DEF TypeOK, Serialised
  <2>2. Waiting(c)' <=> Waiting(c)
    BY <1>1 DEF Waiting
  <2> QED BY <1>1, <2>1, <2>2, OverKept
<1>4. CASE conn' = conn \/ a \notin Serialised
  <2>1. Link' = Link
    BY <1>0, <1>1, <1>4 DEF Link, Serialised, TypeOK
  <2>2. a \in Serialised => (Over(a)' <=> Over(a))
    BY <1>1, <1>4 DEF Over
  <2> QED BY <1>1, <1>2, <1>3, <2>1, <2>2, OverSetStep, Stutters
<1>5. CASE a \in Serialised /\ server = "up" /\ conn' = [conn EXCEPT ![a] = "open"]
  <2>1. ~Over(a) /\ ~Over(a)'
    BY <1>0, <1>1, <1>5 DEF Over, TypeOK
  <2>2. OverSet' = OverSet
    BY <1>3, <2>1, OverSetStep
  <2>3. Link' = [Link EXCEPT ![a] = "open"] /\ Link[a] = "connecting"
    BY <1>0, <1>1, <1>5 DEF Link, Serialised, TypeOK
  <2>4. Channel!Open(a)
    BY <1>1, <1>2, <1>5, <2>2, <2>3
    DEF Channel!Open, Runs, Link, SentBy, Handed, OverSet
  <2> QED BY <1>5, <2>4 DEF Mapped, Channel!Next
<1>6. CASE a \in Serialised /\ conn' = [conn EXCEPT ![a] = "failed"]
  <2>1. stream[a] = <<>> /\ buffer[a] = <<>> /\ size[a] = 0 /\ ~Waiting(a)
    BY <1>0, <1>1, <1>6, NotConnected DEF PipeInv, StreamInv
  <2>2. Over(a)'
    BY <1>0, <1>1, <1>6, <2>1 DEF Over, Waiting, TypeOK
  <2>3. OverSet' = OverSet \union {a}
    BY <1>3, <1>6, <2>2, OverSetStep
  <2>4. Link' = [Link EXCEPT ![a] = "failed"] /\ Link[a] = "connecting"
    BY <1>0, <1>1, <1>6 DEF Link, Serialised, TypeOK
  <2>5. Channel!Fail(a)
    BY <1>1, <1>2, <1>6, <2>3, <2>4
    DEF Channel!Fail, Runs, Link, SentBy, Handed, OverSet
  <2> QED BY <1>6, <2>5 DEF Mapped, Channel!Next
<1> QED BY <1>1, <1>4, <1>5, <1>6

\* A process ends: if nothing of it is in the pipe, all of it was handed over.
LEMMA ExitRefines ==
  ASSUME PipeInv, NEW a \in Clients, Exit(a)
  PROVE  Mapped
<1>0. TypeOK /\ WriterInv
  BY DEF PipeInv
<1>1. /\ UNCHANGED <<stream, buffer, size, events, sent, delivered, Runs>>
      /\ conn[a] = "open" /\ conn' = [conn EXCEPT ![a] = "closed"]
  BY DEF Exit, app, Runs
<1>2. UNCHANGED <<SentBy, Handed>>
  BY <1>1 DEF SentBy, Handed, Serialised
<1>3. \A c \in Serialised : c # a => (Over(c)' <=> Over(c))
  <2> TAKE c \in Serialised
  <2> HAVE c # a
  <2>1. conn'[c] = conn[c]
    BY <1>0, <1>1 DEF TypeOK, Serialised
  <2>2. Waiting(c)' <=> Waiting(c)
    BY <1>1 DEF Waiting
  <2> QED BY <1>1, <2>1, <2>2, OverKept
<1>4. CASE a \notin Serialised
  <2>1. Link' = Link
    BY <1>0, <1>1, <1>4 DEF Link, Serialised, TypeOK
  <2> QED BY <1>1, <1>2, <1>3, <1>4, <2>1, OverSetStep, Stutters
<1>5. CASE a \in Serialised
  <2>1. Link' = [Link EXCEPT ![a] = "closed"] /\ Link[a] = "open"
    BY <1>0, <1>1, <1>5 DEF Link, Serialised, TypeOK
  <2>2. ~Over(a)
    BY <1>1 DEF Over
  <2>3. Over(a)' => Channel!Complete(a)
    <3> SUFFICES ASSUME Over(a)' PROVE Channel!Complete(a)
      OBVIOUS
    <3>1. stream[a] = <<>> /\ buffer[a] = <<>> /\ size[a] = 0 /\ ~Waiting(a)
      BY <1>1 DEF Over, Waiting
    <3>2. PICK n : ReaderAt(a, n)
      BY <1>5 DEF PipeInv, StreamInv, ReaderInv
    <3>3. n = Len(delivered[a]) + 1 /\ n >= Len(sent[a])
      BY <1>0, <1>1, <1>5, <3>1, <3>2, NoneWaiting, EmptyPipe DEF Silent
    <3>4. Len(sent[a]) <= Len(delivered'[a]) + 1
      BY <1>0, <1>1, <3>3, ClientType
    <3> QED BY <1>5, <3>4 DEF Channel!Complete, Serialised
  <2>4. OverSet' = OverSet \/ (Channel!Complete(a) /\ OverSet' = OverSet \union {a})
    BY <1>3, <1>5, <2>2, <2>3, OverSetStep
  <2>5. Channel!MayEnd(a)
    BY <2>4 DEF Channel!MayEnd, OverSet
  <2>6. Channel!Close(a)
    BY <1>1, <1>2, <2>1, <2>5 DEF Channel!Close, Runs, Link, SentBy, Handed
  <2> QED BY <1>5, <2>6 DEF Mapped, Channel!Next
<1> QED BY <1>4, <1>5

\* send writes a length: the report is sent.
LEMMA SendSizeRefines ==
  ASSUME PipeInv, NEW s \in Senders, SendSize(s)
  PROVE  Mapped
<1>1. PICK a \in Clients : a = Home[s]
  BY PipeAssumption
<1>0. TypeOK /\ sent \in [Clients -> Seq(Reports)] /\ stream \in [Clients -> Seq(Pieces)]
  BY DEF PipeInv, TypeOK
<1>2. PICK r : /\ r \in Reports
               /\ sent' = [sent EXCEPT ![a] = Append(sent[a], r)]
               /\ stream' = [stream EXCEPT ![a] = stream[a] \o SizeBytes(r)]
  <2>1. PICK n \in BodySizes :
          LET r == [id |-> Len(sent[a]) + 1, len |-> n] IN
          /\ sent' = [sent EXCEPT ![a] = Append(@, r)]
          /\ stream' = [stream EXCEPT ![a] = @ \o SizeBytes(r)]
    BY <1>1 DEF SendSize
  <2>2. PICK r : r = [id |-> Len(sent[a]) + 1, len |-> n]
    OBVIOUS
  <2>3. Len(sent[a]) \in Nat /\ Len(sent[a]) < MaxSent
    BY <1>0, <1>1 DEF SendSize
  <2>4. r \in Reports
    BY <2>2, <2>3, PipeAssumption DEF Reports
  <2> QED BY <2>1, <2>2, <2>4
<1>3. UNCHANGED <<conn, buffer, size, events, delivered, Runs>> /\ conn[a] = "open"
  BY <1>1 DEF SendSize, app, Runs
<1>4. UNCHANGED <<Link, Handed>>
  BY <1>3 DEF Link, Handed, Serialised
<1>5. \A c \in Serialised : Over(c)' <=> Over(c)
  <2> TAKE c \in Serialised
  <2>1. CASE c = a
    BY <1>3, <2>1 DEF Over
  <2>2. CASE c # a
    <3>1. stream'[c] = stream[c]
      BY <1>0, <1>2, <2>2 DEF Serialised
    <3>2. Waiting(c)' <=> Waiting(c)
      BY <1>3 DEF Waiting
    <3> QED BY <1>3, <3>1, <3>2, OverKept
  <2> QED BY <2>1, <2>2
<1>6. OverSet' = OverSet
  BY <1>5, OverSetStep
<1>7. CASE a \notin Serialised
  <2>1. SentBy' = SentBy
    BY <1>0, <1>2, <1>7 DEF SentBy, Serialised
  <2> QED BY <1>3, <1>4, <1>6, <2>1, Stutters
<1>8. CASE a \in Serialised
  <2>1. SentBy' = [SentBy EXCEPT ![a] = Append(SentBy[a], r)]
    BY <1>0, <1>2, <1>8 DEF SentBy, Serialised
  <2>2. Link[a] = "open"
    BY <1>3, <1>8 DEF Link
  <2>3. Channel!Send(a)
    BY <1>2, <1>3, <1>4, <1>6, <2>1, <2>2
    DEF Channel!Send, Runs, Link, SentBy, Handed, OverSet
  <2> QED BY <1>8, <2>3 DEF Mapped, Channel!Next
<1> QED BY <1>7, <1>8

\* send writes the body of a report that was sent.
LEMMA SendBodyRefines ==
  ASSUME PipeInv, NEW s \in Senders, SendBody(s)
  PROVE  Mapped
<1>1. PICK a \in Clients : a = Home[s]
  BY PipeAssumption
<1>2. TypeOK
  BY DEF PipeInv
<1>3. UNCHANGED <<conn, sent, buffer, size, events, delivered, Runs>>
  BY DEF SendBody, app, Runs
<1>4. \A c \in Serialised : Over(c)' <=> Over(c)
  <2> TAKE c \in Serialised
  <2>1. CASE conn[c] = "open"
    BY <1>3, <2>1 DEF Over
  <2>2. CASE conn[c] # "open"
    <3>1. stream'[c] = stream[c]
      BY <1>1, <1>2, <2>2 DEF SendBody, TypeOK, Serialised
    <3>2. Waiting(c)' <=> Waiting(c)
      BY <1>3 DEF Waiting
    <3> QED BY <1>3, <3>1, <3>2, OverKept
  <2> QED BY <2>1, <2>2
<1>5. OverSet' = OverSet
  BY <1>4, OverSetStep
<1>6. UNCHANGED <<Link, SentBy, Handed>>
  BY <1>3 DEF Link, SentBy, Handed, Serialised
<1> QED BY <1>3, <1>5, <1>6, Stutters

\* What was read and not cut out, or was cut out and not handed over, keeps a
\* channel from being over.
LEMMA NotOver ==
  ASSUME NEW c, stream[c] # <<>> \/ buffer[c] # <<>> \/ size[c] # 0 \/ Waiting(c)
  PROVE  ~Over(c)
  BY DEF Over, Waiting

\* The length that is cut out is that of a report, not zero.
LEMMA CutSizeLength ==
  ASSUME TypeOK, WriterInv, NEW c \in Serialised, ReaderInv(c), CutSize(c)
  PROVE  size'[c] # 0
<1>0. c \in Clients
  BY DEF Serialised
<1>1. PICK N \in Nat, B \in Nat : N = Len(sent[c]) /\ B = Written(c)
  BY <1>0, ClientType, WrittenType
<1>2. PICK b, t, S : b = buffer[c] /\ t = stream[c] /\ S = sent[c]
  OBVIOUS
<1>3. Bytes(b) /\ Bytes(t) /\ Count(b) >= 2 /\ size[c] = 0 /\ b # <<>>
  BY <1>0, <1>2, ClientType DEF CutSize, Count
<1>4. PICK z \in LengthOf(b[1], b[2]) : size'[c] = z
  BY <1>0, <1>2 DEF CutSize, TypeOK
<1>5. PICK n : ReaderAt(c, n)
  BY DEF ReaderInv
<1>6. Sync(b, t, 0, S, N, B, n) /\ \A m \in 1 .. N : S[m] \in Reports
  BY <1>0, <1>1, <1>2, <1>3, <1>5, ClientType DEF ReaderAt, Silent
<1>7. n \in 1 .. N /\ LengthOf(b[1], b[2]) = {S[n].len}
  BY <1>3, <1>6, SyncCutSize
<1>8. S[n].len \in Nat \ {0}
  BY <1>6, <1>7, ReportFields
<1> QED BY <1>4, <1>7, <1>8

\* A report that is posted waits.
LEMMA PostWaits ==
  ASSUME TypeOK, NEW e, events' = Append(events, e), NEW c
  PROVE  Waiting(c)' <=> Waiting(c) \/ e.from = c
<1>1. PICK ev, v : ev = events /\ v = events'
  OBVIOUS
<1>2. PICK l \in Nat : l = Len(ev)
  BY <1>1 DEF TypeOK
<1>3. /\ DOMAIN v = 1 .. l + 1 /\ DOMAIN ev = 1 .. l
      /\ v[l + 1] = e /\ \A i \in 1 .. l : v[i] = ev[i]
  <2>1. events \in Seq(Events)
    BY DEF TypeOK, Events
  <2> QED BY <1>1, <1>2, <2>1
<1>4. \A i \in 1 .. l + 1 : i \in 1 .. l \/ i = l + 1
  OBVIOUS
<1>5. l + 1 \in 1 .. l + 1 /\ \A i \in 1 .. l : i \in 1 .. l + 1
  OBVIOUS
<1>6. (\E i \in DOMAIN v : v[i].from = c) <=> (\E i \in DOMAIN ev : ev[i].from = c) \/ e.from = c
  BY <1>3, <1>4, <1>5
<1> QED BY <1>1, <1>6 DEF Waiting

\* The oldest report goes.
LEMMA DispatchWaits ==
  ASSUME TypeOK, Dispatch
  PROVE  /\ Waiting(Head(events).from) /\ Head(events).from \in Clients
         /\ \A c : c # Head(events).from => (Waiting(c)' <=> Waiting(c))
<1>1. PICK ev, v : ev = events /\ v = events'
  OBVIOUS
<1>2. events \in Seq(Events) /\ events # <<>> /\ events' = Tail(events)
  BY DEF Dispatch, TypeOK, Events
<1>3. PICK l \in Nat \ {0} : l = Len(ev)
  BY <1>1, <1>2
<1>4. /\ Head(events) = ev[1] /\ ev[1] \in Events
      /\ DOMAIN v = 1 .. l - 1 /\ DOMAIN ev = 1 .. l
      /\ \A i \in 1 .. l - 1 : v[i] = ev[i + 1]
  BY <1>1, <1>2, <1>3
<1>5. 1 \in 1 .. l /\ \A i \in 1 .. l - 1 : i + 1 \in 1 .. l
  OBVIOUS
<1>6. \A i \in 1 .. l : i = 1 \/ (i - 1 \in 1 .. l - 1 /\ (i - 1) + 1 = i)
  OBVIOUS
<1>7. ASSUME NEW c, c # ev[1].from
      PROVE  (\E i \in DOMAIN v : v[i].from = c) <=> (\E i \in DOMAIN ev : ev[i].from = c)
  <2>1. ASSUME NEW i \in DOMAIN v, v[i].from = c PROVE \E j \in DOMAIN ev : ev[j].from = c
    BY <1>4, <1>5, <2>1
  <2>2. ASSUME NEW j \in DOMAIN ev, ev[j].from = c PROVE \E i \in DOMAIN v : v[i].from = c
    <3>1. j - 1 \in 1 .. l - 1 /\ (j - 1) + 1 = j
      BY <1>4, <1>6, <1>7, <2>2
    <3>2. v[j - 1] = ev[j]
      BY <1>4, <3>1
    <3> QED BY <1>4, <2>2, <3>1, <3>2
  <2> QED BY <2>1, <2>2
<1>8. ev[1].from \in Clients
  BY <1>4 DEF Events
<1> QED BY <1>1, <1>4, <1>5, <1>7, <1>8 DEF Waiting

\* The application reads a pipe and cuts lengths and frames out of it.
LEMMA ReadRefines ==
  ASSUME PipeInv, NEW a \in Clients, ProcessData(a)
  PROVE  Mapped
<1>0. TypeOK /\ WriterInv /\ \A c \in Serialised : ReaderInv(c)
  BY DEF PipeInv, StreamInv
<1>1. UNCHANGED <<conn, sent, delivered, Runs>>
  BY DEF ProcessData, ReadAll, CutSize, CutFrame, ReturnToEventLoop, client, Runs
<1>2. UNCHANGED <<Link, SentBy, Handed>>
  BY <1>1 DEF Link, SentBy, Handed, Serialised
<1>3. ASSUME \A c \in Serialised : Over(c)' <=> Over(c) PROVE Mapped
  BY <1>1, <1>2, <1>3, OverSetStep, Stutters
<1>4. ASSUME NEW c \in Serialised, c # a, Waiting(c)' <=> Waiting(c)
      PROVE  Over(c)' <=> Over(c)
  <2>1. stream'[c] = stream[c] /\ buffer'[c] = buffer[c] /\ size'[c] = size[c]
    BY <1>0, <1>4
    DEF ProcessData, ReadAll, CutSize, CutFrame, ReturnToEventLoop, TypeOK, Serialised
  <2> QED BY <1>1, <1>4, <2>1, OverKept
<1>5. CASE ReadAll(a)
  <2>1. stream[a] # <<>> /\ buffer'[a] # <<>> /\ UNCHANGED events
    <3>1. PICK m \in 1 .. Len(stream[a]) :
            buffer' = [buffer EXCEPT ![a] = buffer[a] \o SubSeq(stream[a], 1, m)]
      BY <1>5 DEF ReadAll
    <3>2. PICK b, t : b = buffer[a] /\ t = stream[a]
      OBVIOUS
    <3>3. b \in Seq(Pieces) /\ t \in Seq(Pieces)
      BY <1>0, <3>2 DEF TypeOK
    <3>4. t # <<>> /\ b \o SubSeq(t, 1, m) # <<>>
      <4>1. m \in 1 .. Len(t) /\ m \in Nat /\ m > 0 /\ Len(t) \in Nat /\ m <= Len(t)
        BY <3>1, <3>2, <3>3
      <4>2. t # <<>>
        BY <4>1
      <4>3. PICK x : x = SubSeq(t, 1, m)
        OBVIOUS
      <4>4. x \in Seq(Pieces) /\ Len(x) = m
        BY <3>3, <4>1, <4>3, CutType
      <4>5. Len(b \o x) = Len(b) + m /\ Len(b) \in Nat
        BY <3>3, <4>4
      <4>6. Len(b \o x) # 0
        BY <4>1, <4>5
      <4> QED BY <4>2, <4>3, <4>6
    <3>5. buffer'[a] = b \o SubSeq(t, 1, m)
      BY <1>0, <3>1, <3>2 DEF TypeOK
    <3> QED BY <1>5, <3>2, <3>4, <3>5 DEF ReadAll
  <2>2. ~Over(a) /\ ~Over(a)'
    BY <2>1 DEF Over
  <2>3. \A c : Waiting(c)' <=> Waiting(c)
    BY <2>1 DEF Waiting
  <2> QED BY <1>3, <1>4, <2>2, <2>3
<1>6. CASE CutSize(a)
  <2>1. buffer[a] # <<>> /\ UNCHANGED events
    BY <1>0, <1>6 DEF CutSize
  <2>2. a \in Serialised => ~Over(a) /\ ~Over(a)'
    BY <1>0, <1>6, <2>1, CutSizeLength DEF Over
  <2>3. \A c : Waiting(c)' <=> Waiting(c)
    BY <2>1 DEF Waiting
  <2> QED BY <1>3, <1>4, <2>2, <2>3
<1>7. CASE CutFrame(a)
  <2>1. \A c : c # a => (Waiting(c)' <=> Waiting(c))
    <3>1. PICK f : f = SubSeq(buffer[a], 1, size[a])
      OBVIOUS
    <3>2. PICK e : e = [from |-> a, id |-> f[1].id, len |-> Len(f)]
      OBVIOUS
    <3>3. e.from = a /\ (events' = events \/ events' = Append(events, e))
      BY <1>7, <3>1, <3>2 DEF CutFrame
    <3>4. CASE events' = events
      BY <3>4 DEF Waiting
    <3>5. CASE events' = Append(events, e)
      BY <1>0, <3>3, <3>5, PostWaits
    <3> QED BY <3>3, <3>4, <3>5
  <2>2. a \in Serialised => ~Over(a) /\ ~Over(a)'
    <3> SUFFICES ASSUME a \in Serialised PROVE ~Over(a) /\ ~Over(a)'
      OBVIOUS
    <3>1. size[a] # 0
      BY <1>0, <1>7 DEF CutFrame, TypeOK
    <3>2. PICK n : ReaderAt(a, n)
      BY <1>0 DEF ReaderInv
    <3>3. PICK e : e = [from |-> a, id |-> n, len |-> size[a]]
      OBVIOUS
    <3>4. events' = Append(events, e) /\ e.from = a
      BY <1>0, <1>7, <3>2, <3>3, CutFramePosts
    <3>5. Waiting(a)'
      BY <1>0, <3>4, PostWaits
    <3> QED BY <3>1, <3>5 DEF Over, Waiting
  <2> QED BY <1>3, <1>4, <2>1, <2>2
<1>8. CASE ReturnToEventLoop(a)
  <2>1. UNCHANGED <<stream, buffer, size, events>>
    BY <1>8 DEF ReturnToEventLoop
  <2>2. \A c \in Serialised : Over(c)' <=> Over(c)
    BY <1>1, <2>1 DEF Over
  <2> QED BY <1>3, <2>2
<1> QED BY <1>5, <1>6, <1>7, <1>8 DEF ProcessData

\* The socket of a process that ended is removed: with it goes no more than the
\* last report, if the rest was handed over.
LEMMA DisconnectedRefines ==
  ASSUME PipeInv, NEW a \in Clients, Disconnected(a)
  PROVE  Mapped
<1>0. TypeOK /\ WriterInv /\ IdleInv /\ \A c \in Serialised : ReaderInv(c)
  BY DEF PipeInv, StreamInv
<1>1. /\ UNCHANGED <<conn, sent, stream, delivered, events, Runs>>
      /\ conn[a] = "closed"
  BY DEF Disconnected, client, Runs
<1>2. UNCHANGED <<Link, SentBy, Handed>>
  BY <1>1 DEF Link, SentBy, Handed, Serialised
<1>3. \A c \in Serialised : c # a => (Over(c)' <=> Over(c))
  <2> TAKE c \in Serialised
  <2> HAVE c # a
  <2>1. buffer'[c] = buffer[c] /\ size'[c] = size[c]
    BY <1>0 DEF Disconnected, TypeOK, Serialised
  <2>2. Waiting(c)' <=> Waiting(c)
    BY <1>1 DEF Waiting
  <2> QED BY <1>1, <2>1, <2>2, OverKept
<1>4. ~Over(a)
  BY DEF Disconnected, Over
<1>5. CASE a \notin Serialised \/ ~Over(a)'
  BY <1>1, <1>2, <1>3, <1>4, <1>5, OverSetStep, Stutters
<1>6. CASE a \in Serialised /\ Over(a)'
  <2>1. ~Waiting(a)
    BY <1>1, <1>6 DEF Over, Waiting
  <2>2. PICK n : ReaderAt(a, n)
    BY <1>0, <1>6 DEF ReaderInv
  <2>3. n = Len(delivered[a]) + 1 /\ n >= Len(sent[a])
    BY <1>0, <1>6, <2>1, <2>2, NoneWaiting, DisconnectedLate
  <2>4. Len(sent[a]) <= Len(delivered'[a]) + 1
    BY <1>0, <1>1, <2>3, ClientType
  <2>5. Channel!Complete(a)
    BY <1>6, <2>4 DEF Channel!Complete, Serialised
  <2>6. OverSet' = OverSet \union {a}
    BY <1>3, <1>6, OverSetStep
  <2>7. Channel!MayEnd(a)
    BY <2>5, <2>6 DEF Channel!MayEnd, OverSet
  <2>8. a \notin OverSet /\ Link[a] = "closed"
    BY <1>1, <1>4, <1>6 DEF OverSet, Link
  <2>9. Channel!Lapse(a)
    BY <1>1, <1>2, <2>7, <2>8
    DEF Channel!Lapse, Runs, Link, SentBy, Handed, OverSet
  <2> QED BY <1>6, <2>9 DEF Mapped, Channel!Next
<1> QED BY <1>5, <1>6

\* A timer hands the next report of a process over.
LEMMA DispatchRefines ==
  ASSUME PipeInv, Dispatch
  PROVE  Mapped
<1>0. /\ TypeOK /\ WriterInv /\ \A c \in Serialised : ReaderInv(c)
      /\ delivered \in [Clients -> Seq(Reports)]
  BY DEF PipeInv, StreamInv, TypeOK
<1>1. PICK a, r : a = Head(events).from
                  /\ r = [id |-> Head(events).id, len |-> Head(events).len]
  OBVIOUS
<1>2. /\ UNCHANGED <<conn, sent, stream, buffer, size, Runs>>
      /\ delivered' = [delivered EXCEPT ![a] = Append(delivered[a], r)]
  BY <1>1 DEF Dispatch, client, Runs
<1>3. a \in Clients /\ Waiting(a) /\ \A c : c # a => (Waiting(c)' <=> Waiting(c))
  BY <1>0, <1>1, DispatchWaits
<1>4. UNCHANGED <<Link, SentBy>>
  BY <1>2 DEF Link, SentBy, Serialised
<1>5. \A c \in Serialised : c # a => (Over(c)' <=> Over(c))
  BY <1>2, <1>3, OverKept
<1>6. ~Over(a)
  BY <1>3, OverMeans
<1>7. CASE a \notin Serialised
  <2>1. Handed' = Handed
    BY <1>0, <1>2, <1>7 DEF Handed, Serialised
  <2> QED BY <1>2, <1>4, <1>5, <1>7, <2>1, OverSetStep, Stutters
<1>8. CASE a \in Serialised
  <2>1. PICK n : ReaderAt(a, n) /\ DeliveredInv(a)
    BY <1>0, <1>8 DEF ReaderInv
  <2>2. PICK N \in Nat, d \in Nat : N = Len(sent[a]) /\ d = Len(delivered[a])
    BY <1>0, <1>3, ClientType
  <2>3. /\ ReaderAt(a, n)'
        /\ d + 1 \in 1 .. N /\ n # d + 1
        /\ delivered'[a] = Append(delivered[a], sent[a][d + 1])
    BY <1>0, <1>1, <1>8, <2>1, <2>2, DispatchHands
  <2>4. Handed' = [Handed EXCEPT ![a] = Append(Handed[a], SentBy[a][d + 1])]
    BY <1>0, <1>2, <1>8, <2>3 DEF Handed, SentBy, Serialised
  <2>5. Len(Handed[a]) = d /\ Len(SentBy[a]) = N /\ d < N
    BY <1>8, <2>2, <2>3 DEF Handed, SentBy
  <2>6. Over(a)' => Channel!MayEnd(a) /\ Link[a] # "open"
    <3> SUFFICES ASSUME Over(a)' PROVE Channel!MayEnd(a) /\ Link[a] # "open"
      OBVIOUS
    <3>1. stream[a] = <<>> /\ buffer[a] = <<>> /\ size[a] = 0 /\ conn[a] # "open"
      BY <1>2 DEF Over
    <3>2. n >= N
      BY <1>0, <1>8, <2>1, <2>2, <2>3, <3>1, EmptyPipe
    <3>3. Len(delivered'[a]) = d + 1
      BY <1>0, <1>2, <1>3, <2>2
    <3>4. n = d + 2
      <4>1. PICK v, l, S : v = events' /\ l = Len(events') /\ S = sent[a]
        OBVIOUS
      <4>2. Queued(v, l, a, d + 1, S, N, n)
        BY <1>2, <2>2, <2>3, <3>3, <4>1 DEF ReaderAt
      <4>3. \A i \in 1 .. l : v[i].from # a
        <5>1. events \in Seq(Events) /\ events # <<>> /\ v = Tail(events)
          BY <1>0, <4>1 DEF Dispatch, TypeOK, Events
        <5>2. DOMAIN v = 1 .. l
          BY <4>1, <5>1
        <5>3. \A i \in DOMAIN v : v[i].from # a
          BY <4>1 DEF Over
        <5> QED BY <5>2, <5>3
      <4>4. n \in (d + 1) + 1 .. N + 1 /\ \A id \in (d + 1) + 1 .. n - 1 : FALSE
        BY <4>2, <4>3 DEF Queued
      <4>5. n > d + 2 => d + 2 \in (d + 1) + 1 .. n - 1
        BY <2>2, <4>4
      <4> QED BY <2>2, <4>4, <4>5
    <3>5. Len(sent[a]) <= Len(delivered'[a]) + 1
      BY <2>2, <3>2, <3>3, <3>4
    <3>6. Channel!Complete(a)
      BY <1>8, <3>5 DEF Channel!Complete, Serialised
    <3>7. OverSet' = OverSet \union {a}
      BY <1>5, <1>8, OverSetStep
    <3>8. Link[a] # "open"
      BY <1>8, <3>1 DEF Link
    <3> QED BY <3>6, <3>7, <3>8 DEF Channel!MayEnd, OverSet
  <2>7. OverSet' = OverSet \/ (Link[a] # "open" /\ Channel!MayEnd(a))
    BY <1>5, <1>6, <2>6, OverSetStep
  <2>8. a \notin OverSet
    BY <1>6 DEF OverSet
  <2>9. Channel!Deliver(a)
    BY <1>2, <1>4, <2>4, <2>5, <2>7, <2>8
    DEF Channel!Deliver, Runs, Link, SentBy, Handed, OverSet
  <2> QED BY <1>8, <2>9 DEF Mapped, Channel!Next
<1> QED BY <1>7, <1>8

\* The application starts to listen.
LEMMA ServerUpRefines == ASSUME ServerUp PROVE Mapped
<1>1. UNCHANGED <<conn, sent, delivered, stream, buffer, size, events>>
  BY DEF ServerUp, client, app
<1>2. UNCHANGED <<Link, SentBy, Handed, OverSet>>
  BY <1>1 DEF Link, SentBy, Handed, OverSet, Over, Serialised
<1>3. ~Runs /\ Runs'
  BY DEF ServerUp, Runs
<1>4. Channel!AppStart
  BY <1>2, <1>3 DEF Channel!AppStart, Runs, Link, SentBy, Handed, OverSet
<1> QED BY <1>4 DEF Mapped, Channel!Next

\* The application exits, and every channel that was opened is over.
LEMMA ServerExitRefines ==
  ASSUME TypeOK, ServerExit
  PROVE  Mapped
<1>1. /\ UNCHANGED <<sent, delivered>>
      /\ conn' = [c \in Clients |-> IF conn[c] = "open" THEN "broken" ELSE conn[c]]
      /\ \A c \in Clients : stream'[c] = <<>> /\ buffer'[c] = <<>> /\ size'[c] = 0
      /\ events' = <<>>
  BY DEF ServerExit
<1>2. UNCHANGED <<SentBy, Handed>>
  BY <1>1 DEF SentBy, Handed, Serialised
<1>3. Link' = [c \in Serialised |-> IF Link[c] = "open" THEN "broken" ELSE Link[c]]
  BY <1>1 DEF Link, Serialised
<1>4. \A c \in Serialised : Over(c)' <=> Link[c] # "connecting"
  BY <1>1 DEF Over, Link, Serialised, TypeOK
<1>5. OverSet' = {c \in Serialised : Link[c] # "connecting"}
  BY <1>4 DEF OverSet, Serialised
<1>6. Runs /\ Runs' = FALSE
  BY DEF ServerExit, Runs
<1>7. Channel!AppExit
  BY <1>2, <1>3, <1>5, <1>6 DEF Channel!AppExit, Runs, Link, SentBy, Handed, OverSet
<1> QED BY <1>7 DEF Mapped, Channel!Next

-----------------------------------------------------------------------------
\* At the start no channel is open and nothing was sent.
LEMMA InitRefines == Init => Channel!Init
<1> SUFFICES ASSUME Init PROVE Channel!Init
  OBVIOUS
<1>1. /\ Link = [c \in Serialised |-> "connecting"]
      /\ SentBy = [c \in Serialised |-> <<>>] /\ Handed = [c \in Serialised |-> <<>>]
  BY DEF Init, Start, Link, SentBy, Handed, Serialised
<1>2. OverSet = {}
  BY DEF Init, Start, OverSet, Over, Serialised
<1>3. Runs \in BOOLEAN
  BY DEF Runs
<1> QED BY <1>1, <1>2, <1>3 DEF Channel!Init, Start, Runs, Link, SentBy, Handed, OverSet

\* Every step of the pipes is a step of the channels or a stutter.
LEMMA StepRefines == PipeInv /\ [Next]_vars => [Channel!Next]_(Channel!vars)
<1> SUFFICES ASSUME PipeInv, [Next]_vars PROVE Mapped
  BY DEF Mapped
<1>1. CASE UNCHANGED vars
  <2>1. UNCHANGED <<server, conn, sent, delivered, stream, buffer, size, events>>
    BY <1>1 DEF vars, client, app
  <2> QED BY <2>1, Stutters DEF Runs, Link, SentBy, Handed, OverSet, Over, Serialised
<1>2. CASE ServerUp \/ ServerExit \/ Dispatch
  BY <1>2, ServerUpRefines, ServerExitRefines, DispatchRefines DEF PipeInv
<1>3. ASSUME NEW s \in Senders, SendSize(s) \/ SendBody(s) PROVE Mapped
  BY <1>3, SendSizeRefines, SendBodyRefines
<1>4. ASSUME NEW a \in Clients, Connect(a) \/ Exit(a) \/ ProcessData(a) \/ Disconnected(a)
      PROVE  Mapped
  BY <1>4, ConnectRefines, ExitRefines, ReadRefines, DisconnectedRefines
<1> QED BY <1>1, <1>2, <1>3, <1>4 DEF Next, Quiet

\* Whatever comes in which pieces, and whoever exits when, the reports of a
\* client whose reports are kept apart go through a channel that
\* hands them over one by one and in order, and that loses none but the last
\* one of a process that ended while the application runs.
THEOREM PipeImplementsChannel == Spec => ImplementsChannel
<1>1. Spec => []PipeInv
  BY PipeInit, PipeStep, PTL DEF Spec
<1>2. Init => Channel!Init
  BY InitRefines
<1>3. PipeInv /\ [Next]_vars => [Channel!Next]_(Channel!vars)
  BY StepRefines
<1> QED BY <1>1, <1>2, <1>3, PTL DEF Spec, ImplementsChannel, Channel!Spec

=============================================================================
