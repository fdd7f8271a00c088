------------------------ MODULE PipeTransportProofs ------------------------
(***************************************************************************)
(* Proofs about PipeTransport.  First its types: every byte in a pipe or a *)
(* buffer is one of a report's, and every posted report has a number and a *)
(* length that a report may have, even where the server is out of step.    *)
(* Then the order of reports, for clients whose reports are kept apart, by *)
(* globalMutex or because one thread makes them (Serialised).  What the    *)
(* reader's buffer and the pipe hold is laid out as the reports that are   *)
(* not yet cut out (Layout, Sync); those cut out and not handed over are   *)
(* the events (Queued); at most one report is half written (PendingInv);   *)
(* and the event loop finds no whole frame left in a buffer (IdleInv).     *)
(* Together (PipeInv) they are inductive.                                  *)
(***************************************************************************)
EXTENDS PipeTransport, SequenceTheorems, TLAPS

\* What is posted with QTimer::singleShot(0).
Events == [from : Clients, id : 1 .. MaxSent, len : BodySizes]

-----------------------------------------------------------------------------
(* Types.                                                                  *)

\* Pieces differ as soon as one of their fields does.
LEMMA PieceFields ==
  ASSUME NEW a, NEW r, NEW k
  PROVE  /\ Piece(a, r, k).kind = a /\ Piece(a, r, k).id = r.id
         /\ Piece(a, r, k).len = r.len /\ Piece(a, r, k).k = k
  BY DEF Piece

\* The bytes of a report are pieces.
LEMMA BytesType ==
  ASSUME NEW r \in Reports
  PROVE  SizeBytes(r) \in Seq(Pieces) /\ BodyBytes(r) \in Seq(Pieces)
<1>1. r.id \in 1 .. MaxSent /\ r.len \in BodySizes /\ r.len \in Nat
  BY PipeAssumption DEF Reports
<1>2. Piece("size", r, 1) \in Pieces /\ Piece("size", r, 2) \in Pieces
  BY <1>1 DEF Piece, Pieces
<1>3. \A k \in 1 .. r.len : Piece("body", r, k) \in Pieces
  BY <1>1 DEF Piece, Pieces
<1>4. BodyBytes(r) \in [1 .. r.len -> Pieces]
  BY <1>3 DEF BodyBytes
<1>5. BodyBytes(r) \in Seq(Pieces)
  BY <1>1, <1>4
<1> QED BY <1>2, <1>5 DEF SizeBytes

\* Cutting and joining keep sequences in their type.
LEMMA CutType ==
  ASSUME NEW S, NEW q \in Seq(S), NEW m \in Nat, m <= Len(q)
  PROVE  /\ SubSeq(q, 1, m) \in Seq(S) /\ SubSeq(q, m + 1, Len(q)) \in Seq(S)
         /\ Len(SubSeq(q, 1, m)) = m
         /\ Len(SubSeq(q, m + 1, Len(q))) = Len(q) - m
         /\ \A i \in 1 .. m : SubSeq(q, 1, m)[i] = q[i]
         /\ \A i \in 1 .. Len(q) - m : SubSeq(q, m + 1, Len(q))[i] = q[m + i]
  OBVIOUS

\* Sequences that are joined.
LEMMA JoinType ==
  ASSUME NEW S, NEW q \in Seq(S), NEW p \in Seq(S)
  PROVE  /\ q \o p \in Seq(S) /\ Len(q \o p) = Len(q) + Len(p)
         /\ \A i \in 1 .. Len(q) : (q \o p)[i] = q[i]
         /\ \A i \in 1 .. Len(p) : (q \o p)[Len(q) + i] = p[i]
  OBVIOUS

\* Two sequences with the same elements are the same.
LEMMA SameSeq ==
  ASSUME NEW S, NEW q \in Seq(S), NEW p \in Seq(S), Len(q) = Len(p),
         \A i \in 1 .. Len(q) : q[i] = p[i]
  PROVE  q = p
  OBVIOUS

\* The program starts in the types.
LEMMA InitType == Init => TypeOK
<1> SUFFICES ASSUME Init PROVE TypeOK
  OBVIOUS
<1>1. 0 \in 0 .. MaxAttempts
  BY PipeAssumption
<1> QED BY <1>1 DEF Init, Start, TypeOK

\* An attempt of connect.
LEMMA ConnectType ==
  ASSUME TypeOK, NEW c \in Clients, Connect(c)
  PROVE  TypeOK'
<1>1. CASE ConnectOpen(c)
  BY <1>1 DEF ConnectOpen, TypeOK, app
<1>2. CASE ConnectRetry(c)
  <2>1. attempt[c] + 1 \in 0 .. MaxAttempts
    BY <1>2, PipeAssumption DEF ConnectRetry, TypeOK
  <2>2. attempt' \in [Clients -> 0 .. MaxAttempts]
    BY <1>2, <2>1 DEF ConnectRetry, TypeOK
  <2>3. server' \in {"down", "starting", "up"}
    BY <1>2 DEF ConnectRetry, TypeOK
  <2>4. conn' \in [Clients -> {"connecting", "open", "failed", "broken", "closed"}]
    BY <1>2 DEF ConnectRetry, TypeOK
  <2> QED BY <1>2, <2>2, <2>3, <2>4 DEF ConnectRetry, TypeOK, app
<1>3. CASE ConnectFail(c)
  BY <1>3 DEF ConnectFail, TypeOK, app
<1> QED BY <1>1, <1>2, <1>3 DEF Connect

\* A length is written.
LEMMA SendSizeType ==
  ASSUME TypeOK, NEW s \in Senders, SendSize(s)
  PROVE  TypeOK'
<1>1. PICK c \in Clients : c = Home[s]
  BY PipeAssumption
<1>2. PICK n \in BodySizes :
        LET r == [id |-> Len(sent[c]) + 1, len |-> n] IN
        /\ report' = [report EXCEPT ![s] = r]
        /\ sent' = [sent EXCEPT ![c] = Append(sent[c], r)]
        /\ stream' = [stream EXCEPT ![c] = stream[c] \o SizeBytes(r)]
  BY <1>1 DEF SendSize
<1> DEFINE r == [id |-> Len(sent[c]) + 1, len |-> n]
<1>3. r \in Reports
  <2>1. Len(sent[c]) < MaxSent /\ Len(sent[c]) \in Nat
    BY <1>1 DEF SendSize, TypeOK
  <2>2. Len(sent[c]) + 1 \in 1 .. MaxSent
    BY <2>1, PipeAssumption
  <2> QED BY <2>2 DEF Reports
<1>4. /\ report' = [report EXCEPT ![s] = r] /\ sent' = [sent EXCEPT ![c] = Append(sent[c], r)]
      /\ stream' = [stream EXCEPT ![c] = stream[c] \o SizeBytes(r)]
  BY <1>2
<1> HIDE DEF r
<1>5. report' \in [Senders -> Reports \union {NoReport}]
  BY <1>3, <1>4 DEF TypeOK
<1>6. sent' \in [Clients -> Seq(Reports)]
  BY <1>3, <1>4 DEF TypeOK
<1>7. stream' \in [Clients -> Seq(Pieces)]
  <2>1. stream[c] \o SizeBytes(r) \in Seq(Pieces)
    BY <1>3, BytesType, JoinType DEF TypeOK
  <2> QED BY <1>4, <2>1 DEF TypeOK
<1>8. mutex' \in [Clients -> Senders \union {Nobody}]
  BY DEF SendSize, TypeOK
<1> QED BY <1>5, <1>6, <1>7, <1>8 DEF SendSize, TypeOK, app

\* A body is written, or the write fails.
LEMMA SendBodyType ==
  ASSUME TypeOK, NEW s \in Senders, SendBody(s)
  PROVE  TypeOK'
<1>1. PICK c \in Clients : c = Home[s]
  BY PipeAssumption
<1>2. stream' \in [Clients -> Seq(Pieces)]
  <2>1. report[s] \in Reports
    BY DEF SendBody, TypeOK
  <2>2. stream[c] \o BodyBytes(report[s]) \in Seq(Pieces)
    BY <2>1, BytesType, JoinType DEF TypeOK
  <2>3. stream' = stream \/ stream' = [stream EXCEPT ![c] = stream[c] \o BodyBytes(report[s])]
    BY <1>1 DEF SendBody
  <2> QED BY <2>2, <2>3 DEF TypeOK
<1>3. mutex' \in [Clients -> Senders \union {Nobody}]
  BY DEF SendBody, TypeOK
<1>4. report' \in [Senders -> Reports \union {NoReport}]
  BY DEF SendBody, TypeOK
<1> QED BY <1>2, <1>3, <1>4 DEF SendBody, TypeOK, app

\* The application comes up or exits, or a client does.
LEMMA ServerType ==
  ASSUME TypeOK, ServerUp \/ ServerExit \/ \E c \in Clients : Exit(c)
  PROVE  TypeOK'
<1>1. CASE ServerUp
  BY <1>1 DEF ServerUp, TypeOK, client, app
<1>2. CASE ServerExit
  BY <1>2 DEF ServerExit, TypeOK
<1>3. CASE \E c \in Clients : Exit(c)
  BY <1>3 DEF Exit, TypeOK, app
<1> QED BY <1>1, <1>2, <1>3

\* Bytes arrive.
LEMMA ReadAllType ==
  ASSUME TypeOK, NEW c \in Clients, ReadAll(c)
  PROVE  TypeOK'
<1>1. PICK n \in 1 .. Len(stream[c]) :
        /\ buffer' = [buffer EXCEPT ![c] = buffer[c] \o SubSeq(stream[c], 1, n)]
        /\ stream' = [stream EXCEPT ![c] = SubSeq(stream[c], n + 1, Len(stream[c]))]
  BY DEF ReadAll
<1>2. /\ SubSeq(stream[c], 1, n) \in Seq(Pieces)
      /\ SubSeq(stream[c], n + 1, Len(stream[c])) \in Seq(Pieces)
  BY CutType DEF TypeOK
<1>3. buffer[c] \o SubSeq(stream[c], 1, n) \in Seq(Pieces)
  BY <1>2, JoinType DEF TypeOK
<1>4. stream' \in [Clients -> Seq(Pieces)] /\ buffer' \in [Clients -> Seq(Pieces)]
  BY <1>1, <1>2, <1>3 DEF TypeOK
<1> QED BY <1>4 DEF ReadAll, TypeOK, client

\* A length is cut off the buffer.
LEMMA CutSizeType ==
  ASSUME TypeOK, NEW c \in Clients, CutSize(c)
  PROVE  TypeOK'
<1>1. buffer[c] \in Seq(Pieces) /\ Len(buffer[c]) >= 2
  BY DEF CutSize, TypeOK
<1>2. PICK n \in LengthOf(buffer[c][1], buffer[c][2]) : size' = [size EXCEPT ![c] = n]
  BY DEF CutSize
<1>3. n \in Int
  <2>1. buffer[c][1] \in Pieces
    BY <1>1
  <2>2. buffer[c][1].len \in BodySizes
    BY <2>1 DEF Pieces
  <2>3. n = buffer[c][1].len \/ n \in Misread
    BY <1>2 DEF LengthOf
  <2>4. BodySizes \subseteq Int /\ Misread \subseteq Int
    BY PipeAssumption
  <2> QED BY <2>2, <2>3, <2>4
<1>4. SubSeq(buffer[c], 3, Len(buffer[c])) \in Seq(Pieces)
  BY <1>1
<1>5. size' \in [Clients -> Int]
  BY <1>2, <1>3 DEF TypeOK
<1>6. buffer' = [buffer EXCEPT ![c] = SubSeq(buffer[c], 3, Len(buffer[c]))]
  BY DEF CutSize
<1>7. buffer' \in [Clients -> Seq(Pieces)]
  BY <1>4, <1>6 DEF TypeOK
<1> QED BY <1>5, <1>7 DEF CutSize, TypeOK, client

\* What processData takes for a report has the number and length of one.
LEMMA FrameType ==
  ASSUME TypeOK, NEW c \in Clients, size[c] > 0, Len(buffer[c]) >= size[c],
         NEW frame, frame = SubSeq(buffer[c], 1, size[c]), IsReport(frame)
  PROVE  [from |-> c, id |-> frame[1].id, len |-> Len(frame)] \in Events
<1>1. buffer[c] \in Seq(Pieces) /\ size[c] \in Nat /\ Len(buffer[c]) \in Nat
  BY DEF TypeOK
<1>2. frame \in Seq(Pieces) /\ Len(frame) = size[c]
  BY <1>1, CutType
<1>3. frame[1] \in Pieces
  BY <1>1, <1>2
<1>4. PICK id \in 1 .. MaxSent : frame = BodyBytes([id |-> id, len |-> Len(frame)])
  BY DEF IsReport
<1>5. frame[1] = Piece("body", [id |-> id, len |-> Len(frame)], 1)
  <2>1. 1 \in 1 .. Len(frame)
    BY <1>1, <1>2
  <2>2. BodyBytes([id |-> id, len |-> Len(frame)])[1]
          = Piece("body", [id |-> id, len |-> Len(frame)], 1)
    BY <2>1 DEF BodyBytes
  <2> QED BY <1>4, <2>2
<1>6. frame[1].id \in 1 .. MaxSent /\ frame[1].len = Len(frame) /\ frame[1].len \in BodySizes
  <2>1. PICK n : n = Len(frame)
    OBVIOUS
  <2>2. frame[1].len = n
    <3>1. PICK r : r = [id |-> id, len |-> n]
      OBVIOUS
    <3>2. frame[1] = Piece("body", r, 1)
      BY <1>5, <2>1, <3>1
    <3>3. r.len = n
      BY <3>1
    <3>4. Piece("body", r, 1).len = r.len
      BY PieceFields
    <3> QED BY <3>2, <3>3, <3>4
  <2>3. PICK p \in Pieces : p = frame[1]
    BY <1>3
  <2>4. p.id \in 1 .. MaxSent /\ p.len \in BodySizes
    BY DEF Pieces
  <2> QED BY <2>1, <2>2, <2>3, <2>4
<1>7. PICK i \in 1 .. MaxSent, n \in BodySizes : i = frame[1].id /\ n = Len(frame)
  BY <1>6
<1> QED BY <1>7 DEF Events

\* A frame is cut off the buffer.
LEMMA CutFrameType ==
  ASSUME TypeOK, NEW c \in Clients, CutFrame(c)
  PROVE  TypeOK'
<1>0. buffer[c] \in Seq(Pieces) /\ size[c] \in Int
  BY DEF TypeOK
<1>1. /\ buffer[c] \in Seq(Pieces) /\ size[c] \in Nat /\ Len(buffer[c]) \in Nat
      /\ size[c] > 0 /\ Len(buffer[c]) >= size[c]
  BY <1>0 DEF CutFrame
<1>2. PICK frame : frame = SubSeq(buffer[c], 1, size[c])
  OBVIOUS
<1>3. events' = IF IsReport(frame)
                  THEN Append(events, [from |-> c, id |-> frame[1].id, len |-> Len(frame)])
                  ELSE events
  BY <1>2 DEF CutFrame
<1>4. events' \in Seq(Events)
  <2>1. events \in Seq(Events)
    BY DEF TypeOK, Events
  <2>2. CASE IsReport(frame)
    <3>1. [from |-> c, id |-> frame[1].id, len |-> Len(frame)] \in Events
      BY <1>1, <1>2, <2>2, FrameType
    <3> QED BY <1>3, <2>1, <2>2, <3>1
  <2>3. CASE ~IsReport(frame)
    BY <1>3, <2>1, <2>3
  <2> QED BY <2>2, <2>3
<1>5. SubSeq(buffer[c], size[c] + 1, Len(buffer[c])) \in Seq(Pieces)
  BY <1>1, CutType
<1>6. /\ buffer' = [buffer EXCEPT ![c] = SubSeq(buffer[c], size[c] + 1, Len(buffer[c]))]
      /\ size' = [size EXCEPT ![c] = 0]
  BY DEF CutFrame
<1>7. buffer' \in [Clients -> Seq(Pieces)] /\ size' \in [Clients -> Int]
  <2>1. buffer \in [Clients -> Seq(Pieces)] /\ size \in [Clients -> Int]
    BY DEF TypeOK
  <2> QED BY <1>5, <1>6, <2>1
<1>8. UNCHANGED <<server, client, stream, busy, delivered>>
  BY DEF CutFrame
<1> QED BY <1>4, <1>7, <1>8 DEF TypeOK, client, Events

\* The event loop goes on, or a pipe is closed.
LEMMA ReturnType ==
  ASSUME TypeOK, NEW c \in Clients, ReturnToEventLoop(c) \/ Disconnected(c)
  PROVE  TypeOK'
<1>1. CASE ReturnToEventLoop(c)
  <2>1. UNCHANGED <<server, client, stream, buffer, size, events, delivered>> /\ busy' = Nobody
    BY <1>1 DEF ReturnToEventLoop
  <2> QED BY <2>1 DEF TypeOK, client
<1>2. CASE Disconnected(c)
  <2>1. /\ UNCHANGED <<server, client, stream, busy, events, delivered>>
        /\ buffer' = [buffer EXCEPT ![c] = <<>>] /\ size' = [size EXCEPT ![c] = 0]
    BY <1>2 DEF Disconnected
  <2>2. buffer' \in [Clients -> Seq(Pieces)] /\ size' \in [Clients -> Int]
    BY <2>1 DEF TypeOK
  <2> QED BY <2>1, <2>2 DEF TypeOK, client
<1> QED BY <1>1, <1>2

\* A report is handed over.
LEMMA DispatchType ==
  ASSUME TypeOK, Dispatch
  PROVE  TypeOK'
<1>1. events \in Seq(Events) /\ events # <<>>
  BY DEF Dispatch, TypeOK, Events
<1>2. Head(events) \in Events /\ Tail(events) \in Seq(Events)
  BY <1>1
<1>3. PICK e \in Events : e = Head(events)
  BY <1>2
<1>4. [id |-> e.id, len |-> e.len] \in Reports /\ e.from \in Clients
  BY DEF Events, Reports
<1>5. delivered' = [delivered EXCEPT ![e.from] =
                      Append(delivered[e.from], [id |-> e.id, len |-> e.len])]
  BY <1>3 DEF Dispatch
<1>6. delivered' \in [Clients -> Seq(Reports)]
  BY <1>4, <1>5 DEF TypeOK
<1> QED BY <1>2, <1>6 DEF Dispatch, TypeOK, Events, client

\* Every step keeps the types.
LEMMA TypeStep == TypeOK /\ [Next]_vars => TypeOK'
<1> SUFFICES ASSUME TypeOK, [Next]_vars PROVE TypeOK'
  OBVIOUS
<1>1. CASE UNCHANGED vars
  BY <1>1 DEF vars, client, app, TypeOK
<1>2. ASSUME NEW c \in Clients, ProcessData(c) PROVE TypeOK'
  BY <1>2, ReadAllType, CutSizeType, CutFrameType, ReturnType DEF ProcessData
<1> QED BY <1>1, <1>2, ConnectType, SendSizeType, SendBodyType, ServerType, ReturnType,
           DispatchType DEF Next, Quiet

\* The state of the pipe and of both ends stays in its type, for any threads,
\* report sizes and misread lengths.
THEOREM PipeTypeCorrect == Spec => []TypeOK
  BY InitType, TypeStep, PTL DEF Spec

-----------------------------------------------------------------------------
(* The bytes between the writer and the reader of one pipe.                *)

\* Report m starts at byte i: its length is whole, and its body is whole and
\* followed by the next report, unless the writer has come no further.
Block(w, l, S, N, B, i, m) ==
    /\ i + 1 <= l /\ w[i + 1] = Piece("size", S[m], 2)
    /\ \/ B < N /\ m = N /\ l = i + 1
       \/ /\ i + 1 + S[m].len <= l
          /\ \A k \in 1 .. S[m].len : w[i + 1 + k] = Piece("body", S[m], k)
          /\ \/ B = N /\ m = N /\ l = i + 1 + S[m].len
             \/ /\ m < N /\ i + 2 + S[m].len <= l
                /\ w[i + 2 + S[m].len] = Piece("size", S[m + 1], 1)

\* The l bytes w are the reports of S from the n-th to the N-th, up to what is
\* written: B counts those whose body is, all N or all but the last.
Layout(w, l, S, N, B, n) ==
    /\ n \in 1 .. N + 1
    /\ \/ l = 0 /\ n = N + 1 /\ B = N
       \/ l > 0 /\ n <= N /\ w[1] = Piece("size", S[n], 1)
    /\ \A i \in 1 .. l : w[i].id \in 1 .. N
    /\ \A i \in 1 .. l, m \in 1 .. N :
         w[i] = Piece("size", S[m], 1) => Block(w, l, S, N, B, i, m)

\* Reports are numbered in the order they are sent.
Numbered(S) == \A m \in 1 .. Len(S) : S[m].id = m

\* A report has a number and a length.
LEMMA ReportFields ==
  ASSUME NEW r \in Reports
  PROVE  r.len \in Nat \ {0} /\ r.id \in Nat \ {0}
<1>1. r.len \in BodySizes /\ r.id \in 1 .. MaxSent
  BY DEF Reports
<1>2. BodySizes \subseteq Nat \ {0} /\ 1 .. MaxSent \subseteq Nat \ {0}
  BY PipeAssumption
<1> QED BY <1>1, <1>2

\* What the reader finds at the head.
LEMMA LayoutHead ==
  ASSUME NEW w, NEW l \in Nat, NEW S, NEW N \in Nat, NEW B \in Nat, NEW n,
         Layout(w, l, S, N, B, n), l > 0
  PROVE  /\ n \in 1 .. N /\ w[1] = Piece("size", S[n], 1) /\ Block(w, l, S, N, B, 1, n)
         /\ w[2] = Piece("size", S[n], 2) /\ l >= 2
<1>1. n \in 1 .. N /\ w[1] = Piece("size", S[n], 1) /\ 1 \in 1 .. l
  BY DEF Layout
<1>2. Block(w, l, S, N, B, 1, n)
  BY <1>1 DEF Layout
<1> QED BY <1>1, <1>2 DEF Block

\* A block is where it was when bytes before it are cut off.
LEMMA BlockShift ==
  ASSUME NEW w, NEW v, NEW l \in Nat, NEW d \in 0 .. l, NEW S, NEW N \in Nat, NEW B \in Nat,
         \A i \in 1 .. l - d : v[i] = w[d + i],
         NEW i \in 1 .. l - d, NEW m \in 1 .. N, NEW z \in Nat \ {0}, z = S[m].len,
         Block(w, l, S, N, B, d + i, m)
  PROVE  Block(v, l - d, S, N, B, i, m)
<1>1. i + 1 <= l - d /\ v[i + 1] = Piece("size", S[m], 2)
  <2>1. (d + i) + 1 <= l /\ w[(d + i) + 1] = Piece("size", S[m], 2)
    BY DEF Block
  <2>2. i + 1 \in 1 .. l - d
    BY <2>1
  <2> QED BY <2>1, <2>2
<1>2. CASE B < N /\ m = N /\ l = (d + i) + 1
  <2>1. l - d = i + 1
    BY <1>2
  <2> QED BY <1>1, <1>2, <2>1 DEF Block
<1>3. CASE /\ (d + i) + 1 + z <= l
           /\ \A k \in 1 .. z : w[(d + i) + 1 + k] = Piece("body", S[m], k)
           /\ \/ B = N /\ m = N /\ l = (d + i) + 1 + z
              \/ /\ m < N /\ (d + i) + 2 + z <= l
                 /\ w[(d + i) + 2 + z] = Piece("size", S[m + 1], 1)
  <2>1. i + 1 + z <= l - d
    BY <1>3
  <2>2. ASSUME NEW k \in 1 .. z PROVE v[i + 1 + k] = Piece("body", S[m], k)
    <3>1. i + 1 + k \in 1 .. l - d
      BY <2>1
    <3>2. v[i + 1 + k] = w[d + (i + 1 + k)] /\ d + (i + 1 + k) = (d + i) + 1 + k
      BY <3>1
    <3> QED BY <1>3, <3>2
  <2>3. CASE B = N /\ m = N /\ l = (d + i) + 1 + z
    <3>1. l - d = i + 1 + z
      BY <2>3
    <3> QED BY <1>1, <2>1, <2>2, <2>3, <3>1 DEF Block
  <2>4. CASE m < N /\ (d + i) + 2 + z <= l /\ w[(d + i) + 2 + z] = Piece("size", S[m + 1], 1)
    <3>1. i + 2 + z \in 1 .. l - d /\ i + 2 + z <= l - d
      BY <2>4
    <3>2. v[i + 2 + z] = w[d + (i + 2 + z)] /\ d + (i + 2 + z) = (d + i) + 2 + z
      BY <3>1
    <3> QED BY <1>1, <2>1, <2>2, <2>4, <3>1, <3>2 DEF Block
  <2> QED BY <1>3, <2>3, <2>4
<1> QED BY <1>2, <1>3 DEF Block

\* v is w, of l bytes, without the first report, of z bytes.
FirstCut(w, l, v, e, z, S, N, B, n, p) ==
    /\ l \in Nat /\ N \in Nat /\ B \in Nat /\ n \in 1 .. N
    /\ \A m \in 1 .. N : S[m].len \in Nat \ {0}
    /\ Layout(w, l, S, N, B, n)
    /\ z = S[n].len /\ l >= 2 + z /\ e = l - (2 + z) /\ p = n + 1
    /\ \A i \in 1 .. e : v[i] = w[(2 + z) + i]

\* Cutting the first report off leaves the layout of those after it.
LEMMA LayoutCut ==
  ASSUME NEW w, NEW v, NEW l, NEW S, NEW N, NEW B, NEW n, NEW z, NEW e, NEW p,
         FirstCut(w, l, v, e, z, S, N, B, n, p)
  PROVE  /\ \A k \in 1 .. z : w[2 + k] = Piece("body", S[n], k)
         /\ Layout(v, e, S, N, B, p)
<1>0. /\ l \in Nat /\ N \in Nat /\ B \in Nat /\ n \in 1 .. N
      /\ \A m \in 1 .. N : S[m].len \in Nat \ {0}
      /\ Layout(w, l, S, N, B, n)
  BY DEF FirstCut
<1>1. z \in Nat \ {0} /\ z = S[n].len /\ l >= 2 + z
  BY DEF FirstCut
<1>2. PICK d \in 0 .. l : d = 2 + z
  BY <1>0, <1>1
<1>3. e = l - d /\ p = n + 1 /\ e \in Nat /\ \A i \in 1 .. e : v[i] = w[d + i]
  BY <1>0, <1>1, <1>2 DEF FirstCut
<1>4. Block(w, l, S, N, B, 1, n)
  <2>1. l > 0
    BY <1>0, <1>1
  <2> QED BY <1>0, <2>1, LayoutHead
<1>5. /\ \A k \in 1 .. z : w[2 + k] = Piece("body", S[n], k)
      /\ \/ B = N /\ n = N /\ l = d
         \/ n < N /\ d + 1 <= l /\ w[d + 1] = Piece("size", S[n + 1], 1)
  BY <1>0, <1>1, <1>2, <1>4 DEF Block
<1>6. ASSUME NEW i \in 1 .. e, NEW m \in 1 .. N, v[i] = Piece("size", S[m], 1)
      PROVE  Block(v, e, S, N, B, i, m)
  <2>1. d + i \in 1 .. l /\ w[d + i] = Piece("size", S[m], 1)
    BY <1>0, <1>2, <1>3, <1>6
  <2>2. Block(w, l, S, N, B, d + i, m)
    BY <1>0, <2>1 DEF Layout
  <2>3. PICK y \in Nat \ {0} : y = S[m].len
    BY <1>0
  <2>4. (\A k \in 1 .. l - d : v[k] = w[d + k]) /\ i \in 1 .. l - d
    BY <1>3
  <2>5. Block(v, l - d, S, N, B, i, m)
    BY <1>0, <2>2, <2>3, <2>4, BlockShift
  <2> QED BY <1>3, <2>5
<1>7. ASSUME NEW i \in 1 .. e PROVE v[i].id \in 1 .. N
  <2>1. d + i \in 1 .. l
    BY <1>0, <1>2, <1>3
  <2> QED BY <1>0, <1>3, <2>1 DEF Layout
<1>8. p \in 1 .. N + 1
  BY <1>0, <1>3
<1>9. CASE B = N /\ n = N /\ l = d
  <2>1. e = 0 /\ p = N + 1
    BY <1>0, <1>2, <1>3, <1>9
  <2>2. \A i \in 1 .. e : FALSE
    BY <2>1
  <2>3. Layout(v, e, S, N, B, p)
    BY <1>8, <1>9, <2>1, <2>2 DEF Layout
  <2> QED BY <1>1, <1>5, <2>3
<1>10. CASE n < N /\ d + 1 <= l /\ w[d + 1] = Piece("size", S[n + 1], 1)
  <2>1. e > 0 /\ p <= N /\ 1 \in 1 .. e
    BY <1>0, <1>2, <1>3, <1>10
  <2>2. v[1] = Piece("size", S[p], 1)
    BY <1>3, <1>10, <2>1
  <2>3. Layout(v, e, S, N, B, p)
    BY <1>6, <1>7, <1>8, <2>1, <2>2 DEF Layout
  <2> QED BY <1>1, <1>5, <2>3
<1> QED BY <1>5, <1>9, <1>10

\* v is w, of l bytes, and the length of one more report, of T after S.
SizeAdded(w, l, v, e, S, T, N, M, n) ==
    /\ l \in Nat /\ N \in Nat
    /\ \A m \in 1 .. N : S[m].len \in Nat \ {0} /\ T[m] = S[m] /\ S[m].id = m
    /\ T[N + 1].id = N + 1
    /\ Layout(w, l, S, N, N, n)
    /\ \A i \in 1 .. l : v[i] = w[i]
    /\ v[l + 1] = Piece("size", T[N + 1], 1) /\ v[l + 2] = Piece("size", T[N + 1], 2)
    /\ e = l + 2 /\ M = N + 1

\* The length of another report behind whole reports.
LEMMA LayoutSize ==
  ASSUME NEW w, NEW v, NEW l, NEW S, NEW T, NEW N, NEW n, NEW e, NEW M,
         SizeAdded(w, l, v, e, S, T, N, M, n)
  PROVE  Layout(v, e, T, M, N, n)
<1> SUFFICES
      ASSUME l \in Nat, N \in Nat,
             \A m \in 1 .. N : S[m].len \in Nat \ {0} /\ T[m] = S[m] /\ S[m].id = m,
             T[N + 1].id = N + 1,
             Layout(w, l, S, N, N, n),
             \A i \in 1 .. l : v[i] = w[i],
             v[l + 1] = Piece("size", T[N + 1], 1), v[l + 2] = Piece("size", T[N + 1], 2),
             e = l + 2, M = N + 1
      PROVE  Layout(v, e, T, M, N, n)
  BY DEF SizeAdded
<1>1. ASSUME NEW i \in 1 .. l, NEW m \in 1 .. N + 1, v[i] = Piece("size", T[m], 1)
      PROVE  Block(v, l + 2, T, N + 1, N, i, m)
  <2>1. w[i].id \in 1 .. N /\ w[i] = Piece("size", T[m], 1) /\ T[m].id = m
    BY <1>1 DEF Layout
  <2>2. m \in 1 .. N /\ T[m] = S[m]
    BY <2>1, PieceFields
  <2>3. Block(w, l, S, N, N, i, m)
    BY <2>1, <2>2 DEF Layout
  <2>4. PICK z \in Nat \ {0} : z = S[m].len /\ z = T[m].len
    BY <2>2
  <2>5. i + 1 <= l /\ v[i + 1] = Piece("size", T[m], 2)
    <3>1. i + 1 <= l /\ w[i + 1] = Piece("size", S[m], 2)
      BY <2>3 DEF Block
    <3>2. i + 1 \in 1 .. l
      BY <3>1
    <3> QED BY <2>2, <3>1, <3>2
  <2>6. /\ i + 1 + z <= l
        /\ \A k \in 1 .. z : w[i + 1 + k] = Piece("body", S[m], k)
        /\ \/ m = N /\ l = i + 1 + z
           \/ m < N /\ i + 2 + z <= l /\ w[i + 2 + z] = Piece("size", S[m + 1], 1)
    BY <2>3, <2>4 DEF Block
  <2>7. ASSUME NEW k \in 1 .. z PROVE v[i + 1 + k] = Piece("body", T[m], k)
    <3>1. i + 1 + k \in 1 .. l
      BY <2>6
    <3> QED BY <2>2, <2>6, <3>1
  <2>8. m < N + 1 /\ i + 2 + z <= l + 2 /\ v[i + 2 + z] = Piece("size", T[m + 1], 1)
    <3>1. CASE m = N /\ l = i + 1 + z
      <4>1. i + 2 + z = l + 1
        BY <3>1
      <4> QED BY <3>1, <4>1
    <3>2. CASE m < N /\ i + 2 + z <= l /\ w[i + 2 + z] = Piece("size", S[m + 1], 1)
      <4>1. i + 2 + z \in 1 .. l /\ m + 1 \in 1 .. N
        BY <3>2
      <4> QED BY <3>2, <4>1
    <3> QED BY <2>6, <3>1, <3>2
  <2>9. i + 1 <= l + 2 /\ i + 1 + z <= l + 2
    BY <2>5, <2>6
  <2> QED BY <2>4, <2>5, <2>7, <2>8, <2>9 DEF Block
<1>2. ASSUME NEW m \in 1 .. N + 1, v[l + 1] = Piece("size", T[m], 1)
      PROVE  Block(v, l + 2, T, N + 1, N, l + 1, m)
  <2>1. T[m].id = m /\ T[m].id = T[N + 1].id
    BY <1>2, PieceFields
  <2>2. m = N + 1 /\ (l + 1) + 1 = l + 2 /\ N < N + 1
    BY <2>1
  <2> QED BY <2>2 DEF Block
<1>3. ASSUME NEW m \in 1 .. N + 1 PROVE v[l + 2] # Piece("size", T[m], 1)
  <2>1. v[l + 2].k = 2 /\ Piece("size", T[m], 1).k = 1
    BY PieceFields
  <2> QED BY <2>1
<1>4. ASSUME NEW i \in 1 .. l + 2 PROVE v[i].id \in 1 .. N + 1
  <2>1. CASE i \in 1 .. l
    <3>1. w[i].id \in 1 .. N /\ v[i] = w[i]
      BY <2>1 DEF Layout
    <3> QED BY <3>1
  <2>2. CASE i = l + 1 \/ i = l + 2
    BY <2>2, PieceFields
  <2> QED BY <2>1, <2>2
<1>5. ASSUME NEW i \in 1 .. l + 2, NEW m \in 1 .. N + 1, v[i] = Piece("size", T[m], 1)
      PROVE  Block(v, l + 2, T, N + 1, N, i, m)
  <2>1. i \in 1 .. l \/ i = l + 1 \/ i = l + 2
    OBVIOUS
  <2> QED BY <1>1, <1>2, <1>3, <1>5, <2>1
<1>6. n \in 1 .. (N + 1) + 1 /\ n <= N + 1 /\ l + 2 > 0 /\ v[1] = Piece("size", T[n], 1)
  <2>1. CASE l = 0 /\ n = N + 1
    BY <2>1
  <2>2. CASE l > 0 /\ n \in 1 .. N /\ w[1] = Piece("size", S[n], 1)
    BY <2>2
  <2> QED BY <2>1, <2>2 DEF Layout
<1>7. e = l + 2 /\ M = N + 1
  OBVIOUS
<1>8. Layout(v, l + 2, T, N + 1, N, n)
  BY <1>4, <1>5, <1>6 DEF Layout
<1> QED BY <1>7, <1>8

\* v is w, of l bytes, and the body of the last report, of y bytes.
BodyAdded(w, l, v, e, y, S, N, B, n) ==
    /\ l \in Nat /\ N \in Nat /\ B \in Nat /\ B < N
    /\ \A m \in 1 .. N : S[m].len \in Nat \ {0} /\ S[m].id = m
    /\ Layout(w, l, S, N, B, n)
    /\ y = S[N].len /\ e = l + y
    /\ \A i \in 1 .. l : v[i] = w[i]
    /\ \A k \in 1 .. y : v[l + k] = Piece("body", S[N], k)

\* The body that was still to come.
LEMMA LayoutBody ==
  ASSUME NEW w, NEW v, NEW l, NEW S, NEW N, NEW B, NEW n, NEW e, NEW y,
         BodyAdded(w, l, v, e, y, S, N, B, n)
  PROVE  Layout(v, e, S, N, N, n)
<1> SUFFICES
      ASSUME l \in Nat, N \in Nat, B \in Nat, B < N,
             \A m \in 1 .. N : S[m].len \in Nat \ {0} /\ S[m].id = m,
             Layout(w, l, S, N, B, n),
             y \in Nat \ {0}, y = S[N].len, e = l + y,
             \A i \in 1 .. l : v[i] = w[i],
             \A k \in 1 .. y : v[l + k] = Piece("body", S[N], k)
      PROVE  Layout(v, e, S, N, N, n)
  <2>1. N \in Nat /\ B \in Nat /\ B < N /\ \A m \in 1 .. N : S[m].len \in Nat \ {0}
    BY DEF BodyAdded
  <2>2. N \in 1 .. N
    BY <2>1
  <2>3. S[N].len \in Nat \ {0}
    BY <2>1, <2>2
  <2> QED BY <2>3 DEF BodyAdded
<1>1. l > 0 /\ n <= N /\ n \in 1 .. N + 1 /\ w[1] = Piece("size", S[n], 1)
  BY DEF Layout
<1>2. ASSUME NEW i \in 1 .. l, NEW m \in 1 .. N, v[i] = Piece("size", S[m], 1)
      PROVE  Block(v, l + y, S, N, N, i, m)
  <2>1. Block(w, l, S, N, B, i, m)
    BY <1>2 DEF Layout
  <2>2. PICK z \in Nat \ {0} : z = S[m].len
    OBVIOUS
  <2>3. i + 1 <= l /\ v[i + 1] = Piece("size", S[m], 2)
    <3>1. i + 1 <= l /\ w[i + 1] = Piece("size", S[m], 2)
      BY <2>1 DEF Block
    <3>2. i + 1 \in 1 .. l
      BY <3>1
    <3> QED BY <3>1, <3>2
  <2>4. \/ m = N /\ l = i + 1
        \/ /\ i + 1 + z <= l
           /\ \A k \in 1 .. z : w[i + 1 + k] = Piece("body", S[m], k)
           /\ m < N /\ i + 2 + z <= l /\ w[i + 2 + z] = Piece("size", S[m + 1], 1)
    BY <2>1, <2>2 DEF Block
  <2>5. CASE m = N /\ l = i + 1
    <3>1. z = y /\ i + 1 + z = l + y /\ i + 1 <= l + y
      BY <2>2, <2>5
    <3>2. ASSUME NEW k \in 1 .. z PROVE v[i + 1 + k] = Piece("body", S[m], k)
      BY <2>5, <3>1
    <3> QED BY <2>2, <2>3, <2>5, <3>1, <3>2 DEF Block
  <2>6. CASE /\ i + 1 + z <= l
             /\ \A k \in 1 .. z : w[i + 1 + k] = Piece("body", S[m], k)
             /\ m < N /\ i + 2 + z <= l /\ w[i + 2 + z] = Piece("size", S[m + 1], 1)
    <3>1. ASSUME NEW k \in 1 .. z PROVE v[i + 1 + k] = Piece("body", S[m], k)
      <4>1. i + 1 + k \in 1 .. l
        BY <2>6
      <4> QED BY <2>6, <4>1
    <3>2. v[i + 2 + z] = Piece("size", S[m + 1], 1)
      <4>1. i + 2 + z \in 1 .. l
        BY <2>6
      <4> QED BY <2>6, <4>1
    <3>3. i + 1 <= l + y /\ i + 1 + z <= l + y /\ i + 2 + z <= l + y
      BY <2>6
    <3> QED BY <2>2, <2>3, <2>6, <3>1, <3>2, <3>3 DEF Block
  <2> QED BY <2>4, <2>5, <2>6
<1>3. \A i \in 1 .. l + y : i \in 1 .. l \/ \E k \in 1 .. y : i = l + k
  <2> SUFFICES ASSUME NEW i \in 1 .. l + y, i \notin 1 .. l
               PROVE  \E k \in 1 .. y : i = l + k
    OBVIOUS
  <2>1. i - l \in 1 .. y /\ i = l + (i - l)
    OBVIOUS
  <2> QED BY <2>1
<1>4. ASSUME NEW i \in 1 .. l + y, NEW m \in 1 .. N, v[i] = Piece("size", S[m], 1)
      PROVE  i \in 1 .. l
  <2>1. ASSUME NEW k \in 1 .. y, i = l + k PROVE FALSE
    <3>1. v[i] = Piece("body", S[N], k)
      BY <2>1
    <3>2. v[i].kind = "body" /\ v[i].kind = "size"
      BY <1>4, <3>1, PieceFields
    <3> QED BY <3>2
  <2> QED BY <1>3, <2>1
<1>5. ASSUME NEW i \in 1 .. l + y PROVE v[i].id \in 1 .. N
  <2>1. CASE i \in 1 .. l
    <3>1. w[i].id \in 1 .. N /\ v[i] = w[i]
      BY <2>1 DEF Layout
    <3> QED BY <3>1
  <2>2. ASSUME NEW k \in 1 .. y, i = l + k PROVE v[i].id \in 1 .. N
    <3>1. v[i].id = S[N].id /\ N \in 1 .. N
      BY <2>2, PieceFields
    <3> QED BY <3>1
  <2> QED BY <1>3, <2>1, <2>2
<1>6. l + y > 0 /\ v[1] = Piece("size", S[n], 1)
  <2>1. 1 \in 1 .. l
    BY <1>1
  <2> QED BY <1>1, <2>1
<1> QED BY <1>1, <1>2, <1>4, <1>5, <1>6 DEF Layout

-----------------------------------------------------------------------------
(* The same with the buffer of the reader, the stream of the pipe, and the *)
(* length that was cut off put back in front of them.                      *)

\* Sequences of bytes, and what the lemmas below need of them.
Bytes(q)   == q \in Seq(Pieces)
Count(q)   == Len(q)
Cat(q, p)  == q \o p
Rest(q, m) == SubSeq(q, m + 1, Len(q))

Ahead(b, t, z, r) == IF z = 0 THEN Cat(b, t) ELSE Cat(SizeBytes(r), Cat(b, t))

\* The reader, with b in its buffer, t in the pipe and z in its m_sizes, is at
\* the n-th of the N reports S.
Sync(b, t, z, S, N, B, n) ==
    /\ z = 0 \/ (n <= N /\ z = S[n].len)
    /\ Layout(Ahead(b, t, z, S[n]), Count(Ahead(b, t, z, S[n])), S, N, B, n)

\* Joining bytes is associative.
LEMMA Associative ==
  ASSUME NEW q, NEW b, NEW t, Bytes(q), Bytes(b), Bytes(t)
  PROVE  Cat(Cat(q, b), t) = Cat(q, Cat(b, t))
  BY ConcatAssociative DEF Bytes, Cat

\* Joined bytes.
LEMMA Joined ==
  ASSUME NEW q, NEW b, Bytes(q), Bytes(b)
  PROVE  /\ Bytes(Cat(q, b)) /\ Count(q) \in Nat /\ Count(b) \in Nat
         /\ Count(Cat(q, b)) = Count(q) + Count(b)
         /\ \A i \in 1 .. Count(q) : Cat(q, b)[i] = q[i]
         /\ \A i \in 1 .. Count(b) : Cat(q, b)[Count(q) + i] = b[i]
  BY DEF Bytes, Cat, Count

\* Bytes that were cut.
LEMMA Cutted ==
  ASSUME NEW q, Bytes(q), NEW m \in Nat, m <= Count(q)
  PROVE  /\ Count(q) \in Nat /\ Bytes(Rest(q, m)) /\ Count(Rest(q, m)) = Count(q) - m
         /\ \A i \in 1 .. Count(q) - m : Rest(q, m)[i] = q[m + i]
         /\ Bytes(SubSeq(q, 1, m)) /\ Count(SubSeq(q, 1, m)) = m
         /\ \A i \in 1 .. m : SubSeq(q, 1, m)[i] = q[i]
  BY DEF Bytes, Count, Rest

\* The same bytes are the same sequence.
LEMMA Same ==
  ASSUME NEW q, NEW p, Bytes(q), Bytes(p), Count(q) = Count(p),
         \A i \in 1 .. Count(q) : q[i] = p[i]
  PROVE  q = p
  BY SameSeq DEF Bytes, Count

\* The length that was cut off, in front of other bytes.
LEMMA Prepend ==
  ASSUME NEW r \in Reports, NEW q, Bytes(q)
  PROVE  /\ Bytes(Cat(SizeBytes(r), q)) /\ Count(Cat(SizeBytes(r), q)) = 2 + Count(q)
         /\ Cat(SizeBytes(r), q)[1] = Piece("size", r, 1)
         /\ Cat(SizeBytes(r), q)[2] = Piece("size", r, 2)
         /\ \A i \in 1 .. Count(q) : Cat(SizeBytes(r), q)[2 + i] = q[i]
<1>1. PICK x : x = Piece("size", r, 1)
  OBVIOUS
<1>2. PICK y : y = Piece("size", r, 2)
  OBVIOUS
<1>3. SizeBytes(r) = <<x, y>> /\ Bytes(SizeBytes(r))
  BY <1>1, <1>2, BytesType DEF SizeBytes, Bytes
<1>4. PICK a : a = SizeBytes(r)
  OBVIOUS
<1>5. Bytes(a) /\ Count(a) = 2 /\ a[1] = x /\ a[2] = y
  BY <1>3, <1>4 DEF Count
<1>6. 1 \in 1 .. Count(a) /\ 2 \in 1 .. Count(a)
  BY <1>5
<1> QED BY <1>1, <1>2, <1>4, <1>5, <1>6, Joined

\* What is left when the reader cuts m bytes off its buffer.
LEMMA CutJoin ==
  ASSUME NEW b, NEW t, Bytes(b), Bytes(t), NEW m \in Nat, m <= Count(b)
  PROVE  /\ Bytes(Cat(Rest(b, m), t)) /\ Bytes(Cat(b, t))
         /\ Count(b) \in Nat /\ Count(t) \in Nat /\ Count(Cat(b, t)) = Count(b) + Count(t)
         /\ Count(Cat(Rest(b, m), t)) = Count(Cat(b, t)) - m
         /\ \A i \in 1 .. Count(Cat(b, t)) - m : Cat(Rest(b, m), t)[i] = Cat(b, t)[m + i]
         /\ \A i \in 1 .. Count(b) : Cat(b, t)[i] = b[i]
<1>1. PICK y, x : y = Count(b) /\ x = Count(t)
  OBVIOUS
<1>2. PICK a : a = Rest(b, m)
  OBVIOUS
<1>3. Bytes(a) /\ y \in Nat /\ Count(a) = y - m /\ \A i \in 1 .. y - m : a[i] = b[m + i]
  BY <1>1, <1>2, Cutted
<1>4. PICK v : v = Cat(a, t)
  OBVIOUS
<1>5. /\ Bytes(v) /\ x \in Nat /\ Count(v) = (y - m) + x
      /\ \A i \in 1 .. y - m : v[i] = a[i]
      /\ \A i \in 1 .. x : v[(y - m) + i] = t[i]
  BY <1>1, <1>3, <1>4, Joined
<1>6. PICK w : w = Cat(b, t)
  OBVIOUS
<1>7. /\ Bytes(w) /\ Count(w) = y + x
      /\ \A i \in 1 .. y : w[i] = b[i]
      /\ \A i \in 1 .. x : w[y + i] = t[i]
  BY <1>1, <1>6, Joined
<1>8. m \in 0 .. y /\ x \in Nat /\ y \in Nat
  BY <1>1, <1>3, <1>5
<1>9. ASSUME NEW i \in 1 .. (y + x) - m PROVE v[i] = w[m + i]
  <2>1. CASE i <= y - m
    <3>1. i \in 1 .. y - m /\ m + i \in 1 .. y
      BY <1>8, <2>1
    <3> QED BY <1>3, <1>5, <1>7, <3>1
  <2>2. CASE i > y - m
    <3>1. PICK j : j = i - (y - m)
      OBVIOUS
    <3>2. j \in 1 .. x /\ (y - m) + j = i /\ y + j = m + i
      BY <1>8, <2>2, <3>1
    <3> QED BY <1>5, <1>7, <3>2
  <2> QED BY <1>8, <2>1, <2>2
<1>10. Count(w) - m = (y + x) - m /\ Count(v) = Count(w) - m
  BY <1>5, <1>7, <1>8
<1> QED BY <1>1, <1>2, <1>4, <1>5, <1>6, <1>7, <1>9, <1>10

\* Bytes that move from the pipe to the buffer.
LEMMA ReadJoin ==
  ASSUME NEW b, NEW t, Bytes(b), Bytes(t), NEW m \in Nat, m <= Count(t)
  PROVE  Cat(Cat(b, SubSeq(t, 1, m)), Rest(t, m)) = Cat(b, t)
<1>1. PICK p : p = SubSeq(t, 1, m)
  OBVIOUS
<1>2. PICK q : q = Rest(t, m)
  OBVIOUS
<1>3. PICK x : x = Count(t)
  OBVIOUS
<1>4. /\ x \in Nat /\ Bytes(p) /\ Count(p) = m /\ \A i \in 1 .. m : p[i] = t[i]
      /\ Bytes(q) /\ Count(q) = x - m /\ \A i \in 1 .. x - m : q[i] = t[m + i]
  BY <1>1, <1>2, <1>3, Cutted
<1>5. PICK u : u = Cat(p, q)
  OBVIOUS
<1>6. /\ Bytes(u) /\ Count(u) = m + (x - m)
      /\ \A i \in 1 .. m : u[i] = p[i]
      /\ \A i \in 1 .. x - m : u[m + i] = q[i]
  BY <1>4, <1>5, Joined
<1>7. ASSUME NEW i \in 1 .. x PROVE u[i] = t[i]
  <2>1. CASE i <= m
    BY <1>4, <1>6, <2>1
  <2>2. CASE i > m
    <3>1. PICK j : j = i - m
      OBVIOUS
    <3>2. j \in 1 .. x - m /\ m + j = i
      BY <1>4, <2>2, <3>1
    <3> QED BY <1>4, <1>6, <3>2
  <2> QED BY <1>4, <2>1, <2>2
<1>8. u = t
  <2>1. Count(u) = x
    BY <1>4, <1>6
  <2> QED BY <1>3, <1>6, <1>7, <2>1, Same
<1> QED BY <1>1, <1>2, <1>4, <1>5, <1>8, Associative

\* Bytes that are written come last ...
LEMMA WriteJoin ==
  ASSUME NEW g, NEW t, NEW a, Bytes(g), Bytes(t), Bytes(a)
  PROVE  /\ Count(Cat(g, t)) \in Nat
         /\ Count(Cat(g, Cat(t, a))) = Count(Cat(g, t)) + Count(a)
         /\ \A i \in 1 .. Count(Cat(g, t)) : Cat(g, Cat(t, a))[i] = Cat(g, t)[i]
         /\ \A i \in 1 .. Count(a) : Cat(g, Cat(t, a))[Count(Cat(g, t)) + i] = a[i]
<1>1. PICK w : w = Cat(g, t)
  OBVIOUS
<1>2. Bytes(w) /\ Cat(g, Cat(t, a)) = Cat(w, a)
  BY <1>1, Joined, Associative
<1> QED BY <1>1, <1>2, Joined

\* ... and so they do in what is ahead of the reader.
LEMMA AheadJoin ==
  ASSUME NEW b, NEW t, NEW a, Bytes(b), Bytes(t), Bytes(a), NEW z, NEW r,
         z # 0 => r \in Reports
  PROVE  /\ Count(Ahead(b, t, z, r)) \in Nat
         /\ Count(Ahead(b, Cat(t, a), z, r)) = Count(Ahead(b, t, z, r)) + Count(a)
         /\ \A i \in 1 .. Count(Ahead(b, t, z, r)) :
              Ahead(b, Cat(t, a), z, r)[i] = Ahead(b, t, z, r)[i]
         /\ \A i \in 1 .. Count(a) :
              Ahead(b, Cat(t, a), z, r)[Count(Ahead(b, t, z, r)) + i] = a[i]
<1>1. CASE z = 0
  BY <1>1, WriteJoin DEF Ahead
<1>2. CASE z # 0
  <2>1. PICK h : h = SizeBytes(r)
    OBVIOUS
  <2>2. Bytes(h)
    BY <1>2, <2>1, BytesType DEF Bytes
  <2>3. Bytes(Cat(h, b)) /\ Bytes(Cat(t, a))
    BY <2>2, Joined
  <2>4. /\ Cat(h, Cat(b, t)) = Cat(Cat(h, b), t)
        /\ Cat(h, Cat(b, Cat(t, a))) = Cat(Cat(h, b), Cat(t, a))
    BY <2>2, <2>3, Associative
  <2>5. /\ Ahead(b, t, z, r) = Cat(Cat(h, b), t)
        /\ Ahead(b, Cat(t, a), z, r) = Cat(Cat(h, b), Cat(t, a))
    BY <1>2, <2>1, <2>4 DEF Ahead
  <2> QED BY <2>3, <2>5, WriteJoin
<1> QED BY <1>1, <1>2

\* The reader is at a report that was sent, unless nothing is there for it.
LEMMA SyncHead ==
  ASSUME NEW b, NEW t, NEW z, NEW S, NEW N \in Nat, NEW B, NEW n,
         Sync(b, t, z, S, N, B, n)
  PROVE  n \in 1 .. N + 1 /\ (z # 0 => n \in 1 .. N /\ z = S[n].len)
<1>1. n \in 1 .. N + 1
  BY DEF Sync, Layout
<1>2. z # 0 => n <= N /\ z = S[n].len
  BY DEF Sync
<1> QED BY <1>1, <1>2

\* processData cuts a length off the buffer: it is that of the report the
\* reader is at.
LEMMA SyncCutSize ==
  ASSUME NEW b, NEW t, Bytes(b), Bytes(t), NEW S, NEW N \in Nat,
         \A m \in 1 .. N : S[m] \in Reports, NEW B \in Nat, NEW n,
         Sync(b, t, 0, S, N, B, n), Count(b) >= 2
  PROVE  /\ n \in 1 .. N /\ LengthOf(b[1], b[2]) = {S[n].len}
         /\ Sync(Rest(b, 2), t, S[n].len, S, N, B, n)
<1>0. PICK v, w, l : v = Cat(Rest(b, 2), t) /\ w = Cat(b, t) /\ l = Count(w)
  OBVIOUS
<1>1. /\ Bytes(v) /\ Bytes(w) /\ Count(b) \in Nat /\ Count(t) \in Nat /\ l = Count(b) + Count(t)
      /\ Count(v) = l - 2 /\ \A i \in 1 .. l - 2 : v[i] = w[2 + i]
      /\ \A i \in 1 .. Count(b) : w[i] = b[i]
  <2>1. PICK m \in Nat : m = 2
    OBVIOUS
  <2>2. m <= Count(b)
    BY <2>1
  <2>3. /\ Bytes(Cat(Rest(b, m), t)) /\ Bytes(Cat(b, t))
        /\ Count(b) \in Nat /\ Count(t) \in Nat /\ Count(Cat(b, t)) = Count(b) + Count(t)
        /\ Count(Cat(Rest(b, m), t)) = Count(Cat(b, t)) - m
        /\ \A i \in 1 .. Count(Cat(b, t)) - m :
             Cat(Rest(b, m), t)[i] = Cat(b, t)[m + i]
        /\ \A i \in 1 .. Count(b) : Cat(b, t)[i] = b[i]
    BY <2>2, CutJoin
  <2> QED BY <1>0, <2>1, <2>2, <2>3
<1>2. Layout(w, l, S, N, B, n)
  BY <1>0 DEF Sync, Ahead
<1>3. l \in Nat /\ l >= 2
  BY <1>1
<1>4. n \in 1 .. N /\ w[1] = Piece("size", S[n], 1) /\ w[2] = Piece("size", S[n], 2)
  BY <1>2, <1>3, LayoutHead
<1>5. b[1] = Piece("size", S[n], 1) /\ b[2] = Piece("size", S[n], 2)
  <2>1. 1 \in 1 .. Count(b) /\ 2 \in 1 .. Count(b)
    BY <1>1
  <2> QED BY <1>1, <1>4, <2>1
<1>6. LengthOf(b[1], b[2]) = {S[n].len}
  BY <1>5, PieceFields DEF LengthOf
<1>7. S[n] \in Reports /\ S[n].len \in Nat \ {0}
  BY <1>4, ReportFields
<1>8. Cat(SizeBytes(S[n]), v) = w
  <2>0. PICK u : u = Cat(SizeBytes(S[n]), v)
    OBVIOUS
  <2>1. /\ Bytes(u) /\ Count(u) = 2 + Count(v)
        /\ u[1] = Piece("size", S[n], 1) /\ u[2] = Piece("size", S[n], 2)
        /\ \A i \in 1 .. Count(v) : u[2 + i] = v[i]
    BY <1>1, <1>7, <2>0, Prepend
  <2>2. Count(u) = l
    BY <1>1, <1>3, <2>1
  <2>3. ASSUME NEW i \in 1 .. l PROVE u[i] = w[i]
    <3>1. CASE i = 1 \/ i = 2
      BY <1>4, <2>1, <3>1
    <3>2. CASE i > 2
      <4>1. i - 2 \in 1 .. l - 2 /\ 2 + (i - 2) = i
        BY <1>3, <3>2
      <4>2. PICK j \in 1 .. l - 2 : j = i - 2 /\ 2 + j = i
        BY <4>1
      <4>3. u[2 + j] = v[j] /\ v[j] = w[2 + j]
        BY <1>1, <2>1
      <4> QED BY <4>2, <4>3
    <3> QED BY <3>1, <3>2
  <2>4. u = w
    BY <1>0, <1>1, <2>1, <2>2, <2>3, Same
  <2> QED BY <2>0, <2>4
<1>9. Ahead(Rest(b, 2), t, S[n].len, S[n]) = w
  BY <1>0, <1>7, <1>8 DEF Ahead
<1>10. Sync(Rest(b, 2), t, S[n].len, S, N, B, n)
  <2>1. n <= N
    BY <1>4
  <2> QED BY <1>0, <1>2, <1>9, <2>1 DEF Sync
<1> QED BY <1>4, <1>6, <1>10

\* processData cuts a frame off the buffer: it is the report the reader is at.
LEMMA SyncCutFrame ==
  ASSUME NEW b, NEW t, Bytes(b), Bytes(t), NEW z \in Nat \ {0}, z <= Count(b),
         NEW S, NEW N \in Nat, \A m \in 1 .. N : S[m] \in Reports, NEW B \in Nat, NEW n,
         Sync(b, t, z, S, N, B, n)
  PROVE  /\ n \in 1 .. N /\ z = S[n].len
         /\ SubSeq(b, 1, z) = BodyBytes(S[n])
         /\ Sync(Rest(b, z), t, 0, S, N, B, n + 1)
<1>1. n \in 1 .. N /\ z = S[n].len /\ S[n] \in Reports
  BY SyncHead
<1>0. PICK q, w, v, l : /\ q = Cat(b, t) /\ w = Cat(SizeBytes(S[n]), q)
                        /\ v = Cat(Rest(b, z), t) /\ l = Count(w)
  OBVIOUS
<1>2. Layout(w, l, S, N, B, n)
  BY <1>0 DEF Sync, Ahead
<1>3. /\ Bytes(v) /\ Bytes(q) /\ Count(b) \in Nat /\ Count(t) \in Nat /\ Count(q) = Count(b) + Count(t)
      /\ Count(v) = Count(q) - z /\ \A i \in 1 .. Count(q) - z : v[i] = q[z + i]
      /\ \A i \in 1 .. Count(b) : q[i] = b[i]
  BY <1>0, CutJoin
<1>4. l = 2 + Count(q) /\ \A i \in 1 .. Count(q) : w[2 + i] = q[i]
  BY <1>0, <1>1, <1>3, Prepend
<1>5. Count(q) \in Nat
  BY <1>3
<1>6. PICK e, p : e = l - (2 + z) /\ p = n + 1
  OBVIOUS
<1>7. l \in Nat /\ l >= 2 + z /\ e = Count(v) /\ e = Count(q) - z
  BY <1>3, <1>4, <1>5, <1>6
<1>8. \A i \in 1 .. e : v[i] = w[(2 + z) + i]
  <2> SUFFICES ASSUME NEW i \in 1 .. Count(q) - z PROVE v[i] = w[(2 + z) + i]
    BY <1>7
  <2>1. z + i \in 1 .. Count(q)
    BY <1>5
  <2>2. w[2 + (z + i)] = q[z + i] /\ 2 + (z + i) = (2 + z) + i
    BY <1>4, <2>1
  <2> QED BY <1>3, <2>2
<1>9. \A m \in 1 .. N : S[m].len \in Nat \ {0}
  BY ReportFields
<1>10. /\ \A k \in 1 .. z : w[2 + k] = Piece("body", S[n], k)
       /\ Layout(v, e, S, N, B, p)
  <2>1. FirstCut(w, l, v, e, z, S, N, B, n, p)
    BY <1>1, <1>2, <1>6, <1>7, <1>8, <1>9 DEF FirstCut
  <2> QED BY <2>1, LayoutCut
<1>11. SubSeq(b, 1, z) = BodyBytes(S[n])
  <2>1. PICK f : f = SubSeq(b, 1, z)
    OBVIOUS
  <2>2. Bytes(f) /\ Count(f) = z /\ \A i \in 1 .. z : f[i] = b[i]
    BY <2>1, Cutted
  <2>3. PICK g : g = BodyBytes(S[n])
    OBVIOUS
  <2>4. Bytes(g) /\ Count(g) = z /\ \A i \in 1 .. z : g[i] = Piece("body", S[n], i)
    <3>1. g \in Seq(Pieces)
      BY <1>1, <2>3, BytesType
    <3>2. g = [k \in 1 .. z |-> Piece("body", S[n], k)]
      BY <1>1, <2>3 DEF BodyBytes
    <3> QED BY <3>1, <3>2 DEF Bytes, Count
  <2>5. ASSUME NEW i \in 1 .. z PROVE f[i] = g[i]
    <3>1. i \in 1 .. Count(b) /\ i \in 1 .. Count(q)
      BY <1>3, <1>5
    <3>2. w[2 + i] = q[i] /\ q[i] = b[i] /\ w[2 + i] = Piece("body", S[n], i)
      BY <1>3, <1>4, <1>10, <3>1
    <3> QED BY <2>2, <2>4, <3>2
  <2>6. f = g
    BY <2>2, <2>4, <2>5, Same
  <2> QED BY <2>1, <2>3, <2>6
<1>12. Ahead(Rest(b, z), t, 0, S[n + 1]) = v
  BY <1>0 DEF Ahead
<1>13. Sync(Rest(b, z), t, 0, S, N, B, n + 1)
  BY <1>6, <1>7, <1>10, <1>12 DEF Sync
<1> QED BY <1>1, <1>11, <1>13

\* send writes the length of the next report.
LEMMA SyncSendSize ==
  ASSUME NEW b, NEW t, Bytes(b), Bytes(t), NEW z, NEW S, NEW T, NEW N \in Nat, NEW n,
         \A m \in 1 .. N : S[m] \in Reports /\ S[m].id = m /\ T[m] = S[m],
         Sync(b, t, z, S, N, N, n),
         NEW r \in Reports, r.id = N + 1, T[N + 1] = r
  PROVE  Sync(b, Cat(t, SizeBytes(r)), z, T, N + 1, N, n)
<1>1. n \in 1 .. N + 1 /\ (z # 0 => n \in 1 .. N /\ z = S[n].len)
  BY SyncHead
<1>2. z # 0 => S[n] \in Reports /\ T[n] = S[n]
  BY <1>1
<1>3. PICK a : a = SizeBytes(r)
  OBVIOUS
<1>4. Bytes(a) /\ Count(a) = 2 /\ a[1] = Piece("size", r, 1) /\ a[2] = Piece("size", r, 2)
  BY <1>3, BytesType DEF SizeBytes, Bytes, Count
<1>5. PICK w : w = Ahead(b, t, z, S[n])
  OBVIOUS
<1>6. PICK v : v = Ahead(b, Cat(t, a), z, S[n])
  OBVIOUS
<1>7. v = Ahead(b, Cat(t, a), z, T[n])
  BY <1>2, <1>6 DEF Ahead
<1>8. /\ Count(w) \in Nat /\ Count(v) = Count(w) + Count(a)
      /\ \A i \in 1 .. Count(w) : v[i] = w[i]
      /\ \A i \in 1 .. Count(a) : v[Count(w) + i] = a[i]
  BY <1>2, <1>4, <1>5, <1>6, AheadJoin
<1>9. PICK l \in Nat : l = Count(w)
  BY <1>8
<1>10. PICK e, M : e = l + 2 /\ M = N + 1
  OBVIOUS
<1>11. /\ Count(v) = e /\ \A i \in 1 .. l : v[i] = w[i]
       /\ v[l + 1] = Piece("size", T[N + 1], 1) /\ v[l + 2] = Piece("size", T[N + 1], 2)
  <2>1. 1 \in 1 .. Count(a) /\ 2 \in 1 .. Count(a)
    BY <1>4
  <2> QED BY <1>4, <1>8, <1>9, <1>10, <2>1
<1>12. Layout(w, l, S, N, N, n)
  BY <1>5, <1>9 DEF Sync
<1>13. \A m \in 1 .. N : S[m].len \in Nat \ {0} /\ T[m] = S[m] /\ S[m].id = m
  BY ReportFields
<1>14. T[N + 1].id = N + 1
  OBVIOUS
<1>15. Layout(v, e, T, M, N, n)
  <2>1. SizeAdded(w, l, v, e, S, T, N, M, n)
    BY <1>10, <1>11, <1>12, <1>13, <1>14 DEF SizeAdded
  <2> QED BY <2>1, LayoutSize
<1>16. z = 0 \/ (n <= M /\ z = T[n].len)
  BY <1>1, <1>2, <1>10
<1>17. Sync(b, Cat(t, a), z, T, M, N, n)
  BY <1>7, <1>11, <1>15, <1>16 DEF Sync
<1> QED BY <1>3, <1>10, <1>17

\* send writes the body of the last report.
LEMMA SyncSendBody ==
  ASSUME NEW b, NEW t, Bytes(b), Bytes(t), NEW z, NEW S, NEW N \in Nat, NEW n,
         \A m \in 1 .. N : S[m] \in Reports /\ S[m].id = m,
         NEW B \in Nat, B < N, Sync(b, t, z, S, N, B, n)
  PROVE  Sync(b, Cat(t, BodyBytes(S[N])), z, S, N, N, n)
<1>1. n \in 1 .. N + 1 /\ (z # 0 => n \in 1 .. N /\ z = S[n].len)
  BY SyncHead
<1>2. z # 0 => S[n] \in Reports
  BY <1>1
<1>3. N \in 1 .. N
  OBVIOUS
<1>4. S[N] \in Reports /\ S[N].len \in Nat \ {0}
  BY <1>3, ReportFields
<1>5. PICK y \in Nat \ {0} : y = S[N].len
  BY <1>4
<1>6. PICK a : a = BodyBytes(S[N])
  OBVIOUS
<1>7. Bytes(a) /\ Count(a) = y /\ \A k \in 1 .. y : a[k] = Piece("body", S[N], k)
  <2>1. a \in Seq(Pieces)
    BY <1>4, <1>6, BytesType
  <2>2. a = [k \in 1 .. y |-> Piece("body", S[N], k)]
    BY <1>5, <1>6 DEF BodyBytes
  <2> QED BY <2>1, <2>2 DEF Bytes, Count
<1>8. PICK w : w = Ahead(b, t, z, S[n])
  OBVIOUS
<1>9. PICK v : v = Ahead(b, Cat(t, a), z, S[n])
  OBVIOUS
<1>10. /\ Count(w) \in Nat /\ Count(v) = Count(w) + Count(a)
       /\ \A i \in 1 .. Count(w) : v[i] = w[i]
       /\ \A i \in 1 .. Count(a) : v[Count(w) + i] = a[i]
  BY <1>2, <1>7, <1>8, <1>9, AheadJoin
<1>11. PICK l \in Nat : l = Count(w)
  BY <1>10
<1>12. PICK e : e = l + y
  OBVIOUS
<1>13. /\ Count(v) = e /\ \A i \in 1 .. l : v[i] = w[i]
       /\ \A k \in 1 .. y : v[l + k] = Piece("body", S[N], k)
  BY <1>7, <1>10, <1>11, <1>12
<1>14. Layout(w, l, S, N, B, n)
  BY <1>8, <1>11 DEF Sync
<1>15. \A m \in 1 .. N : S[m].len \in Nat \ {0} /\ S[m].id = m
  BY ReportFields
<1>16. Layout(v, e, S, N, N, n)
  <2>1. BodyAdded(w, l, v, e, y, S, N, B, n)
    BY <1>5, <1>12, <1>13, <1>14, <1>15 DEF BodyAdded
  <2> QED BY <2>1, LayoutBody
<1>17. z = 0 \/ (n <= N /\ z = S[n].len)
  BY DEF Sync
<1>18. Sync(b, Cat(t, a), z, S, N, N, n)
  BY <1>9, <1>13, <1>16, <1>17 DEF Sync
<1> QED BY <1>6, <1>18

-----------------------------------------------------------------------------
(* The reports that were cut out of the stream and wait for the event loop.*)

\* Of the l events ev, those of client c are its reports after the d-th that
\* precede the n-th of the N it sent, S, each once and in order.
Queued(ev, l, c, d, S, N, n) ==
    /\ n \in d + 1 .. N + 1
    /\ \A i \in 1 .. l : ev[i].from = c =>
         ev[i].id \in d + 1 .. n - 1 /\ ev[i].len = S[ev[i].id].len
    /\ \A i, j \in 1 .. l : i < j /\ ev[i].from = c /\ ev[j].from = c => ev[i].id < ev[j].id
    /\ \A id \in d + 1 .. n - 1 : \E i \in 1 .. l : ev[i].from = c /\ ev[i].id = id

\* A report that is sent changes nothing yet.
LEMMA QueuedSent ==
  ASSUME NEW ev, NEW l \in Nat, NEW c, NEW d \in Nat, NEW N \in Nat, NEW n, NEW S, NEW T,
         \A m \in 1 .. N : T[m] = S[m], Queued(ev, l, c, d, S, N, n)
  PROVE  Queued(ev, l, c, d, T, N + 1, n)
<1>1. n \in d + 1 .. (N + 1) + 1
  BY DEF Queued
<1>2. ASSUME NEW i \in 1 .. l, ev[i].from = c
      PROVE  ev[i].id \in d + 1 .. n - 1 /\ ev[i].len = T[ev[i].id].len
  <2>1. ev[i].id \in d + 1 .. n - 1 /\ ev[i].len = S[ev[i].id].len /\ n \in d + 1 .. N + 1
    BY <1>2 DEF Queued
  <2>2. PICK k \in d + 1 .. n - 1 : k = ev[i].id
    BY <2>1
  <2>3. k \in 1 .. N
    BY <2>1
  <2> QED BY <2>1, <2>2, <2>3
<1> QED BY <1>1, <1>2 DEF Queued

\* The n-th report is posted.
LEMMA QueuedPost ==
  ASSUME NEW ev, NEW v, NEW l \in Nat, NEW c, NEW d \in Nat, NEW S, NEW N \in Nat,
         NEW n \in 1 .. N, Queued(ev, l, c, d, S, N, n),
         \A i \in 1 .. l : v[i] = ev[i],
         v[l + 1].from = c, v[l + 1].id = n, v[l + 1].len = S[n].len
  PROVE  Queued(v, l + 1, c, d, S, N, n + 1)
<1>1. n \in d + 1 .. N + 1 /\ n + 1 \in d + 1 .. N + 1
  BY DEF Queued
<1>2. \A i \in 1 .. l + 1 : i \in 1 .. l \/ i = l + 1
  OBVIOUS
<1>3. ASSUME NEW i \in 1 .. l + 1, v[i].from = c
      PROVE  v[i].id \in d + 1 .. (n + 1) - 1 /\ v[i].len = S[v[i].id].len
  <2>1. CASE i \in 1 .. l
    <3>1. v[i].id \in d + 1 .. n - 1 /\ v[i].len = S[v[i].id].len
      BY <1>3, <2>1 DEF Queued
    <3> QED BY <1>1, <3>1
  <2>2. CASE i = l + 1
    BY <1>1, <2>2
  <2> QED BY <1>2, <2>1, <2>2
<1>4. ASSUME NEW i \in 1 .. l + 1, NEW j \in 1 .. l + 1, i < j, v[i].from = c, v[j].from = c
      PROVE  v[i].id < v[j].id
  <2>1. i \in 1 .. l
    BY <1>4
  <2>2. CASE j \in 1 .. l
    BY <1>4, <2>1, <2>2 DEF Queued
  <2>3. CASE j = l + 1
    <3>1. v[i].id \in d + 1 .. n - 1 /\ v[j].id = n
      BY <1>4, <2>1, <2>3 DEF Queued
    <3> QED BY <1>1, <3>1
  <2> QED BY <1>2, <2>2, <2>3
<1>5. ASSUME NEW id \in d + 1 .. (n + 1) - 1
      PROVE  \E i \in 1 .. l + 1 : v[i].from = c /\ v[i].id = id
  <2>1. CASE id = n
    <3>1. l + 1 \in 1 .. l + 1
      OBVIOUS
    <3> QED BY <2>1, <3>1
  <2>2. CASE id # n
    <3>1. id \in d + 1 .. n - 1
      BY <1>1, <2>2
    <3>2. PICK i \in 1 .. l : ev[i].from = c /\ ev[i].id = id
      BY <3>1 DEF Queued
    <3>3. i \in 1 .. l + 1
      OBVIOUS
    <3> QED BY <3>2, <3>3
  <2> QED BY <2>1, <2>2
<1> QED BY <1>1, <1>3, <1>4, <1>5 DEF Queued

\* A report of another client is posted.
LEMMA QueuedPostOther ==
  ASSUME NEW ev, NEW v, NEW l \in Nat, NEW c, NEW d \in Nat, NEW S, NEW N \in Nat,
         NEW n, Queued(ev, l, c, d, S, N, n),
         \A i \in 1 .. l : v[i] = ev[i], v[l + 1].from # c
  PROVE  Queued(v, l + 1, c, d, S, N, n)
<1>1. \A i \in 1 .. l + 1 : v[i].from = c => i \in 1 .. l
  OBVIOUS
<1>2. ASSUME NEW id \in d + 1 .. n - 1
      PROVE  \E i \in 1 .. l + 1 : v[i].from = c /\ v[i].id = id
  <2>1. PICK i \in 1 .. l : ev[i].from = c /\ ev[i].id = id
    BY <1>2 DEF Queued
  <2>2. i \in 1 .. l + 1
    OBVIOUS
  <2> QED BY <2>1, <2>2
<1> QED BY <1>1, <1>2 DEF Queued

\* v is ev, of l events, without the oldest one; e counts it if it is the client's.
HeadGone(ev, v, l, c, d, e, S, N, n) ==
    /\ l \in Nat \ {0} /\ d \in Nat /\ N \in Nat
    /\ Queued(ev, l, c, d, S, N, n)
    /\ \A i \in 1 .. l - 1 : v[i] = ev[i + 1]
    /\ e = IF ev[1].from = c THEN d + 1 ELSE d

\* The oldest event, if it is the client's, is its next report ...
LEMMA QueuedHead ==
  ASSUME NEW ev, NEW v, NEW l, NEW c, NEW d, NEW e, NEW S, NEW N, NEW n,
         HeadGone(ev, v, l, c, d, e, S, N, n)
  PROVE  ev[1].from = c =>
           ev[1].id = d + 1 /\ d + 1 \in 1 .. N /\ ev[1].len = S[d + 1].len /\ d + 1 < n
<1> SUFFICES
      ASSUME l \in Nat \ {0}, d \in Nat, N \in Nat, Queued(ev, l, c, d, S, N, n),
             ev[1].from = c
      PROVE  ev[1].id = d + 1 /\ d + 1 \in 1 .. N /\ ev[1].len = S[d + 1].len /\ d + 1 < n
  BY DEF HeadGone
<1>1. 1 \in 1 .. l
  OBVIOUS
<1>2. ev[1].id \in d + 1 .. n - 1 /\ ev[1].len = S[ev[1].id].len /\ n \in d + 1 .. N + 1
  BY <1>1 DEF Queued
<1>3. d + 1 \in d + 1 .. n - 1
  BY <1>2
<1>4. PICK i \in 1 .. l : ev[i].from = c /\ ev[i].id = d + 1
  BY <1>3 DEF Queued
<1>5. i # 1 => ev[1].id < d + 1
  BY <1>1, <1>4 DEF Queued
<1>6. ev[1].id = d + 1
  BY <1>2, <1>4, <1>5
<1> QED BY <1>2, <1>3, <1>6

\* ... and its going leaves the ones after it.
LEMMA QueuedTail ==
  ASSUME NEW ev, NEW v, NEW l, NEW c, NEW d, NEW e, NEW S, NEW N, NEW n,
         HeadGone(ev, v, l, c, d, e, S, N, n)
  PROVE  /\ Queued(v, l - 1, c, e, S, N, n)
         /\ ev[1].from = c =>
              ev[1].id = d + 1 /\ d + 1 \in 1 .. N /\ ev[1].len = S[d + 1].len
<1> SUFFICES
      ASSUME l \in Nat \ {0}, d \in Nat, N \in Nat, Queued(ev, l, c, d, S, N, n),
             \A i \in 1 .. l - 1 : v[i] = ev[i + 1]
      PROVE  /\ Queued(v, l - 1, c, e, S, N, n)
             /\ ev[1].from = c =>
                  ev[1].id = d + 1 /\ d + 1 \in 1 .. N /\ ev[1].len = S[d + 1].len
  BY DEF HeadGone
<1>1. e \in Nat /\ e = IF ev[1].from = c THEN d + 1 ELSE d
  BY DEF HeadGone
<1>0. ev[1].from = c =>
        ev[1].id = d + 1 /\ d + 1 \in 1 .. N /\ ev[1].len = S[d + 1].len /\ d + 1 < n
  BY QueuedHead
<1>2. n \in d + 1 .. N + 1
  BY DEF Queued
<1>3. n \in e + 1 .. N + 1
  BY <1>0, <1>1, <1>2
<1>4. \A i \in 1 .. l - 1 : i + 1 \in 1 .. l /\ i + 1 > 1
  OBVIOUS
<1>5. ASSUME NEW i \in 1 .. l - 1, v[i].from = c
      PROVE  v[i].id \in e + 1 .. n - 1 /\ v[i].len = S[v[i].id].len
  <2>1. PICK k \in 1 .. l : k = i + 1 /\ k > 1
    BY <1>4
  <2>2. ev[k].id \in d + 1 .. n - 1 /\ ev[k].len = S[ev[k].id].len /\ v[i] = ev[k]
    BY <1>5, <2>1 DEF Queued
  <2>3. ev[1].from = c => d + 1 < ev[k].id
    <3>1. 1 \in 1 .. l
      OBVIOUS
    <3>2. ev[1].from = c => ev[1].id < ev[k].id
      BY <1>5, <2>1, <2>2, <3>1 DEF Queued
    <3> QED BY <1>0, <3>2
  <2> QED BY <1>1, <1>2, <2>2, <2>3
<1>6. ASSUME NEW i \in 1 .. l - 1, NEW j \in 1 .. l - 1, i < j, v[i].from = c, v[j].from = c
      PROVE  v[i].id < v[j].id
  <2>1. PICK k \in 1 .. l, m \in 1 .. l : k = i + 1 /\ m = j + 1 /\ k < m
    BY <1>4, <1>6
  <2> QED BY <1>6, <2>1 DEF Queued
<1>7. ASSUME NEW id \in e + 1 .. n - 1
      PROVE  \E i \in 1 .. l - 1 : v[i].from = c /\ v[i].id = id
  <2>1. id \in d + 1 .. n - 1
    BY <1>1, <1>2
  <2>2. PICK k \in 1 .. l : ev[k].from = c /\ ev[k].id = id
    BY <2>1 DEF Queued
  <2>3. k # 1
    BY <1>0, <1>1, <2>2
  <2>4. PICK i \in 1 .. l - 1 : i + 1 = k
    <3>1. k - 1 \in 1 .. l - 1 /\ (k - 1) + 1 = k
      BY <2>3
    <3> QED BY <3>1
  <2>5. v[i] = ev[k]
    BY <2>4
  <2> QED BY <2>2, <2>5
<1>8. Queued(v, l - 1, c, e, S, N, n)
  BY <1>3, <1>5, <1>6, <1>7 DEF Queued
<1> QED BY <1>0, <1>8

-----------------------------------------------------------------------------
(* The writers.                                                            *)

\* A report whose body is still to come is the last one of its pipe, and the
\* only one; its sender owns globalMutex if it reports under it.
PendingInv ==
    \A s \in Senders : Home[s] \in Serialised /\ report[s] # NoReport =>
        /\ s \in Locked => mutex[Home[s]] = s
        /\ \A u \in Senders : Home[u] = Home[s] /\ report[u] # NoReport => u = s
        /\ Len(sent[Home[s]]) > 0
        /\ report[s] = sent[Home[s]][Len(sent[Home[s]])]

WriterInv ==
    /\ \A c \in Clients : Numbered(sent[c])
    /\ \A c \in Clients : conn[c] = "connecting" => sent[c] = <<>>
    /\ PendingInv

\* A step that starts no report and ends none.
LEMMA WritersKept ==
  ASSUME WriterInv, UNCHANGED <<mutex, report, sent>>,
         \A c \in Clients : conn'[c] = "connecting" => conn[c] = "connecting"
  PROVE  WriterInv'
  BY DEF WriterInv, PendingInv

\* Where reports are kept apart, nobody begins one inside another.
LEMMA NobodyPending ==
  ASSUME TypeOK, WriterInv, NEW s \in Senders, SendSize(s), Home[s] \in Serialised,
         NEW u \in Senders, Home[u] = Home[s]
  PROVE  report[u] = NoReport
<1>1. CASE u = s
  BY <1>1 DEF SendSize
<1>2. CASE u # s
  <2>1. {s, u} \subseteq Locked
    BY <1>2 DEF Serialised
  <2>2. mutex[Home[s]] = Nobody /\ u # Nobody
    BY <2>1, PipeAssumption DEF SendSize
  <2> QED BY <2>1, <2>2 DEF WriterInv, PendingInv
<1> QED BY <1>1, <1>2

\* A length is written: the report is now the last one of its pipe.
LEMMA SendSizeWriters ==
  ASSUME TypeOK, WriterInv, NEW s \in Senders, SendSize(s)
  PROVE  WriterInv'
<1>1. PICK c \in Clients : c = Home[s]
  BY PipeAssumption
<1>2. PICK n \in BodySizes :
        LET r == [id |-> Len(sent[c]) + 1, len |-> n] IN
        /\ report' = [report EXCEPT ![s] = r]
        /\ sent' = [sent EXCEPT ![c] = Append(sent[c], r)]
  BY <1>1 DEF SendSize
<1>3. PICK r : r = [id |-> Len(sent[c]) + 1, len |-> n]
  OBVIOUS
<1>4. /\ report' = [report EXCEPT ![s] = r] /\ sent' = [sent EXCEPT ![c] = Append(sent[c], r)]
      /\ conn[c] = "open" /\ UNCHANGED conn /\ r.id = Len(sent[c]) + 1
      /\ s \in Locked => mutex[c] = Nobody /\ mutex' = [mutex EXCEPT ![c] = s]
      /\ s \notin Locked => UNCHANGED mutex
  BY <1>1, <1>2, <1>3 DEF SendSize
<1>5. /\ report'[s] = r /\ \A u \in Senders : u # s => report'[u] = report[u]
      /\ sent'[c] = Append(sent[c], r) /\ \A d \in Clients : d # c => sent'[d] = sent[d]
  BY <1>4 DEF TypeOK
<1>6. /\ Len(sent'[c]) = Len(sent[c]) + 1 /\ Len(sent[c]) \in Nat
      /\ sent'[c][Len(sent[c]) + 1] = r
      /\ \A m \in 1 .. Len(sent[c]) : sent'[c][m] = sent[c][m]
  BY <1>5 DEF TypeOK
<1>7. Numbered(sent'[c])
  <2> SUFFICES ASSUME NEW m \in 1 .. Len(sent[c]) + 1 PROVE sent'[c][m].id = m
    BY <1>6 DEF Numbered
  <2>1. m \in 1 .. Len(sent[c]) \/ m = Len(sent[c]) + 1
    BY <1>6
  <2> QED BY <1>4, <1>6, <2>1 DEF WriterInv, Numbered
<1>8. \A d \in Clients : Numbered(sent'[d])
  BY <1>5, <1>7 DEF WriterInv
<1>9. \A d \in Clients : conn'[d] = "connecting" => sent'[d] = <<>>
  BY <1>4, <1>5 DEF WriterInv
<1>10. PendingInv'
  <2> SUFFICES ASSUME NEW u \in Senders, Home[u] \in Serialised, report'[u] # NoReport
               PROVE  /\ u \in Locked => mutex'[Home[u]] = u
                      /\ \A w \in Senders :
                           Home[w] = Home[u] /\ report'[w] # NoReport => w = u
                      /\ Len(sent'[Home[u]]) > 0
                      /\ report'[u] = sent'[Home[u]][Len(sent'[Home[u]])]
    BY DEF PendingInv
  <2>1. CASE u = s
    <3>1. s \in Locked => mutex'[c] = s
      BY <1>4 DEF TypeOK
    <3>2. \A w \in Senders : Home[w] = c /\ w # s => report'[w] = NoReport
      BY <1>1, <1>5, <2>1, NobodyPending
    <3> QED BY <1>1, <1>5, <1>6, <2>1, <3>1, <3>2
  <2>2. CASE u # s
    <3>1. /\ u \in Locked => mutex[Home[u]] = u
          /\ \A w \in Senders : Home[w] = Home[u] /\ report[w] # NoReport => w = u
          /\ Len(sent[Home[u]]) > 0
          /\ report[u] = sent[Home[u]][Len(sent[Home[u]])]
      BY <1>5, <2>2 DEF WriterInv, PendingInv
    <3>2. Home[u] # c
      <4> SUFFICES ASSUME Home[u] = c PROVE FALSE
        OBVIOUS
      <4> QED BY <1>1, <1>5, <2>2, NobodyPending
    <3>3. Home[u] \in Clients
      BY PipeAssumption
    <3>4. mutex'[Home[u]] = mutex[Home[u]]
      BY <1>4, <3>2, <3>3 DEF TypeOK
    <3>5. \A w \in Senders : Home[w] = Home[u] => report'[w] = report[w]
      BY <1>1, <1>5, <3>2
    <3> QED BY <1>5, <2>2, <3>1, <3>2, <3>3, <3>4, <3>5
  <2> QED BY <2>1, <2>2
<1> QED BY <1>8, <1>9, <1>10 DEF WriterInv

\* A body is written: the sender has no report to finish any more.
LEMMA SendBodyWriters ==
  ASSUME TypeOK, WriterInv, NEW s \in Senders, SendBody(s)
  PROVE  WriterInv'
<1>1. PICK c \in Clients : c = Home[s]
  BY PipeAssumption
<1>2. /\ report[s] # NoReport /\ report' = [report EXCEPT ![s] = NoReport]
      /\ UNCHANGED <<sent, conn>>
      /\ \A d \in Clients : d # c => mutex'[d] = mutex[d]
  BY <1>1 DEF SendBody, TypeOK
<1>3. /\ report'[s] = NoReport
      /\ \A u \in Senders : u # s => report'[u] = report[u]
  BY <1>2 DEF TypeOK
<1>4. PendingInv'
  <2> SUFFICES ASSUME NEW u \in Senders, Home[u] \in Serialised, report'[u] # NoReport
               PROVE  /\ u \in Locked => mutex'[Home[u]] = u
                      /\ \A w \in Senders :
                           Home[w] = Home[u] /\ report'[w] # NoReport => w = u
                      /\ Len(sent[Home[u]]) > 0
                      /\ report'[u] = sent[Home[u]][Len(sent[Home[u]])]
    BY <1>2 DEF PendingInv
  <2>1. u # s /\ report[u] # NoReport /\ report'[u] = report[u]
    BY <1>3
  <2>2. /\ u \in Locked => mutex[Home[u]] = u
        /\ \A w \in Senders : Home[w] = Home[u] /\ report[w] # NoReport => w = u
        /\ Len(sent[Home[u]]) > 0
        /\ report[u] = sent[Home[u]][Len(sent[Home[u]])]
    BY <2>1 DEF WriterInv, PendingInv
  <2>3. Home[u] # c
    BY <1>1, <1>2, <2>1, <2>2
  <2>4. Home[u] \in Clients
    BY PipeAssumption
  <2>5. \A w \in Senders : report'[w] # NoReport => report[w] # NoReport
    BY <1>3
  <2> QED BY <1>2, <2>1, <2>2, <2>3, <2>4, <2>5
<1> QED BY <1>2, <1>4 DEF WriterInv

\* Every step keeps what is known of the writers.
LEMMA WriterStep == TypeOK /\ WriterInv /\ [Next]_vars => WriterInv'
<1> SUFFICES ASSUME TypeOK, WriterInv, [Next]_vars PROVE WriterInv'
  OBVIOUS
<1>1. ASSUME NEW c \in Clients, Connect(c) \/ Exit(c) PROVE WriterInv'
  BY <1>1, WritersKept
  DEF Connect, ConnectOpen, ConnectRetry, ConnectFail, Exit, TypeOK
<1>2. ASSUME NEW c \in Clients, ProcessData(c) \/ Disconnected(c) PROVE WriterInv'
  BY <1>2, WritersKept
  DEF ProcessData, ReadAll, CutSize, CutFrame, ReturnToEventLoop, Disconnected, client
<1>3. CASE ServerUp \/ Dispatch \/ UNCHANGED vars
  BY <1>3, WritersKept DEF ServerUp, Dispatch, vars, client
<1>4. CASE ServerExit
  BY <1>4, WritersKept DEF ServerExit
<1> QED BY <1>1, <1>2, <1>3, <1>4, SendSizeWriters, SendBodyWriters DEF Next, Quiet

-----------------------------------------------------------------------------
(* The event loop.                                                         *)

\* It leaves no whole length and no whole frame in a buffer.
IdleInv ==
    \A c \in Clients : busy # c =>
        /\ size[c] = 0 => Len(buffer[c]) < 2
        /\ size[c] > 0 => Len(buffer[c]) < size[c]

\* Every step keeps it so.
LEMMA IdleStep == TypeOK /\ IdleInv /\ [Next]_vars => IdleInv'
<1> SUFFICES ASSUME TypeOK, IdleInv, [Next]_vars, NEW a \in Clients, busy' # a
             PROVE  /\ size'[a] = 0 => Len(buffer'[a]) < 2
                    /\ size'[a] > 0 => Len(buffer'[a]) < size'[a]
  BY DEF IdleInv
<1>1. ASSUME busy # a, buffer'[a] = buffer[a], size'[a] = size[a]
      PROVE  /\ size'[a] = 0 => Len(buffer'[a]) < 2
             /\ size'[a] > 0 => Len(buffer'[a]) < size'[a]
  BY <1>1 DEF IdleInv
<1>2. ASSUME buffer'[a] = <<>>, size'[a] = 0
      PROVE  /\ size'[a] = 0 => Len(buffer'[a]) < 2
             /\ size'[a] > 0 => Len(buffer'[a]) < size'[a]
  BY <1>2
<1>3. Nobody # a
  BY PipeAssumption
<1>4. ASSUME NEW c \in Clients, ReadAll(c) \/ CutSize(c) \/ CutFrame(c)
      PROVE  /\ size'[a] = 0 => Len(buffer'[a]) < 2
             /\ size'[a] > 0 => Len(buffer'[a]) < size'[a]
  <2>1. busy' = c /\ busy \in {c, Nobody}
    BY <1>4 DEF ReadAll, CutSize, CutFrame
  <2>2. buffer'[a] = buffer[a] /\ size'[a] = size[a]
    BY <1>4, <2>1 DEF ReadAll, CutSize, CutFrame, TypeOK
  <2> QED BY <1>1, <1>3, <2>1, <2>2
<1>5. ASSUME NEW c \in Clients, ReturnToEventLoop(c)
      PROVE  /\ size'[a] = 0 => Len(buffer'[a]) < 2
             /\ size'[a] > 0 => Len(buffer'[a]) < size'[a]
  <2>1. busy = c /\ UNCHANGED <<buffer, size>>
    BY <1>5 DEF ReturnToEventLoop
  <2>2. CASE a = c
    <3>1. /\ ~(size[a] = 0 /\ Len(buffer[a]) >= 2)
          /\ ~(size[a] > 0 /\ Len(buffer[a]) >= size[a])
      BY <1>5, <2>2 DEF ReturnToEventLoop
    <3>2. Len(buffer[a]) \in Nat /\ size[a] \in Int
      BY DEF TypeOK
    <3> QED BY <2>1, <3>1, <3>2
  <2>3. CASE a # c
    BY <1>1, <2>1, <2>3
  <2> QED BY <2>2, <2>3
<1>6. ASSUME NEW c \in Clients, Disconnected(c)
      PROVE  /\ size'[a] = 0 => Len(buffer'[a]) < 2
             /\ size'[a] > 0 => Len(buffer'[a]) < size'[a]
  <2>1. busy = Nobody /\ \/ buffer'[a] = <<>> /\ size'[a] = 0
                         \/ buffer'[a] = buffer[a] /\ size'[a] = size[a]
    BY <1>6 DEF Disconnected, TypeOK
  <2> QED BY <1>1, <1>2, <1>3, <2>1
<1>7. CASE ServerExit
  BY <1>2, <1>7 DEF ServerExit
<1>8. ASSUME UNCHANGED <<buffer, size, busy>>
      PROVE  /\ size'[a] = 0 => Len(buffer'[a]) < 2
             /\ size'[a] > 0 => Len(buffer'[a]) < size'[a]
  BY <1>1, <1>8
<1>9. \/ UNCHANGED <<buffer, size, busy>> \/ ServerExit
      \/ \E c \in Clients : ProcessData(c) \/ Disconnected(c)
  BY DEF Next, Connect, ConnectOpen, ConnectRetry, ConnectFail, Exit, SendSize, SendBody,
         ServerUp, Dispatch, Quiet, vars, app
<1> QED BY <1>4, <1>5, <1>6, <1>7, <1>8, <1>9 DEF ProcessData

-----------------------------------------------------------------------------
(* The reader.                                                             *)

PendingOn(c) == \E s \in Senders : Home[s] = c /\ report[s] # NoReport

\* The reports of a pipe whose body is written.
Written(c) == IF PendingOn(c) THEN Len(sent[c]) - 1 ELSE Len(sent[c])

\* Nothing comes through the pipe of a client any more.
Silent(c) ==
    /\ conn[c] \notin {"connecting", "open"}
    /\ buffer[c] = <<>> /\ stream[c] = <<>> /\ size[c] = 0

\* The reports before the n-th are posted or delivered, and the reader is at
\* the n-th.  A pipe that nothing comes through any more has lost the last
\* report at most, or all that was posted when the application exited.
ReaderAt(c, n) ==
    /\ Queued(events, Len(events), c, Len(delivered[c]), sent[c], Len(sent[c]), n)
    /\ \/ Silent(c) /\ (n >= Len(sent[c]) \/ n = Len(delivered[c]) + 1)
       \/ /\ conn[c] # "broken"
          /\ Sync(buffer[c], stream[c], size[c], sent[c], Len(sent[c]), Written(c), n)

DeliveredInv(c) ==
    /\ Len(delivered[c]) <= Len(sent[c])
    /\ \A i \in 1 .. Len(delivered[c]) : delivered[c][i] = sent[c][i]

ReaderInv(c) == DeliveredInv(c) /\ \E n : ReaderAt(c, n)

StreamInv == \A c \in Serialised : ReaderInv(c)

\* What the types say of one client.
LEMMA ClientType ==
  ASSUME TypeOK, NEW c \in Clients
  PROVE  /\ Bytes(buffer[c]) /\ Bytes(stream[c]) /\ size[c] \in Int
         /\ Len(sent[c]) \in Nat /\ \A m \in 1 .. Len(sent[c]) : sent[c][m] \in Reports
         /\ Len(delivered[c]) \in Nat /\ Len(events) \in Nat
  BY DEF TypeOK, Bytes

\* Which bodies are written does not change with the steps that send nothing.
LEMMA WrittenKept ==
  ASSUME NEW c, report' = report, sent'[c] = sent[c]
  PROVE  Written(c)' = Written(c)
  BY DEF Written, PendingOn

\* Nothing changes for a client.
LEMMA ReaderKept ==
  ASSUME NEW c, ReaderInv(c), events' = events, delivered'[c] = delivered[c],
         sent'[c] = sent[c], buffer'[c] = buffer[c], stream'[c] = stream[c],
         size'[c] = size[c], Written(c)' = Written(c),
         conn'[c] = conn[c] \/ (conn[c] \in {"connecting", "open"} /\ conn'[c] # "broken")
  PROVE  ReaderInv(c)'
<1>1. DeliveredInv(c)'
  BY DEF ReaderInv, DeliveredInv
<1>2. PICK n : ReaderAt(c, n)
  BY DEF ReaderInv
<1>3. Silent(c) => Silent(c)'
  BY DEF Silent
<1>4. conn[c] # "broken" => conn'[c] # "broken"
  OBVIOUS
<1>5. ReaderAt(c, n)'
  BY <1>2, <1>3, <1>4 DEF ReaderAt
<1> QED BY <1>1, <1>5 DEF ReaderInv

\* Nothing was sent and nothing is in the pipe.
LEMMA NothingYet ==
  ASSUME NEW S
  PROVE  Sync(<<>>, <<>>, 0, S, 0, 0, 1)
<1>1. Ahead(<<>>, <<>>, 0, S[1]) = <<>> /\ Count(<<>>) = 0
  BY DEF Ahead, Cat, Count
<1>2. Layout(<<>>, 0, S, 0, 0, 1)
  BY DEF Layout
<1> QED BY <1>1, <1>2 DEF Sync

\* No report is posted.
LEMMA NothingQueued ==
  ASSUME NEW c, NEW d \in Nat, NEW S, NEW N \in Nat, d <= N
  PROVE  Queued(<<>>, 0, c, d, S, N, d + 1)
  BY DEF Queued

\* Reading moves bytes, and the reader stays where it is.
LEMMA SyncRead ==
  ASSUME NEW b, NEW t, Bytes(b), Bytes(t), NEW m \in Nat, m <= Count(t),
         NEW z, NEW S, NEW N, NEW B, NEW n, Sync(b, t, z, S, N, B, n)
  PROVE  Sync(Cat(b, SubSeq(t, 1, m)), Rest(t, m), z, S, N, B, n)
<1>1. Cat(Cat(b, SubSeq(t, 1, m)), Rest(t, m)) = Cat(b, t)
  BY ReadJoin
<1>2. Ahead(Cat(b, SubSeq(t, 1, m)), Rest(t, m), z, S[n]) = Ahead(b, t, z, S[n])
  BY <1>1 DEF Ahead
<1> QED BY <1>2 DEF Sync

\* send writes a length.
LEMMA SendSizeReader ==
  ASSUME TypeOK, WriterInv, NEW c \in Serialised, ReaderInv(c),
         NEW s \in Senders, Home[s] = c, SendSize(s)
  PROVE  ReaderInv(c)'
<1>0. c \in Clients
  BY DEF Serialised
<1>1. PICK N \in Nat, d \in Nat : N = Len(sent[c]) /\ d = Len(delivered[c])
  BY <1>0, ClientType
<1>2. /\ conn[c] = "open" /\ N < MaxSent
      /\ UNCHANGED <<conn, buffer, size, events, delivered>>
  BY <1>0, <1>1 DEF SendSize, app
<1>3. PICK z \in BodySizes :
        LET r == [id |-> Len(sent[c]) + 1, len |-> z] IN
        /\ report' = [report EXCEPT ![s] = r]
        /\ sent' = [sent EXCEPT ![c] = Append(sent[c], r)]
        /\ stream' = [stream EXCEPT ![c] = stream[c] \o SizeBytes(r)]
  BY DEF SendSize
<1>4. PICK r : r = [id |-> N + 1, len |-> z]
  OBVIOUS
<1>5. r \in Reports /\ r.id = N + 1 /\ r # NoReport
  <2>1. N + 1 \in 1 .. MaxSent
    BY <1>2, PipeAssumption
  <2>2. r.id = N + 1 /\ NoReport.id = 0
    BY <1>4 DEF NoReport
  <2> QED BY <1>4, <2>1, <2>2 DEF Reports
<1>6. /\ report'[s] = r /\ \A u \in Senders : u # s => report'[u] = report[u]
      /\ sent'[c] = Append(sent[c], r) /\ stream'[c] = Cat(stream[c], SizeBytes(r))
  BY <1>0, <1>1, <1>3, <1>4 DEF TypeOK, Cat
<1>7. PICK S, T : S = sent[c] /\ T = sent'[c]
  OBVIOUS
<1>8. Len(T) = N + 1 /\ T[N + 1] = r /\ \A m \in 1 .. N : T[m] = S[m]
  BY <1>0, <1>1, <1>5, <1>6, <1>7 DEF TypeOK
<1>9. \A m \in 1 .. N : S[m] \in Reports /\ S[m].id = m /\ T[m] = S[m]
  BY <1>0, <1>1, <1>7, <1>8, ClientType DEF WriterInv, Numbered
<1>10. ~PendingOn(c)
  BY NobodyPending DEF PendingOn
<1>11. Written(c) = N /\ Written(c)' = N
  <2>1. PendingOn(c)'
    BY <1>5, <1>6 DEF PendingOn
  <2>2. Written(c)' = (N + 1) - 1
    BY <1>7, <1>8, <2>1 DEF Written
  <2> QED BY <1>1, <1>10, <2>2 DEF Written
<1>12. PICK n : ReaderAt(c, n)
  BY DEF ReaderInv
<1>13. Queued(events, Len(events), c, d, T, N + 1, n)
  <2>1. Queued(events, Len(events), c, d, S, N, n)
    BY <1>1, <1>7, <1>12 DEF ReaderAt
  <2>2. PICK l \in Nat : l = Len(events)
    BY <1>0, ClientType
  <2> QED BY <1>8, <2>1, <2>2, QueuedSent
<1>14. Sync(buffer[c], Cat(stream[c], SizeBytes(r)), size[c], T, N + 1, N, n)
  <2>1. PICK b, t, x : b = buffer[c] /\ t = stream[c] /\ x = size[c]
    OBVIOUS
  <2>2. Bytes(b) /\ Bytes(t)
    BY <1>0, <2>1, ClientType
  <2>3. Sync(b, t, x, S, N, N, n)
    BY <1>1, <1>2, <1>7, <1>11, <1>12, <2>1 DEF ReaderAt, Silent
  <2>4. Sync(b, Cat(t, SizeBytes(r)), x, T, N + 1, N, n)
    BY <1>5, <1>8, <1>9, <2>2, <2>3, SyncSendSize
  <2> QED BY <2>1, <2>4
<1>15. ReaderAt(c, n)'
  BY <1>1, <1>2, <1>6, <1>7, <1>8, <1>11, <1>13, <1>14 DEF ReaderAt
<1>16. DeliveredInv(c)'
  <2>1. d <= N /\ \A i \in 1 .. d : delivered[c][i] = S[i]
    BY <1>1, <1>7 DEF ReaderInv, DeliveredInv
  <2>2. d <= N + 1 /\ \A i \in 1 .. d : delivered[c][i] = T[i]
    BY <1>8, <2>1
  <2> QED BY <1>1, <1>2, <1>7, <1>8, <2>2 DEF DeliveredInv
<1> QED BY <1>15, <1>16 DEF ReaderInv

\* send writes a body, or finds the pipe broken.
LEMMA SendBodyReader ==
  ASSUME TypeOK, WriterInv, NEW c \in Serialised, ReaderInv(c),
         NEW s \in Senders, Home[s] = c, SendBody(s)
  PROVE  ReaderInv(c)'
<1>0. c \in Clients
  BY DEF Serialised
<1>1. PICK N \in Nat : N = Len(sent[c])
  BY <1>0, ClientType
<1>2. /\ report[s] # NoReport /\ report' = [report EXCEPT ![s] = NoReport]
      /\ UNCHANGED <<conn, sent, buffer, size, events, delivered>>
      /\ conn[c] \in {"open", "broken"}
  BY DEF SendBody, app
<1>3. PICK S : S = sent[c]
  OBVIOUS
<1>4. /\ \A u \in Senders : Home[u] = c /\ report[u] # NoReport => u = s
      /\ N > 0 /\ report[s] = S[N]
  BY <1>1, <1>2, <1>3 DEF WriterInv, PendingInv
<1>5. Written(c) = N - 1
  BY <1>1, <1>2 DEF Written, PendingOn
<1>6. Written(c)' = N
  <2>1. ~PendingOn(c)'
    <3> SUFFICES ASSUME NEW u \in Senders, Home[u] = c, report'[u] # NoReport PROVE FALSE
      BY DEF PendingOn
    <3>1. u # s /\ report[u] # NoReport
      BY <1>2 DEF TypeOK
    <3> QED BY <1>4, <3>1
  <2> QED BY <1>1, <1>2, <2>1 DEF Written
<1>7. DeliveredInv(c)'
  BY <1>2 DEF ReaderInv, DeliveredInv
<1>8. PICK n : ReaderAt(c, n)
  BY DEF ReaderInv
<1>9. CASE conn[c] = "broken"
  <2>1. Silent(c) /\ (n >= Len(sent[c]) \/ n = Len(delivered[c]) + 1)
    BY <1>8, <1>9 DEF ReaderAt
  <2>2. stream' = stream
    BY <1>9 DEF SendBody
  <2>3. Silent(c)'
    BY <1>2, <2>1, <2>2 DEF Silent
  <2>4. ReaderAt(c, n)'
    BY <1>2, <1>8, <2>1, <2>3 DEF ReaderAt
  <2> QED BY <1>7, <2>4 DEF ReaderInv
<1>10. CASE conn[c] = "open"
  <2>1. PICK b, t, x : b = buffer[c] /\ t = stream[c] /\ x = size[c]
    OBVIOUS
  <2>2. Bytes(b) /\ Bytes(t)
    BY <1>0, <2>1, ClientType
  <2>3. PICK B \in Nat : B = N - 1 /\ B < N
    BY <1>4
  <2>4. Sync(b, t, x, S, N, B, n)
    BY <1>1, <1>3, <1>5, <1>8, <1>10, <2>1, <2>3 DEF ReaderAt, Silent
  <2>5. \A m \in 1 .. N : S[m] \in Reports /\ S[m].id = m
    BY <1>0, <1>1, <1>3, ClientType DEF WriterInv, Numbered
  <2>6. Sync(b, Cat(t, BodyBytes(S[N])), x, S, N, N, n)
    BY <2>2, <2>3, <2>4, <2>5, SyncSendBody
  <2>7. stream'[c] = Cat(t, BodyBytes(S[N]))
    <3>1. stream' = [stream EXCEPT ![c] = stream[c] \o BodyBytes(report[s])]
      BY <1>10 DEF SendBody
    <3> QED BY <1>0, <1>4, <2>1, <3>1 DEF TypeOK, Cat
  <2>8. ReaderAt(c, n)'
    BY <1>1, <1>2, <1>3, <1>6, <1>8, <1>10, <2>1, <2>6, <2>7 DEF ReaderAt
  <2> QED BY <1>7, <2>8 DEF ReaderInv
<1> QED BY <1>2, <1>9, <1>10

\* The application exits: what is in the pipes is lost.
LEMMA ServerExitReader ==
  ASSUME TypeOK, WriterInv, NEW c \in Serialised, ReaderInv(c), ServerExit
  PROVE  ReaderInv(c)'
<1>0. c \in Clients
  BY DEF Serialised
<1>1. PICK N \in Nat, d \in Nat : N = Len(sent[c]) /\ d = Len(delivered[c])
  BY <1>0, ClientType
<1>2. /\ UNCHANGED <<report, sent, delivered>> /\ events' = <<>>
      /\ stream'[c] = <<>> /\ buffer'[c] = <<>> /\ size'[c] = 0
      /\ conn'[c] = IF conn[c] = "open" THEN "broken" ELSE conn[c]
  BY <1>0 DEF ServerExit
<1>3. d <= N
  BY <1>1 DEF ReaderInv, DeliveredInv
<1>4. DeliveredInv(c)'
  BY <1>2 DEF ReaderInv, DeliveredInv
<1>5. Len(events') = 0
  BY <1>2
<1>6. Queued(events', Len(events'), c, Len(delivered'[c]), sent'[c], Len(sent'[c]), d + 1)
  BY <1>1, <1>2, <1>3, <1>5, NothingQueued
<1>7. CASE conn[c] # "connecting"
  <2>1. Silent(c)'
    BY <1>2, <1>7 DEF Silent
  <2>2. d + 1 = Len(delivered'[c]) + 1
    BY <1>1, <1>2
  <2>3. ReaderAt(c, d + 1)'
    BY <1>6, <2>1, <2>2 DEF ReaderAt
  <2> QED BY <1>4, <2>3 DEF ReaderInv
<1>8. CASE conn[c] = "connecting"
  <2>1. sent[c] = <<>> /\ N = 0 /\ d = 0
    BY <1>0, <1>1, <1>3, <1>8 DEF WriterInv
  <2>2. ~PendingOn(c)
    BY <1>1, <2>1 DEF WriterInv, PendingInv, PendingOn
  <2>3. Written(c)' = 0
    BY <1>1, <1>2, <2>1, <2>2 DEF Written, PendingOn
  <2>4. Sync(buffer'[c], stream'[c], size'[c], sent'[c], Len(sent'[c]), Written(c)', d + 1)
    BY <1>1, <1>2, <2>1, <2>3, NothingYet
  <2>5. ReaderAt(c, d + 1)'
    BY <1>2, <1>6, <1>8, <2>4 DEF ReaderAt
  <2> QED BY <1>4, <2>5 DEF ReaderInv
<1> QED BY <1>7, <1>8

\* Whoever has read all that will come, and finds neither a length nor a frame
\* in it, misses the last report at most.
LEMMA SyncUnfinished ==
  ASSUME NEW b, Bytes(b), NEW z \in Int, NEW S, NEW N \in Nat,
         \A m \in 1 .. N : S[m] \in Reports, NEW B \in Nat, NEW n,
         Sync(b, <<>>, z, S, N, B, n),
         z = 0 => Count(b) < 2, z > 0 => Count(b) < z
  PROVE  n >= N
<1>1. PICK t, w, l : t = <<>> /\ w = Ahead(b, t, z, S[n]) /\ l = Count(w)
  OBVIOUS
<1>2. Bytes(t) /\ Count(t) = 0
  BY <1>1 DEF Bytes, Count
<1>3. n \in 1 .. N + 1 /\ Layout(w, l, S, N, B, n)
  BY <1>1 DEF Sync, Layout
<1>4. /\ Bytes(Cat(b, t)) /\ Count(b) \in Nat /\ Count(Cat(b, t)) = Count(b)
  <2>1. Bytes(Cat(b, t)) /\ Count(b) \in Nat /\ Count(Cat(b, t)) = Count(b) + Count(t)
    BY <1>2, Joined
  <2> QED BY <1>2, <2>1
<1>5. CASE z = 0
  <2>1. w = Cat(b, t) /\ l = Count(b)
    BY <1>1, <1>4, <1>5 DEF Ahead
  <2>2. l \in Nat /\ l < 2
    BY <1>4, <1>5, <2>1
  <2>3. l > 0 => l >= 2
    BY <1>3, <2>2, LayoutHead
  <2>4. l = 0
    BY <2>2, <2>3
  <2> QED BY <1>3, <2>4 DEF Layout
<1>6. CASE z # 0
  <2>1. n \in 1 .. N /\ z = S[n].len
    BY <1>3, <1>6 DEF Sync
  <2>2. S[n] \in Reports /\ z \in Nat \ {0} /\ Count(b) < z
    BY <2>1, ReportFields
  <2>3. w = Cat(SizeBytes(S[n]), Cat(b, t)) /\ l = 2 + Count(b)
    BY <1>1, <1>4, <1>6, <2>2, Prepend DEF Ahead
  <2>4. l \in Nat /\ l > 0
    BY <1>4, <2>3
  <2>5. Block(w, l, S, N, B, 1, n)
    BY <1>3, <2>4, LayoutHead
  <2>6. n = N \/ 1 + 1 + z <= l
    BY <2>1, <2>5 DEF Block
  <2> QED BY <1>4, <2>1, <2>2, <2>3, <2>6
<1> QED BY <1>5, <1>6

\* Bytes arrive.
LEMMA ReadAllReader ==
  ASSUME TypeOK, NEW c \in Serialised, ReaderInv(c), ReadAll(c)
  PROVE  ReaderInv(c)'
<1>0. c \in Clients
  BY DEF Serialised
<1>1. PICK m \in 1 .. Len(stream[c]) :
        /\ buffer' = [buffer EXCEPT ![c] = buffer[c] \o SubSeq(stream[c], 1, m)]
        /\ stream' = [stream EXCEPT ![c] = SubSeq(stream[c], m + 1, Len(stream[c]))]
  BY DEF ReadAll
<1>2. UNCHANGED <<conn, report, sent, size, events, delivered>>
  BY DEF ReadAll, client
<1>3. PICK b, t : b = buffer[c] /\ t = stream[c]
  OBVIOUS
<1>4. Bytes(b) /\ Bytes(t)
  BY <1>0, <1>3, ClientType
<1>5. m \in Nat /\ m <= Count(t) /\ t # <<>>
  BY <1>1, <1>3, <1>4 DEF Count, Bytes
<1>6. buffer'[c] = Cat(b, SubSeq(t, 1, m)) /\ stream'[c] = Rest(t, m)
  BY <1>0, <1>1, <1>3 DEF TypeOK, Cat, Rest
<1>7. DeliveredInv(c)'
  BY <1>2 DEF ReaderInv, DeliveredInv
<1>8. PICK n : ReaderAt(c, n)
  BY DEF ReaderInv
<1>9. conn[c] # "broken" /\ Sync(b, t, size[c], sent[c], Len(sent[c]), Written(c), n)
  BY <1>3, <1>5, <1>8 DEF ReaderAt, Silent
<1>10. Sync(buffer'[c], stream'[c], size[c], sent[c], Len(sent[c]), Written(c), n)
  BY <1>4, <1>5, <1>6, <1>9, SyncRead
<1>11. Written(c)' = Written(c)
  BY <1>2, WrittenKept
<1>12. ReaderAt(c, n)'
  BY <1>2, <1>8, <1>9, <1>10, <1>11 DEF ReaderAt
<1> QED BY <1>7, <1>12 DEF ReaderInv

\* How many bodies are written is a natural number.
LEMMA WrittenType ==
  ASSUME TypeOK, WriterInv, NEW c \in Serialised
  PROVE  Written(c) \in Nat
<1>0. c \in Clients /\ Len(sent[c]) \in Nat
  BY ClientType DEF Serialised
<1>1. PendingOn(c) => Len(sent[c]) > 0
  BY DEF PendingOn, WriterInv, PendingInv
<1> QED BY <1>0, <1>1 DEF Written

\* A length is cut off the buffer.
LEMMA CutSizeReader ==
  ASSUME TypeOK, WriterInv, NEW c \in Serialised, ReaderInv(c), CutSize(c)
  PROVE  ReaderInv(c)'
<1>0. c \in Clients
  BY DEF Serialised
<1>1. PICK N \in Nat, B \in Nat : N = Len(sent[c]) /\ B = Written(c)
  BY <1>0, ClientType, WrittenType
<1>2. PICK b, t, S : b = buffer[c] /\ t = stream[c] /\ S = sent[c]
  OBVIOUS
<1>3. Bytes(b) /\ Bytes(t) /\ Count(b) >= 2 /\ size[c] = 0 /\ b # <<>>
  BY <1>0, <1>2, ClientType DEF CutSize, Count
<1>4. UNCHANGED <<conn, stream, report, sent, events, delivered>>
  BY DEF CutSize, client
<1>5. PICK z \in LengthOf(b[1], b[2]) : size'[c] = z
  BY <1>0, <1>2 DEF CutSize, TypeOK
<1>6. buffer'[c] = Rest(b, 2)
  BY <1>0, <1>2 DEF CutSize, TypeOK, Rest
<1>7. DeliveredInv(c)'
  BY <1>4 DEF ReaderInv, DeliveredInv
<1>8. PICK n : ReaderAt(c, n)
  BY DEF ReaderInv
<1>9. conn[c] # "broken" /\ Sync(b, t, 0, S, N, B, n)
  BY <1>1, <1>2, <1>3, <1>8 DEF ReaderAt, Silent
<1>10. \A m \in 1 .. N : S[m] \in Reports
  BY <1>0, <1>1, <1>2, ClientType
<1>11. LengthOf(b[1], b[2]) = {S[n].len} /\ Sync(Rest(b, 2), t, S[n].len, S, N, B, n)
  BY <1>3, <1>9, <1>10, SyncCutSize
<1>12. z = S[n].len
  BY <1>5, <1>11
<1>13. Written(c)' = Written(c)
  BY <1>4, WrittenKept
<1>14. ReaderAt(c, n)'
  BY <1>1, <1>2, <1>4, <1>5, <1>6, <1>8, <1>9, <1>11, <1>12, <1>13 DEF ReaderAt
<1> QED BY <1>7, <1>14 DEF ReaderInv

\* The body of a report is one, and its first byte tells which.
LEMMA BodyIsReport ==
  ASSUME NEW r \in Reports
  PROVE  /\ IsReport(BodyBytes(r)) /\ Len(BodyBytes(r)) = r.len
         /\ BodyBytes(r)[1].id = r.id
<1>1. PICK z \in Nat \ {0} : z = r.len
  BY ReportFields
<1>2. PICK k \in 1 .. MaxSent : k = r.id
  BY DEF Reports
<1>3. PICK f : f = BodyBytes(r)
  OBVIOUS
<1>4. f = [i \in 1 .. z |-> Piece("body", r, i)]
  BY <1>1, <1>3 DEF BodyBytes
<1>5. f \in Seq(Pieces)
  BY <1>3, BytesType
<1>6. Len(f) = z /\ 1 \in 1 .. z
  BY <1>4, <1>5
<1>7. f[1].id = r.id
  BY <1>4, <1>6, PieceFields
<1>8. f = BodyBytes([id |-> k, len |-> Len(f)])
  <2>1. PICK q : q = [id |-> k, len |-> Len(f)]
    OBVIOUS
  <2>2. q.id = r.id /\ q.len = z
    BY <1>2, <1>6, <2>1
  <2>3. \A i \in 1 .. z : Piece("body", q, i) = Piece("body", r, i)
    BY <1>1, <2>2 DEF Piece
  <2> QED BY <1>4, <2>1, <2>2, <2>3 DEF BodyBytes
<1> QED BY <1>1, <1>3, <1>6, <1>7, <1>8 DEF IsReport

\* A frame is cut off the buffer: it is the body of the next report, which is
\* posted.
LEMMA CutFramePosts ==
  ASSUME TypeOK, WriterInv, NEW c \in Serialised, NEW n, ReaderAt(c, n), CutFrame(c)
  PROVE  /\ n \in 1 .. Len(sent[c]) /\ size[c] = sent[c][n].len /\ conn[c] # "broken"
         /\ Sync(Rest(buffer[c], size[c]), stream[c], 0, sent[c], Len(sent[c]),
                 Written(c), n + 1)
         /\ events' = Append(events, [from |-> c, id |-> n, len |-> size[c]])
<1>0. c \in Clients
  BY DEF Serialised
<1>1. PICK N \in Nat, B \in Nat : N = Len(sent[c]) /\ B = Written(c)
  BY <1>0, ClientType, WrittenType
<1>2. PICK b, t, S, z : b = buffer[c] /\ t = stream[c] /\ S = sent[c] /\ z = size[c]
  OBVIOUS
<1>3. Bytes(b) /\ Bytes(t) /\ z \in Nat \ {0} /\ z <= Count(b)
  <2>1. z > 0 /\ Len(b) >= z /\ z \in Int /\ Bytes(b) /\ Bytes(t)
    BY <1>0, <1>2, ClientType DEF CutFrame
  <2>2. Len(b) \in Nat
    BY <2>1 DEF Bytes
  <2> QED BY <2>1, <2>2 DEF Count
<1>4. conn[c] # "broken" /\ Sync(b, t, z, S, N, B, n)
  BY <1>1, <1>2, <1>3 DEF ReaderAt, Silent
<1>5. \A m \in 1 .. N : S[m] \in Reports /\ S[m].id = m
  BY <1>0, <1>1, <1>2, ClientType DEF WriterInv, Numbered
<1>6. /\ n \in 1 .. N /\ z = S[n].len /\ SubSeq(b, 1, z) = BodyBytes(S[n])
      /\ Sync(Rest(b, z), t, 0, S, N, B, n + 1)
  <2>1. \A m \in 1 .. N : S[m] \in Reports
    BY <1>5
  <2> QED BY <1>3, <1>4, <2>1, SyncCutFrame
<1>7. PICK e : e = [from |-> c, id |-> n, len |-> z]
  OBVIOUS
<1>8. events' = Append(events, e)
  <2>1. PICK f : f = SubSeq(b, 1, z)
    OBVIOUS
  <2>2. IsReport(f) /\ Len(f) = z /\ f[1].id = n
    BY <1>5, <1>6, <2>1, BodyIsReport
  <2>3. events' = IF IsReport(f)
                    THEN Append(events, [from |-> c, id |-> f[1].id, len |-> Len(f)])
                    ELSE events
    BY <1>2, <2>1 DEF CutFrame
  <2> QED BY <1>7, <2>2, <2>3
<1> QED BY <1>1, <1>2, <1>4, <1>6, <1>7, <1>8

LEMMA CutFrameReader ==
  ASSUME TypeOK, WriterInv, NEW c \in Serialised, ReaderInv(c), CutFrame(c)
  PROVE  ReaderInv(c)'
<1>0. c \in Clients
  BY DEF Serialised
<1>1. PICK N \in Nat, B \in Nat, d \in Nat, l \in Nat :
        N = Len(sent[c]) /\ B = Written(c) /\ d = Len(delivered[c]) /\ l = Len(events)
  BY <1>0, ClientType, WrittenType
<1>2. PICK S, z : S = sent[c] /\ z = size[c]
  OBVIOUS
<1>3. /\ UNCHANGED <<conn, stream, report, sent, delivered>> /\ size'[c] = 0
      /\ buffer'[c] = Rest(buffer[c], z)
  BY <1>0, <1>2 DEF CutFrame, client, TypeOK, Rest
<1>4. DeliveredInv(c)'
  BY <1>3 DEF ReaderInv, DeliveredInv
<1>5. PICK n : ReaderAt(c, n)
  BY DEF ReaderInv
<1>6. PICK e : e = [from |-> c, id |-> n, len |-> z]
  OBVIOUS
<1>7. /\ n \in 1 .. N /\ z = S[n].len /\ conn[c] # "broken"
      /\ Sync(buffer'[c], stream[c], 0, S, N, B, n + 1)
      /\ events' = Append(events, e)
  BY <1>1, <1>2, <1>3, <1>5, <1>6, CutFramePosts
<1>8. PICK ev, v : ev = events /\ v = events'
  OBVIOUS
<1>9. Len(v) = l + 1 /\ v[l + 1] = e /\ \A i \in 1 .. l : v[i] = ev[i]
  <2>1. events \in Seq(Events)
    BY DEF TypeOK, Events
  <2> QED BY <1>1, <1>7, <1>8, <2>1
<1>10. Queued(v, l + 1, c, d, S, N, n + 1)
  <2>1. Queued(ev, l, c, d, S, N, n)
    BY <1>1, <1>2, <1>5, <1>8 DEF ReaderAt
  <2>2. v[l + 1].from = c /\ v[l + 1].id = n /\ v[l + 1].len = S[n].len
    BY <1>6, <1>7, <1>9
  <2> QED BY <1>7, <1>9, <2>1, <2>2, QueuedPost
<1>11. Written(c)' = Written(c)
  BY <1>3, WrittenKept
<1>12. ReaderAt(c, n + 1)'
  BY <1>1, <1>2, <1>3, <1>7, <1>8, <1>9, <1>10, <1>11 DEF ReaderAt
<1> QED BY <1>4, <1>12 DEF ReaderInv

\* A frame of another client is cut off: its report, if it is one, is posted.
LEMMA CutFrameOther ==
  ASSUME TypeOK, WriterInv, NEW c \in Serialised, ReaderInv(c),
         NEW a \in Clients, a # c, CutFrame(a)
  PROVE  ReaderInv(c)'
<1>0. c \in Clients
  BY DEF Serialised
<1>1. PICK N \in Nat, d \in Nat, l \in Nat :
        N = Len(sent[c]) /\ d = Len(delivered[c]) /\ l = Len(events)
  BY <1>0, ClientType
<1>2. /\ UNCHANGED <<conn, stream, report, sent, delivered>>
      /\ buffer'[c] = buffer[c] /\ size'[c] = size[c]
  BY <1>0 DEF CutFrame, client, TypeOK
<1>3. Written(c)' = Written(c)
  BY <1>2, WrittenKept
<1>4. DeliveredInv(c)'
  BY <1>2 DEF ReaderInv, DeliveredInv
<1>5. PICK n : ReaderAt(c, n)
  BY DEF ReaderInv
<1>6. CASE events' = events
  BY <1>2, <1>3, <1>6, ReaderKept
<1>7. ASSUME NEW e, e.from = a, events' = Append(events, e) PROVE ReaderInv(c)'
  <2>1. PICK ev, v : ev = events /\ v = events'
    OBVIOUS
  <2>2. Len(v) = l + 1 /\ v[l + 1] = e /\ \A i \in 1 .. l : v[i] = ev[i]
    <3>1. events \in Seq(Events)
      BY DEF TypeOK, Events
    <3> QED BY <1>1, <1>7, <2>1, <3>1
  <2>3. Queued(v, l + 1, c, d, sent[c], N, n)
    <3>1. Queued(ev, l, c, d, sent[c], N, n)
      BY <1>1, <1>5, <2>1 DEF ReaderAt
    <3> QED BY <1>7, <2>2, <3>1, QueuedPostOther
  <2>4. Silent(c) => Silent(c)'
    BY <1>2 DEF Silent
  <2>5. ReaderAt(c, n)'
    BY <1>1, <1>2, <1>3, <1>5, <2>1, <2>2, <2>3, <2>4 DEF ReaderAt
  <2> QED BY <1>4, <2>5 DEF ReaderInv
<1>8. events' = events \/ \E e : e.from = a /\ events' = Append(events, e)
  <2>1. PICK f : f = SubSeq(buffer[a], 1, size[a])
    OBVIOUS
  <2>2. PICK e : e = [from |-> a, id |-> f[1].id, len |-> Len(f)]
    OBVIOUS
  <2>3. e.from = a
    BY <2>2
  <2>4. events' = IF IsReport(f) THEN Append(events, e) ELSE events
    BY <2>1, <2>2 DEF CutFrame
  <2> QED BY <2>3, <2>4
<1> QED BY <1>6, <1>7, <1>8

\* The oldest report that was posted is handed over.
LEMMA DispatchHands ==
  ASSUME TypeOK, WriterInv, NEW c \in Serialised, DeliveredInv(c), NEW n, ReaderAt(c, n),
         Dispatch
  PROVE  /\ DeliveredInv(c)' /\ ReaderAt(c, n)'
         /\ Head(events).from = c =>
              /\ Len(delivered[c]) + 1 \in 1 .. Len(sent[c]) /\ n # Len(delivered[c]) + 1
              /\ delivered'[c] = Append(delivered[c], sent[c][Len(delivered[c]) + 1])
<1>0. c \in Clients
  BY DEF Serialised
<1>1. PICK N \in Nat, d \in Nat :
        N = Len(sent[c]) /\ d = Len(delivered[c])
  BY <1>0, ClientType
<1>2. UNCHANGED <<conn, stream, buffer, size, report, sent>>
  BY DEF Dispatch, client
<1>3. Written(c)' = Written(c)
  BY <1>2, WrittenKept
<1>5. PICK ev, v, h, S : ev = events /\ v = events' /\ h = Head(events) /\ S = sent[c]
  OBVIOUS
<1>6. PICK l \in Nat \ {0} : l = Len(ev)
  <2>1. events \in Seq(Events) /\ events # <<>>
    BY DEF Dispatch, TypeOK, Events
  <2> QED BY <1>5, <2>1
<1>7. Len(v) = l - 1 /\ h = ev[1] /\ \A i \in 1 .. l - 1 : v[i] = ev[i + 1]
  <2>1. events \in Seq(Events) /\ events # <<>> /\ v = Tail(events)
    BY <1>5 DEF Dispatch, TypeOK, Events
  <2> QED BY <1>5, <1>6, <2>1
<1>8. Queued(ev, l, c, d, S, N, n)
  BY <1>1, <1>5, <1>6 DEF ReaderAt
<1>9. PICK e : e = IF ev[1].from = c THEN d + 1 ELSE d
  OBVIOUS
<1>10. /\ Queued(v, l - 1, c, e, S, N, n)
       /\ ev[1].from = c =>
            ev[1].id = d + 1 /\ d + 1 \in 1 .. N /\ ev[1].len = S[d + 1].len
  <2>1. HeadGone(ev, v, l, c, d, e, S, N, n)
    BY <1>7, <1>8, <1>9 DEF HeadGone
  <2> QED BY <2>1, QueuedTail
<1>11. Silent(c) => Silent(c)'
  BY <1>2 DEF Silent
<1>12. d <= N /\ \A i \in 1 .. d : delivered[c][i] = S[i]
  BY <1>1, <1>5 DEF DeliveredInv
<1>13. delivered' = [delivered EXCEPT ![h.from] = Append(@, [id |-> h.id, len |-> h.len])]
  BY <1>5 DEF Dispatch
<1>14. CASE h.from # c
  <2>1. delivered'[c] = delivered[c]
    BY <1>0, <1>13, <1>14 DEF TypeOK
  <2>2. DeliveredInv(c)'
    BY <1>2, <2>1 DEF DeliveredInv
  <2>3. e = d
    BY <1>7, <1>9, <1>14
  <2>4. ReaderAt(c, n)'
    BY <1>1, <1>2, <1>3, <1>5, <1>7, <1>10, <1>11, <2>1, <2>3 DEF ReaderAt
  <2> QED BY <1>5, <1>14, <2>2, <2>4
<1>15. CASE h.from = c
  <2>1. h.id = d + 1 /\ d + 1 \in 1 .. N /\ h.len = S[d + 1].len
    BY <1>7, <1>10, <1>15
  <2>2. PICK r : r = [id |-> h.id, len |-> h.len]
    OBVIOUS
  <2>3. r = S[d + 1]
    <3>1. S[d + 1] \in Reports /\ S[d + 1].id = d + 1
      BY <1>0, <1>1, <1>5, <2>1, ClientType DEF WriterInv, Numbered
    <3> QED BY <2>1, <2>2, <3>1 DEF Reports
  <2>4. delivered'[c] = Append(delivered[c], r)
    BY <1>0, <1>13, <1>15, <2>2 DEF TypeOK
  <2>5. /\ Len(delivered'[c]) = d + 1 /\ delivered'[c][d + 1] = r
        /\ \A i \in 1 .. d : delivered'[c][i] = delivered[c][i]
    <3>1. delivered[c] \in Seq(Reports)
      BY <1>0 DEF TypeOK
    <3> QED BY <1>1, <2>4, <3>1
  <2>6. DeliveredInv(c)'
    <3>1. d + 1 <= N
      BY <2>1
    <3>2. \A i \in 1 .. d + 1 : i \in 1 .. d \/ i = d + 1
      OBVIOUS
    <3>3. \A i \in 1 .. d + 1 : delivered'[c][i] = S[i]
      BY <1>12, <2>3, <2>5, <3>2
    <3> QED BY <1>1, <1>2, <1>5, <2>5, <3>1, <3>3 DEF DeliveredInv
  <2>7. e = d + 1
    BY <1>7, <1>9, <1>15
  <2>8. n # d + 1
    <3>1. HeadGone(ev, v, l, c, d, e, S, N, n)
      BY <1>7, <1>8, <1>9 DEF HeadGone
    <3>2. ev[1].from = c
      BY <1>7, <1>15
    <3>3. d + 1 < n
      BY <3>1, <3>2, QueuedHead
    <3> QED BY <1>1, <3>3
  <2>9. ReaderAt(c, n)'
    BY <1>1, <1>2, <1>3, <1>5, <1>7, <1>10, <1>11, <2>5, <2>7, <2>8 DEF ReaderAt
  <2> QED BY <1>1, <1>5, <2>1, <2>3, <2>4, <2>6, <2>8, <2>9
<1> QED BY <1>14, <1>15

LEMMA DispatchReader ==
  ASSUME TypeOK, WriterInv, NEW c \in Serialised, ReaderInv(c), Dispatch
  PROVE  ReaderInv(c)'
  BY DispatchHands DEF ReaderInv

\* A client that ended is let go when the reader has all but its last report.
LEMMA DisconnectedLate ==
  ASSUME TypeOK, WriterInv, IdleInv, NEW c \in Serialised, NEW n, ReaderAt(c, n),
         Disconnected(c)
  PROVE  n >= Len(sent[c])
<1>0. c \in Clients
  BY DEF Serialised
<1>1. stream[c] = <<>> /\ busy = Nobody /\ ~Silent(c)
  BY DEF Disconnected, Silent
<1>2. PICK b, S : b = buffer[c] /\ S = sent[c]
  OBVIOUS
<1>3. PICK N \in Nat, B \in Nat, z \in Int : N = Len(S) /\ B = Written(c) /\ z = size[c]
  BY <1>0, <1>2, ClientType, WrittenType
<1>4. /\ Sync(b, <<>>, z, S, N, B, n)
      /\ Bytes(b) /\ \A m \in 1 .. N : S[m] \in Reports
  BY <1>0, <1>1, <1>2, <1>3, ClientType DEF ReaderAt
<1>5. (z = 0 => Count(b) < 2) /\ (z > 0 => Count(b) < z)
  <2>1. busy # c
    BY <1>0, <1>1, PipeAssumption
  <2> QED BY <1>0, <1>2, <1>3, <2>1 DEF IdleInv, Count
<1>6. n >= N
  BY <1>4, <1>5, SyncUnfinished
<1> QED BY <1>2, <1>3, <1>6

\* The pipe of a client that ended is closed.
LEMMA DisconnectedReader ==
  ASSUME TypeOK, WriterInv, IdleInv, NEW c \in Serialised, ReaderInv(c), Disconnected(c)
  PROVE  ReaderInv(c)'
<1>0. c \in Clients
  BY DEF Serialised
<1>1. /\ UNCHANGED <<conn, stream, sent, events, delivered>> /\ conn[c] = "closed"
      /\ stream[c] = <<>> /\ buffer'[c] = <<>> /\ size'[c] = 0
  BY <1>0 DEF Disconnected, client, TypeOK
<1>2. Silent(c)'
  BY <1>1 DEF Silent
<1>3. PICK n : ReaderAt(c, n)
  BY DEF ReaderInv
<1>4. n >= Len(sent[c])
  BY <1>3, DisconnectedLate
<1>5. ReaderAt(c, n)' /\ DeliveredInv(c)'
  BY <1>1, <1>2, <1>3, <1>4 DEF ReaderAt, ReaderInv, DeliveredInv
<1> QED BY <1>5 DEF ReaderInv

\* The steps that neither write to nor read from a pipe, and those that end.
LEMMA IdleReader ==
  ASSUME TypeOK, NEW c \in Serialised, ReaderInv(c),
         \/ \E a \in Clients : Connect(a) \/ Exit(a) \/ ReturnToEventLoop(a)
         \/ ServerUp \/ UNCHANGED vars
  PROVE  ReaderInv(c)'
<1>0. c \in Clients
  BY DEF Serialised
<1>1. UNCHANGED <<report, sent, stream, buffer, size, events, delivered>>
  BY DEF Connect, ConnectOpen, ConnectRetry, ConnectFail, Exit, ReturnToEventLoop,
         ServerUp, vars, client, app
<1>2. Written(c)' = Written(c)
  BY <1>1, WrittenKept
<1>3. conn'[c] = conn[c] \/ (conn[c] \in {"connecting", "open"} /\ conn'[c] # "broken")
  <2>1. ASSUME NEW a \in Clients, Connect(a) \/ Exit(a)
        PROVE  conn'[c] = conn[c]
               \/ (conn[c] \in {"connecting", "open"} /\ conn'[c] # "broken")
    <3>1. /\ conn[a] \in {"connecting", "open"}
          /\ \E x \in {"open", "failed", "connecting", "closed"} :
               conn' = [conn EXCEPT ![a] = x]
      BY <2>1 DEF Connect, ConnectOpen, ConnectRetry, ConnectFail, Exit
    <3> QED BY <1>0, <3>1 DEF TypeOK
  <2>2. CASE \/ \E a \in Clients : ReturnToEventLoop(a)
             \/ ServerUp \/ UNCHANGED vars
    BY <2>2 DEF ReturnToEventLoop, ServerUp, vars, client
  <2> QED BY <2>1, <2>2
<1> QED BY <1>1, <1>2, <1>3, ReaderKept

\* What the threads of another process send.
LEMMA SendOther ==
  ASSUME TypeOK, NEW c \in Serialised, ReaderInv(c),
         NEW s \in Senders, Home[s] # c, SendSize(s) \/ SendBody(s)
  PROVE  ReaderInv(c)'
<1>0. c \in Clients /\ Home[s] \in Clients
  BY PipeAssumption DEF Serialised
<1>1. UNCHANGED <<conn, buffer, size, events, delivered>>
  BY DEF SendSize, SendBody, app
<1>2. sent'[c] = sent[c] /\ stream'[c] = stream[c]
  <2>1. CASE SendSize(s)
    <3>1. PICK n \in BodySizes :
            LET r == [id |-> Len(sent[Home[s]]) + 1, len |-> n] IN
            /\ sent' = [sent EXCEPT ![Home[s]] = Append(@, r)]
            /\ stream' = [stream EXCEPT ![Home[s]] = @ \o SizeBytes(r)]
      BY <2>1 DEF SendSize
    <3> QED BY <1>0, <3>1 DEF TypeOK
  <2>2. CASE SendBody(s)
    BY <1>0, <2>2 DEF SendBody, TypeOK
  <2> QED BY <2>1, <2>2
<1>3. \A u \in Senders : Home[u] = c => report'[u] = report[u]
  <2>1. \A u \in Senders : u # s => report'[u] = report[u]
    <3>1. \E x : report' = [report EXCEPT ![s] = x]
      BY DEF SendSize, SendBody
    <3> QED BY <3>1 DEF TypeOK
  <2> QED BY <2>1
<1>4. Written(c)' = Written(c)
  BY <1>2, <1>3 DEF Written, PendingOn
<1> QED BY <1>1, <1>2, <1>4, ReaderKept

\* What the application reads from another pipe.
LEMMA ReadOther ==
  ASSUME TypeOK, NEW c \in Serialised, ReaderInv(c),
         NEW a \in Clients, a # c, ReadAll(a) \/ CutSize(a) \/ Disconnected(a)
  PROVE  ReaderInv(c)'
<1>0. c \in Clients
  BY DEF Serialised
<1>1. UNCHANGED <<conn, report, sent, events, delivered>>
  BY DEF ReadAll, CutSize, Disconnected, client
<1>2. buffer'[c] = buffer[c] /\ stream'[c] = stream[c] /\ size'[c] = size[c]
  BY <1>0 DEF ReadAll, CutSize, Disconnected, TypeOK
<1>3. Written(c)' = Written(c)
  BY <1>1, WrittenKept
<1> QED BY <1>1, <1>2, <1>3, ReaderKept

-----------------------------------------------------------------------------
\* The inductive invariant.
PipeInv == TypeOK /\ WriterInv /\ IdleInv /\ StreamInv

\* At the start nothing is sent, read or posted.
LEMMA PipeInit == Init => PipeInv
<1> SUFFICES ASSUME Init PROVE PipeInv
  OBVIOUS
<1>1. TypeOK
  BY InitType
<1>2. WriterInv
  BY DEF Init, Start, WriterInv, Numbered, PendingInv
<1>3. ASSUME NEW c \in Serialised PROVE ReaderInv(c)
  <2>1. c \in Clients
    BY DEF Serialised
  <2>2. /\ sent[c] = <<>> /\ delivered[c] = <<>> /\ stream[c] = <<>> /\ buffer[c] = <<>>
        /\ size[c] = 0 /\ events = <<>> /\ conn[c] # "broken"
        /\ Len(sent[c]) = 0 /\ Len(delivered[c]) = 0 /\ Len(events) = 0
    BY <2>1 DEF Init, Start
  <2>3. ~PendingOn(c)
    BY DEF Init, Start, PendingOn
  <2>4. Written(c) = 0
    BY <2>2, <2>3 DEF Written
  <2>5. Queued(events, 0, c, 0, sent[c], 0, 1)
    <3>1. PICK d \in Nat, N \in Nat : d = 0 /\ N = 0 /\ d <= N /\ d + 1 = 1
      OBVIOUS
    <3> QED BY <2>2, <3>1, NothingQueued
  <2>6. Sync(buffer[c], stream[c], size[c], sent[c], 0, 0, 1)
    BY <2>2, NothingYet
  <2>7. ReaderAt(c, 1)
    BY <2>2, <2>4, <2>5, <2>6 DEF ReaderAt
  <2>8. DeliveredInv(c)
    BY <2>2 DEF DeliveredInv
  <2> QED BY <2>7, <2>8 DEF ReaderInv
<1>4. IdleInv
  BY PipeAssumption DEF Init, Start, IdleInv
<1> QED BY <1>1, <1>2, <1>3, <1>4 DEF PipeInv, StreamInv

\* Every step keeps it.
LEMMA PipeStep == PipeInv /\ [Next]_vars => PipeInv'
<1> SUFFICES ASSUME PipeInv, [Next]_vars PROVE PipeInv'
  OBVIOUS
<1>1. /\ TypeOK /\ WriterInv /\ IdleInv
      /\ TypeOK' /\ WriterInv' /\ IdleInv'
  BY TypeStep, WriterStep, IdleStep DEF PipeInv
<1>2. ASSUME NEW c \in Serialised PROVE ReaderInv(c)'
  <2>0. c \in Clients /\ ReaderInv(c)
    BY DEF Serialised, PipeInv, StreamInv
  <2>1. CASE \/ \E a \in Clients : Connect(a) \/ Exit(a) \/ ReturnToEventLoop(a)
             \/ ServerUp \/ Quiet \/ UNCHANGED vars
    BY <1>1, <2>0, <2>1, IdleReader DEF Quiet
  <2>2. ASSUME NEW s \in Senders, SendSize(s) \/ SendBody(s) PROVE ReaderInv(c)'
    BY <1>1, <2>0, <2>2, SendOther, SendSizeReader, SendBodyReader
  <2>3. ASSUME NEW a \in Clients, ReadAll(a) \/ CutSize(a) \/ Disconnected(a)
        PROVE  ReaderInv(c)'
    BY <1>1, <2>0, <2>3, ReadOther, ReadAllReader, CutSizeReader, DisconnectedReader
  <2>4. ASSUME NEW a \in Clients, CutFrame(a) PROVE ReaderInv(c)'
    BY <1>1, <2>0, <2>4, CutFrameReader, CutFrameOther
  <2>5. CASE ServerExit \/ Dispatch
    BY <1>1, <2>0, <2>5, ServerExitReader, DispatchReader
  <2> QED BY <2>1, <2>2, <2>3, <2>4, <2>5 DEF Next, ProcessData
<1> QED BY <1>1, <1>2 DEF PipeInv, StreamInv, Serialised

\* What was handed over is a prefix of what was sent.
LEMMA PipeInOrder == PipeInv => InOrder
<1> SUFFICES ASSUME PipeInv, NEW c \in Serialised PROVE PrefixOf(delivered[c], sent[c])
  BY DEF InOrder
<1>1. PICK x, y : x = delivered[c] /\ y = sent[c]
  OBVIOUS
<1>2. x \in Seq(Reports) /\ y \in Seq(Reports)
  BY <1>1 DEF PipeInv, TypeOK, Serialised
<1>3. Len(x) <= Len(y) /\ \A i \in 1 .. Len(x) : x[i] = y[i]
  BY <1>1 DEF PipeInv, StreamInv, ReaderInv, DeliveredInv
<1>4. PICK m \in Nat : m = Len(x)
  BY <1>2
<1>5. /\ SubSeq(y, 1, m) \in Seq(Reports) /\ Len(SubSeq(y, 1, m)) = m
      /\ \A i \in 1 .. m : SubSeq(y, 1, m)[i] = y[i]
  BY <1>2, <1>3, <1>4, CutType
<1>6. x = SubSeq(y, 1, m)
  BY <1>2, <1>3, <1>4, <1>5, SameSeq
<1> QED BY <1>1, <1>3, <1>4, <1>6 DEF PrefixOf

\* A length that was cut off is that of a report.
LEMMA PipeInStep == PipeInv => InStep
<1> SUFFICES ASSUME PipeInv, NEW c \in Serialised PROVE size[c] \in BodySizes \union {0}
  BY DEF InStep
<1>0. c \in Clients /\ TypeOK
  BY DEF PipeInv, Serialised
<1>1. PICK N \in Nat : N = Len(sent[c])
  BY <1>0, ClientType
<1>2. PICK B, S : B = Written(c) /\ S = sent[c]
  OBVIOUS
<1>3. PICK n : ReaderAt(c, n)
  BY DEF PipeInv, StreamInv, ReaderInv
<1>4. CASE Silent(c)
  BY <1>4 DEF Silent
<1>5. CASE Sync(buffer[c], stream[c], size[c], S, N, B, n)
  <2>1. size[c] # 0 => n \in 1 .. N /\ size[c] = S[n].len
    BY <1>5, SyncHead
  <2>2. \A m \in 1 .. N : S[m] \in Reports
    BY <1>0, <1>1, <1>2, ClientType
  <2> QED BY <2>1, <2>2 DEF Reports
<1> QED BY <1>1, <1>2, <1>3, <1>4, <1>5 DEF ReaderAt

\* The application sees the reports of a client whose threads all hold
\* globalMutex, or that reports from one thread, in the order they were sent,
\* whole, none twice and none skipped, for every number of clients, threads and
\* reports and however bytes arrive.
THEOREM ReportsInOrder == Spec => []InOrder
<1>1. Spec => []PipeInv
  BY PipeInit, PipeStep, PTL DEF Spec
<1> QED BY <1>1, PipeInOrder, PTL

\* ExPipeServer never takes bytes of a body of such a client for a length.
THEOREM ServerInStep == Spec => []InStep
<1>1. Spec => []PipeInv
  BY PipeInit, PipeStep, PTL DEF Spec
<1> QED BY <1>1, PipeInStep, PTL
=============================================================================
