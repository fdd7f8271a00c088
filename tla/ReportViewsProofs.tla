------------------------- MODULE ReportViewsProofs -------------------------
(***************************************************************************)
(* Proofs about ReportViews: what the views show of the reports of a       *)
(* client whose reports are kept apart (Serialised).  A view's rows and    *)
(* the timers that will add one make up a line (LineOf), which a report    *)
(* enters at its end, where the event loop's queue begins; a timer that    *)
(* fires moves no report of the line of its own view, and takes one of     *)
(* another client out of every other line.  On top of PipeInv, which says  *)
(* what the event loop still has, the line of a view holds the reports     *)
(* handed over so far but for those that are due no row, unless it is over *)
(* with the client and the application has exited since (LinesInv); and    *)
(* the traffic lists have what the reports moved (ListsInv, MovedInv).     *)
(***************************************************************************)
EXTENDS ReportViews, PipeTransportProofs

-----------------------------------------------------------------------------
(* Sequences.                                                              *)

\* A reversed sequence.
LEMMA ReverseType ==
  ASSUME NEW S, NEW q \in Seq(S)
  PROVE  /\ Reverse(q) \in Seq(S) /\ Len(Reverse(q)) = Len(q)
         /\ \A i \in 1 .. Len(q) : Reverse(q)[i] = q[Len(q) - i + 1]
<1>1. PICK n \in Nat : n = Len(q)
  OBVIOUS
<1>2. Reverse(q) = [i \in 1 .. n |-> q[(n - i) + 1]]
  BY <1>1 DEF Reverse
<1>3. \A i \in 1 .. n : (n - i) + 1 \in 1 .. n
  OBVIOUS
<1>4. \A i \in 1 .. n : q[(n - i) + 1] \in S
  BY <1>1, <1>3, ElementOfSeq
<1>5. Reverse(q) \in [1 .. n -> S]
  BY <1>2, <1>4
<1>6. Reverse(q) \in Seq(S)
  BY <1>5, SeqDef
<1>7. Len(Reverse(q)) = n
  BY <1>2, <1>6
<1> QED BY <1>1, <1>2, <1>6, <1>7

\* The elements of sequences that are joined.
LEMMA ToSetJoin ==
  ASSUME NEW S, NEW q \in Seq(S), NEW p \in Seq(S)
  PROVE  ToSet(q \o p) = ToSet(q) \union ToSet(p)
<1>1. PICK j : j = q \o p
  OBVIOUS
<1>2. PICK l \in Nat, m \in Nat : l = Len(q) /\ m = Len(p)
  OBVIOUS
<1>3. /\ j \in Seq(S) /\ Len(j) = l + m
      /\ \A i \in 1 .. l : j[i] = q[i]
      /\ \A i \in 1 .. m : j[l + i] = p[i]
  BY <1>1, <1>2, JoinType
<1>4. DOMAIN j = 1 .. l + m /\ DOMAIN q = 1 .. l /\ DOMAIN p = 1 .. m
  BY <1>2, <1>3
<1>5. \A i \in 1 .. l + m : i \in 1 .. l \/ (i - l \in 1 .. m /\ l + (i - l) = i)
  OBVIOUS
<1>6. \A i \in 1 .. l : i \in 1 .. l + m
  OBVIOUS
<1>7. \A i \in 1 .. m : l + i \in 1 .. l + m
  OBVIOUS
<1>8. ASSUME NEW x \in ToSet(j) PROVE x \in ToSet(q) \union ToSet(p)
  <2>1. PICK i \in 1 .. l + m : x = j[i]
    BY <1>4, <1>8 DEF ToSet
  <2>2. CASE i \in 1 .. l
    BY <1>3, <1>4, <2>1, <2>2 DEF ToSet
  <2>3. CASE i - l \in 1 .. m /\ l + (i - l) = i
    <3>1. x = p[i - l]
      BY <1>3, <2>1, <2>3
    <3> QED BY <1>4, <2>3, <3>1 DEF ToSet
  <2> QED BY <1>5, <2>2, <2>3
<1>9. ASSUME NEW x \in ToSet(q) PROVE x \in ToSet(j)
  BY <1>3, <1>4, <1>6, <1>9 DEF ToSet
<1>10. ASSUME NEW x \in ToSet(p) PROVE x \in ToSet(j)
  <2>1. PICK i \in 1 .. m : x = p[i]
    BY <1>4, <1>10 DEF ToSet
  <2>2. l + i \in DOMAIN j /\ j[l + i] = x
    BY <1>3, <1>4, <1>7, <2>1
  <2> QED BY <2>2 DEF ToSet
<1> QED BY <1>1, <1>8, <1>9, <1>10

\* The elements of a sequence.
LEMMA ToSetType ==
  ASSUME NEW S, NEW q \in Seq(S)
  PROVE  /\ DOMAIN q = 1 .. Len(q) /\ Len(q) \in Nat
         /\ ToSet(q) \subseteq S
         /\ ToSet(q) = {q[i] : i \in 1 .. Len(q)}
<1>1. DOMAIN q = 1 .. Len(q) /\ Len(q) \in Nat
  OBVIOUS
<1>2. \A i \in 1 .. Len(q) : q[i] \in S
  BY ElementOfSeq
<1> QED BY <1>1, <1>2 DEF ToSet

\* One more element.
LEMMA ToSetAppend ==
  ASSUME NEW S, NEW q \in Seq(S), NEW x \in S
  PROVE  ToSet(Append(q, x)) = ToSet(q) \union {x}
<1>1. PICK p : p = <<x>>
  OBVIOUS
<1>2. p \in Seq(S) /\ ToSet(p) = {x}
  BY <1>1 DEF ToSet
<1>3. Append(q, x) = q \o p
  BY <1>1
<1>4. ToSet(q \o p) = ToSet(q) \union ToSet(p)
  BY <1>2, ToSetJoin
<1> QED BY <1>2, <1>3, <1>4

\* The first element and the others.
LEMMA ToSetHead ==
  ASSUME NEW S, NEW q \in Seq(S), q # <<>>
  PROVE  ToSet(q) = {Head(q)} \union ToSet(Tail(q))
<1>1. PICK t, h : t = Tail(q) /\ h = Head(q)
  OBVIOUS
<1>2. PICK l \in Nat \ {0} : l = Len(q)
  OBVIOUS
<1>3. /\ t \in Seq(S) /\ Len(t) = l - 1 /\ h = q[1]
      /\ \A i \in 1 .. l - 1 : t[i] = q[i + 1]
  BY <1>1, <1>2
<1>4. ToSet(q) = {q[i] : i \in 1 .. l} /\ ToSet(t) = {t[i] : i \in 1 .. l - 1}
  BY <1>2, <1>3, ToSetType
<1>5. \A i \in 1 .. l : i = 1 \/ (i - 1 \in 1 .. l - 1 /\ (i - 1) + 1 = i)
  OBVIOUS
<1>6. ASSUME NEW x \in ToSet(q) PROVE x \in {h} \union ToSet(t)
  <2>1. PICK i \in 1 .. l : x = q[i]
    BY <1>4, <1>6
  <2>2. CASE i # 1
    <3>1. i - 1 \in 1 .. l - 1 /\ x = t[i - 1]
      BY <1>3, <1>5, <2>1, <2>2
    <3> QED BY <1>4, <3>1
  <2> QED BY <1>3, <2>1, <2>2
<1>7. \A i \in 1 .. l - 1 : i + 1 \in 1 .. l
  OBVIOUS
<1>8. 1 \in 1 .. l
  OBVIOUS
<1> QED BY <1>1, <1>3, <1>4, <1>6, <1>7, <1>8

\* The messages of a report.
LEMMA MessagesType ==
  ASSUME NEW x, x.count \in Nat
  PROVE  /\ Messages(x) \in Seq([of : {x}, k : 1 .. x.count])
         /\ Len(Messages(x)) = x.count
         /\ \A k \in 1 .. x.count : Messages(x)[k] = [of |-> x, k |-> k]
         /\ ToSet(Messages(x)) = [of : {x}, k : 1 .. x.count]
<1>1. PICK n \in Nat : n = x.count
  OBVIOUS
<1>2. PICK S : S = [of : {x}, k : 1 .. n]
  OBVIOUS
<1>3. PICK q : q = Messages(x)
  OBVIOUS
<1>4. q = [k \in 1 .. n |-> [of |-> x, k |-> k]]
  BY <1>1, <1>3 DEF Messages
<1>5. q \in [1 .. n -> S]
  BY <1>2, <1>4
<1>6. q \in Seq(S)
  BY <1>5, SeqDef
<1>7. Len(q) = n
  BY <1>4, <1>6
<1>8. ToSet(q) = S
  <2>1. ToSet(q) \subseteq S
    BY <1>6, ToSetType
  <2>2. ASSUME NEW m \in S PROVE m \in ToSet(q)
    <3>1. m.k \in 1 .. n /\ m = [of |-> x, k |-> m.k]
      BY <1>2, <2>2
    <3>2. m.k \in DOMAIN q /\ q[m.k] = m
      BY <1>4, <3>1
    <3> QED BY <3>2 DEF ToSet
  <2> QED BY <2>1, <2>2
<1> QED BY <1>1, <1>2, <1>3, <1>4, <1>6, <1>7, <1>8

-----------------------------------------------------------------------------
(* What a step does to the views.                                          *)

\* Only a report whose client has a view gets a row or is listed.
TimersInv ==
    /\ \A x \in ToSet(timers) : source[x.from] \in Views
    /\ \A x \in traffic : source[x.from] \in Views /\ x.func \in {"read", "write"}

\* A report the views take no notice of.
Skipped ==
    /\ Dispatch
    /\ source[Head(events).from] \notin Views
    /\ UNCHANGED <<source, viewVars>>

\* Report x, the oldest event, reaches view v.
Processed(v, x) ==
    /\ Dispatch
    /\ v \in Views /\ x \in Shown /\ source[x.from] = v
    /\ x.from = Head(events).from /\ x.id = Head(events).id
    /\ ProcessPipeMessage(v, x)
    /\ UNCHANGED source

\* The timer of report x adds its row.
Rowed(x) ==
    /\ timers # <<>> /\ x = Head(timers)
    /\ rows' = [rows EXCEPT ![source[x.from]] = <<x>> \o @]
    /\ timers' = Tail(timers)
    /\ UNCHANGED <<vars, source, readMsgs, writeMsgs, loaded, traffic>>

\* The application has exited.
Left ==
    /\ FreshViews(timers', rows', readMsgs', writeMsgs', loaded', traffic')
    /\ ServerExit /\ UNCHANGED source

\* The views take no part.
Aside == UNCHANGED <<source, viewVars, delivered>>

\* Those are the steps there are.
LEMMA ViewSteps ==
  ASSUME TypeOK, [ViewNext]_allVars
  PROVE  \/ Aside \/ Left \/ Skipped
         \/ \E v \in Views, x \in Shown : Processed(v, x)
         \/ \E x : Rowed(x)
<1>1. CASE UNCHANGED allVars
  BY <1>1 DEF allVars, vars, app, viewVars, Aside
<1>2. CASE Transport
  <2>1. delivered' = delivered
    <3>1. ASSUME NEW c \in Clients, Connect(c) \/ Exit(c) \/ ProcessData(c) \/ Disconnected(c)
          PROVE  delivered' = delivered
      BY <3>1 DEF Connect, ConnectOpen, ConnectRetry, ConnectFail, Exit, ProcessData, ReadAll,
                  CutSize, CutFrame, ReturnToEventLoop, Disconnected, app
    <3>2. ASSUME NEW s \in Senders, SendSize(s) \/ SendBody(s)
          PROVE  delivered' = delivered
      BY <3>2 DEF SendSize, SendBody, app
    <3> QED BY <1>2, <3>1, <3>2 DEF Transport, ServerUp, Quiet, vars, app
  <2> QED BY <1>2, <2>1 DEF Transport, Aside
<1>3. CASE DispatchToView
  <2>1. events \in Seq(Events) /\ events # <<>>
    BY <1>3 DEF DispatchToView, Dispatch, TypeOK, Events
  <2>2. PICK h \in Events : h = Head(events)
    BY <2>1
  <2>3. Dispatch /\ UNCHANGED source /\ IncommingMessageFromClient(h.from, h.id)
    BY <1>3, <2>2 DEF DispatchToView
  <2>4. PICK f \in Functions_, k \in 0 .. MaxMsgs :
          IF source[h.from] \in Views
            THEN ProcessPipeMessage(source[h.from],
                   [from |-> h.from, id |-> h.id, func |-> f, count |-> k])
            ELSE UNCHANGED viewVars
    BY <2>3 DEF IncommingMessageFromClient
  <2>5. CASE source[h.from] \notin Views
    BY <2>2, <2>3, <2>4, <2>5 DEF Skipped
  <2>6. CASE source[h.from] \in Views
    <3>1. PICK x : x = [from |-> h.from, id |-> h.id, func |-> f, count |-> k]
      OBVIOUS
    <3>2. x \in Shown /\ x.from = h.from /\ x.id = h.id
      BY <2>2, <2>4, <3>1 DEF Events, Shown
    <3>3. PICK v \in Views : v = source[h.from]
      BY <2>6
    <3>4. ProcessPipeMessage(v, x)
      BY <2>4, <3>1, <3>3
    <3>5. Processed(v, x)
      BY <2>2, <2>3, <3>2, <3>3, <3>4 DEF Processed
    <3> QED BY <3>2, <3>5
  <2> QED BY <2>5, <2>6
<1>4. CASE AddElement
  BY <1>4 DEF AddElement, Rowed
<1>5. CASE ExitWithViews
  BY <1>5 DEF ExitWithViews, Left
<1> QED BY <1>1, <1>2, <1>3, <1>4, <1>5 DEF ViewNext

\* To the pipe they are steps of PipeTransport.
LEMMA ViewPipeStep == [ViewNext]_allVars => [Next]_vars
<1> SUFFICES ASSUME [ViewNext]_allVars PROVE [Next]_vars
  OBVIOUS
<1>1. CASE Transport
  BY <1>1 DEF Transport, Next
<1>2. CASE DispatchToView \/ ExitWithViews
  BY <1>2 DEF DispatchToView, ExitWithViews, Next
<1>3. CASE AddElement \/ UNCHANGED allVars
  BY <1>3 DEF AddElement, allVars
<1> QED BY <1>1, <1>2, <1>3 DEF ViewNext

-----------------------------------------------------------------------------
(* Types.                                                                  *)

\* What a view lists of a report of PassThruReadMsgs.
MsgSet == [of : Shown, k : 1 .. MaxMsgs]

\* The messages of a report can be listed.
LEMMA MessagesListed ==
  ASSUME NEW x \in Shown
  PROVE  x.count \in Nat /\ Messages(x) \in Seq(MsgSet)
<1>1. x.count \in 0 .. MaxMsgs /\ MaxMsgs \in Nat
  BY ViewsAssumption DEF Shown
<1>2. PICK n \in Nat : n = x.count /\ n <= MaxMsgs
  BY <1>1
<1>3. Messages(x) = [k \in 1 .. n |-> [of |-> x, k |-> k]]
  BY <1>2 DEF Messages
<1>4. \A k \in 1 .. n : [of |-> x, k |-> k] \in MsgSet
  BY <1>1, <1>2 DEF MsgSet
<1>5. [k \in 1 .. n |-> [of |-> x, k |-> k]] \in [1 .. n -> MsgSet]
  BY <1>4
<1>6. Messages(x) \in Seq(MsgSet)
  BY <1>3, <1>5, SeqDef
<1> QED BY <1>2, <1>6

\* The application starts with views of their type.
LEMMA FreshType ==
  ASSUME NEW t, NEW r, NEW m, NEW w, NEW l, NEW x, FreshViews(t, r, m, w, l, x)
  PROVE  /\ t \in Seq(Shown) /\ r \in [Views -> Seq(Shown)] /\ m \in [Views -> Seq(MsgSet)]
         /\ w \in [Views -> Seq(Shown)] /\ l \in Shown \union {Nothing}
         /\ x \subseteq Shown
  BY DEF FreshViews

LEMMA ViewInitType == ViewInit => ViewsTypeOK /\ TimersInv
<1> SUFFICES ASSUME ViewInit PROVE ViewsTypeOK /\ TimersInv
  OBVIOUS
<1>1. source \in [Clients -> Views \union {"none"}]
  BY ViewsAssumption DEF ViewInit, ViewStart
<1>2. ViewsTypeOK
  BY <1>1, FreshType DEF ViewInit, ViewStart, ViewsTypeOK, MsgSet
<1>3. TimersInv
  BY DEF ViewInit, ViewStart, FreshViews, TimersInv, ToSet
<1> QED BY <1>2, <1>3

\* Every step keeps the types of the views.
LEMMA ViewTypeStep ==
  ASSUME TypeOK, ViewsTypeOK, TimersInv, [ViewNext]_allVars
  PROVE  ViewsTypeOK' /\ TimersInv'
<1>1. CASE Aside \/ Skipped
  BY <1>1 DEF Aside, Skipped, viewVars, ViewsTypeOK, TimersInv
<1>2. CASE Left
  <2>1. ViewsTypeOK'
    BY <1>2, FreshType DEF Left, ViewsTypeOK, MsgSet
  <2>2. TimersInv'
    BY <1>2 DEF Left, FreshViews, TimersInv, ToSet
  <2> QED BY <2>1, <2>2
<1>3. ASSUME NEW v \in Views, NEW x \in Shown, Processed(v, x)
      PROVE  ViewsTypeOK' /\ TimersInv'
  <2>1. ProcessPipeMessage(v, x) /\ source' = source /\ source[x.from] = v
    BY <1>3 DEF Processed
  <2>2. timers' \in Seq(Shown)
    BY <2>1 DEF ProcessPipeMessage, ViewsTypeOK
  <2>3. readMsgs' \in [Views -> Seq(MsgSet)]
    <3>1. PICK q : q = Messages(x)
      OBVIOUS
    <3>2. q \in Seq(MsgSet)
      BY <3>1, MessagesListed
    <3>3. readMsgs' = readMsgs \/ readMsgs' = [readMsgs EXCEPT ![v] = @ \o q]
      BY <2>1, <3>1 DEF ProcessPipeMessage
    <3>4. readMsgs \in [Views -> Seq(MsgSet)]
      BY DEF ViewsTypeOK, MsgSet
    <3>5. PICK T : T = Seq(MsgSet)
      OBVIOUS
    <3>6. readMsgs[v] \o q \in T
      BY <3>2, <3>4, <3>5, JoinType
    <3> QED BY <3>3, <3>4, <3>5, <3>6
  <2>4. writeMsgs' \in [Views -> Seq(Shown)]
    BY <2>1 DEF ProcessPipeMessage, ViewsTypeOK
  <2>5. loaded' \in Shown \union {Nothing} /\ rows' = rows /\ traffic' \subseteq Shown
    BY <2>1 DEF ProcessPipeMessage, ViewsTypeOK
  <2>6. ViewsTypeOK'
    BY <2>1, <2>2, <2>3, <2>4, <2>5 DEF ViewsTypeOK, MsgSet
  <2>7. TimersInv'
    <3>1. ToSet(Append(timers, x)) = ToSet(timers) \union {x}
      BY ToSetAppend DEF ViewsTypeOK
    <3> QED BY <2>1, <3>1 DEF ProcessPipeMessage, TimersInv
  <2> QED BY <2>6, <2>7
<1>4. ASSUME NEW x, Rowed(x) PROVE ViewsTypeOK' /\ TimersInv'
  <2>1. timers \in Seq(Shown) /\ timers # <<>> /\ x = Head(timers) /\ timers' = Tail(timers)
    BY <1>4 DEF Rowed, ViewsTypeOK
  <2>2. x \in Shown /\ timers' \in Seq(Shown)
    BY <2>1
  <2>3. ToSet(timers) = {x} \union ToSet(timers')
    BY <2>1, ToSetHead
  <2>4. source[x.from] \in Views
    BY <2>3 DEF TimersInv
  <2>5. rows' \in [Views -> Seq(Shown)]
    BY <1>4, <2>2, <2>4 DEF Rowed, ViewsTypeOK
  <2>6. UNCHANGED <<source, readMsgs, writeMsgs, loaded, traffic>>
    BY <1>4 DEF Rowed
  <2>7. ViewsTypeOK'
    BY <2>2, <2>5, <2>6 DEF ViewsTypeOK
  <2>8. TimersInv'
    BY <2>3, <2>6 DEF TimersInv
  <2> QED BY <2>7, <2>8
<1> QED BY <1>1, <1>2, <1>3, <1>4, ViewSteps

\* The rows, lists and timers of the views stay in their types, for any clients,
\* sources and numbers of messages.
THEOREM ViewsTypeCorrect == ViewSpec => []ViewsTypeOK
<1>1. ViewSpec => ViewInit /\ [][ViewNext]_allVars
  BY PTL DEF ViewSpec
<1>2. ViewInit => TypeOK /\ ViewsTypeOK /\ TimersInv
  BY InitType, ViewInitType DEF ViewInit
<1>3. TypeOK /\ ViewsTypeOK /\ TimersInv /\ [ViewNext]_allVars
        => (TypeOK /\ ViewsTypeOK /\ TimersInv)'
  BY ViewTypeStep, ViewPipeStep, TypeStep
<1> QED BY <1>1, <1>2, <1>3, PTL

-----------------------------------------------------------------------------
(* The line of a view.                                                     *)

\* The rows of view v, the top one last, and the reports that wait for theirs.
LineOf(v) == Reverse(rows[v]) \o timers

\* M is L, of l reports, without the p-th.
Dropped(L, l, M, p) ==
    /\ l \in Nat /\ p \in 1 .. l
    /\ \A i \in 1 .. p - 1 : M[i] = L[i]
    /\ \A i \in p .. l - 1 : M[i] = L[i + 1]

\* A is r, of n elements, reversed, and behind it t, of m.
Laid(S, r, n, t, m, A) ==
    /\ r \in Seq(S) /\ n = Len(r)
    /\ t \in Seq(S) /\ m = Len(t)
    /\ A = Reverse(r) \o t

\* The line, place by place.
LEMMA LinePlaces ==
  ASSUME NEW S, NEW r, NEW n, NEW t, NEW m, NEW A, Laid(S, r, n, t, m, A)
  PROVE  /\ A \in Seq(S) /\ Len(A) = n + m /\ n \in Nat /\ m \in Nat
         /\ \A i \in 1 .. n : A[i] = r[n - i + 1]
         /\ \A i \in 1 .. m : A[n + i] = t[i]
<1>0. r \in Seq(S) /\ t \in Seq(S) /\ n = Len(r) /\ m = Len(t) /\ A = Reverse(r) \o t
  BY DEF Laid
<1>1. PICK q : q = Reverse(r)
  OBVIOUS
<1>2. q \in Seq(S) /\ Len(q) = Len(r) /\ \A i \in 1 .. Len(r) : q[i] = r[Len(r) - i + 1]
  BY <1>0, <1>1, ReverseType
<1>3. /\ q \o t \in Seq(S) /\ Len(q \o t) = Len(q) + Len(t)
      /\ \A i \in 1 .. Len(q) : (q \o t)[i] = q[i]
      /\ \A i \in 1 .. Len(t) : (q \o t)[Len(q) + i] = t[i]
  <2>1. q \in Seq(S) /\ t \in Seq(S)
    BY <1>0, <1>2
  <2> QED BY <2>1, JoinType
<1>4. Len(r) \in Nat /\ Len(t) \in Nat
  BY <1>0
<1> QED BY <1>0, <1>1, <1>2, <1>3, <1>4

\* The line is a sequence of reports.
LEMMA LineType ==
  ASSUME ViewsTypeOK, NEW v \in Views
  PROVE  LineOf(v) \in Seq(Shown) /\ Len(LineOf(v)) \in Nat
<1>1. rows[v] \in Seq(Shown) /\ timers \in Seq(Shown)
  BY DEF ViewsTypeOK
<1>2. LineOf(v) \in Seq(Shown)
  <2>1. PICK r, n, t, m, A : Laid(Shown, r, n, t, m, A) /\ A = LineOf(v)
    BY <1>1 DEF LineOf, Laid
  <2>2. A \in Seq(Shown)
    BY <2>1, LinePlaces
  <2> QED BY <2>1, <2>2
<1> QED BY <1>2

\* A report with a row joins the end of every line.
LEMMA LineAppend ==
  ASSUME NEW S, NEW r \in Seq(S), NEW t \in Seq(S), NEW x \in S
  PROVE  Reverse(r) \o Append(t, x) = Append(Reverse(r) \o t, x)
<1>1. PICK q : q = Reverse(r)
  OBVIOUS
<1>2. q \in Seq(S)
  BY <1>1, ReverseType
<1>3. q \o Append(t, x) = Append(q \o t, x)
  BY <1>2
<1> QED BY <1>1, <1>3

\* t has an element.
Waiting(S, r, t) == r \in Seq(S) /\ t \in Seq(S) /\ t # <<>>

\* The report that gets its row stays where it was in the line of its view.
LEMMA LineMove ==
  ASSUME NEW S, NEW r, NEW t, Waiting(S, r, t)
  PROVE  Reverse(<<Head(t)>> \o r) \o Tail(t) = Reverse(r) \o t
<1>1. PICK h, k, y : h = Head(t) /\ k = Tail(t) /\ y = <<Head(t)>> \o r
  OBVIOUS
<1>0. r \in Seq(S) /\ t \in Seq(S) /\ t # <<>>
  BY DEF Waiting
<1>2. PICK n, m : n = Len(r) /\ m = Len(t) /\ n \in Nat /\ m \in Nat \ {0}
  <2>1. Len(r) \in Nat /\ Len(t) \in Nat \ {0}
    BY <1>0
  <2> QED BY <2>1
<1>3. /\ h \in S /\ k \in Seq(S) /\ Len(k) = m - 1 /\ h = t[1]
      /\ \A i \in 1 .. m - 1 : k[i] = t[i + 1]
  BY <1>0, <1>1, <1>2
<1>4. y \in Seq(S) /\ Len(y) = n + 1 /\ y[1] = h /\ \A i \in 1 .. n : y[i + 1] = r[i]
  BY <1>0, <1>1, <1>2, <1>3
<1>5. PICK N, M : N = n + 1 /\ M = m - 1 /\ N \in Nat /\ M \in Nat
  BY <1>2
<1>6. PICK A, B : A = Reverse(y) \o k /\ B = Reverse(r) \o t
  OBVIOUS
<1>7. /\ A \in Seq(S) /\ Len(A) = N + M
      /\ \A i \in 1 .. N : A[i] = y[N - i + 1]
      /\ \A i \in 1 .. M : A[N + i] = k[i]
  <2>1. Laid(S, y, N, k, M, A)
    BY <1>3, <1>4, <1>5, <1>6 DEF Laid
  <2> QED BY <2>1, LinePlaces
<1>8. /\ B \in Seq(S) /\ Len(B) = n + m
      /\ \A i \in 1 .. n : B[i] = r[n - i + 1]
      /\ \A i \in 1 .. m : B[n + i] = t[i]
  <2>1. Laid(S, r, n, t, m, B)
    BY <1>0, <1>2, <1>6 DEF Laid
  <2> QED BY <2>1, LinePlaces
<1>9. ASSUME NEW i \in 1 .. n + m PROVE A[i] = B[i]
  <2>1. CASE i \in 1 .. n
    <3>1. i \in 1 .. N /\ n - i + 1 \in 1 .. n /\ N - i + 1 = (n - i + 1) + 1
      BY <1>2, <1>5, <2>1
    <3>2. A[i] = r[n - i + 1]
      BY <1>4, <1>7, <3>1
    <3> QED BY <1>8, <2>1, <3>2
  <2>2. CASE i = n + 1
    <3>1. A[i] = y[1]
      BY <1>5, <1>7, <2>2
    <3>2. B[i] = t[1]
      BY <1>2, <1>8, <2>2
    <3> QED BY <1>3, <1>4, <3>1, <3>2
  <2>3. CASE i > n + 1
    <3>1. PICK j \in 1 .. M : i = N + j /\ i = n + (j + 1) /\ j + 1 \in 1 .. m
      <4>1. i - N \in 1 .. M /\ i = N + (i - N) /\ i = n + ((i - N) + 1)
            /\ (i - N) + 1 \in 1 .. m
        BY <1>2, <1>5, <2>3
      <4> QED BY <4>1
    <3>2. A[i] = k[j]
      BY <1>7, <3>1
    <3>3. B[i] = t[j + 1]
      BY <1>8, <3>1
    <3> QED BY <1>3, <1>5, <3>2, <3>3
  <2> QED BY <1>2, <2>1, <2>2, <2>3
<1>10. A = B
  <2>1. Len(A) = Len(B) /\ \A i \in 1 .. Len(A) : A[i] = B[i]
    BY <1>2, <1>5, <1>7, <1>8, <1>9
  <2> QED BY <1>7, <1>8, <2>1, SameSeq
<1> QED BY <1>1, <1>6, <1>10

\* It leaves the lines of the other views.
LEMMA LineDrop ==
  ASSUME NEW S, NEW r, NEW t, Waiting(S, r, t)
  PROVE  /\ Dropped(Reverse(r) \o t, Len(Reverse(r) \o t), Reverse(r) \o Tail(t), Len(r) + 1)
         /\ (Reverse(r) \o t)[Len(r) + 1] = Head(t)
         /\ Len(Reverse(r) \o Tail(t)) = Len(Reverse(r) \o t) - 1
<1>1. PICK h, k : h = Head(t) /\ k = Tail(t)
  OBVIOUS
<1>0. r \in Seq(S) /\ t \in Seq(S) /\ t # <<>>
  BY DEF Waiting
<1>2. PICK n, m : n = Len(r) /\ m = Len(t) /\ n \in Nat /\ m \in Nat \ {0}
  <2>1. Len(r) \in Nat /\ Len(t) \in Nat \ {0}
    BY <1>0
  <2> QED BY <2>1
<1>3. /\ h \in S /\ k \in Seq(S) /\ Len(k) = m - 1 /\ h = t[1]
      /\ \A i \in 1 .. m - 1 : k[i] = t[i + 1]
  BY <1>0, <1>1, <1>2
<1>4. PICK M : M = m - 1 /\ M \in Nat
  BY <1>2
<1>5. PICK A, B : A = Reverse(r) \o k /\ B = Reverse(r) \o t
  OBVIOUS
<1>6. /\ A \in Seq(S) /\ Len(A) = n + M
      /\ \A i \in 1 .. n : A[i] = r[n - i + 1]
      /\ \A i \in 1 .. M : A[n + i] = k[i]
  <2>1. Laid(S, r, n, k, M, A)
    BY <1>0, <1>2, <1>3, <1>4, <1>5 DEF Laid
  <2> QED BY <2>1, LinePlaces
<1>7. /\ B \in Seq(S) /\ Len(B) = n + m
      /\ \A i \in 1 .. n : B[i] = r[n - i + 1]
      /\ \A i \in 1 .. m : B[n + i] = t[i]
  <2>1. Laid(S, r, n, t, m, B)
    BY <1>0, <1>2, <1>5 DEF Laid
  <2> QED BY <2>1, LinePlaces
<1>8. ASSUME NEW i \in n + 1 .. n + m - 1 PROVE A[i] = B[i + 1]
  <2>1. PICK j \in 1 .. M : i = n + j /\ i + 1 = n + (j + 1) /\ j + 1 \in 1 .. m
    <3>1. i - n \in 1 .. M /\ i = n + (i - n) /\ i + 1 = n + ((i - n) + 1)
          /\ (i - n) + 1 \in 1 .. m
      BY <1>2, <1>4
    <3> QED BY <3>1
  <2>2. A[i] = k[j] /\ B[i + 1] = t[j + 1]
    BY <1>6, <1>7, <2>1
  <2> QED BY <1>3, <1>4, <2>2
<1>9. \A i \in 1 .. (n + 1) - 1 : A[i] = B[i]
  BY <1>2, <1>6, <1>7
<1>10. Dropped(B, n + m, A, n + 1)
  BY <1>2, <1>8, <1>9 DEF Dropped
<1>11. B[n + 1] = h
  BY <1>2, <1>3, <1>7
<1>12. Len(A) = Len(B) - 1
  BY <1>2, <1>4, <1>6, <1>7
<1> QED BY <1>1, <1>2, <1>5, <1>7, <1>10, <1>11, <1>12

\* M is L, of l reports, with report x behind it.
Behind(L, l, x, M) ==
    /\ l \in Nat
    /\ \A i \in 1 .. l : M[i] = L[i]
    /\ M[l + 1] = x

\* A report that reaches a view joins the lines of all of them, or none.
LEMMA LineProcessed ==
  ASSUME ViewsTypeOK, NEW v \in Views, NEW x \in Shown, Processed(v, x), NEW u \in Views
  PROVE  /\ ~HasRow(v, x) => LineOf(u)' = LineOf(u)
         /\ HasRow(v, x) =>
              /\ Behind(LineOf(u), Len(LineOf(u)), x, LineOf(u)')
              /\ Len(LineOf(u)') = Len(LineOf(u)) + 1
<1>1. /\ timers' = IF HasRow(v, x) THEN Append(timers, x) ELSE timers
      /\ rows' = rows
  BY DEF Processed, ProcessPipeMessage
<1>2. CASE ~HasRow(v, x)
  BY <1>1, <1>2 DEF LineOf
<1>3. CASE HasRow(v, x)
  <2>1. rows[u] \in Seq(Shown) /\ timers \in Seq(Shown)
    BY DEF ViewsTypeOK
  <2>2. LineOf(u)' = Append(LineOf(u), x)
    <3>1. Reverse(rows[u]) \o Append(timers, x) = Append(Reverse(rows[u]) \o timers, x)
      BY <2>1, LineAppend
    <3> QED BY <1>1, <1>3, <3>1 DEF LineOf
  <2>3. PICK L : L = LineOf(u)
    OBVIOUS
  <2>4. L \in Seq(Shown) /\ Len(L) \in Nat
    BY <2>3, LineType
  <2>5. PICK M : M = Append(L, x)
    OBVIOUS
  <2>6. Len(M) = Len(L) + 1 /\ M[Len(L) + 1] = x /\ \A i \in 1 .. Len(L) : M[i] = L[i]
    BY <2>4, <2>5
  <2>7. Behind(L, Len(L), x, M)
    BY <2>4, <2>6 DEF Behind
  <2> QED BY <1>3, <2>2, <2>3, <2>5, <2>6, <2>7
<1> QED BY <1>2, <1>3

\* A report that gets its row stays in the line of its view and leaves the others.
LEMMA LineRowed ==
  ASSUME ViewsTypeOK, NEW x, Rowed(x), NEW u \in Views
  PROVE  /\ source[x.from] = u => LineOf(u)' = LineOf(u)
         /\ source[x.from] # u =>
              \E p \in Nat : /\ Dropped(LineOf(u), Len(LineOf(u)), LineOf(u)', p)
                             /\ LineOf(u)[p] = x
                             /\ Len(LineOf(u)') = Len(LineOf(u)) - 1
<1>1. /\ rows' = [rows EXCEPT ![source[x.from]] = <<x>> \o @]
      /\ timers' = Tail(timers) /\ timers # <<>> /\ x = Head(timers)
  BY DEF Rowed
<1>2. rows[u] \in Seq(Shown) /\ timers \in Seq(Shown) /\ u \in DOMAIN rows
  BY DEF ViewsTypeOK
<1>3. PICK r, t : r = rows[u] /\ t = timers
  OBVIOUS
<1>4. Waiting(Shown, r, t)
  BY <1>1, <1>2, <1>3 DEF Waiting
<1>5. CASE source[x.from] = u
  <2>1. rows'[u] = <<Head(t)>> \o r
    BY <1>1, <1>2, <1>3, <1>5
  <2>2. Reverse(<<Head(t)>> \o r) \o Tail(t) = Reverse(r) \o t
    BY <1>4, LineMove
  <2>3. LineOf(u)' = LineOf(u)
    BY <1>1, <1>3, <2>1, <2>2 DEF LineOf
  <2> QED BY <1>5, <2>3
<1>6. CASE source[x.from] # u
  <2>1. rows'[u] = r
    BY <1>1, <1>3, <1>6
  <2>2. PICK A, B, p : A = Reverse(r) \o Tail(t) /\ B = Reverse(r) \o t /\ p = Len(r) + 1
    OBVIOUS
  <2>3. LineOf(u)' = A /\ LineOf(u) = B
    BY <1>1, <1>3, <2>1, <2>2 DEF LineOf
  <2>4. Dropped(B, Len(B), A, p) /\ B[p] = Head(t) /\ Len(A) = Len(B) - 1
    BY <1>4, <2>2, LineDrop
  <2>5. p \in Nat
    BY <1>2, <1>3, <2>2
  <2> QED BY <1>1, <1>3, <1>6, <2>3, <2>4, <2>5
<1> QED BY <1>5, <1>6

\* A view without rows or timers has an empty line.
LEMMA LineFresh ==
  ASSUME NEW r, NEW t, r = <<>>, t = <<>>
  PROVE  Len(Reverse(r) \o t) = 0
<1>1. PICK n, A : Laid({}, r, n, t, n, A) /\ n = 0 /\ A = Reverse(r) \o t
  <2>1. <<>> \in Seq({}) /\ Len(<<>>) = 0
    OBVIOUS
  <2> QED BY <2>1 DEF Laid
<1>2. Len(A) = n + n
  BY <1>1, LinePlaces
<1> QED BY <1>1, <1>2

-----------------------------------------------------------------------------
(* What was handed over, in the line of a view.                            *)

\* Of the l reports in L those of client c are in the order they were handed
\* over, d of them so far, and the ones that are due are all there.
Known(L, l, c, d, due) ==
    /\ \A i \in 1 .. l : L[i].from = c => L[i].id \in 1 .. d
    /\ \A i, j \in 1 .. l : i < j /\ L[i].from = c /\ L[j].from = c => L[i].id < L[j].id
    /\ \A n \in due : \E k \in 1 .. l : L[k].from = c /\ L[k].id = n

\* The next report of the client, or one of another, joins the line.
KnownPlus(L, l, x, M, c, d, e, due, new) ==
    /\ Behind(L, l, x, M) /\ Known(L, l, c, d, due) /\ d \in Nat
    /\ IF x.from = c THEN x.id = d + 1 /\ e = d + 1 ELSE e = d
    /\ \A n \in new : n \in due \/ (x.from = c /\ n = d + 1)

LEMMA KnownBehind ==
  ASSUME NEW L, NEW l, NEW x, NEW M, NEW c, NEW d, NEW e, NEW due, NEW new,
         KnownPlus(L, l, x, M, c, d, e, due, new)
  PROVE  Known(M, l + 1, c, e, new)
<1>1. /\ l \in Nat /\ d \in Nat /\ e \in Nat /\ d <= e
      /\ \A i \in 1 .. l : M[i] = L[i]
      /\ M[l + 1] = x
  BY DEF KnownPlus, Behind
<1>2. IF x.from = c THEN x.id = d + 1 /\ e = d + 1 ELSE e = d
  BY DEF KnownPlus
<1>3. Known(L, l, c, d, due)
  BY DEF KnownPlus
<1>4. \A i \in 1 .. l + 1 : i \in 1 .. l \/ i = l + 1
  BY <1>1
<1>5. l + 1 \in 1 .. l + 1 /\ \A i \in 1 .. l : i \in 1 .. l + 1
  BY <1>1
<1>6. ASSUME NEW i \in 1 .. l, M[i].from = c PROVE M[i].id \in 1 .. d
  BY <1>1, <1>3, <1>6 DEF Known
<1>7. ASSUME NEW i \in 1 .. l + 1, M[i].from = c PROVE M[i].id \in 1 .. e
  BY <1>1, <1>2, <1>4, <1>6, <1>7
<1>8. ASSUME NEW i \in 1 .. l + 1, NEW j \in 1 .. l + 1, i < j, M[i].from = c, M[j].from = c
      PROVE  M[i].id < M[j].id
  <2>1. i \in 1 .. l
    BY <1>1, <1>8
  <2>2. CASE j \in 1 .. l
    BY <1>1, <1>3, <1>8, <2>1, <2>2 DEF Known
  <2>3. CASE j = l + 1
    <3>1. M[i].id \in 1 .. d
      BY <1>6, <1>8, <2>1
    <3>2. M[j].id = d + 1
      BY <1>1, <1>2, <1>8, <2>3
    <3> QED BY <1>1, <3>1, <3>2
  <2> QED BY <1>4, <2>2, <2>3
<1>9. ASSUME NEW n \in new
      PROVE  \E k \in 1 .. l + 1 : M[k].from = c /\ M[k].id = n
  <2>1. CASE n \in due
    <3>1. PICK k \in 1 .. l : L[k].from = c /\ L[k].id = n
      BY <1>3, <2>1 DEF Known
    <3> QED BY <1>1, <1>5, <3>1
  <2>2. CASE x.from = c /\ n = d + 1
    BY <1>1, <1>2, <1>5, <2>2
  <2> QED BY <1>9, <2>1, <2>2 DEF KnownPlus
<1> QED BY <1>7, <1>8, <1>9 DEF Known

\* A report of another client leaves the line.
KnownMinus(L, l, M, p, c, d, due) ==
    /\ Dropped(L, l, M, p) /\ Known(L, l, c, d, due) /\ L[p].from # c

LEMMA KnownDropped ==
  ASSUME NEW L, NEW l, NEW M, NEW p, NEW c, NEW d, NEW due,
         KnownMinus(L, l, M, p, c, d, due)
  PROVE  Known(M, l - 1, c, d, due)
<1>1. /\ l \in Nat /\ p \in 1 .. l /\ L[p].from # c
      /\ \A i \in 1 .. p - 1 : M[i] = L[i]
      /\ \A i \in p .. l - 1 : M[i] = L[i + 1]
  BY DEF KnownMinus, Dropped
<1>2. Known(L, l, c, d, due)
  BY DEF KnownMinus
<1>3. PICK g : g = [i \in 1 .. l - 1 |-> IF i < p THEN i ELSE i + 1]
  OBVIOUS
<1>4. ASSUME NEW i \in 1 .. l - 1
      PROVE  g[i] \in 1 .. l /\ M[i] = L[g[i]]
  <2>1. CASE i < p
    <3>1. i \in 1 .. p - 1 /\ i \in 1 .. l /\ g[i] = i
      BY <1>1, <1>3, <2>1
    <3> QED BY <1>1, <3>1
  <2>2. CASE ~(i < p)
    <3>1. i \in p .. l - 1 /\ i + 1 \in 1 .. l /\ g[i] = i + 1
      BY <1>1, <1>3, <2>2
    <3> QED BY <1>1, <3>1
  <2> QED BY <2>1, <2>2
<1>5. ASSUME NEW i \in 1 .. l - 1, NEW j \in 1 .. l - 1, i < j PROVE g[i] < g[j]
  BY <1>1, <1>3, <1>5
<1>6. ASSUME NEW k \in 1 .. l, k # p PROVE \E i \in 1 .. l - 1 : g[i] = k
  <2>1. CASE k < p
    <3>1. k \in 1 .. l - 1 /\ g[k] = k
      BY <1>1, <1>3, <2>1
    <3> QED BY <3>1
  <2>2. CASE k > p
    <3>1. PICK i \in 1 .. l - 1 : i = k - 1 /\ ~(i < p) /\ i + 1 = k
      <4>1. k - 1 \in 1 .. l - 1 /\ ~(k - 1 < p) /\ (k - 1) + 1 = k
        BY <1>1, <2>2
      <4> QED BY <4>1
    <3>2. g[i] = k
      BY <1>3, <3>1
    <3> QED BY <3>2
  <2> QED BY <1>1, <1>6, <2>1, <2>2
<1>7. \A i \in 1 .. l - 1 : M[i].from = c => M[i].id \in 1 .. d
  BY <1>2, <1>4 DEF Known
<1>8. ASSUME NEW i \in 1 .. l - 1, NEW j \in 1 .. l - 1, i < j, M[i].from = c, M[j].from = c
      PROVE  M[i].id < M[j].id
  BY <1>2, <1>4, <1>5, <1>8 DEF Known
<1>9. ASSUME NEW n \in due
      PROVE  \E k \in 1 .. l - 1 : M[k].from = c /\ M[k].id = n
  <2>1. PICK k \in 1 .. l : L[k].from = c /\ L[k].id = n
    BY <1>2, <1>9 DEF Known
  <2>2. k # p
    BY <1>1, <2>1
  <2>3. PICK h \in 1 .. l - 1 : g[h] = k
    BY <1>6, <2>2
  <2>4. M[h] = L[k]
    BY <1>4, <2>3
  <2> QED BY <2>1, <2>4
<1> QED BY <1>7, <1>8, <1>9 DEF Known

\* One more was handed over, and no more are due.
LEMMA KnownSkip ==
  ASSUME NEW L, NEW l, NEW c, NEW d, NEW due, NEW new,
         d \in Nat, Known(L, l, c, d, due), new \subseteq due
  PROVE  Known(L, l, c, d + 1, new)
<1>1. \A i \in 1 .. l : L[i].from = c => L[i].id \in 1 .. d + 1
  BY DEF Known
<1> QED BY <1>1 DEF Known

-----------------------------------------------------------------------------
(* The rows tell the calls in order.                                       *)

\* The reports handed over that get a row.
Due(c) == {n \in 1 .. Len(delivered[c]) : ~ListedOnly(c, n)}

\* It is over with a client, and the line has nothing of it: the application
\* has exited since.
GoneBy(L, l, c) == Over(c) /\ \A i \in 1 .. l : L[i].from # c

\* The line of a client's view holds its reports as they were handed over.
LineInv(c) ==
    source[c] \in Views =>
      \/ Known(LineOf(source[c]), Len(LineOf(source[c])), c, Len(delivered[c]), Due(c))
      \/ GoneBy(LineOf(source[c]), Len(LineOf(source[c])), c)

LinesInv == \A c \in Serialised : LineInv(c)

\* What is handed over next is the client's next report.
LEMMA HeadIsNext ==
  ASSUME PipeInv, NEW c \in Serialised, Dispatch
  PROVE  /\ Len(delivered[c]) \in Nat
         /\ IF Head(events).from = c
              THEN /\ Head(events).id = Len(delivered[c]) + 1
                   /\ Len(delivered'[c]) = Len(delivered[c]) + 1
              ELSE delivered'[c] = delivered[c]
<1>0. c \in Clients /\ TypeOK /\ ReaderInv(c)
  BY DEF Serialised, PipeInv, StreamInv
<1>1. PICK N \in Nat, d \in Nat : N = Len(sent[c]) /\ d = Len(delivered[c])
  BY <1>0, ClientType
<1>2. PICK n : ReaderAt(c, n)
  BY <1>0 DEF ReaderInv
<1>3. PICK ev, v, h, S : ev = events /\ v = events' /\ h = Head(events) /\ S = sent[c]
  OBVIOUS
<1>4. events \in Seq(Events) /\ events # <<>> /\ v = Tail(events)
  BY <1>0, <1>3 DEF Dispatch, TypeOK, Events
<1>5. PICK l \in Nat \ {0} : l = Len(ev)
  BY <1>3, <1>4
<1>6. h = ev[1] /\ \A i \in 1 .. l - 1 : v[i] = ev[i + 1]
  BY <1>3, <1>4, <1>5
<1>7. Queued(ev, l, c, d, S, N, n)
  BY <1>1, <1>2, <1>3, <1>5 DEF ReaderAt
<1>8. PICK e : e = IF ev[1].from = c THEN d + 1 ELSE d
  OBVIOUS
<1>9. HeadGone(ev, v, l, c, d, e, S, N, n)
  BY <1>6, <1>7, <1>8 DEF HeadGone
<1>10. h.from = c => h.id = d + 1
  BY <1>6, <1>9, QueuedTail
<1>11. PICK r : r = [id |-> h.id, len |-> h.len]
  OBVIOUS
<1>12. delivered' = [delivered EXCEPT ![h.from] = Append(@, r)]
  BY <1>3, <1>11 DEF Dispatch
<1>13. delivered[c] \in Seq(Reports) /\ DOMAIN delivered = Clients
  BY <1>0 DEF TypeOK
<1>14. h.from # c => delivered'[c] = delivered[c]
  BY <1>0, <1>12, <1>13
<1>15. h.from = c => Len(delivered'[c]) = d + 1
  <2>1. h.from = c => delivered'[c] = Append(delivered[c], r)
    BY <1>0, <1>12, <1>13
  <2>2. h \in Events
    BY <1>3, <1>4
  <2>3. r \in Reports
    BY <1>11, <2>2 DEF Events, Reports
  <2>4. Len(Append(delivered[c], r)) = Len(delivered[c]) + 1
    BY <1>13, <2>3
  <2> QED BY <1>1, <2>1, <2>4
<1> QED BY <1>1, <1>3, <1>10, <1>14, <1>15

\* Nothing is in a line that has no reports.
LEMMA KnownNothing ==
  ASSUME NEW L, NEW l, NEW c, NEW d, NEW due, l = 0, due = {}
  PROVE  Known(L, l, c, d, due)
<1>1. \A i \in 1 .. l : FALSE
  OBVIOUS
<1> QED BY <1>1 DEF Known

\* Once it is over with a client, it stays so.
LEMMA OverStep ==
  ASSUME TypeOK, NEW c \in Clients, Over(c), [Next]_vars
  PROVE  Over(c)'
<1>0. /\ conn[c] \notin {"connecting", "open"}
      /\ stream[c] = <<>> /\ buffer[c] = <<>> /\ size[c] = 0
      /\ Len(stream[c]) = 0 /\ Len(buffer[c]) = 0
      /\ \A i \in DOMAIN events : events[i].from # c
  BY DEF Over
<1>1. events \in Seq(Events) /\ DOMAIN events = 1 .. Len(events)
  BY DEF TypeOK, Events
<1>2. /\ DOMAIN conn = Clients /\ DOMAIN stream = Clients
      /\ DOMAIN buffer = Clients /\ DOMAIN size = Clients
  BY DEF TypeOK
<1>3. ASSUME events' = events, conn'[c] = conn[c], stream'[c] = stream[c],
             buffer'[c] = buffer[c], size'[c] = size[c]
      PROVE  Over(c)'
  BY <1>0, <1>3 DEF Over
<1>4. ASSUME NEW a \in Clients, Connect(a) \/ Exit(a) \/ Disconnected(a) PROVE Over(c)'
  <2>1. a # c
    BY <1>0, <1>4 DEF Connect, ConnectOpen, ConnectRetry, ConnectFail, Exit, Disconnected
  <2> QED BY <1>2, <1>3, <1>4, <2>1
          DEF Connect, ConnectOpen, ConnectRetry, ConnectFail, Exit, Disconnected, app, client
<1>5. ASSUME NEW a \in Clients, ProcessData(a) PROVE Over(c)'
  <2>1. CASE ReadAll(a)
    <3>1. a # c
      BY <1>0, <2>1 DEF ReadAll
    <3> QED BY <1>2, <1>3, <2>1, <3>1 DEF ReadAll, client
  <2>2. CASE CutSize(a)
    <3>1. a # c
      BY <1>0, <2>2 DEF CutSize
    <3> QED BY <1>2, <1>3, <2>2, <3>1 DEF CutSize, client
  <2>3. CASE ReturnToEventLoop(a)
    BY <1>3, <2>3 DEF ReturnToEventLoop, client
  <2>4. CASE CutFrame(a)
    <3>1. a # c
      BY <1>0, <2>4 DEF CutFrame
    <3>2. conn'[c] = conn[c] /\ stream'[c] = stream[c] /\ buffer'[c] = buffer[c]
          /\ size'[c] = size[c]
      BY <1>2, <2>4, <3>1 DEF CutFrame, client
    <3>3. CASE events' = events
      BY <1>3, <3>2, <3>3
    <3>4. ASSUME NEW x, x.from = a, events' = Append(events, x) PROVE Over(c)'
      <4>1. \A i \in DOMAIN events' :
              (i \in DOMAIN events /\ events'[i] = events[i]) \/ events'[i] = x
        BY <1>1, <3>4
      <4>2. \A i \in DOMAIN events' : events'[i].from # c
        BY <1>0, <3>1, <3>4, <4>1
      <4> QED BY <1>0, <3>2, <4>2 DEF Over
    <3>5. events' = events \/ \E x : x.from = a /\ events' = Append(events, x)
      BY <2>4 DEF CutFrame
    <3> QED BY <3>3, <3>4, <3>5
  <2> QED BY <1>5, <2>1, <2>2, <2>3, <2>4 DEF ProcessData
<1>6. ASSUME NEW s \in Senders, SendSize(s) \/ SendBody(s) PROVE Over(c)'
  BY <1>0, <1>2, <1>3, <1>6 DEF SendSize, SendBody, app
<1>7. CASE Dispatch
  <2>1. \A i \in DOMAIN events' : i + 1 \in DOMAIN events /\ events'[i] = events[i + 1]
    BY <1>1, <1>7 DEF Dispatch
  <2>2. \A i \in DOMAIN events' : events'[i].from # c
    BY <1>0, <2>1
  <2> QED BY <1>0, <1>7, <2>2 DEF Dispatch, Over, client
<1>8. CASE ServerExit
  <2>1. DOMAIN events' = {}
    BY <1>8 DEF ServerExit
  <2> QED BY <1>0, <1>8, <2>1 DEF ServerExit, Over
<1>9. CASE ServerUp \/ Quiet \/ UNCHANGED vars
  BY <1>3, <1>9 DEF ServerUp, Quiet, vars, client, app
<1> QED BY <1>4, <1>5, <1>6, <1>7, <1>8, <1>9 DEF Next

\* When the application exits, it is over with every client that has ever had
\* a connection.
LEMMA LeftOver ==
  ASSUME PipeInv, NEW c \in Serialised, Left
  PROVE  Over(c)' \/ Len(delivered'[c]) = 0
<1>1. c \in Clients /\ TypeOK /\ WriterInv /\ ReaderInv(c) /\ ServerExit
  BY DEF Serialised, PipeInv, StreamInv, Left
<1>2. CASE conn[c] = "connecting"
  <2>1. Len(sent[c]) = 0
    BY <1>1, <1>2 DEF WriterInv
  <2>2. Len(delivered[c]) <= Len(sent[c]) /\ Len(delivered[c]) \in Nat
    BY <1>1, ClientType DEF ReaderInv, DeliveredInv
  <2>3. delivered' = delivered
    BY <1>1 DEF ServerExit
  <2> QED BY <2>1, <2>2, <2>3
<1>3. CASE conn[c] # "connecting"
  <2>1. DOMAIN events' = {}
    BY <1>1 DEF ServerExit
  <2>2. conn'[c] \notin {"connecting", "open"}
    BY <1>1, <1>3 DEF ServerExit
  <2> QED BY <1>1, <2>1, <2>2 DEF ServerExit, Over
<1> QED BY <1>2, <1>3

\* A report that a view takes may be due a row; what was listed stays so.
LEMMA DueProcessed ==
  ASSUME NEW c, NEW v \in Views, NEW x \in Shown, NEW d \in Nat, NEW e,
         Processed(v, x), d = Len(delivered[c]), e = Len(delivered'[c]),
         IF x.from = c THEN x.id = d + 1 /\ e = d + 1 ELSE e = d
  PROVE  \A n \in Due(c)' : n \in Due(c) \/ (HasRow(v, x) /\ x.from = c /\ n = d + 1)
<1>1. source' = source /\ source[x.from] = v /\ traffic \subseteq traffic'
      /\ (x.func \in {"read", "write"} => x \in traffic')
  BY DEF Processed, ProcessPipeMessage
<1>2. ASSUME NEW n, ListedOnly(c, n) PROVE ListedOnly(c, n)'
  BY <1>1, <1>2 DEF ListedOnly
<1>3. ASSUME NEW n \in 1 .. e, ~ListedOnly(c, n)', n \notin Due(c)
      PROVE  HasRow(v, x) /\ x.from = c /\ n = d + 1
  <2>1. n \notin 1 .. d
    BY <1>2, <1>3 DEF Due
  <2>2. x.from = c /\ n = d + 1 /\ x.id = n
    BY <1>3, <2>1
  <2>3. HasRow(v, x)
    <3> SUFFICES ASSUME ~HasRow(v, x) PROVE FALSE
      OBVIOUS
    <3>1. source'[c] = "cannelloni" /\ x \in traffic'
      BY <1>1, <2>2 DEF HasRow
    <3> QED BY <1>3, <2>2, <3>1 DEF ListedOnly
  <2> QED BY <2>2, <2>3
<1> QED BY <1>3 DEF Due

\* A step keeps the line of a client in order.
LEMMA LineStep ==
  ASSUME PipeInv, ViewsTypeOK, NEW c \in Serialised, LineInv(c), [ViewNext]_allVars
  PROVE  LineInv(c)'
<1>0. TypeOK /\ c \in Clients
  BY DEF PipeInv, Serialised
<1>1. source' = source
  BY <1>0, ViewSteps DEF Aside, Left, Skipped, Processed, Rowed
<1> SUFFICES ASSUME source[c] \in Views PROVE LineInv(c)'
  BY <1>1 DEF LineInv
<1>2. PICK u \in Views : u = source[c]
  OBVIOUS
<1>3. PICK L, l, M, d, e, due, new :
        /\ L = LineOf(u) /\ l = Len(LineOf(u)) /\ M = LineOf(u)'
        /\ d = Len(delivered[c]) /\ e = Len(delivered'[c])
        /\ due = Due(c) /\ new = Due(c)'
  OBVIOUS
<1>4. Known(L, l, c, d, due) \/ GoneBy(L, l, c)
  BY <1>2, <1>3 DEF LineInv
<1>5. SUFFICES Known(M, Len(M), c, e, new) \/ GoneBy(M, Len(M), c)'
  BY <1>1, <1>2, <1>3 DEF LineInv, GoneBy
<1>g. GoneBy(L, l, c) => Over(c)' /\ \A i \in 1 .. l : L[i].from # c
  BY <1>0, OverStep, ViewPipeStep DEF GoneBy
<1>6. CASE M = L /\ new = due /\ e = d
  <2>1. CASE Known(L, l, c, d, due)
    BY <1>3, <1>6, <2>1
  <2>2. CASE GoneBy(L, l, c)
    BY <1>3, <1>6, <1>g, <2>2 DEF GoneBy
  <2> QED BY <1>4, <2>1, <2>2
<1>7. CASE Left
  <2>1. rows'[u] = <<>> /\ timers' = <<>>
    BY <1>7 DEF Left, FreshViews
  <2>2. Len(M) = 0 /\ \A i \in 1 .. Len(M) : FALSE
    BY <1>3, <2>1, LineFresh DEF LineOf
  <2>3. CASE Over(c)'
    BY <2>2, <2>3 DEF GoneBy
  <2>4. CASE e = 0
    <3>1. new = {}
      BY <1>3, <2>4 DEF Due
    <3> QED BY <2>2, <3>1, KnownNothing
  <2> QED BY <1>3, <1>7, <2>3, <2>4, LeftOver
<1>8. CASE Aside
  BY <1>3, <1>6, <1>8 DEF Aside, LineOf, viewVars, Due, ListedOnly
<1>9. CASE Skipped
  <2>1. Head(events).from # c
    BY <1>2, <1>9 DEF Skipped
  <2>2. delivered'[c] = delivered[c]
    BY <1>9, <2>1, HeadIsNext DEF Skipped
  <2> QED BY <1>3, <1>6, <1>9, <2>2 DEF Skipped, LineOf, viewVars, Due, ListedOnly
<1>10. ASSUME NEW v \in Views, NEW x \in Shown, Processed(v, x)
       PROVE  Known(M, Len(M), c, e, new) \/ GoneBy(M, Len(M), c)'
  <2>1. /\ d \in Nat
        /\ IF x.from = c THEN x.id = d + 1 /\ e = d + 1 ELSE e = d
    BY <1>3, <1>10, HeadIsNext DEF Processed
  <2>2. \A n \in new : n \in due \/ (HasRow(v, x) /\ x.from = c /\ n = d + 1)
    BY <1>3, <1>10, <2>1, DueProcessed
  <2>3. \/ ~HasRow(v, x) /\ M = L
        \/ HasRow(v, x) /\ Behind(L, l, x, M) /\ Len(M) = l + 1
    BY <1>3, <1>10, LineProcessed
  <2>4. CASE Known(L, l, c, d, due)
    <3>1. CASE HasRow(v, x)
      <4>1. KnownPlus(L, l, x, M, c, d, e, due, new)
        BY <2>1, <2>2, <2>3, <2>4, <3>1 DEF KnownPlus
      <4> QED BY <2>3, <3>1, <4>1, KnownBehind
    <3>2. CASE ~HasRow(v, x)
      <4>1. new \subseteq due
        BY <2>2, <3>2
      <4>2. Known(L, l, c, d + 1, new)
        BY <2>1, <2>4, <4>1, KnownSkip
      <4>3. Known(L, l, c, d, new)
        BY <2>4, <4>1 DEF Known
      <4> QED BY <1>3, <2>1, <2>3, <3>2, <4>2, <4>3
    <3> QED BY <3>1, <3>2
  <2>5. CASE GoneBy(L, l, c)
    <3>1. x.from # c
      <4>1. events \in Seq(Events) /\ events # <<>>
        BY <1>0, <1>10 DEF Processed, Dispatch, TypeOK, Events
      <4>2. 1 \in DOMAIN events /\ Head(events) = events[1]
        BY <4>1
      <4> QED BY <1>10, <2>5, <4>2 DEF GoneBy, Over, Processed
    <3>2. \A i \in 1 .. Len(M) : M[i].from # c
      <4>1. CASE M = L
        BY <1>3, <1>g, <2>5, <4>1
      <4>2. CASE Behind(L, l, x, M) /\ Len(M) = l + 1
        <5>1. \A i \in 1 .. l + 1 : i \in 1 .. l \/ i = l + 1
          BY <4>2 DEF Behind
        <5> QED BY <1>g, <2>5, <3>1, <4>2, <5>1 DEF Behind
      <4> QED BY <2>3, <4>1, <4>2
    <3> QED BY <1>g, <2>5, <3>2 DEF GoneBy
  <2> QED BY <1>4, <2>4, <2>5
<1>11. ASSUME NEW x, Rowed(x)
       PROVE  Known(M, Len(M), c, e, new) \/ GoneBy(M, Len(M), c)'
  <2>1. e = d /\ new = due
    BY <1>3, <1>11 DEF Rowed, vars, app, Due, ListedOnly
  <2>2. CASE source[x.from] = u
    BY <1>3, <1>6, <1>11, <2>1, <2>2, LineRowed
  <2>3. CASE source[x.from] # u
    <3>1. PICK p \in Nat : Dropped(L, l, M, p) /\ L[p] = x /\ Len(M) = l - 1
      BY <1>3, <1>11, <2>3, LineRowed
    <3>2. x.from # c
      BY <1>2, <2>3
    <3>3. CASE Known(L, l, c, d, due)
      <4>1. KnownMinus(L, l, M, p, c, d, due)
        BY <3>1, <3>2, <3>3 DEF KnownMinus
      <4> QED BY <2>1, <3>1, <4>1, KnownDropped
    <3>4. CASE GoneBy(L, l, c)
      <4>1. l \in Nat /\ p \in 1 .. l
        BY <3>1 DEF Dropped
      <4>2. \A i \in 1 .. l - 1 : i \in 1 .. p - 1 \/ i \in p .. l - 1
        BY <4>1
      <4>3. \A i \in 1 .. l - 1 : i \in 1 .. l /\ i + 1 \in 1 .. l
        BY <4>1
      <4>4. \A i \in 1 .. Len(M) : M[i].from # c
        BY <1>g, <3>1, <3>4, <4>2, <4>3 DEF Dropped
      <4> QED BY <1>g, <3>4, <4>4 DEF GoneBy
    <3> QED BY <1>4, <3>3, <3>4
  <2> QED BY <2>2, <2>3
<1> QED BY <1>0, <1>7, <1>8, <1>9, <1>10, <1>11, ViewSteps

\* W is the line L of l reports and behind it the m events ev, of which those
\* of client c are the n - 1 - d that come next.
Followed(L, l, ev, m, W, c, d, S, N, n, due) ==
    /\ l \in Nat /\ m \in Nat /\ d \in Nat /\ N \in Nat
    /\ Known(L, l, c, d, due)
    /\ Queued(ev, m, c, d, S, N, n)
    /\ \A i \in 1 .. l : W[i] = L[i]
    /\ \A i \in 1 .. m : W[l + i] = ev[i]

\* The reports of a client are in order, and none that is due is missing, up to
\* those that the event loop still has.
LEMMA WholeLine ==
  ASSUME NEW L, NEW l, NEW ev, NEW m, NEW W, NEW c, NEW d, NEW S, NEW N, NEW n, NEW due,
         Followed(L, l, ev, m, W, c, d, S, N, n, due)
  PROVE  /\ \A i, j \in 1 .. l + m :
              i < j /\ W[i].from = c /\ W[j].from = c => W[i].id < W[j].id
         /\ \A i \in 1 .. l + m : W[i].from = c => \A k \in 1 .. W[i].id :
              \/ k \in 1 .. d /\ k \notin due
              \/ \E h \in 1 .. l + m : W[h].from = c /\ W[h].id = k
<1>1. /\ l \in Nat /\ m \in Nat /\ d \in Nat /\ N \in Nat
      /\ \A i \in 1 .. l : W[i] = L[i]
      /\ \A i \in 1 .. m : W[l + i] = ev[i]
  BY DEF Followed
<1>2. Known(L, l, c, d, due) /\ Queued(ev, m, c, d, S, N, n)
  BY DEF Followed
<1>3. n \in d + 1 .. N + 1
  BY <1>2 DEF Queued
<1>4. \A i \in 1 .. l + m : i \in 1 .. l \/ \E k \in 1 .. m : i = l + k
  <2> SUFFICES ASSUME NEW i \in 1 .. l + m, i \notin 1 .. l PROVE \E k \in 1 .. m : i = l + k
    OBVIOUS
  <2>1. i - l \in 1 .. m /\ i = l + (i - l)
    BY <1>1
  <2> QED BY <2>1
<1>5. /\ \A i \in 1 .. l : i \in 1 .. l + m
      /\ \A i \in 1 .. m : l + i \in 1 .. l + m
  BY <1>1
<1>6. ASSUME NEW i \in 1 .. l, W[i].from = c PROVE W[i].id \in 1 .. d
  BY <1>1, <1>2, <1>6 DEF Known
<1>7. ASSUME NEW i \in 1 .. m, W[l + i].from = c PROVE W[l + i].id \in d + 1 .. n - 1
  BY <1>1, <1>2, <1>7 DEF Queued
<1>8. ASSUME NEW i \in 1 .. l + m, NEW j \in 1 .. l + m, i < j, W[i].from = c, W[j].from = c
      PROVE  W[i].id < W[j].id
  <2>1. CASE i \in 1 .. l /\ j \in 1 .. l
    BY <1>1, <1>2, <1>8, <2>1 DEF Known
  <2>2. ASSUME NEW k \in 1 .. m, j = l + k, i \in 1 .. l PROVE W[i].id < W[j].id
    <3>1. W[i].id \in 1 .. d /\ W[j].id \in d + 1 .. n - 1
      BY <1>6, <1>7, <1>8, <2>2
    <3> QED BY <1>1, <1>3, <3>1
  <2>3. ASSUME NEW k \in 1 .. m, j = l + k, NEW h \in 1 .. m, i = l + h PROVE W[i].id < W[j].id
    <3>1. h < k
      BY <1>1, <1>8, <2>3
    <3>2. W[i] = ev[h] /\ W[j] = ev[k]
      BY <1>1, <2>3
    <3> QED BY <1>2, <1>8, <3>1, <3>2 DEF Queued
  <2>4. ASSUME j \in 1 .. l PROVE i \in 1 .. l
    BY <1>1, <1>8, <2>4
  <2> QED BY <1>4, <2>1, <2>2, <2>3, <2>4
<1>9. ASSUME NEW i \in 1 .. l + m, W[i].from = c
      PROVE  W[i].id \in 1 .. n - 1
  <2>1. CASE i \in 1 .. l
    BY <1>1, <1>3, <1>6, <1>9, <2>1
  <2>2. ASSUME NEW k \in 1 .. m, i = l + k PROVE W[i].id \in 1 .. n - 1
    <3>1. W[i].id \in d + 1 .. n - 1
      BY <1>7, <1>9, <2>2
    <3> QED BY <1>1, <1>3, <3>1
  <2> QED BY <1>4, <2>1, <2>2
<1>10. ASSUME NEW i \in 1 .. l + m, W[i].from = c, NEW k \in 1 .. W[i].id
       PROVE  \/ k \in 1 .. d /\ k \notin due
              \/ \E h \in 1 .. l + m : W[h].from = c /\ W[h].id = k
  <2>1. W[i].id \in 1 .. n - 1
    BY <1>9, <1>10
  <2>2. CASE k \in due
    <3>1. PICK h \in 1 .. l : L[h].from = c /\ L[h].id = k
      BY <1>2, <2>2 DEF Known
    <3> QED BY <1>1, <1>5, <3>1
  <2>3. CASE ~(k <= d)
    <3>1. k \in d + 1 .. n - 1
      BY <1>1, <1>3, <2>1, <2>3
    <3>2. PICK h \in 1 .. m : ev[h].from = c /\ ev[h].id = k
      BY <1>2, <3>1 DEF Queued
    <3> QED BY <1>1, <1>5, <3>2
  <2>4. CASE k <= d
    BY <1>1, <2>1, <2>2, <2>4
  <2> QED BY <2>3, <2>4
<1> QED BY <1>8, <1>10

\* What NewestOnTop says of one line.
Newest(W, c) ==
    /\ \A i, j \in Of(W, c) : i < j => W[i].id < W[j].id
    /\ \A i \in Of(W, c) : \A n \in 1 .. W[i].id :
         ListedOnly(c, n) \/ \E k \in Of(W, c) : W[k].id = n

\* So the newest report is on top.
LEMMA LinesNewest == PipeInv /\ ViewsTypeOK /\ LinesInv => NewestOnTop
<1> SUFFICES ASSUME PipeInv, ViewsTypeOK, LinesInv, NEW c \in Serialised, source[c] \in Views
             PROVE  Newest(Line(source[c]), c)
  BY DEF NewestOnTop, Newest
<1>0. c \in Clients /\ TypeOK /\ ReaderInv(c) /\ LineInv(c)
  BY DEF Serialised, PipeInv, StreamInv, LinesInv
<1>1. PICK u \in Views : u = source[c]
  OBVIOUS
<1>2. PICK N, d, m :
        /\ N = Len(sent[c]) /\ d = Len(delivered[c]) /\ m = Len(events)
        /\ N \in Nat /\ d \in Nat /\ m \in Nat
  BY <1>0, ClientType
<1>3. PICK n : ReaderAt(c, n)
  BY <1>0 DEF ReaderInv
<1>4. PICK L, l, ev, W, S, due :
        /\ L = LineOf(u) /\ l = Len(LineOf(u)) /\ ev = events /\ W = Line(u) /\ S = sent[c]
        /\ due = Due(c)
  OBVIOUS
<1>5. Known(L, l, c, d, due) \/ GoneBy(L, l, c)
  BY <1>0, <1>1, <1>2, <1>4 DEF LineInv
<1>6. Queued(ev, m, c, d, S, N, n)
  BY <1>2, <1>3, <1>4 DEF ReaderAt
<1>7. /\ l \in Nat /\ Len(W) = l + m /\ DOMAIN W = 1 .. l + m
      /\ \A i \in 1 .. l : W[i] = L[i]
      /\ \A i \in 1 .. m : W[l + i] = ev[i]
  <2>1. PICK T : T = Shown \union Events
    OBVIOUS
  <2>2. L \in Seq(T) /\ ev \in Seq(T) /\ W = L \o ev /\ l = Len(L) /\ m = Len(ev)
    <3>1. L \in Seq(Shown) /\ ev \in Seq(Events)
      BY <1>0, <1>4, LineType DEF TypeOK, Events
    <3>2. Seq(Shown) \subseteq Seq(T) /\ Seq(Events) \subseteq Seq(T)
      BY <2>1
    <3>3. W = L \o ev
      BY <1>4 DEF Line, LineOf
    <3> QED BY <1>2, <1>4, <3>1, <3>2, <3>3
  <2>3. /\ W \in Seq(T) /\ Len(W) = Len(L) + Len(ev)
        /\ \A i \in 1 .. Len(L) : W[i] = L[i]
        /\ \A i \in 1 .. Len(ev) : W[Len(L) + i] = ev[i]
    BY <2>2, JoinType
  <2>4. l \in Nat
    BY <2>2
  <2>5. DOMAIN W = 1 .. Len(W)
    BY <2>3
  <2> QED BY <2>2, <2>3, <2>4, <2>5
<1>8. \A i : i \in Of(W, c) <=> i \in 1 .. l + m /\ W[i].from = c
  BY <1>7 DEF Of
<1>9. CASE Known(L, l, c, d, due)
  <2>1. Followed(L, l, ev, m, W, c, d, S, N, n, due)
    BY <1>2, <1>6, <1>7, <1>9 DEF Followed
  <2>2. /\ \A i, j \in 1 .. l + m :
             i < j /\ W[i].from = c /\ W[j].from = c => W[i].id < W[j].id
        /\ \A i \in 1 .. l + m : W[i].from = c => \A k \in 1 .. W[i].id :
             \/ k \in 1 .. d /\ k \notin due
             \/ \E h \in 1 .. l + m : W[h].from = c /\ W[h].id = k
    BY <2>1, WholeLine
  <2>3. \A k \in 1 .. d : k \notin due => ListedOnly(c, k)
    BY <1>2, <1>4 DEF Due
  <2> QED BY <1>1, <1>4, <1>8, <2>2, <2>3 DEF Newest
<1>10. CASE GoneBy(L, l, c)
  <2>1. \A i \in 1 .. l + m : i \in 1 .. l \/ (i - l \in 1 .. m /\ i = l + (i - l))
    BY <1>2, <1>7
  <2>2. \A i \in 1 .. m : ev[i].from # c
    BY <1>0, <1>2, <1>4, <1>10 DEF GoneBy, Over, TypeOK
  <2>3. \A i \in 1 .. l + m : W[i].from # c
    BY <1>7, <1>10, <2>1, <2>2 DEF GoneBy
  <2> QED BY <1>1, <1>4, <1>8, <2>3 DEF Newest
<1> QED BY <1>5, <1>9, <1>10

\* Every step keeps all of this.
LinesAll == PipeInv /\ ViewsTypeOK /\ TimersInv /\ LinesInv

LEMMA LinesInit == ViewInit => LinesAll
<1> SUFFICES ASSUME ViewInit PROVE LinesAll
  OBVIOUS
<1>1. PipeInv /\ ViewsTypeOK /\ TimersInv
  BY PipeInit, ViewInitType DEF ViewInit
<1>2. ASSUME NEW u \in Views PROVE Len(LineOf(u)) = 0
  <2>1. rows[u] = <<>> /\ timers = <<>>
    BY DEF ViewInit, ViewStart, FreshViews
  <2> QED BY <2>1, LineFresh DEF LineOf
<1>3. ASSUME NEW c \in Serialised PROVE Due(c) = {}
  <2>1. Len(delivered[c]) = 0
    BY DEF ViewInit, Init, Start, Serialised
  <2> QED BY <2>1 DEF Due
<1>4. LinesInv
  BY <1>2, <1>3, KnownNothing DEF LinesInv, LineInv
<1> QED BY <1>1, <1>4 DEF LinesAll

LEMMA LinesStep == LinesAll /\ [ViewNext]_allVars => LinesAll'
<1> SUFFICES ASSUME LinesAll, [ViewNext]_allVars PROVE LinesAll'
  OBVIOUS
<1>1. PipeInv' /\ ViewsTypeOK' /\ TimersInv'
  BY PipeStep, ViewPipeStep, ViewTypeStep DEF LinesAll, PipeInv
<1>2. LinesInv'
  BY LineStep DEF LinesAll, LinesInv, Serialised
<1> QED BY <1>1, <1>2 DEF LinesAll

\* On the screen the newest report of a client whose reports are kept apart is
\* on top, and from the writes in the DLL to the rows none is lost, doubled or
\* overtaken while the application runs: below it are all before it, but for
\* the reads and writes that the Cannelloni view took for its lists; for any
\* number of processes and reports, of threads under globalMutex, and for any
\* back end whose host calls from one thread.
THEOREM NewestStaysOnTop == ViewSpec => []NewestOnTop
<1>1. ViewSpec => ViewInit /\ [][ViewNext]_allVars
  BY PTL DEF ViewSpec
<1>2. LinesAll => NewestOnTop
  BY LinesNewest DEF LinesAll
<1> QED BY <1>1, <1>2, LinesInit, LinesStep, PTL

-----------------------------------------------------------------------------
(* The functions listed are those of the newest load.                      *)

\* Report x is one of loadDll, for the wrapper's view, as src has it.
IsLoad(src, x) == src[x.from] = "wrapper" /\ x.func = "load"

\* ld is the last load of the l reports L, if they have any.
Latest(L, l, src, ld) ==
    \/ ld = Nothing /\ \A i \in 1 .. l : ~IsLoad(src, L[i])
    \/ \E i \in 1 .. l : /\ ld = L[i] /\ IsLoad(src, L[i])
                         /\ \A j \in 1 .. l : IsLoad(src, L[j]) => j <= i

\* A report joins the line.
LatestPlus(L, l, x, M, src, ld, new) ==
    /\ Behind(L, l, x, M) /\ Latest(L, l, src, ld)
    /\ new = IF IsLoad(src, x) THEN x ELSE ld

LEMMA LatestBehind ==
  ASSUME NEW L, NEW l, NEW x, NEW M, NEW src, NEW ld, NEW new,
         LatestPlus(L, l, x, M, src, ld, new)
  PROVE  Latest(M, l + 1, src, new)
<1>1. l \in Nat /\ (\A i \in 1 .. l : M[i] = L[i]) /\ M[l + 1] = x
  BY DEF LatestPlus, Behind
<1>2. Latest(L, l, src, ld) /\ new = IF IsLoad(src, x) THEN x ELSE ld
  BY DEF LatestPlus
<1>3. \A i \in 1 .. l + 1 : i \in 1 .. l \/ i = l + 1
  BY <1>1
<1>4. l + 1 \in 1 .. l + 1 /\ \A i \in 1 .. l : i \in 1 .. l + 1
  BY <1>1
<1>5. CASE IsLoad(src, x)
  <2>1. new = M[l + 1] /\ IsLoad(src, M[l + 1])
    BY <1>1, <1>2, <1>5
  <2>2. \A j \in 1 .. l + 1 : IsLoad(src, M[j]) => j <= l + 1
    BY <1>1
  <2> QED BY <1>4, <2>1, <2>2 DEF Latest
<1>6. CASE ~IsLoad(src, x)
  <2>1. CASE ld = Nothing /\ \A i \in 1 .. l : ~IsLoad(src, L[i])
    <3>1. \A i \in 1 .. l + 1 : ~IsLoad(src, M[i])
      BY <1>1, <1>3, <1>6, <2>1
    <3> QED BY <1>2, <1>6, <2>1, <3>1 DEF Latest
  <2>2. ASSUME NEW i \in 1 .. l, ld = L[i], IsLoad(src, L[i]),
               \A j \in 1 .. l : IsLoad(src, L[j]) => j <= i
        PROVE  Latest(M, l + 1, src, new)
    <3>1. new = M[i] /\ IsLoad(src, M[i])
      BY <1>1, <1>2, <1>6, <2>2
    <3>2. \A j \in 1 .. l + 1 : IsLoad(src, M[j]) => j <= i
      BY <1>1, <1>3, <1>6, <2>2
    <3> QED BY <1>4, <3>1, <3>2 DEF Latest
  <2> QED BY <1>2, <2>1, <2>2 DEF Latest
<1> QED BY <1>5, <1>6

\* A report that is no load leaves the line.
LatestMinus(L, l, M, p, src, ld) ==
    Dropped(L, l, M, p) /\ Latest(L, l, src, ld) /\ ~IsLoad(src, L[p])

LEMMA LatestDropped ==
  ASSUME NEW L, NEW l, NEW M, NEW p, NEW src, NEW ld, LatestMinus(L, l, M, p, src, ld)
  PROVE  Latest(M, l - 1, src, ld)
<1>1. /\ l \in Nat /\ p \in 1 .. l /\ ~IsLoad(src, L[p])
      /\ \A i \in 1 .. p - 1 : M[i] = L[i]
      /\ \A i \in p .. l - 1 : M[i] = L[i + 1]
  BY DEF LatestMinus, Dropped
<1>2. Latest(L, l, src, ld)
  BY DEF LatestMinus
<1>3. ASSUME NEW i \in 1 .. l - 1
      PROVE  \/ i < p /\ i \in 1 .. l /\ M[i] = L[i]
             \/ i >= p /\ i + 1 \in 1 .. l /\ M[i] = L[i + 1]
  <2>1. CASE i < p
    <3>1. i \in 1 .. p - 1 /\ i \in 1 .. l
      BY <1>1, <2>1
    <3> QED BY <1>1, <2>1, <3>1
  <2>2. CASE ~(i < p)
    <3>1. i \in p .. l - 1 /\ i + 1 \in 1 .. l /\ i >= p
      BY <1>1, <2>2
    <3> QED BY <1>1, <3>1
  <2> QED BY <2>1, <2>2
<1>4. CASE ld = Nothing /\ \A i \in 1 .. l : ~IsLoad(src, L[i])
  <2>1. \A i \in 1 .. l - 1 : ~IsLoad(src, M[i])
    BY <1>3, <1>4
  <2> QED BY <1>4, <2>1 DEF Latest
<1>5. ASSUME NEW i \in 1 .. l, ld = L[i], IsLoad(src, L[i]),
             \A j \in 1 .. l : IsLoad(src, L[j]) => j <= i
      PROVE  Latest(M, l - 1, src, ld)
  <2>1. i # p
    BY <1>1, <1>5
  <2>2. PICK h \in 1 .. l - 1 : M[h] = L[i] /\ h = IF i < p THEN i ELSE i - 1
    <3>1. CASE i < p
      <4>1. i \in 1 .. l - 1 /\ i \in 1 .. p - 1
        BY <1>1, <3>1
      <4>2. M[i] = L[i]
        BY <1>1, <4>1
      <4> QED BY <3>1, <4>1, <4>2
    <3>2. CASE i > p
      <4>1. i - 1 \in 1 .. l - 1 /\ i - 1 \in p .. l - 1 /\ (i - 1) + 1 = i /\ ~(i < p)
        BY <1>1, <3>2
      <4>2. M[i - 1] = L[i]
        BY <1>1, <4>1
      <4> QED BY <4>1, <4>2
    <3> QED BY <1>1, <2>1, <3>1, <3>2
  <2>3. ASSUME NEW j \in 1 .. l - 1, IsLoad(src, M[j]) PROVE j <= h
    <3>1. CASE j < p /\ j \in 1 .. l /\ M[j] = L[j]
      <4>1. j <= i
        BY <1>5, <2>3, <3>1
      <4> QED BY <1>1, <2>1, <2>2, <3>1, <4>1
    <3>2. CASE j >= p /\ j + 1 \in 1 .. l /\ M[j] = L[j + 1]
      <4>1. j + 1 <= i
        BY <1>5, <2>3, <3>2
      <4> QED BY <1>1, <2>1, <2>2, <3>2, <4>1
    <3> QED BY <1>3, <3>1, <3>2
  <2>4. ld = M[h] /\ IsLoad(src, M[h])
    BY <1>5, <2>2
  <2> QED BY <2>3, <2>4 DEF Latest
<1> QED BY <1>2, <1>4, <1>5 DEF Latest

\* What the wrapper's page lists is the latest load of its line.
LoadedInv == Latest(LineOf("wrapper"), Len(LineOf("wrapper")), source, loaded)

LEMMA LoadedStep ==
  ASSUME TypeOK, ViewsTypeOK, LoadedInv, [ViewNext]_allVars
  PROVE  LoadedInv'
<1>1. source' = source
  BY ViewSteps DEF Aside, Left, Skipped, Processed, Rowed
<1>2. PICK u \in Views : u = "wrapper"
  BY DEF Views
<1>3. PICK L, l, M, src :
        L = LineOf(u) /\ l = Len(LineOf(u)) /\ M = LineOf(u)' /\ src = source
  OBVIOUS
<1>4. Latest(L, l, src, loaded)
  BY <1>2, <1>3 DEF LoadedInv
<1>5. SUFFICES Latest(M, Len(M), src, loaded')
  BY <1>1, <1>2, <1>3 DEF LoadedInv
<1>6. CASE Aside \/ Skipped
  BY <1>3, <1>4, <1>6 DEF Aside, Skipped, LineOf, viewVars
<1>7. CASE Left
  <2>1. rows'[u] = <<>> /\ timers' = <<>> /\ loaded' = Nothing
    BY <1>7 DEF Left, FreshViews
  <2>2. Len(M) = 0
    BY <1>3, <2>1, LineFresh DEF LineOf
  <2>3. \A i \in 1 .. Len(M) : FALSE
    BY <2>2
  <2> QED BY <2>1, <2>3 DEF Latest
<1>8. ASSUME NEW v \in Views, NEW x \in Shown, Processed(v, x)
      PROVE  Latest(M, Len(M), src, loaded')
  <2>1. loaded' = IF IsLoad(src, x) THEN x ELSE loaded
    BY <1>3, <1>8 DEF Processed, ProcessPipeMessage, IsLoad
  <2>2. CASE HasRow(v, x)
    <3>1. Behind(L, l, x, M) /\ Len(M) = l + 1
      BY <1>3, <1>8, <2>2, LineProcessed
    <3>2. PICK ld, new : ld = loaded /\ new = loaded'
      OBVIOUS
    <3>3. LatestPlus(L, l, x, M, src, ld, new)
      BY <1>4, <2>1, <3>1, <3>2 DEF LatestPlus
    <3> QED BY <3>1, <3>2, <3>3, LatestBehind
  <2>3. CASE ~HasRow(v, x)
    <3>1. M = L
      BY <1>3, <1>8, <2>3, LineProcessed
    <3>2. ~IsLoad(src, x)
      BY <1>3, <1>8, <2>3 DEF Processed, HasRow, IsLoad
    <3> QED BY <1>3, <1>4, <2>1, <3>1, <3>2
  <2> QED BY <2>2, <2>3
<1>9. ASSUME NEW x, Rowed(x) PROVE Latest(M, Len(M), src, loaded')
  <2>1. loaded' = loaded
    BY <1>9 DEF Rowed
  <2>2. CASE source[x.from] = u
    BY <1>3, <1>4, <1>9, <2>1, <2>2, LineRowed
  <2>3. CASE source[x.from] # u
    <3>1. PICK p \in Nat : Dropped(L, l, M, p) /\ L[p] = x /\ Len(M) = l - 1
      BY <1>3, <1>9, <2>3, LineRowed
    <3>2. ~IsLoad(src, x)
      BY <1>2, <1>3, <2>3 DEF IsLoad
    <3>3. PICK ld : ld = loaded
      OBVIOUS
    <3>4. LatestMinus(L, l, M, p, src, ld)
      BY <1>4, <3>1, <3>2, <3>3 DEF LatestMinus
    <3> QED BY <2>1, <3>1, <3>3, <3>4, LatestDropped
  <2> QED BY <2>2, <2>3
<1> QED BY <1>6, <1>7, <1>8, <1>9, ViewSteps

\* The functions the wrapper's page lists are those of the newest load it has a
\* row for or is about to have, whatever other processes report meanwhile.
THEOREM LoadedStaysNewest == ViewSpec => []LoadedIsNewest
<1>1. ViewSpec => ViewInit /\ [][ViewNext]_allVars
  BY PTL DEF ViewSpec
<1>2. ViewInit => LoadedInv
  <2> SUFFICES ASSUME ViewInit PROVE LoadedInv
    OBVIOUS
  <2>1. rows["wrapper"] = <<>> /\ timers = <<>> /\ loaded = Nothing
    BY DEF ViewInit, ViewStart, FreshViews, Views
  <2>2. Len(LineOf("wrapper")) = 0
    BY <2>1, LineFresh DEF LineOf
  <2>3. \A i \in 1 .. Len(LineOf("wrapper")) : FALSE
    BY <2>2
  <2> QED BY <2>1, <2>3 DEF LoadedInv, Latest
<1>3. (LinesAll /\ LoadedInv) /\ [ViewNext]_allVars => (LinesAll /\ LoadedInv)'
  BY LinesStep, LoadedStep DEF LinesAll, PipeInv
<1>4. LinesAll /\ LoadedInv => LoadedIsNewest
  <2> SUFFICES ASSUME ViewsTypeOK, LoadedInv PROVE LoadedIsNewest
    BY DEF LinesAll
  <2>1. PICK L, u : u = "wrapper" /\ L = LineOf(u) /\ u \in Views
    BY DEF Views
  <2>2. L \in Seq(Shown)
    BY <2>1, LineType
  <2>3. DOMAIN L = 1 .. Len(L)
    BY <2>2
  <2>4. Latest(L, Len(L), source, loaded)
    BY <2>1 DEF LoadedInv
  <2>5. PICK loads : loads = {i \in DOMAIN L : source[L[i].from] = "wrapper" /\ L[i].func = "load"}
    OBVIOUS
  <2>6. \A i : i \in loads <=> i \in 1 .. Len(L) /\ IsLoad(source, L[i])
    BY <2>3, <2>5 DEF IsLoad
  <2>7. IF loads = {} THEN loaded = Nothing
                      ELSE \E i \in loads : loaded = L[i] /\ \A j \in loads : j <= i
    BY <2>4, <2>6 DEF Latest
  <2> QED BY <2>1, <2>5, <2>7 DEF LoadedIsNewest, LineOf
<1> QED BY <1>1, <1>2, <1>3, <1>4, LinesInit, PTL

-----------------------------------------------------------------------------
(* The traffic lists.                                                      *)

\* Message a is one of an earlier read than b's, or an earlier one of the same.
Before(a, b) == \/ a.of.id < b.of.id
                \/ a.of = b.of /\ a.k < b.k

\* Of the l messages q those of client c are in the order of its reads, among
\* the d reports handed over.
ReadsKnown(q, l, c, d) ==
    /\ \A i \in 1 .. l : q[i].of.from = c => q[i].of.id \in 1 .. d
    /\ \A i, j \in 1 .. l : i < j /\ q[i].of.from = c /\ q[j].of.from = c => Before(q[i], q[j])

\* p is q and the n messages of report x, the next one of the client or one of
\* another.
ReadsPlus(q, l, x, n, p, c, d, e) ==
    /\ l \in Nat /\ n \in Nat /\ d \in Nat
    /\ ReadsKnown(q, l, c, d)
    /\ \A i \in 1 .. l : p[i] = q[i]
    /\ \A k \in 1 .. n : p[l + k] = [of |-> x, k |-> k]
    /\ IF x.from = c THEN x.id = d + 1 /\ e = d + 1 ELSE e = d

LEMMA ReadsGrown ==
  ASSUME NEW q, NEW l, NEW x, NEW n, NEW p, NEW c, NEW d, NEW e,
         ReadsPlus(q, l, x, n, p, c, d, e)
  PROVE  ReadsKnown(p, l + n, c, e)
<1>1. /\ l \in Nat /\ n \in Nat /\ d \in Nat /\ e \in Nat /\ d <= e
      /\ \A i \in 1 .. l : p[i] = q[i]
      /\ \A k \in 1 .. n : p[l + k] = [of |-> x, k |-> k]
  BY DEF ReadsPlus
<1>2. IF x.from = c THEN x.id = d + 1 /\ e = d + 1 ELSE e = d
  BY DEF ReadsPlus
<1>3. ReadsKnown(q, l, c, d)
  BY DEF ReadsPlus
<1>4. \A i \in 1 .. l + n : i \in 1 .. l \/ \E k \in 1 .. n : i = l + k
  <2> SUFFICES ASSUME NEW i \in 1 .. l + n, i \notin 1 .. l PROVE \E k \in 1 .. n : i = l + k
    OBVIOUS
  <2>1. i - l \in 1 .. n /\ i = l + (i - l)
    BY <1>1
  <2> QED BY <2>1
<1>5. ASSUME NEW i \in 1 .. l, p[i].of.from = c PROVE p[i].of.id \in 1 .. d
  BY <1>1, <1>3, <1>5 DEF ReadsKnown
<1>6. ASSUME NEW k \in 1 .. n, p[l + k].of.from = c
      PROVE  p[l + k].of = x /\ p[l + k].k = k /\ x.id = d + 1 /\ e = d + 1
  <2>1. p[l + k] = [of |-> x, k |-> k]
    BY <1>1
  <2>2. x.from = c
    BY <1>6, <2>1
  <2> QED BY <1>2, <2>1, <2>2
<1>7. ASSUME NEW i \in 1 .. l + n, p[i].of.from = c PROVE p[i].of.id \in 1 .. e
  <2>1. CASE i \in 1 .. l
    BY <1>1, <1>5, <1>7, <2>1
  <2>2. ASSUME NEW k \in 1 .. n, i = l + k PROVE p[i].of.id \in 1 .. e
    BY <1>1, <1>6, <1>7, <2>2
  <2> QED BY <1>4, <2>1, <2>2
<1>8. ASSUME NEW i \in 1 .. l + n, NEW j \in 1 .. l + n, i < j,
             p[i].of.from = c, p[j].of.from = c
      PROVE  Before(p[i], p[j])
  <2>1. CASE i \in 1 .. l /\ j \in 1 .. l
    BY <1>1, <1>3, <1>8, <2>1 DEF ReadsKnown
  <2>2. ASSUME NEW k \in 1 .. n, j = l + k, i \in 1 .. l PROVE Before(p[i], p[j])
    <3>1. p[i].of.id \in 1 .. d /\ p[j].of.id = d + 1
      BY <1>5, <1>6, <1>8, <2>2
    <3> QED BY <1>1, <3>1 DEF Before
  <2>3. ASSUME NEW k \in 1 .. n, j = l + k, NEW h \in 1 .. n, i = l + h
        PROVE  Before(p[i], p[j])
    <3>1. p[i].of = x /\ p[i].k = h /\ p[j].of = x /\ p[j].k = k
      BY <1>6, <1>8, <2>3
    <3>2. h < k
      BY <1>1, <1>8, <2>3
    <3> QED BY <3>1, <3>2 DEF Before
  <2>4. ASSUME j \in 1 .. l PROVE i \in 1 .. l
    BY <1>1, <1>8, <2>4
  <2> QED BY <1>4, <2>1, <2>2, <2>3, <2>4
<1> QED BY <1>7, <1>8 DEF ReadsKnown

\* The lists of a client's view are in the order of its calls.
ListInv(c) ==
    source[c] \in Views =>
      /\ ReadsKnown(readMsgs[source[c]], Len(readMsgs[source[c]]), c, Len(delivered[c]))
      /\ Known(writeMsgs[source[c]], Len(writeMsgs[source[c]]), c, Len(delivered[c]), {})

ListsInv == \A c \in Serialised : ListInv(c)

\* A report of a read adds its messages to the list of its view.
LEMMA ReadsProcessed ==
  ASSUME ViewsTypeOK, NEW v \in Views, NEW x \in Shown, Processed(v, x), NEW u \in Views
  PROVE  \E n \in Nat :
           /\ Len(readMsgs[u]) \in Nat /\ Len(readMsgs'[u]) = Len(readMsgs[u]) + n
           /\ \A i \in 1 .. Len(readMsgs[u]) : readMsgs'[u][i] = readMsgs[u][i]
           /\ \A k \in 1 .. n : readMsgs'[u][Len(readMsgs[u]) + k] = [of |-> x, k |-> k]
<1>1. readMsgs' = IF x.func = "read" THEN [readMsgs EXCEPT ![v] = @ \o Messages(x)]
                                     ELSE readMsgs
  BY DEF Processed, ProcessPipeMessage
<1>2. PICK q : q = readMsgs[u]
  OBVIOUS
<1>3. readMsgs \in [Views -> Seq(MsgSet)] /\ q \in Seq(MsgSet)
  BY <1>2 DEF ViewsTypeOK, MsgSet
<1>4. Len(q) \in Nat
  BY <1>3
<1>5. CASE readMsgs'[u] = q
  <2>1. Len(q) = Len(q) + 0 /\ \A k \in 1 .. 0 : FALSE
    BY <1>4
  <2> QED BY <1>2, <1>4, <1>5, <2>1
<1>6. CASE readMsgs'[u] = q \o Messages(x)
  <2>1. PICK p, n : p = Messages(x) /\ n = x.count
    OBVIOUS
  <2>2. n \in Nat /\ p \in Seq(MsgSet)
    BY <2>1, MessagesListed
  <2>3. Len(p) = n /\ \A k \in 1 .. n : p[k] = [of |-> x, k |-> k]
    BY <2>1, <2>2, MessagesType
  <2>4. /\ Len(q \o p) = Len(q) + Len(p)
        /\ \A i \in 1 .. Len(q) : (q \o p)[i] = q[i]
        /\ \A i \in 1 .. Len(p) : (q \o p)[Len(q) + i] = p[i]
    BY <1>3, <2>2, JoinType
  <2>5. readMsgs'[u] = q \o p
    BY <1>6, <2>1
  <2> QED BY <1>2, <1>4, <2>2, <2>3, <2>4, <2>5
<1>7. readMsgs'[u] = q \/ readMsgs'[u] = q \o Messages(x)
  BY <1>1, <1>2, <1>3
<1> QED BY <1>5, <1>6, <1>7

\* A report of a write joins the list of its view.
LEMMA WritesProcessed ==
  ASSUME ViewsTypeOK, NEW v \in Views, NEW x \in Shown, Processed(v, x), NEW u \in Views
  PROVE  \/ writeMsgs'[u] = writeMsgs[u]
         \/ /\ Behind(writeMsgs[u], Len(writeMsgs[u]), x, writeMsgs'[u])
            /\ Len(writeMsgs'[u]) = Len(writeMsgs[u]) + 1
<1>1. writeMsgs' = IF x.func = "write" THEN [writeMsgs EXCEPT ![v] = Append(@, x)]
                                       ELSE writeMsgs
  BY DEF Processed, ProcessPipeMessage
<1>2. PICK q : q = writeMsgs[u]
  OBVIOUS
<1>3. writeMsgs \in [Views -> Seq(Shown)] /\ q \in Seq(Shown)
  BY <1>2 DEF ViewsTypeOK
<1>4. writeMsgs'[u] = q \/ writeMsgs'[u] = Append(q, x)
  BY <1>1, <1>2, <1>3
<1>5. PICK p : p = Append(q, x)
  OBVIOUS
<1>6. Len(q) \in Nat /\ Len(p) = Len(q) + 1 /\ p[Len(q) + 1] = x
      /\ \A i \in 1 .. Len(q) : p[i] = q[i]
  BY <1>3, <1>5
<1>7. Behind(q, Len(q), x, p)
  BY <1>6 DEF Behind
<1> QED BY <1>2, <1>4, <1>5, <1>6, <1>7

\* A step keeps the lists of a client's view in order.
LEMMA ListStep ==
  ASSUME PipeInv, ViewsTypeOK, NEW c \in Serialised, ListInv(c), [ViewNext]_allVars
  PROVE  ListInv(c)'
<1>0. TypeOK
  BY DEF PipeInv
<1>1. source' = source
  BY <1>0, ViewSteps DEF Aside, Left, Skipped, Processed, Rowed
<1> SUFFICES ASSUME source[c] \in Views PROVE ListInv(c)'
  BY <1>1 DEF ListInv
<1>2. PICK u \in Views : u = source[c]
  OBVIOUS
<1>3. PICK q, l, p, w, z, y, d, e :
        /\ q = readMsgs[u] /\ l = Len(readMsgs[u]) /\ p = readMsgs'[u]
        /\ w = writeMsgs[u] /\ z = Len(writeMsgs[u]) /\ y = writeMsgs'[u]
        /\ d = Len(delivered[c]) /\ e = Len(delivered'[c])
  OBVIOUS
<1>4. ReadsKnown(q, l, c, d) /\ Known(w, z, c, d, {})
  BY <1>2, <1>3 DEF ListInv
<1>5. SUFFICES ReadsKnown(p, Len(p), c, e) /\ Known(y, Len(y), c, e, {})
  BY <1>1, <1>2, <1>3 DEF ListInv
<1>6. CASE Left
  <2>1. p = <<>> /\ y = <<>>
    BY <1>3, <1>6 DEF Left, FreshViews
  <2>2. Len(p) = 0 /\ Len(y) = 0
    BY <2>1
  <2>3. \A i \in 1 .. Len(p) : FALSE
    BY <2>2
  <2> QED BY <2>2, <2>3, KnownNothing DEF ReadsKnown
<1>7. CASE Skipped
  <2>1. Head(events).from # c
    BY <1>2, <1>7 DEF Skipped
  <2>2. e = d
    BY <1>3, <1>7, <2>1, HeadIsNext DEF Skipped
  <2> QED BY <1>3, <1>4, <1>7, <2>2 DEF Skipped, viewVars
<1>8. CASE Aside \/ \E x : Rowed(x)
  BY <1>3, <1>4, <1>8 DEF Aside, Rowed, viewVars, vars, app
<1>9. ASSUME NEW v \in Views, NEW x \in Shown, Processed(v, x)
      PROVE  ReadsKnown(p, Len(p), c, e) /\ Known(y, Len(y), c, e, {})
  <2>1. /\ d \in Nat
        /\ IF x.from = c THEN x.id = d + 1 /\ e = d + 1 ELSE e = d
    BY <1>3, <1>9, HeadIsNext DEF Processed
  <2>2. PICK n \in Nat :
          /\ l \in Nat /\ Len(p) = l + n
          /\ \A i \in 1 .. l : p[i] = q[i]
          /\ \A k \in 1 .. n : p[l + k] = [of |-> x, k |-> k]
    BY <1>3, <1>9, ReadsProcessed
  <2>3. ReadsPlus(q, l, x, n, p, c, d, e)
    BY <1>4, <2>1, <2>2 DEF ReadsPlus
  <2>4. ReadsKnown(p, Len(p), c, e)
    BY <2>2, <2>3, ReadsGrown
  <2>5. CASE y = w
    <3>1. CASE x.from = c
      <4>1. Known(w, z, c, d + 1, {})
        BY <1>4, <2>1, KnownSkip
      <4> QED BY <1>3, <2>1, <2>4, <2>5, <3>1, <4>1
    <3>2. CASE x.from # c
      BY <1>3, <1>4, <2>1, <2>4, <2>5, <3>2
    <3> QED BY <3>1, <3>2
  <2>6. CASE Behind(w, z, x, y) /\ Len(y) = z + 1
    <3>1. PICK due : due = {}
      OBVIOUS
    <3>2. KnownPlus(w, z, x, y, c, d, e, due, due)
      BY <1>4, <2>1, <2>6, <3>1 DEF KnownPlus
    <3> QED BY <2>4, <2>6, <3>1, <3>2, KnownBehind
  <2>7. y = w \/ (Behind(w, z, x, y) /\ Len(y) = z + 1)
    BY <1>3, <1>9, WritesProcessed
  <2>8. Known(y, Len(y), c, e, {})
    BY <2>5, <2>6, <2>7
  <2> QED BY <2>4, <2>8
<1> QED BY <1>0, <1>6, <1>7, <1>8, <1>9, ViewSteps

\* What report x moved is among the messages read, R, and the writes, W.
Listed(x, R, W) ==
    /\ x.func = "read" => ToSet(Messages(x)) \subseteq R
    /\ x.func = "write" => x \in W

\* Whole reads only are listed.
Whole(R) == \A m \in R : m.k <= m.of.count /\ ToSet(Messages(m.of)) \subseteq R

\* The lists of a view have what its rows, those to come, and the reads and
\* writes it took tell of.
MovedInv(v) ==
    /\ Whole(ToSet(readMsgs[v]))
    /\ \A x \in ToSet(rows[v]) : Listed(x, ToSet(readMsgs[v]), ToSet(writeMsgs[v]))
    /\ \A x \in ToSet(timers) \union traffic :
         source[x.from] = v => Listed(x, ToSet(readMsgs[v]), ToSet(writeMsgs[v]))

\* The lists only grow while the application runs: by what the report moved.
LEMMA ListsProcessed ==
  ASSUME ViewsTypeOK, NEW v \in Views, NEW x \in Shown, Processed(v, x), NEW u \in Views
  PROVE  /\ ToSet(readMsgs'[u]) = ToSet(readMsgs[u]) \union
              (IF u = v /\ x.func = "read" THEN ToSet(Messages(x)) ELSE {})
         /\ ToSet(writeMsgs'[u]) = ToSet(writeMsgs[u]) \union
              (IF u = v /\ x.func = "write" THEN {x} ELSE {})
<1>1. /\ readMsgs' = IF x.func = "read" THEN [readMsgs EXCEPT ![v] = @ \o Messages(x)]
                                        ELSE readMsgs
      /\ writeMsgs' = IF x.func = "write" THEN [writeMsgs EXCEPT ![v] = Append(@, x)]
                                          ELSE writeMsgs
  BY DEF Processed, ProcessPipeMessage
<1>2. PICK q, w, p : q = readMsgs[u] /\ w = writeMsgs[u] /\ p = Messages(x)
  OBVIOUS
<1>3. /\ readMsgs \in [Views -> Seq(MsgSet)] /\ q \in Seq(MsgSet)
      /\ writeMsgs \in [Views -> Seq(Shown)] /\ w \in Seq(Shown)
      /\ p \in Seq(MsgSet)
  BY <1>2, MessagesListed DEF ViewsTypeOK, MsgSet
<1>4. ToSet(q \o p) = ToSet(q) \union ToSet(p)
  BY <1>3, ToSetJoin
<1>5. ToSet(Append(w, x)) = ToSet(w) \union {x}
  BY <1>3, ToSetAppend
<1>6. readMsgs'[u] = IF u = v /\ x.func = "read" THEN q \o p ELSE q
  BY <1>1, <1>2, <1>3
<1>7. writeMsgs'[u] = IF u = v /\ x.func = "write" THEN Append(w, x) ELSE w
  BY <1>1, <1>2, <1>3
<1>8. ToSet(readMsgs'[u]) = ToSet(q) \union
        (IF u = v /\ x.func = "read" THEN ToSet(p) ELSE {})
  BY <1>4, <1>6
<1>9. ToSet(writeMsgs'[u]) = ToSet(w) \union (IF u = v /\ x.func = "write" THEN {x} ELSE {})
  BY <1>5, <1>7
<1> QED BY <1>2, <1>8, <1>9

\* The messages of a report are those of a whole read.
LEMMA MessagesWhole ==
  ASSUME NEW x \in Shown, NEW m \in ToSet(Messages(x))
  PROVE  m.of = x /\ m.k <= m.of.count
<1>1. x.count \in Nat
  BY MessagesListed
<1>2. m \in [of : {x}, k : 1 .. x.count]
  BY <1>1, MessagesType
<1> QED BY <1>1, <1>2

\* A step keeps rows and lists of a view together.
LEMMA MovedStep ==
  ASSUME TypeOK, ViewsTypeOK, TimersInv, NEW u \in Views, MovedInv(u), [ViewNext]_allVars
  PROVE  MovedInv(u)'
<1>1. CASE Aside \/ Skipped
  BY <1>1 DEF Aside, Skipped, viewVars, MovedInv
<1>2. CASE Left
  <2>1. readMsgs'[u] = <<>> /\ rows'[u] = <<>> /\ timers' = <<>> /\ traffic' = {}
    BY <1>2 DEF Left, FreshViews
  <2>2. ToSet(<<>>) = {}
    BY DEF ToSet
  <2> QED BY <2>1, <2>2 DEF MovedInv, Whole
<1>3. ASSUME NEW v \in Views, NEW x \in Shown, Processed(v, x)
      PROVE  MovedInv(u)'
  <2>1. PICK R, W, Q, Y, P :
          /\ R = ToSet(readMsgs[u]) /\ W = ToSet(writeMsgs[u])
          /\ Q = ToSet(readMsgs'[u]) /\ Y = ToSet(writeMsgs'[u]) /\ P = ToSet(Messages(x))
    OBVIOUS
  <2>2. /\ Q = R \union (IF u = v /\ x.func = "read" THEN P ELSE {})
        /\ Y = W \union (IF u = v /\ x.func = "write" THEN {x} ELSE {})
    BY <1>3, <2>1, ListsProcessed
  <2>3. /\ Whole(R)
        /\ \A y \in ToSet(rows[u]) : Listed(y, R, W)
        /\ \A y \in ToSet(timers) \union traffic : source[y.from] = u => Listed(y, R, W)
    BY <2>1 DEF MovedInv
  <2>4. ASSUME NEW y, Listed(y, R, W) PROVE Listed(y, Q, Y)
    BY <2>2, <2>4 DEF Listed
  <2>5. u = v => Listed(x, Q, Y)
    BY <2>1, <2>2 DEF Listed
  <2>6. Whole(Q)
    <3>1. ASSUME NEW m \in R PROVE m.k <= m.of.count /\ ToSet(Messages(m.of)) \subseteq Q
      BY <2>2, <2>3 DEF Whole
    <3>2. ASSUME NEW m \in P, P \subseteq Q
          PROVE  m.k <= m.of.count /\ ToSet(Messages(m.of)) \subseteq Q
      <4>1. m.of = x /\ m.k <= m.of.count
        BY <2>1, MessagesWhole
      <4> QED BY <2>1, <3>2, <4>1
    <3>3. Q = R \/ (Q = R \union P /\ P \subseteq Q)
      BY <2>2
    <3> QED BY <3>1, <3>2, <3>3 DEF Whole
  <2>7. rows' = rows /\ source' = source /\ source[x.from] = v
    BY <1>3 DEF Processed, ProcessPipeMessage
  <2>8. \A y \in ToSet(timers') \union traffic' : y \in ToSet(timers) \union traffic \/ y = x
    <3>1. ToSet(Append(timers, x)) = ToSet(timers) \union {x}
      BY ToSetAppend DEF ViewsTypeOK
    <3> QED BY <1>3, <3>1 DEF Processed, ProcessPipeMessage
  <2>9. \A y \in ToSet(timers') \union traffic' : source[y.from] = u => Listed(y, Q, Y)
    BY <2>3, <2>4, <2>5, <2>7, <2>8
  <2> QED BY <2>1, <2>3, <2>4, <2>6, <2>7, <2>9 DEF MovedInv
<1>4. ASSUME NEW x, Rowed(x) PROVE MovedInv(u)'
  <2>1. timers \in Seq(Shown) /\ timers # <<>> /\ x = Head(timers) /\ timers' = Tail(timers)
    BY <1>4 DEF Rowed, ViewsTypeOK
  <2>2. ToSet(timers) = {x} \union ToSet(timers')
    BY <2>1, ToSetHead
  <2>3. rows'[u] = (IF source[x.from] = u THEN <<x>> \o rows[u] ELSE rows[u])
    BY <1>4 DEF Rowed, ViewsTypeOK
  <2>4. \A y \in ToSet(rows'[u]) : y \in ToSet(rows[u]) \/ (y = x /\ source[x.from] = u)
    <3>1. PICK p, r : p = <<x>> /\ r = rows[u]
      OBVIOUS
    <3>2. x \in Shown /\ r \in Seq(Shown)
      BY <2>1, <3>1 DEF ViewsTypeOK
    <3>3. p \in Seq(Shown) /\ ToSet(p) = {x}
      BY <3>1, <3>2 DEF ToSet
    <3>4. ToSet(p \o r) = ToSet(p) \union ToSet(r)
      BY <3>2, <3>3, ToSetJoin
    <3> QED BY <2>3, <3>1, <3>3, <3>4
  <2>5. UNCHANGED <<source, readMsgs, writeMsgs, traffic>>
    BY <1>4 DEF Rowed
  <2> QED BY <2>2, <2>4, <2>5 DEF MovedInv
<1> QED BY <1>1, <1>2, <1>3, <1>4, ViewSteps

\* All that is known of the views.
ViewsInv == LinesAll /\ ListsInv /\ \A v \in Views : MovedInv(v)

LEMMA ViewsInit == ViewInit => ViewsInv
<1> SUFFICES ASSUME ViewInit PROVE ViewsInv
  OBVIOUS
<1>1. LinesAll
  BY LinesInit
<1>2. ASSUME NEW u \in Views
      PROVE  /\ readMsgs[u] = <<>> /\ writeMsgs[u] = <<>> /\ rows[u] = <<>> /\ timers = <<>>
             /\ Len(readMsgs[u]) = 0 /\ Len(writeMsgs[u]) = 0 /\ traffic = {}
  <2>1. /\ readMsgs[u] = <<>> /\ writeMsgs[u] = <<>> /\ rows[u] = <<>> /\ timers = <<>>
        /\ traffic = {}
    BY DEF ViewInit, ViewStart, FreshViews
  <2> QED BY <2>1
<1>3. \A i \in 1 .. 0 : FALSE
  OBVIOUS
<1>4. ListsInv
  BY <1>2, <1>3, KnownNothing DEF ListsInv, ListInv, ReadsKnown
<1>5. ToSet(<<>>) = {}
  BY DEF ToSet
<1>6. \A u \in Views : MovedInv(u)
  BY <1>2, <1>5 DEF MovedInv, Whole
<1> QED BY <1>1, <1>4, <1>6 DEF ViewsInv

LEMMA ViewsStep == ViewsInv /\ [ViewNext]_allVars => ViewsInv'
<1> SUFFICES ASSUME ViewsInv, [ViewNext]_allVars PROVE ViewsInv'
  OBVIOUS
<1>1. LinesAll /\ PipeInv /\ TypeOK /\ ViewsTypeOK /\ TimersInv
  BY DEF ViewsInv, LinesAll, PipeInv
<1>2. LinesAll'
  BY <1>1, LinesStep
<1>3. ListsInv'
  BY <1>1, ListStep DEF ViewsInv, ListsInv, Serialised
<1>4. \A v \in Views : MovedInv(v)'
  BY <1>1, MovedStep DEF ViewsInv
<1> QED BY <1>2, <1>3, <1>4 DEF ViewsInv

\* So the lists match the rows.
LEMMA ListsMatch == ViewsInv => ListsMatchRows
<1> SUFFICES ASSUME ViewsInv PROVE ListsMatchRows
  OBVIOUS
<1>0. ViewsTypeOK /\ ListsInv /\ \A v \in Views : MovedInv(v)
  BY DEF ViewsInv, LinesAll
<1>r. TimersInv
  BY DEF ViewsInv, LinesAll
<1>1. ASSUME NEW c \in Serialised, source[c] \in Views
      PROVE  /\ ReadsInOrder(readMsgs[source[c]], c)
             /\ \A i, j \in Of(writeMsgs[source[c]], c) :
                  i < j => writeMsgs[source[c]][i].id < writeMsgs[source[c]][j].id
  <2>1. PICK q, w : q = readMsgs[source[c]] /\ w = writeMsgs[source[c]]
    OBVIOUS
  <2>2. DOMAIN q = 1 .. Len(q) /\ DOMAIN w = 1 .. Len(w)
    <3>1. q \in Seq(MsgSet) /\ w \in Seq(Shown)
      BY <1>0, <1>1, <2>1 DEF ViewsTypeOK, MsgSet
    <3> QED BY <3>1
  <2>3. PICK d : ReadsKnown(q, Len(q), c, d) /\ Known(w, Len(w), c, d, {})
    BY <1>0, <1>1, <2>1 DEF ListsInv, ListInv
  <2>4. ReadsInOrder(q, c)
    BY <2>2, <2>3 DEF ReadsKnown, ReadsInOrder, Before
  <2>5. \A i, j \in Of(w, c) : i < j => w[i].id < w[j].id
    BY <2>2, <2>3 DEF Known, Of
  <2> QED BY <2>1, <2>4, <2>5
<1>2. ASSUME NEW v \in Views
      PROVE  /\ \A m \in ToSet(readMsgs[v]) :
                  m.k <= m.of.count /\ ToSet(Messages(m.of)) \subseteq ToSet(readMsgs[v])
             /\ \A x \in ToSet(rows[v]) :
                  /\ x.func = "read" => ToSet(Messages(x)) \subseteq ToSet(readMsgs[v])
                  /\ x.func = "write" => x \in ToSet(writeMsgs[v])
  BY <1>0 DEF MovedInv, Whole, Listed
<1>3. ASSUME NEW x \in traffic
      PROVE  IF x.func = "read"
               THEN ToSet(Messages(x)) \subseteq ToSet(readMsgs[source[x.from]])
               ELSE x \in ToSet(writeMsgs[source[x.from]])
  <2>1. PICK v \in Views : v = source[x.from]
    BY <1>r DEF TimersInv
  <2>2. x.func \in {"read", "write"}
    BY <1>r DEF TimersInv
  <2>3. Listed(x, ToSet(readMsgs[v]), ToSet(writeMsgs[v]))
    BY <1>0, <2>1 DEF MovedInv
  <2> QED BY <2>1, <2>2, <2>3 DEF Listed
<1> QED BY <1>1, <1>2, <1>3 DEF ListsMatchRows

\* The lists of messages read and written are in the order of the calls, never
\* with part of a read, and have all that any row of their view tells of and
\* all that the reads and writes it took moved, for any number of processes,
\* threads, reports and messages.
THEOREM ListsTellTheSame == ViewSpec => []ListsMatchRows
<1>1. ViewSpec => ViewInit /\ [][ViewNext]_allVars
  BY PTL DEF ViewSpec
<1> QED BY <1>1, ViewsInit, ViewsStep, ListsMatch, PTL
=============================================================================
