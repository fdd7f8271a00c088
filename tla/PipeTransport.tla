--------------------------- MODULE PipeTransport ---------------------------
(***************************************************************************)
(* The report channel between the DLL and the desktop application:         *)
(* ExPipeClient::connect and send, and ExPipeServer's processData, joined  *)
(* by the named pipe of each ExPipeClient object: a process has the back   *)
(* end's and the log's.  A report is written as two WriteFile calls, its   *)
(* length and then its body; the server cuts frames out of whatever bytes  *)
(* have arrived.  One object serves all threads that report through it,    *)
(* and send takes no lock of its own.  Most functions of the Cannelloni    *)
(* client call it under globalMutex; its others (PassThruDisconnect,       *)
(* PassThruIoctl, the unsupported calls), the wrapper, the emulator and    *)
(* the log have no lock, so that only a host that calls from one thread    *)
(* keeps their reports apart.                                              *)
(***************************************************************************)
EXTENDS Integers, Sequences, FiniteSets

CONSTANTS
    Clients,     \* ExPipeClient objects, each with a pipe of its own
    Senders,     \* threads that report
    Home,        \* the object a thread reports through
    Locked,      \* threads that report only while they hold globalMutex
    BodySizes,   \* lengths of a report's body
    Misread,     \* values four bytes of a body may have when read as a length
    MaxAttempts, \* maxAttempts of ExPipeClient::connect (3 in the code)
    MaxSent,     \* bound: reports per pipe
    Nobody

ASSUME PipeAssumption ==
    /\ Home \in [Senders -> Clients]
    /\ Locked \subseteq Senders
    /\ BodySizes \subseteq Nat \ {0}
    /\ Misread \subseteq Int
    /\ MaxAttempts \in Nat \ {0} /\ MaxSent \in Nat
    /\ Nobody \notin Senders \union Clients

VARIABLES
    server,     \* the application: "down", "starting" (launched), "up"
    conn,       \* what the handle of a client is good for
    attempt,    \* attempts ExPipeClient::connect has made
    mutex,      \* owner of globalMutex of the process of a client
    report,     \* the report a thread is in the middle of sending
    stream,     \* bytes written and not yet read, per pipe
    buffer,     \* m_buffers of the client's socket
    size,       \* m_sizes of the client's socket
    busy,       \* the socket processData is working on
    events,     \* reports posted with QTimer::singleShot(0)
    sent,       \* history: reports in the order send was entered
    delivered   \* history: reports handed to ExMessagePreProcessor

client == <<conn, attempt, mutex, report, sent>>
app    == <<buffer, size, busy, events, delivered>>
vars   == <<server, client, stream, app>>

-----------------------------------------------------------------------------
\* A report is its number on its pipe and its length.  The bytes of a
\* length come in two pieces, so that one can arrive without the other.
Reports == [id : 1 .. MaxSent, len : BodySizes]
NoReport == [id |-> 0, len |-> 0]

Piece(kind, r, k) == [kind |-> kind, id |-> r.id, len |-> r.len, k |-> k]
Pieces == [kind : {"size", "body"}, id : 1 .. MaxSent, len : BodySizes,
           k : Nat \ {0}]
SizeBytes(r) == << Piece("size", r, 1), Piece("size", r, 2) >>
BodyBytes(r) == [k \in 1 .. r.len |-> Piece("body", r, k)]

Start(handles) ==
    /\ server \in {"down", "up"}
    /\ conn = handles
    /\ attempt = [c \in Clients |-> 0]
    /\ mutex = [c \in Clients |-> Nobody]
    /\ report = [s \in Senders |-> NoReport]
    /\ stream = [c \in Clients |-> <<>>]
    /\ buffer = [c \in Clients |-> <<>>]
    /\ size = [c \in Clients |-> 0]
    /\ busy = Nobody
    /\ events = <<>>
    /\ sent = [c \in Clients |-> <<>>]
    /\ delivered = [c \in Clients |-> <<>>]

Init == Start([c \in Clients |-> "connecting"])

-----------------------------------------------------------------------------
(* Faulty variants, never part of Next: what the properties are tested     *)
(* against.                                                                *)

\* A send that releases globalMutex between the two writes.
SendSize_Unguarded(s) ==
    LET c == Home[s] IN
    /\ conn[c] = "open"
    /\ report[s] = NoReport
    /\ Len(sent[c]) < MaxSent
    /\ \E n \in BodySizes :
         LET r == [id |-> Len(sent[c]) + 1, len |-> n] IN
         /\ report' = [report EXCEPT ![s] = r]
         /\ sent' = [sent EXCEPT ![c] = Append(@, r)]
         /\ stream' = [stream EXCEPT ![c] = @ \o SizeBytes(r)]
    /\ UNCHANGED <<server, conn, attempt, mutex, app>>

\* processData that takes what has arrived, be it less or more, for a frame.
CutFrame_WholeBuffer(c) ==
    /\ busy = c
    /\ size[c] > 0
    /\ buffer[c] # <<>>
    /\ events' = Append(events, [from |-> c, id |-> buffer[c][1].id,
                                 len |-> Len(buffer[c])])
    /\ buffer' = [buffer EXCEPT ![c] = <<>>]
    /\ size' = [size EXCEPT ![c] = 0]
    /\ UNCHANGED <<server, client, stream, busy, delivered>>

\* A disconnect that is handled before the last bytes in the pipe are read.
Disconnected_Early(c) ==
    /\ busy = Nobody
    /\ conn[c] = "closed"
    /\ stream[c] # <<>> \/ buffer[c] # <<>> \/ size[c] # 0
    /\ stream' = [stream EXCEPT ![c] = <<>>]
    /\ buffer' = [buffer EXCEPT ![c] = <<>>]
    /\ size' = [size EXCEPT ![c] = 0]
    /\ UNCHANGED <<server, client, busy, events, delivered>>

\* A connect that does not count an attempt that found no pipe.
ConnectRetry_Uncounted(c) ==
    /\ conn[c] = "connecting"
    /\ server' \in IF server = "down" THEN {"down", "starting"} ELSE {server}
    /\ UNCHANGED <<client, stream, app>>

-----------------------------------------------------------------------------
(* ExPipeClient::connect: one step per attempt.                            *)

ConnectOpen(c) ==
    /\ conn[c] = "connecting"
    /\ attempt[c] < MaxAttempts
    /\ server = "up"
    /\ conn' = [conn EXCEPT ![c] = "open"]
    /\ UNCHANGED <<server, attempt, mutex, report, sent, stream, app>>

\* ERROR_PIPE_BUSY, or no pipe: then the application is launched if the
\* registry names it.  After the last attempt connect gives up.
ConnectRetry(c) ==
    /\ conn[c] = "connecting"
    /\ attempt[c] < MaxAttempts
    /\ server' \in IF server = "down" THEN {"down", "starting"} ELSE {server}
    /\ attempt' = [attempt EXCEPT ![c] = @ + 1]
    /\ conn' = [conn EXCEPT ![c] = IF attempt[c] + 1 = MaxAttempts
                                     THEN "failed" ELSE "connecting"]
    /\ UNCHANGED <<mutex, report, sent, stream, app>>

\* Another error, or CreateProcess fails.
ConnectFail(c) ==
    /\ conn[c] = "connecting"
    /\ conn' = [conn EXCEPT ![c] = "failed"]
    /\ UNCHANGED <<server, attempt, mutex, report, sent, stream, app>>

Connect(c) == ConnectOpen(c) \/ ConnectRetry(c) \/ ConnectFail(c)

-----------------------------------------------------------------------------
(* ExPipeClient::send: the length, then the body.                          *)

SendSize(s) ==
    LET c == Home[s] IN
    /\ conn[c] = "open"
    /\ report[s] = NoReport
    /\ Len(sent[c]) < MaxSent
    /\ IF s \in Locked
         THEN mutex[c] = Nobody /\ mutex' = [mutex EXCEPT ![c] = s]
         ELSE UNCHANGED mutex
    /\ \E n \in BodySizes :
         LET r == [id |-> Len(sent[c]) + 1, len |-> n] IN
         /\ report' = [report EXCEPT ![s] = r]
         /\ sent' = [sent EXCEPT ![c] = Append(@, r)]
         /\ stream' = [stream EXCEPT ![c] = @ \o SizeBytes(r)]
    /\ UNCHANGED <<server, conn, attempt, app>>

\* A broken pipe fails the write, which is only logged.
SendBody(s) ==
    LET c == Home[s] IN
    /\ report[s] # NoReport
    /\ conn[c] \in {"open", "broken"}
    /\ stream' = IF conn[c] = "open"
                   THEN [stream EXCEPT ![c] = @ \o BodyBytes(report[s])]
                   ELSE stream
    /\ report' = [report EXCEPT ![s] = NoReport]
    /\ mutex' = [mutex EXCEPT ![c] = IF s \in Locked THEN Nobody ELSE @]
    /\ UNCHANGED <<server, conn, attempt, sent, app>>

\* A process ends and its pipe breaks, perhaps between the two writes of a report.
Exit(c) ==
    /\ conn[c] = "open"
    /\ conn' = [conn EXCEPT ![c] = "closed"]
    /\ UNCHANGED <<server, attempt, mutex, report, sent, stream, app>>

-----------------------------------------------------------------------------
(* ExPipeServer                                                            *)

\* The launched application reaches listen().
ServerUp ==
    /\ server = "starting"
    /\ server' = "up"
    /\ UNCHANGED <<client, stream, app>>

\* The application exits: its pipes break, its buffers and timers are gone.
ServerExit ==
    /\ server = "up"
    /\ server' = "down"
    /\ conn' = [c \in Clients |-> IF conn[c] = "open" THEN "broken" ELSE conn[c]]
    /\ stream' = [c \in Clients |-> <<>>]
    /\ buffer' = [c \in Clients |-> <<>>]
    /\ size' = [c \in Clients |-> 0]
    /\ busy' = Nobody
    /\ events' = <<>>
    /\ UNCHANGED <<attempt, mutex, report, sent, delivered>>

\* readyRead: any part of the stream has arrived.
ReadAll(c) ==
    /\ busy = Nobody
    /\ server = "up"
    /\ \E n \in 1 .. Len(stream[c]) :
         /\ buffer' = [buffer EXCEPT ![c] = @ \o SubSeq(stream[c], 1, n)]
         /\ stream' = [stream EXCEPT ![c] = SubSeq(@, n + 1, Len(@))]
    /\ busy' = c
    /\ UNCHANGED <<server, client, size, events, delivered>>

\* Four bytes are a length if they were written as one; otherwise whatever
\* the bytes of a body happen to be.
LengthOf(x, y) ==
    IF x.kind = "size" /\ y.kind = "size" /\ x.id = y.id /\ x.k = 1 /\ y.k = 2
      THEN {x.len} ELSE Misread

CutSize(c) ==
    /\ busy = c
    /\ size[c] = 0
    /\ Len(buffer[c]) >= 2
    /\ \E n \in LengthOf(buffer[c][1], buffer[c][2]) :
         size' = [size EXCEPT ![c] = n]
    /\ buffer' = [buffer EXCEPT ![c] = SubSeq(@, 3, Len(@))]
    /\ UNCHANGED <<server, client, stream, busy, events, delivered>>

\* A frame that is not the body of one report is not a CBOR map: dropped.
IsReport(frame) == \E id \in 1 .. MaxSent :
    frame = BodyBytes([id |-> id, len |-> Len(frame)])

CutFrame(c) ==
    /\ busy = c
    /\ size[c] > 0
    /\ Len(buffer[c]) >= size[c]
    /\ LET frame == SubSeq(buffer[c], 1, size[c]) IN
         events' = IF IsReport(frame)
                     THEN Append(events, [from |-> c, id |-> frame[1].id,
                                          len |-> Len(frame)])
                     ELSE events
    /\ buffer' = [buffer EXCEPT ![c] = SubSeq(@, size[c] + 1, Len(@))]
    /\ size' = [size EXCEPT ![c] = 0]
    /\ UNCHANGED <<server, client, stream, busy, delivered>>

\* Neither loop condition holds; a negative size never lets go of the buffer.
ReturnToEventLoop(c) ==
    /\ busy = c
    /\ ~(size[c] = 0 /\ Len(buffer[c]) >= 2)
    /\ ~(size[c] > 0 /\ Len(buffer[c]) >= size[c])
    /\ busy' = Nobody
    /\ UNCHANGED <<server, client, stream, buffer, size, events, delivered>>

ProcessData(c) == ReadAll(c) \/ CutSize(c) \/ CutFrame(c) \/ ReturnToEventLoop(c)

\* The timer of the oldest report fires.
Dispatch ==
    /\ busy = Nobody
    /\ events # <<>>
    /\ delivered' = [delivered EXCEPT ![Head(events).from] =
                       Append(@, [id |-> Head(events).id, len |-> Head(events).len])]
    /\ events' = Tail(events)
    /\ UNCHANGED <<server, client, stream, buffer, size, busy>>

\* handleSocketDisconnected, once the bytes left in the pipe have been read.
Disconnected(c) ==
    /\ busy = Nobody
    /\ conn[c] = "closed"
    /\ stream[c] = <<>>
    /\ buffer[c] # <<>> \/ size[c] # 0
    /\ buffer' = [buffer EXCEPT ![c] = <<>>]
    /\ size' = [size EXCEPT ![c] = 0]
    /\ UNCHANGED <<server, client, stream, busy, events, delivered>>

-----------------------------------------------------------------------------
\* Nobody connects, sends or is served: the clients may stay like this.
Quiet ==
    /\ \A c \in Clients : conn[c] # "connecting"
    /\ \A s \in Senders : report[s] = NoReport \/ conn[Home[s]] = "closed"
    /\ busy = Nobody /\ events = <<>>
    /\ UNCHANGED vars

Next ==
    \/ \E c \in Clients : Connect(c) \/ Exit(c) \/ ProcessData(c) \/ Disconnected(c)
    \/ \E s \in Senders : SendSize(s) \/ SendBody(s)
    \/ ServerUp \/ ServerExit \/ Dispatch \/ Quiet

Spec == Init /\ [][Next]_vars

\* A started connect or send goes on; the application's event loop turns.
Fairness ==
    /\ \A c \in Clients : WF_vars(Connect(c)) /\ WF_vars(ProcessData(c))
    /\ \A s \in Senders : WF_vars(SendBody(s))
    /\ WF_vars(Dispatch)

FairSpec == Spec /\ Fairness

-----------------------------------------------------------------------------
(* Properties                                                              *)

\* Every variable stays in its type.
TypeOK ==
    /\ server \in {"down", "starting", "up"}
    /\ conn \in [Clients -> {"connecting", "open", "failed", "broken", "closed"}]
    /\ attempt \in [Clients -> 0 .. MaxAttempts]
    /\ mutex \in [Clients -> Senders \union {Nobody}]
    /\ report \in [Senders -> Reports \union {NoReport}]
    /\ stream \in [Clients -> Seq(Pieces)]
    /\ buffer \in [Clients -> Seq(Pieces)]
    /\ size \in [Clients -> Int]
    /\ busy \in Clients \union {Nobody}
    /\ events \in Seq([from : Clients, id : 1 .. MaxSent, len : BodySizes])
    /\ sent \in [Clients -> Seq(Reports)]
    /\ delivered \in [Clients -> Seq(Reports)]

\* The clients whose reports are kept apart: all threads that report through
\* one hold globalMutex, or there is only one such thread.
Serialised ==
    {c \in Clients : \A s, u \in Senders :
        Home[s] = c /\ Home[u] = c /\ s # u => {s, u} \subseteq Locked}

PrefixOf(x, y) == Len(x) <= Len(y) /\ x = SubSeq(y, 1, Len(x))

\* The application sees the reports of a client in the order they were sent,
\* whole, none twice and none skipped, however the bytes arrive, even while
\* the stream of another client is out of step.
InOrder == \A c \in Serialised : PrefixOf(delivered[c], sent[c])

\* The server reads lengths where lengths were written: it never takes bytes
\* of a body for a length, so that it cannot wait for bytes that never come.
InStep == \A c \in Serialised : size[c] \in BodySizes \union {0}

\* Nothing comes through the pipe of a client any more: it broke, or its last
\* bytes were read or dropped and the last report was handed over.
Over(c) ==
    /\ conn[c] \notin {"connecting", "open"}
    /\ stream[c] = <<>> /\ buffer[c] = <<>> /\ size[c] = 0
    /\ \A i \in DOMAIN events : events[i].from # c

Channel == INSTANCE ReportChannel WITH
    Clients   <- Serialised,
    running   <- (server = "up"),
    link      <- [c \in Serialised |-> conn[c]],
    sent      <- [c \in Serialised |-> sent[c]],
    delivered <- [c \in Serialised |-> delivered[c]],
    over      <- {c \in Serialised : Over(c)}

\* The bytes, the frames cut out of them and the timers implement a channel
\* that hands reports over one by one and in order, and loses no more than the
\* last one of a process that ended, unless the application exits.
ImplementsChannel == Channel!Spec

\* Every report of a connected client gets to the application.
Arrives ==
    \A c \in Clients : \A n \in 1 .. MaxSent :
        (c \in Serialised /\ Len(sent[c]) >= n)
          ~> (Len(delivered[c]) >= n \/ conn[c] # "open")

\* connect comes to an end whatever CreateFile answers.
ConnectEnds == \A c \in Clients : conn[c] = "connecting" ~> conn[c] # "connecting"

-----------------------------------------------------------------------------
(* A statement of a comment in the code that the code does not keep.       *)

\* "Write the message length (as a 4-byte integer) before the message": what
\* follows a length in the stream is the message it is the length of.
LengthBeforeMessage ==
    \A c \in Clients : \A i \in 1 .. Len(stream[c]) - 1 :
        stream[c][i].kind = "size" => stream[c][i + 1].id = stream[c][i].id
=============================================================================
