# J2534_OIP_Wrapper: formal models

J2534_OIP_Wrapper is a Windows DLL that automotive diagnostic software loads as
its SAE J2534 "PassThru" driver.  Depending on a registry value, the DLL forwards
the calls to another vendor's DLL, answers them itself (emulator, logger) or turns
them into UDP traffic to a Cannelloni CAN gateway.  Every call is reported over a
named pipe to a desktop application that shows the traffic.

This directory holds TLA+ models of the parts of that program where order,
concurrency and failure matter, the TLC instances that check them, and proofs of
the main results for every value of the constants.

## 1. The system

Paths are relative to `src/`.

| part | state | operations | talks to |
|---|---|---|---|
| Exported functions, `j2534_OverIP/j2534.cpp` | none | one per PassThru function, each forwards to the current interface | J2534Global |
| DllMain, J2534Global, `main.cpp`, `j2534global.cpp` | singleton, factory, current interface | attach: register four generators, create the one the registry names | back ends |
| **Cannelloni client**, `j2534cannelloniclient.cpp/.h` | `channelMap` port -> ChannelContext (socket, receive thread, stop flag, sequence number, message queue), `lastError`, `lastErrorLong`, `scanIndex`, `globalMutex` | PassThruOpen, Close, Connect, Disconnect, ReadMsgs, WriteMsgs, Select, GetLastError, device enumeration, Ioctl, about twenty unsupported calls | UDP sockets, receive threads, report pipe |
| DLL wrapper, `j2534dllwrapper.cpp` | module handle, function pointers | loadDll, unloadDll, one forwarder per call | wrapped DLL, report pipe |
| Emulator, simple logger | one enumeration counter | constant answers | report pipe, debug log |
| **Report pipe, client side**, `expipeclient.cpp` | pipe handle | connect (launches the application, three attempts), send (length, then CBOR body) | application |
| Debug log, `ExDbg.h` | text buffer, mutex | `<<`, end marker | report pipe |
| **Report pipe, application side**, `j2534_OverIP_App/expipeserver.cpp` | per socket a buffer and a pending length | newConnection, readyRead -> processData, disconnected | preprocessor, by zero timer |
| Application models, `exmessagepreprocessor.cpp`, `exj2534wrapper.cpp`, ... | lists of reports, message lists | dispatch by type, insert, remove, export | QML views |
| Legacy server `exj2534oipsocks.cpp`, QML, vendored cn-cbor | | | |

How they interact: application threads call into the DLL concurrently and share
one back-end object.  In the Cannelloni client every function that works on its
state holds `globalMutex` from first line to return (PassThruDisconnect, Ioctl,
ReadVersion and the unsupported calls take no lock and touch no state); each open
device adds a receive thread that never takes `globalMutex` and shares the context
with the callers by reference, its queue under `msgQueueMutex`.  Wrapper, emulator and
logger have no lock of their own.  Each call ends with a report on the pipe: two
`WriteFile` calls without a lock, so that reports are kept apart only by the
`globalMutex` of the call, or by a host that calls from one thread.  The application is one event
loop that cuts frames out of the byte streams of all processes.

What is hard here, and what correctness means:

* Cannelloni client.  Closing a device against calls and against its own receive
  thread; messages between two threads; re-opening a port; failures half-way
  through an open or a write; a `select` that polls under the global lock; a
  receive loop that ends on bad input.  Correct: no context is used after it was
  erased, no socket leaks, messages are neither lost nor reordered nor left over
  from an older session, packets leave in sequence, calls return.
* Report pipe.  Fragmentation, interleaved writers, either side exiting at any
  time.  Correct: reports arrive whole and in order, a process that is out of step
  does not disturb another one, connect ends.
* Interface selection and DLL wrapper.  A back end created, and connecting for up
  to half a minute, under the loader lock; an unlocked test-and-create of the
  interface; function pointers left without a value by a load that failed or that
  forgot one; NULL arguments read before anything tests them.  Correct: one back end
  serves a process, the report of the load tells which calls are forwarded, and the
  process ends inside the DLL only where that can be said beforehand.
* Debug log.  A buffer whose append is locked and whose send and clear are not, which
  is a data race.  Correct: no text stays behind for an unrelated report.  (That none
  is lost, and that the process survives, would be correct, too, and fail.)
* Device enumeration.  One static cursor shared by all threads and two functions; a
  counter of the emulator's without a lock.  Correct: no device is handed out again
  to a call that began after it was handed out.
* Application views.  Rows added by timers, lists updated at once, reports taken in
  between.  Correct: rows in the order of the calls, lists that agree with them.

## 2. Modules

| module | stands for |
|---|---|
| `VirtualDevices` | abstract specification: open devices, which of them still hear the network, an inbox each |
| `CannelloniClient` | the Cannelloni client: callers, lock, contexts, receive threads, UDP input |
| `MCCannelloniClient` | its TLC instances |
| `CannelloniClientProofs` | type correctness, the inductive invariant and the safety theorems |
| `CannelloniClientOrder` | proofs about a sequence of steps of one call: packets of a write, the count of a select |
| `CannelloniClientRefinement` | the client implements `VirtualDevices` |
| `PipeTransport` | `ExPipeClient::connect/send` and `ExPipeServer::processData` over one pipe per `ExPipeClient` object |
| `MCPipeTransport` | its TLC instances |
| `ReportChannel` | abstract specification: a channel per process, what was sent, what was handed over, which channels are over |
| `PipeTransportProofs` | type correctness, the inductive invariant of writer, pipe and reader, and the theorems on order |
| `PipeTransportRefinement` | the pipe implements `ReportChannel` |
| `ReportViews` | `ExMessagePreProcessor`, the views of the three back ends and their lists, on top of `PipeTransport` |
| `MCReportViews` | its TLC instance |
| `ReportViewsProofs` | types, and that rows, lists and the list of loaded functions tell the reports in order |
| `PassThruApi` | abstract specification: what a host may rely on, whatever back end is configured |
| `PassThruFunctions` | the exported functions, their pointer parameters, and which of them each back end dereferences |
| `DebugLog`, `DeviceScan` | `ExDbg`; the enumerations of the Cannelloni client and of the emulator |
| `PassThruDll` | one process with the DLL: DllMain, J2534Global, the exported functions, wrapper, logger, emulator; composes the three modules above |
| `MCPassThruDll` | its TLC instances |
| `PassThruDllProofs` | inductive invariant and the theorems |
| `PassThruDllRefinement` | the DLL implements `PassThruApi` |

### CannelloniClient

| variable | code |
|---|---|
| `lock` | owner of `globalMutex` |
| `pc`, `local` | position and locals of the call a thread is in |
| `channelMap` | keys of `channelMap` |
| `sock`, `stop`, `seqNo`, `queue`, `thread` | the members of a port's ChannelContext; `thread` also says where the receive loop is |
| `rx` | datagrams the OS holds for the socket |
| `lastError`, `lastErrorLong` | the same members; the text is represented by the code of the failure it describes |
| `ret` | result of the latest call |
| `alive` | the process has not been torn down by the heap check |
| `accepted`, `taken`, `wire` | histories of the current session of a port; no action reads them except to bound an input |

A call that does one thing under the lock is one action, and so are the calls
without a lock (`Disconnect`, `Inquire` for Ioctl and ReadVersion, `Unsupported`).  A call that blocks,
loops, or is split by another thread's access is several: open creates the socket
and then installs or abandons it; close requests the stop, joins, closes the
socket and erases; read pops one message per step; write numbers and sends one
message per two steps; select takes one step per pass and per channel.  Expire
is the steady clock reaching a call's Timeout.  The receive loop is three
actions: look at the stop flag, find nothing within the poll time, take a
datagram.  All frames of one datagram are queued in one step, since the loop holds
`msgQueueMutex` around them.

Data is abstracted to what the code tells apart: a message to be written is "can"
or "invalid" (line 680), a datagram is ignored, too short, of another version,
undersized or well formed (162-197), a frame is a model value.

Two spots deserve a remark.  PassThruWriteMsgs frees its report in the loop when it
meets an invalid message and uses and frees it again after the loop.  That is
undefined behaviour, so WriteInvalid has both outcomes: the call returns, or the
process ends (`alive` becomes FALSE and only Aborted is left).  PassThruReadMsgs
assigns `*pNumMsgs` before it compares with it, so ERR_BUFFER_EMPTY is never
returned; ReadEnd keeps the expression as it is written.

Bounds: `RxCapacity` datagrams in a socket buffer, `MaxFrames` frames accepted and
`MaxSends` packets sent per session.  They appear in the guards of Arrive and
WriteBegin only.

### PipeTransport

`stream` is what was written and not yet read, `buffer` and `size` are the
server's `m_buffers` and `m_sizes`, `report` the report a thread is sending,
`events` the zero timers.  A length takes two pieces and a body one or two, so that
each can arrive split.  Four bytes that were written as a length decode to it;
other four bytes decode to any value of `Misread`, which holds a negative number,
zero and a value longer than any report.  Threads in `Locked` hold `globalMutex`
around their report.  Only most functions of the Cannelloni client do that; its
PassThruDisconnect, PassThruIoctl and unsupported calls do not, and the wrapper, the
emulator and the log have no lock at all.  `Serialised` is therefore the set of the
clients all of whose threads are in `Locked`, or that have one thread only, and what
is promised of the order of reports is promised of these.  A process has two
`ExPipeClient` objects, the back end's and the debug log's, and each counts as a
client here.  Client processes and the application may exit at any time.  `Start`
gives each client a state of its handle; `Init` is the start of all of them at once
with none connected.  `MaxSent` bounds the reports of a client.

`ReportChannel` abstracts the threads, the bytes, the frames and the timers.  A
channel is over when nothing comes through it any more: it was never opened, the
application exited, or the process ended and all it left in the pipe was read and
handed over or thrown away with the socket.  In the last case the process has lost no
report but its last, which it may not have finished.

### ReportViews

Its state is that of `PipeTransport` and of the application's views: `rows` is
`p_objs`, `readMsgs` and `writeMsgs` are the lists, `loaded` is `p_loaded_funcs`,
`timers` the zero timers that call addElement.  `DispatchToView` is the timer of
`PipeTransport`'s Dispatch with the handler that it calls; `AddElement` is the timer
a handler posted.  Both kinds of timers may fire in any order relative to each
other, each kind in its own order.  A client's `source` is the type its reports
carry, chosen once: a back end's or the log's, which no view shows.  `ViewStart` lets
a client have threads in `Locked` only if its source is the Cannelloni client, the one
with a lock.  What a report says (its function, its number of messages) is chosen when
it is looked at.  Views other than the wrapper's have no list of loaded functions; the
Cannelloni view makes no row of a read or a write.  `traffic` is a history of the reads
and writes the views took; from it the properties tell which reports that view rightly
has no row for (`ListedOnly`) and what must be in its lists nevertheless.

### PassThruDll

| variable | code |
|---|---|
| `setup` | the registry and the disk when the DLL is loaded: class, whether the wrapped DLL is there, what it exports |
| `process` | in DllMain, serving, ended |
| `backend` | `_global_j2534_interface`: class, and the thread that created it |
| `pointer` | the `m_PassThru...` members of the wrapper: no value, NULL, a function |
| `told` | the map of functions in loadDll's report |
| `pc`, `call`, `answer` | where a thread is, the call it is in, its last answer |
| `served` | history: the interfaces that were given calls |
| `text`, `unsent` | `buffer_` of ExDbg; history of texts no report has carried; a text is known by its thread and its place in the statement |
| `scanIndex`, `devCounter` | the same variables |
| `handed`, `seen`, `given` | histories of the enumeration |

A call is a function and at most one NULL among its pointers; `PassThruFunctions`
says which pointers a back end reads without a test, on every path (`...Reads`) or
on some (`...MayRead`).  Reading NULL ends the process.  Calling a pointer without a
value ends it too, or finds NULL by chance and is answered "not found".
`SelectInterface` and `LoadDll` are the attach of the process, `ThreadAttach` that of
a thread; both end in the unlocked `GetInterface`, as every call begins with it.
loadDll frees a map twice, so that the process may end there.  The calls of the
Cannelloni client are one step each, since globalMutex covers what they do to
`scanIndex`; the rest of them is `CannelloniClient`.  `ClientFault` has what may end
the process in one of them: a NULL, the double free of PassThruWriteMsgs for a message
that is not valid, and a printf of PassThruReadVersion with too few arguments.

A log statement is its appends, one in the logger and three in the wrapper's
PassThruReadMsgs (`NextLog`), and then the send and the clear of the end marker, a
step each.  Appends are made under `mutex_`, send and clear are not: `Access` is what a
thread is about to do with the buffer, and two accesses race (`Races`) unless both are
appends or both are sends.  Undefined behaviour has the outcomes the build can
produce: the process ends (`LogCorrupt`), a clear is lost under an append, or the
accesses happen one after the other.

`PassThruApi` abstracts all that to calls and answers.  It lets the process end in
DllMain if that is risky, in a call that passes NULL or whose function is risky, and
with two calls underway whose functions race; `RiskyFunctions` and `RacingFunctions`
in `PassThruDll` say which these are, although the arguments are good:

| back end | risky | racing |
|---|---|---|
| wrapper, DLL found | DllMain (double free in loadDll), PassThruReadDetails (never looked up), PassThruGetNextCarDAQ (reports a name that may be NULL) | PassThruReadMsgs, if the DLL does not export it (the log statement) |
| wrapper, DLL missing | DllMain, every function | PassThruReadMsgs |
| Cannelloni client | PassThruReadVersion, PassThruWriteMsgs | none |
| emulator | none | none |
| logger, and any other class | none | every function (each logs) |

### Faulty variants

The detailed modules have a section of operators named `<Operator>_<Fault>`, such as
`CloseJoin_NoWait`.  They belong to no specification.  Each is one of the module's
operators with a plausible mistake; put in its place, it makes a property fail.

## 3. Runs

Passing runs:

| run | instance | question |
|---|---|---|
| `client_traffic` | 1 port, 2 callers, datagrams of 0, 1 and 2 frames, every bad kind, reads of 0 and 2, select with thresholds 0 to 2 over the same channel twice | Are messages delivered in order and once, does close wait for the thread, does the client implement `VirtualDevices`? |
| `client_devices` | 3 ports, at most 2 open, 2 callers, writes of up to 3 messages, SeqMod 2 | Do failing opens leak, does the limit hold, are sessions numbered from 0 and in order? |
| `client_live` | 1 port, 2 callers, all calls, fairness | Does every call return, does a device keep receiving meanwhile? |
| `pipe_order` | 2 clients, 2 reports each: one with a single thread and no lock, one with two threads that race, as only one of them holds `globalMutex` | Are reports that are kept apart whole and in order next to a stream that is out of step, and is no more than the last one lost when a process exits (`ReportChannel`)? |
| `pipe_views` | 2 clients: a Cannelloni client with two threads under `globalMutex`, and a client of any source with one thread; 3 reports, 3 attempts, reads of up to 2 messages, fairness | Does every report arrive and appear, in order, with its messages listed; does connect end? |
| `dll_calls` | every class of the registry, with the wrapped DLL missing, complete, empty, and without two functions; 2 threads, one that makes every call with each NULL and one that shares log and enumeration with it; fairness | Is there one back end, does the report of the load tell the truth, do log and enumeration survive interleaving, does the DLL implement `PassThruApi`? |

Why these bounds suffice to make the interesting cases happen: two callers are
enough for any pair of calls to compete for the lock; one port isolates what a
receive thread and its callers do to each other, three ports with a limit of two
reach "full" with a port to spare; `SeqMod = 2` wraps within three writes; two frames
distinguish order; two racing threads and two reports put a stream out of step, and with two
reports a process can lose one more than its last.  In `pipe_views` one of the two
processes gets a connection and the other's attempts have failed (`MCInit`): what a
process does to another's stream is `pipe_order`'s question, and what processes that
share a view do to each other's rows is answered by the theorems, for any number of
them.  A
thread more than the loader is what the test in getInterface, the log's buffer and
the emulator's counter need to go wrong; the calls of a thread do not depend on each
other except through them and `scanIndex`, so single calls of each function suffice.
The whole table of NULL arguments is checked.
Callers are interchangeable, so the safety runs use symmetry on them; the liveness
runs do not.

Runs that end in a counterexample.  Each checks one statement made by a comment or
a message in the code:

| run | statement | what the code does |
|---|---|---|
| `client_bad_packet` | "Packet size too small ... Continue." (`j2534cannelloniclient.cpp:195`) | `break` leaves the receive loop; the device is deaf until closed |
| `client_select_timeout` | "Return readyCount (even on timeout, per spec)" (1573) | the count is reset before the deadline is tested |
| `client_last_error` | "0 for no error, else J2534 error code" (918) | PassThruClose, PassThruSelect and the unsupported calls fail without storing a code |
| `pipe_interleaved` | "Write the message length ... before the message" (`expipeclient.cpp:121`) | two threads write length, length, message, message |
| `dll_read_details` | "not found in DLL." (`j2534dllwrapper.cpp:1034`) | the wrapped DLL exports PassThruReadDetails; loadDll never asks for it |
| `dll_log_lost` | "If the end marker is detected, send the buffered message" (`ExDbg.h:72`) | text appended between the send and the clear of another thread is cleared unsent |

Noticed while modelling and left to this note: ERR_BUFFER_EMPTY cannot be returned
(605); "Only CAN and CAN_PS supported" (481) stands above code that is commented
out; "sending dummy data to self" (438) sends to the peer's port on the loopback,
which reaches the own socket only by accident; `scanIndex` is called thread-safe
(header, 125) but is a static shared by objects with different mutexes; frame data
shorter than eight bytes makes a packet the client's own receive loop would refuse
(709 against 193); the comment "Skip invalid messages" (689) stands on a `break`, so
that the valid messages behind an invalid one are not sent although the call
succeeds; "1 = free to open" (1498) is said of a port that cannot be opened while
three others are; several reports carry the wrong name (PassThruClose of the
wrapper "PassThruOpen", its PassThruDisconnect "PassThruConnect", its
PassThruReadDetails that of PassThruSelect); main.cpp:105 logs a name that was just
cleared; output buffers are reported as strings before they are filled; the
emulator's report of PassThruReadMsgs always carries a number in place of the
messages, so its view's read list stays empty; loadFromJSON, which nothing calls,
would reverse the rows it loads.

### Fairness

`CannelloniClient!FairSpec` assumes that a thread inside a call keeps being
scheduled (`Continue`), that time passes (`Expire`) and that receive threads run
(`Recv`).  That is what the operating system gives; `std::mutex` hand-over is
covered, since a call enters in one step and nothing is assumed about entering.
Callers need not call and the network need not deliver.  Close's progress rests on
RecvPoll: the receive thread looks at its stop flag at least once per poll time.
`PipeTransport!FairSpec` assumes the same of a thread in `connect` or between the two
writes, and that the application's event loop turns.  No process is assumed to
start, send, or stay alive.  A send blocked by a full pipe is not modelled.
`ReportViews!ViewSpec` is the same with the views' timers.
`PassThruDll!FairSpec` assumes that a thread inside the DLL is scheduled, which
includes that a wrapped DLL returns; hosts need not call.  Nothing in there waits for
another thread, which is why an answer to every call follows from it.

## 4. Proofs

All are checked by TLAPS.  Those of the client hold for any finite or infinite sets
of callers and ports and any inputs, under `ClientAssumption` (limits are natural
numbers, the two null values are not callers or ports); those of the pipe for any
clients, threads, report lengths, values of misread bytes and numbers of reports and
attempts, under `PipeAssumption`; those of the views also for any
sources and any number of messages, under `ViewsAssumption`; those of the DLL for
any threads, installations and repertoires of calls, under `DllAssumption` and
`ScanAssumption`.

* `TypeCorrect`: `Spec => []TypeOK`.  The inductive form `TypeInv` splits the type
  into groups, so that each action is shown to preserve what it touches; per-caller
  locals are typed by `CallerInv`.
* `SafetyHolds` (a lemma): `SafetyInv` is inductive relative to `TypeInv`.  `ContextValid`
  alone is not inductive: it needs that only the lock owner is inside a call
  (`LockInv`), that the port an open works on has a socket and no context yet
  and a place below NumPorts (`OpeningInv`), that between closesocket and erase the thread is gone
  (`ErasingInv`), that a port outside the map has no thread and an empty
  queue (`ClosedInv`) and one inside has an open socket and a thread
  (`OpenInv`), and that running threads own their context (`Ownership`).
  `LimitInv` says that the map is finite, so that it can be counted, and within the
  limit.
  From it: `ContextsStayValid`, `ThreadsOwnContexts`, `SocketsNeverLeak`,
  `DevicesStayLimited`, `DeliveryIsFifo`.
* `ThreadsNeverRevive`: the action property `NoRevival`, from the same invariant.
* `PacketsInOrder`: `WireInOrder` speaks of packets that left; that they continue the
  sequence needs the number of the one in hand.  `NumberInv` says that `seqNo` is the
  number of the next packet, or, between fetch_add and sendto of the one call that
  sends on the port, the one after the number that call carries.  That it is one call
  is `LockInv`.
* `SelectedStayReady`: `SelectCountHolds` is inductive next to `SafetyInv`.  The count of
  a pass is at most the number of entries it has looked at that are ready (`ReadySeen`),
  and nobody else can empty a queue or close a port while the lock is held.
* `ClientRefinesDevices`: under the mapping `open <- channelMap`, `listening <-` ports
  whose thread runs, `inbox <- queue`, every step is a step of `VirtualDevices` or a
  stutter.  The invariant supplies what the abstract actions demand: an install
  finds an empty inbox and room, an erase finds a deaf device, a pop an open one.

* `PipeTypeCorrect`: types of the pipe.  A posted report has the number and the length
  of a report even if its stream is out of step, because a frame that is not a body
  is dropped.
* `ReportsInOrder`, `ServerInStep`: both say nothing of bytes, and need all of them.
  `PipeInv` adds to the types, for every client whose reports are kept apart
  (`Serialised`), that a report half written is the last one sent and its sender owns
  the lock or is the client's only thread (`PendingInv`); that the buffer and the pipe, with the length that was cut off put back
  in front, are the reports from the n-th on, each a length and its whole body, the last
  one perhaps without (`Sync`, `Layout`); that the events of the client are its reports
  before the n-th that were not handed over, in order (`Queued`); and that those handed
  over are what was sent.  A pipe that nothing comes through any more is silent instead,
  and n then tells what was lost: the last report at most, or, if the application
  exited, everything that was not handed over (`ReaderAt`).  That needs to know that the
  event loop leaves no whole frame in a buffer (`IdleInv`), else a socket that is
  removed could take one along (`SyncUnfinished`).  There are lemmas for what each operation
  does to a layout; an action of another client, in step or not, touches none of it.
* `PipeImplementsChannel`: under the mapping `running <-` the server listens, `link <-
  conn`, `over <-` the clients with nothing in pipe, buffer, size and events (`Over`), all
  of it for the clients whose reports are kept apart, every step is a step of
  `ReportChannel` or a stutter.  Reading and cutting stutter because what they take from
  one place they leave in another: a length that was cut off is not zero
  (`CutSizeLength`), a frame becomes an event (`CutFramePosts`).  A channel ends by the exit
  of its process, by the last timer or by the removal of the socket, and in each case n is
  one more than the reports handed over (`NoneWaiting`) and no less than those sent
  (`EmptyPipe`, `DisconnectedLate`).
* `PassThruDllProofs`: `DllInv` is inductive.  `OneBackEnd` rests on `process` being
  "loading" until the loader's own getInterface has found or created an interface:
  only then may other threads enter, and from then on the test in getInterface finds
  one.  `LoadReportTrue` needs that pointers and report agree function by function
  (`PointersTold`).  `NoStaleText` needs where the threads are: a clear is lost only
  under an append, whose thread has a clear of its own ahead.
  `HandedOutOnce` needs that every device below `scanIndex`, and none above it, was
  handed out, and for the emulator that its counter is not zero once its device was.
  From it: `TypeCorrect`, `OneInterface`, `ReportIsTrue`, `BufferIsFresh`,
  `EnumerationOnce`.
* `DllImplementsApi`: under the mapping `pending <- call`, `risky <- RiskyFunctions`,
  `racing <- RacingFunctions` every step is a step of `PassThruApi` or a stutter.  What
  has to be shown of a step that ends the process is that it is excused: every access of
  the log's buffer is made in a call of a racing function, or of a risky one
  (`RacingLog`), and two accesses that race are made in two calls.  This is the part
  of `ImplementsApi` without fairness; TLC checks the whole.

* `ViewsTypeCorrect`, `NewestStaysOnTop`, `LoadedStaysNewest`, `ListsTellTheSame`: the
  views, on top of `PipeInv`.  Every step of `ViewSpec` is one of the pipe with the
  views beside it, so `PipeInv` holds of it as it stands (`ViewPipeStep`).  A view's
  *line* is its rows, the top one last, and then the timers, which are shared by the
  views.  A report enters a line at its end, where the event loop's queue begins.  A
  timer that fires leaves the line of its own view as it is, and takes itself out of
  every other line, where it is no report of that view's clients (`KnownDropped`).
  `LinesInv` says of each client whose reports are kept apart that the line of its view
  holds, rising, reports up to the last one handed over, and all that are due a row
  (`Known`, `Due`): those that were not a read or a write of the Cannelloni view
  (`ListedOnly`).  An application that exits takes the line along, but `ListedOnly` is
  about the views of the next one; so the alternative is that it is over with the client
  (`GoneBy`), which stays so (`OverStep`).  Joined with what `Queued` says of the events
  this is `NewestOnTop` (`WholeLine`).
  `LoadedInv` keeps the last load of the line equal to `loaded` (`Latest`).
  `ListsInv` keeps the lists sorted and below the number of the last report handed
  over (`ReadsKnown`, `Known`), `MovedInv` says that a message of a read is never
  without the others (`Whole`) and that the rows, *the timers and the traffic* find what
  they moved in the lists (`Listed`): of the rows alone that is not inductive.

Model-checked only: liveness (`CallsReturn`, `SocketDrained`, `Arrives`,
`ConnectEnds`, `ShownAtLast`, the fairness of `PassThruApi`), which needs fairness
and ENABLED.  Every other property of a passing run is a theorem.

## 5. Not modelled

* Registry access, console output, CBOR encoding and QML: input and output without
  control of their own.  An unreadable registry is the class "" in `PassThruDll`; an
  encoding is a report's body.  cn-cbor is vendored, and enters by what it does to
  its caller: the double free of loadDll.
* Of PassThruIoctl, PassThruReadVersion and the unsupported calls the result, the
  pointers and the unlocked report are modelled; the values they fill in are not.
* Bytes of a Cannelloni packet: a datagram is a member of the classes the receive
  loop tells apart.
* getDefaults and the choice of the port in PassThruOpen: an open takes any port.
* unloadDll, `ExPipeClient::receive`, removeElement, removeElementByIndex and
  loadFromJSON: no caller.  exportToJSON writes what the rows are.  data() answers for
  the index Qt gives it.
* `exj2534oipsocks` and `exj2534device` are dead code: their only use is commented out.
* The end of a process in an orderly way (DLL_PROCESS_DETACH only prints) and the
  destructor of ExDbg.
* Failures of the build's runtime: a thread that cannot be created, memory that is
  exhausted.
* The loader lock as such.  `PassThruDll` has what follows from it, that no other thread
  enters the DLL before DllMain has returned.  `ConnectEnds` says that the attempts of a
  connect inside of DllMain come to an end, not what the rest of the process waits for
  meanwhile.
* A reconnect.  The client has none: when the application exits, the reports of a
  process that was connected are lost from then on, and `Arrives` and `ShownAtLast`
  promise nothing of a broken pipe.
* What a length that is negative or huge does to the stream it is in: that stream is out
  of step for good, and no property speaks of it.  `InOrder` and `ImplementsChannel`
  say that the others are served nevertheless.

## 6. Plan

1. Done: `CannelloniClient` with abstract specification, proofs and refinement;
   `PipeTransport`; `ReportViews` on top of it.
2. Done: `PassThruDll` with `PassThruFunctions`, `DebugLog`, `DeviceScan`; its
   invariant proved, and that it implements `PassThruApi`.
3. Done: `WireInOrder`, `SelectCountHolds`, `InOrder` and `InStep` as theorems, and that
   the pipe implements `ReportChannel`.
4. Done: the rows and lists of `ReportViews` as theorems, on top of `PipeInv`; the
   clients without a lock and the race for the log's buffer modelled as they are.
5. Left: the bytes of a packet, if a gateway's documentation is at hand to compare
   them with; the device list composed with open and close.
