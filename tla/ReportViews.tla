---------------------------- MODULE ReportViews ----------------------------
(***************************************************************************)
(* What the desktop application makes of the reports PipeTransport brings  *)
(* it: ExMessagePreProcessor hands a report to the view of the back end it *)
(* comes from, and the view posts a timer that adds a row for it, appends  *)
(* the messages of a read and a write to its lists, and the wrapper's view *)
(* remembers the last report of loadDll.  All of it runs in the event loop *)
(* of ExPipeServer, whose steps it interleaves with.                       *)
(***************************************************************************)
EXTENDS PipeTransport, SequencesExt

CONSTANTS
    Sources,     \* the views the reports of a client may be for
    MaxMsgs      \* bound: messages of a report of PassThruReadMsgs

Views == {"wrapper", "emulator", "cannelloni"}
Functions_ == {"load", "read", "write", "other"}

ASSUME ViewsAssumption ==
    /\ Sources \subseteq Views \union {"none"}
    /\ MaxMsgs \in Nat

VARIABLES
    source,     \* type of a client's reports: its view, or "none" of a log
    timers,     \* zero timers that add a row
    rows,       \* p_objs of a view, the top row first
    readMsgs,   \* p_read_msgs of a view
    writeMsgs,  \* p_write_msgs of a view
    loaded,     \* p_loaded_funcs of the wrapper's view
    traffic     \* history: reads and writes the views took

viewVars == <<timers, rows, readMsgs, writeMsgs, loaded, traffic>>
allVars == <<vars, source, viewVars>>

\* A report as a view knows it.
Shown == [from : Clients, id : 1 .. MaxSent, func : Functions_, count : 0 .. MaxMsgs]
Nothing == [id |-> 0]

\* The views of an application that has just been started.
FreshViews(t, r, m, w, l, x) ==
    /\ t = <<>>
    /\ r = [v \in Views |-> <<>>]
    /\ m = [v \in Views |-> <<>>]
    /\ w = [v \in Views |-> <<>>]
    /\ l = Nothing
    /\ x = {}

\* Only the Cannelloni client has a globalMutex to report under.
ViewStart ==
    /\ source \in [Clients -> Sources]
    /\ \A s \in Locked : source[Home[s]] = "cannelloni"
    /\ FreshViews(timers, rows, readMsgs, writeMsgs, loaded, traffic)

ViewInit == Init /\ ViewStart

-----------------------------------------------------------------------------
(* Faulty variants, never part of ViewNext.                                *)

\* An addElement that appends.
AddElement_AtEnd ==
    /\ busy = Nobody
    /\ timers # <<>>
    /\ LET e == Head(timers) IN
         rows' = [rows EXCEPT ![source[e.from]] = Append(@, e)]
    /\ timers' = Tail(timers)
    /\ UNCHANGED <<vars, source, readMsgs, writeMsgs, loaded, traffic>>

\* A list that takes one message too many.
Messages_OneMore(x) == [k \in 1 .. x.count + 1 |-> [of |-> x, k |-> k]]

\* A row that is only added for reports other than those of a load.
HasRow_NotLoaded(v, x) == x.func # "load"

\* A list that inserts at its top, as the rows do.
Messages_NewestFirst(x) == [k \in 1 .. x.count |-> [of |-> x, k |-> x.count + 1 - k]]

-----------------------------------------------------------------------------
\* The Cannelloni view treats reads and writes in its lists only.
HasRow(v, x) == v = "cannelloni" => x.func \notin {"read", "write"}

\* ExJ2534ReadMsgsList: an integer in place of the messages adds none, like
\* an empty array does.
Messages(x) == [k \in 1 .. x.count |-> [of |-> x, k |-> k]]

\* processPipeMessage of view v.
ProcessPipeMessage(v, x) ==
    /\ timers' = IF HasRow(v, x) THEN Append(timers, x) ELSE timers
    /\ readMsgs' = IF x.func = "read" THEN [readMsgs EXCEPT ![v] = @ \o Messages(x)]
                                      ELSE readMsgs
    /\ writeMsgs' = IF x.func = "write" THEN [writeMsgs EXCEPT ![v] = Append(@, x)]
                                        ELSE writeMsgs
    /\ loaded' = IF v = "wrapper" /\ x.func = "load" THEN x ELSE loaded
    /\ traffic' = IF x.func \in {"read", "write"} THEN traffic \union {x} ELSE traffic
    /\ UNCHANGED rows

\* incommingMessageFromClient.  What a report says is chosen when it is
\* looked at: nothing depends on it before.
IncommingMessageFromClient(c, n) ==
    \E f \in Functions_, k \in 0 .. MaxMsgs :
        /\ f # "read" => k = 0
        /\ f = "load" => source[c] = "wrapper"
        /\ IF source[c] \in Views
             THEN ProcessPipeMessage(source[c],
                    [from |-> c, id |-> n, func |-> f, count |-> k])
             ELSE UNCHANGED viewVars

DispatchToView ==
    /\ Dispatch
    /\ IncommingMessageFromClient(Head(events).from, Head(events).id)
    /\ UNCHANGED source

AddElement ==
    /\ busy = Nobody
    /\ timers # <<>>
    /\ LET e == Head(timers) IN
         rows' = [rows EXCEPT ![source[e.from]] = <<e>> \o @]
    /\ timers' = Tail(timers)
    /\ UNCHANGED <<vars, source, readMsgs, writeMsgs, loaded, traffic>>

\* The application that is started next has views of its own.
ExitWithViews ==
    /\ ServerExit
    /\ FreshViews(timers', rows', readMsgs', writeMsgs', loaded', traffic')
    /\ UNCHANGED source

\* The steps that the views take no part in.
Transport ==
    /\ \/ \E c \in Clients : Connect(c) \/ Exit(c) \/ ProcessData(c) \/ Disconnected(c)
       \/ \E s \in Senders : SendSize(s) \/ SendBody(s)
       \/ ServerUp \/ (Quiet /\ timers = <<>>)
    /\ UNCHANGED <<source, viewVars>>

ViewNext == Transport \/ DispatchToView \/ AddElement \/ ExitWithViews

ViewFairness ==
    /\ \A c \in Clients :
         /\ WF_allVars(Connect(c) /\ UNCHANGED <<source, viewVars>>)
         /\ WF_allVars(ProcessData(c) /\ UNCHANGED <<source, viewVars>>)
    /\ \A s \in Senders : WF_allVars(SendBody(s) /\ UNCHANGED <<source, viewVars>>)
    /\ WF_allVars(DispatchToView)
    /\ WF_allVars(AddElement)

ViewSpec == ViewInit /\ [][ViewNext]_allVars /\ ViewFairness

-----------------------------------------------------------------------------
(* Properties                                                              *)

\* Every variable of the views stays in its type.
ViewsTypeOK ==
    /\ source \in [Clients -> Views \union {"none"}]
    /\ timers \in Seq(Shown)
    /\ rows \in [Views -> Seq(Shown)]
    /\ readMsgs \in [Views -> Seq([of : Shown, k : 1 .. MaxMsgs])]
    /\ writeMsgs \in [Views -> Seq(Shown)]
    /\ loaded \in Shown \union {Nothing}
    /\ traffic \subseteq Shown

\* Where reports of a client are in a sequence.
Of(seq, c) == {i \in DOMAIN seq : seq[i].from = c}

\* The rows of a view, the top one last, the reports about to become rows, and
\* those the event loop still has.
Line(v) == Reverse(rows[v]) \o timers \o events

\* The Cannelloni view took report n of a client for its lists, without a row.
ListedOnly(c, n) ==
    source[c] = "cannelloni" /\ \E x \in traffic : x.from = c /\ x.id = n

\* From the writes in the DLL to the rows on the screen no report of a client
\* whose reports are kept apart is lost, doubled or overtaken, as long as the
\* application runs: the newest is on top, and below a report are all before
\* it, but for the reads and writes the Cannelloni view only lists.
NewestOnTop ==
    \A c \in Serialised : source[c] \in Views =>
        LET line == Line(source[c])
            mine == Of(line, c)
        IN
        /\ \A i, j \in mine : i < j => line[i].id < line[j].id
        /\ \A i \in mine : \A n \in 1 .. line[i].id :
             ListedOnly(c, n) \/ \E k \in mine : line[k].id = n

\* The messages of reads are listed in the order of the reads.
ReadsInOrder(reads, c) ==
    \A i, j \in DOMAIN reads : i < j /\ reads[i].of.from = c /\ reads[j].of.from = c =>
        \/ reads[i].of.id < reads[j].of.id
        \/ reads[i].of = reads[j].of /\ reads[i].k < reads[j].k

\* The traffic lists tell the same story as the rows: they are in the order
\* of the calls, a message of a read never without the others it moved, and
\* whoever sees the row of a read or of a write finds all it moved listed.
\* What the views took stays listed, be there a row for it or not.
ListsMatchRows ==
    /\ \A c \in Serialised : source[c] \in Views =>
         LET writes == writeMsgs[source[c]] IN
         /\ ReadsInOrder(readMsgs[source[c]], c)
         /\ \A i, j \in Of(writes, c) : i < j => writes[i].id < writes[j].id
    /\ \A v \in Views :
         /\ \A m \in ToSet(readMsgs[v]) :
              m.k <= m.of.count /\ ToSet(Messages(m.of)) \subseteq ToSet(readMsgs[v])
         /\ \A x \in ToSet(rows[v]) :
              /\ x.func = "read" => ToSet(Messages(x)) \subseteq ToSet(readMsgs[v])
              /\ x.func = "write" => x \in ToSet(writeMsgs[v])
    /\ \A x \in traffic :
         IF x.func = "read" THEN ToSet(Messages(x)) \subseteq ToSet(readMsgs[source[x.from]])
                            ELSE x \in ToSet(writeMsgs[source[x.from]])

\* The functions the wrapper's page lists are those of the newest report of
\* loadDll it has a row for, or is about to have.
LoadedIsNewest ==
    LET line == Reverse(rows["wrapper"]) \o timers
        loads == {i \in DOMAIN line : source[line[i].from] = "wrapper" /\ line[i].func = "load"}
    IN IF loads = {} THEN loaded = Nothing
                     ELSE \E i \in loads : loaded = line[i] /\ \A j \in loads : j <= i

\* Every report of a connected process is on the screen in the end, in a row
\* or, with the Cannelloni view, in the lists.
ShownAtLast ==
    \A c \in Clients, v \in Views : \A n \in 1 .. MaxSent :
        (c \in Serialised /\ source[c] = v /\ Len(sent[c]) >= n)
          ~> \/ conn[c] # "open"
             \/ \E x \in ToSet(rows[v]) : x.from = c /\ x.id = n
             \/ ListedOnly(c, n)
=============================================================================
