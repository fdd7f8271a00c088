----------------------------- MODULE PassThruDll -----------------------------
(***************************************************************************)
(* One process with the DLL: DllMain chooses the back end named by the     *)
(* registry, the exported functions forward every call to the interface of *)
(* J2534Global, and the back ends answer it.  The Cannelloni client is     *)
(* reduced to the enumeration of devices; what else its calls do is the    *)
(* subject of CannelloniClient, and a call of it is one step here because  *)
(* it has no state outside globalMutex.  Dereferencing NULL ends the       *)
(* process.  A function pointer of the wrapper that was never assigned is  *)
(* "unset": its test may find NULL or not, and calling it ends the process.*)
(***************************************************************************)
EXTENDS PassThruFunctions, DebugLog, DeviceScan, FiniteSets

CONSTANTS
    Loader,          \* the thread that loads the DLL
    Installations,   \* registry and disk: class, DLL found, its exports
    Repertoire,      \* the calls a thread makes
    None

Classes == {"", "unknown", "ExJ2534SimpleLogger", "J2534DllWrapper",
            "J2534Emulator", "J2534Cannelloni"}

\* The generators DllMain registers.  An interface is known by its class and
\* by the thread that created it.
Registered == {"ExJ2534SimpleLogger", "J2534DllWrapper", "J2534Emulator",
               "J2534Cannelloni"}
Interfaces == [class : Registered, by : Threads]
Interface(class, t) == [class |-> class, by |-> t]

ASSUME DllAssumption ==
    /\ Loader \in Threads
    /\ Installations \subseteq
         [class : Classes, found : BOOLEAN, exports : SUBSET Functions]
    /\ Repertoire \in [Threads -> SUBSET Calls]
    /\ None \notin Calls \union Interfaces

VARIABLES
    setup,      \* the installation, as it is when the DLL is loaded
    process,    \* "loading" (in DllMain), "serving", "ended"
    backend,    \* _global_j2534_interface
    pointer,    \* the m_PassThru... pointers of the wrapper
    told,       \* what the report of loadDll says of a function
    pc,         \* where a thread is
    call,       \* the call a thread is in
    answer,     \* its last answer
    served      \* history: the interfaces calls were given to

dllVars == <<setup, process, backend, pointer, told, pc, call, answer, served>>
vars == <<dllVars, logVars, scanVars>>

-----------------------------------------------------------------------------
\* A log statement of the logger is one append and the end marker; the one
\* of the wrapper, in PassThruReadMsgs, has three appends.
NextLog ==
    [ExJ2534SimpleLogger |-> "logged",
     append1 |-> "append2", append2 |-> "append3", append3 |-> "logged"]

\* loadDll asks for every function but one.
LoadedFunctions == Functions \ {"PassThruReadDetails"}

Init ==
    /\ setup \in Installations
    /\ process = "loading"
    /\ backend = None
    /\ pointer = [f \in Functions |-> "unset"]
    /\ told = [f \in Functions |-> "untold"]
    /\ \E young \in SUBSET (Threads \ {Loader}) :
         pc = [t \in Threads |-> IF t = Loader THEN "attach"
                                 ELSE IF t \in young THEN "new" ELSE "idle"]
    /\ call = [t \in Threads |-> None]
    /\ answer = [t \in Threads |-> None]
    /\ served = {}
    /\ LogInit
    /\ ScanInit

\* What the steps of a thread leave alone.
Settled == UNCHANGED <<setup, pointer, told>>
Goto(t, label) == pc' = [pc EXCEPT ![t] = label]

Return(t, how) ==
    /\ Goto(t, "idle")
    /\ answer' = [answer EXCEPT ![t] = [fn |-> call[t].fn, how |-> how]]
    /\ call' = [call EXCEPT ![t] = None]
    /\ Settled /\ UNCHANGED <<process, backend, served>>

\* The thread leaves its call behind with the process.
Crash ==
    /\ process' = "ended"
    /\ Settled /\ UNCHANGED <<backend, pc, call, answer, served>>

-----------------------------------------------------------------------------
(* Faulty variants, never part of Next.                                    *)

\* An attach that ends without the getInterface of its last printf.
SelectInterface_NoPrint ==
    /\ process = "loading" /\ pc[Loader] = "attach"
    /\ backend' = IF setup.class \in Registered
                    THEN Interface(setup.class, Loader) ELSE None
    /\ IF setup.class = "J2534DllWrapper"
         THEN Goto(Loader, "load") /\ UNCHANGED process
         ELSE Goto(Loader, "idle") /\ process' = "serving"
    /\ Settled /\ UNCHANGED <<call, answer, served, logVars, scanVars>>

\* A loadDll that looks one pointer up under the name of another function.
LoadDll_WrongName ==
    LET name(f) == IF f = "PassThruStopMsgFilter" THEN "PassThruStartMsgFilter" ELSE f
        shown == IF setup.found THEN LoadedFunctions ELSE {}
    IN
    /\ process = "loading" /\ pc[Loader] = "load"
    /\ pointer' = [f \in Functions |->
         IF f \notin shown THEN pointer[f]
         ELSE IF name(f) \in setup.exports THEN "dll" ELSE "null"]
    /\ told' = [f \in Functions |->
         IF f \notin shown \/ name(f) # f THEN told[f]
         ELSE IF f \in setup.exports THEN "present" ELSE "missing"]
    /\ process' \in {"loading", "ended"}
    /\ Goto(Loader, "get")
    /\ UNCHANGED <<setup, backend, call, answer, served, logVars, scanVars>>

\* A wrapper that calls through its pointer without testing it.
WrapperNotFound_Untested(t) ==
    /\ process = "serving" /\ pc[t] = "J2534DllWrapper"
    /\ call[t].missing \notin At(WrapperReads, call[t].fn)
    /\ pointer[call[t].fn] = "null"
    /\ Crash /\ UNCHANGED <<logVars, scanVars>>

-----------------------------------------------------------------------------
(* DllMain                                                                 *)

\* DLL_PROCESS_ATTACH up to setInterface.  Nobody can call the DLL before
\* DllMain returns, so that setting the interface before loadDll, not after
\* it, makes no difference.
SelectInterface ==
    /\ process = "loading" /\ pc[Loader] = "attach"
    /\ backend' = IF setup.class \in Registered
                    THEN Interface(setup.class, Loader) ELSE None
    /\ Goto(Loader, IF setup.class = "J2534DllWrapper" THEN "load" ELSE "get")
    /\ Settled /\ UNCHANGED <<process, call, answer, served, logVars, scanVars>>

\* J2534DllWrapper::loadDll, its result ignored.  If LoadLibraryW fails the
\* pointers stay as they were allocated.  On both ways out the map of the
\* functions is freed, and freed again with the map it was put into: the
\* process may not survive that.
LoadDll ==
    LET shown == IF setup.found THEN LoadedFunctions ELSE {} IN
    /\ process = "loading" /\ pc[Loader] = "load"
    /\ pointer' = [f \in Functions |->
         IF f \notin shown THEN pointer[f]
         ELSE IF f \in setup.exports THEN "dll" ELSE "null"]
    /\ told' = [f \in Functions |->
         IF f \notin shown THEN told[f]
         ELSE IF f \in setup.exports THEN "present" ELSE "missing"]
    /\ process' \in {"loading", "ended"}
    /\ Goto(Loader, "get")
    /\ UNCHANGED <<setup, backend, call, answer, served, logVars, scanVars>>

\* DLL_THREAD_ATTACH of a thread created after the DLL was loaded.
ThreadAttach(t) ==
    /\ process = "serving" /\ pc[t] = "new"
    /\ Goto(t, "get")
    /\ Settled
    /\ UNCHANGED <<process, backend, call, answer, served, logVars, scanVars>>

-----------------------------------------------------------------------------
(* J2534Global::getInterface, without a lock: the test, the creation of    *)
(* the default interface, and the read of what is then there.  DllMain     *)
(* only prints the name of the interface, a call is given to it.           *)

GetInterface(t) ==
    /\ process # "ended" /\ pc[t] = "get"
    /\ \/ backend = None
          /\ Goto(t, "create")
          /\ UNCHANGED <<process, served>>
       \/ backend # None /\ call[t] = None
          /\ Goto(t, "idle")
          /\ process' = "serving"
          /\ UNCHANGED served
       \/ backend # None /\ call[t] # None
          /\ Goto(t, backend.class)
          /\ served' = served \union {backend}
          /\ UNCHANGED process
    /\ Settled /\ UNCHANGED <<backend, call, answer, logVars, scanVars>>

CreateLogger(t) ==
    /\ process # "ended" /\ pc[t] = "create"
    /\ backend' = Interface("ExJ2534SimpleLogger", t)
    /\ Goto(t, "get")
    /\ Settled /\ UNCHANGED <<process, call, answer, served, logVars, scanVars>>

\* An exported function: the host calls it with any arguments.
Enter(t) ==
    /\ process = "serving" /\ pc[t] = "idle"
    /\ \E c \in Repertoire[t] : call' = [call EXCEPT ![t] = c]
    /\ answer' = [answer EXCEPT ![t] = None]
    /\ Goto(t, "get")
    /\ ScanCall(t)
    /\ Settled /\ UNCHANGED <<process, backend, served, logVars>>

-----------------------------------------------------------------------------
(* J2534DllWrapper                                                         *)

Reads(t, table) == call[t].missing \in At(table, call[t].fn) \ {Complete}

\* Parameters are read for the report before the pointer is tested.
WrapperFault(t) ==
    /\ process = "serving" /\ pc[t] = "J2534DllWrapper"
    /\ Reads(t, WrapperReads) \/ Reads(t, WrapperMayRead)
    /\ Crash /\ UNCHANGED <<logVars, scanVars>>

WrapperForward(t) ==
    /\ process = "serving" /\ pc[t] = "J2534DllWrapper"
    /\ ~Reads(t, WrapperReads)
    /\ pointer[call[t].fn] = "dll"
    /\ Goto(t, "forwarded")
    /\ Settled
    /\ UNCHANGED <<process, backend, call, answer, served, logVars, scanVars>>

\* "not found in DLL."; PassThruReadMsgs says so in the log, too.
WrapperNotFound(t) ==
    /\ process = "serving" /\ pc[t] = "J2534DllWrapper"
    /\ ~Reads(t, WrapperReads)
    /\ pointer[call[t].fn] \in {"null", "unset"}
    /\ \/ call[t].fn # "PassThruReadMsgs"
          /\ Return(t, "not found")
       \/ call[t].fn = "PassThruReadMsgs"
          /\ Goto(t, "append1")
          /\ Settled /\ UNCHANGED <<process, backend, call, answer, served>>
    /\ UNCHANGED <<logVars, scanVars>>

\* A pointer without a value is not NULL by chance.
WrapperJump(t) ==
    /\ process = "serving" /\ pc[t] = "J2534DllWrapper"
    /\ ~Reads(t, WrapperReads)
    /\ pointer[call[t].fn] = "unset"
    /\ Crash /\ UNCHANGED <<logVars, scanVars>>

\* The wrapped DLL answers.
WrapperReturn(t) ==
    /\ process = "serving" /\ pc[t] = "forwarded"
    /\ Return(t, "forwarded")
    /\ UNCHANGED <<logVars, scanVars>>

\* The wrapped DLL, or the report of its answer, uses a pointer that is
\* NULL: an argument, or the name that ends an enumeration of devices.
WrapperReportFault(t) ==
    /\ process = "serving" /\ pc[t] = "forwarded"
    /\ call[t].missing # Complete \/ call[t].fn = "PassThruGetNextCarDAQ"
    /\ Crash /\ UNCHANGED <<logVars, scanVars>>

Wrapper(t) ==
    \/ WrapperFault(t) \/ WrapperForward(t) \/ WrapperNotFound(t)
    \/ WrapperJump(t) \/ WrapperReturn(t) \/ WrapperReportFault(t)

-----------------------------------------------------------------------------
(* The log statements: ExJ2534SimpleLogger answers every call with one,    *)
(* the wrapper those of PassThruReadMsgs it cannot forward.                *)

LogText(t) ==
    /\ process = "serving" /\ pc[t] \in DOMAIN NextLog
    /\ LogAppend(t, pc[t])
    /\ Goto(t, NextLog[pc[t]])
    /\ Settled /\ UNCHANGED <<process, backend, call, answer, served, scanVars>>

LogEndMarker(t) ==
    /\ process = "serving" /\ pc[t] = "logged"
    /\ LogSend
    /\ Goto(t, "sent")
    /\ Settled /\ UNCHANGED <<process, backend, call, answer, served, scanVars>>

\* What a thread is about to do with the buffer of the log.
Access(t) ==
    CASE pc[t] \in DOMAIN NextLog -> "append"
      [] pc[t] = "logged" -> "read"
      [] pc[t] = "sent" -> "clear"
      [] OTHER -> "none"

LogReturn(t) ==
    /\ process = "serving" /\ pc[t] = "sent"
    /\ LogClear(t, \E u \in Threads \ {t} : Access(u) = "append")
    /\ Return(t, IF backend.class = "J2534DllWrapper" THEN "not found"
                                                      ELSE "not supported")
    /\ UNCHANGED scanVars

\* Two threads race for the buffer, and it does not survive.
LogCorrupt(t) ==
    /\ process = "serving"
    /\ \E u \in Threads \ {t} : Races(Access(t), Access(u))
    /\ Crash /\ UNCHANGED <<logVars, scanVars>>

Log(t) == LogText(t) \/ LogEndMarker(t) \/ LogReturn(t) \/ LogCorrupt(t)

-----------------------------------------------------------------------------
(* J2534Emulator: no lock at all.                                          *)

EmulatorFault(t) ==
    /\ process = "serving" /\ pc[t] = "J2534Emulator"
    /\ Reads(t, EmulatorReads) \/ Reads(t, EmulatorMayRead)
    /\ Crash /\ UNCHANGED <<logVars, scanVars>>

\* STATUS_NOERROR, with a NULL for PassThruGetNextCarDAQ as well.
EmulatorAnswer(t) ==
    /\ process = "serving" /\ pc[t] = "J2534Emulator"
    /\ ~Reads(t, EmulatorReads)
    /\ call[t] # [fn |-> "PassThruGetNextCarDAQ", missing |-> Complete]
    /\ Return(t, "done") /\ UNCHANGED <<logVars, scanVars>>

EmulatorTestCounter(t) ==
    /\ process = "serving" /\ pc[t] = "J2534Emulator"
    /\ call[t] = [fn |-> "PassThruGetNextCarDAQ", missing |-> Complete]
    /\ \/ CounterIsZero
          /\ Goto(t, "hand")
          /\ Settled /\ UNCHANGED <<process, backend, call, answer, served>>
       \/ ~CounterIsZero
          /\ Return(t, "done")
    /\ UNCHANGED <<logVars, scanVars>>

EmulatorHandOut(t) ==
    /\ process = "serving" /\ pc[t] = "hand"
    /\ HandOutXDev(t)
    /\ Return(t, "done") /\ UNCHANGED logVars

Emulator(t) ==
    EmulatorFault(t) \/ EmulatorAnswer(t) \/ EmulatorTestCounter(t) \/ EmulatorHandOut(t)

-----------------------------------------------------------------------------
(* J2534CannelloniClient                                                   *)

\* PassThruReadVersion also ends with a printf that has fewer arguments than
\* its format needs: it may follow any word of the stack as a string.
\* PassThruWriteMsgs frees its report for a message that is not valid, which
\* a complete call may hold, and then uses it and frees it again.
ClientFault(t) ==
    /\ process = "serving" /\ pc[t] = "J2534Cannelloni"
    /\ \/ Reads(t, ClientReads) \/ Reads(t, ClientMayRead)
       \/ call[t].fn \in {"PassThruReadVersion", "PassThruWriteMsgs"}
    /\ Crash /\ UNCHANGED <<logVars, scanVars>>

\* The three functions of the enumeration answer a NULL with an error.
ClientEnumerate(t) ==
    CASE call[t].fn = "PassThruScanForDevices" -> ScanForDevices
      [] call[t].fn = "PassThruGetNextDevice"  -> GetNextDevice(t)
      [] call[t].fn = "PassThruGetNextCarDAQ"  -> GetNextCarDAQ(t)
      [] OTHER -> UNCHANGED scanVars

ClientAnswer(t) ==
    /\ process = "serving" /\ pc[t] = "J2534Cannelloni"
    /\ ~Reads(t, ClientReads)
    /\ IF call[t].missing = Complete THEN ClientEnumerate(t) ELSE UNCHANGED scanVars
    /\ Return(t, "done") /\ UNCHANGED logVars

Client(t) == ClientFault(t) \/ ClientAnswer(t)

-----------------------------------------------------------------------------
\* A process that has ended stays so.
Over == process = "ended" /\ UNCHANGED vars

\* What a thread does on its own, once it is in the DLL.
Step(t) ==
    \/ ThreadAttach(t) \/ GetInterface(t) \/ CreateLogger(t)
    \/ Wrapper(t) \/ Log(t) \/ Emulator(t) \/ Client(t)

Next ==
    \/ SelectInterface \/ LoadDll \/ Over
    \/ \E t \in Threads : Enter(t) \/ Step(t)

Spec == Init /\ [][Next]_vars

\* Threads are scheduled, and the wrapped DLL returns; nobody has to call.
FairSpec ==
    /\ Spec
    /\ WF_vars(SelectInterface \/ LoadDll)
    /\ \A t \in Threads : WF_vars(Step(t))

-----------------------------------------------------------------------------
(* Properties                                                              *)

Labels == {"attach", "load", "new", "idle", "get", "create", "forwarded",
           "append1", "append2", "append3", "logged", "sent", "hand"}
          \union Registered
Answers == [fn : Functions,
            how : {"forwarded", "not found", "not supported", "done"}]

\* Every variable stays in its type.
TypeOK ==
    /\ setup \in Installations
    /\ process \in {"loading", "serving", "ended"}
    /\ backend \in Interfaces \union {None}
    /\ pointer \in [Functions -> {"unset", "null", "dll"}]
    /\ told \in [Functions -> {"untold", "present", "missing"}]
    /\ pc \in [Threads -> Labels]
    /\ call \in [Threads -> Calls \union {None}]
    /\ answer \in [Threads -> Answers \union {None}]
    /\ served \subseteq Interfaces
    /\ text \union unsent \subseteq Threads \X DOMAIN NextLog
    /\ scanIndex \in 0 .. DeviceCount
    /\ devCounter \in Nat
    /\ handed \in [Devices -> Nat]
    /\ seen \in [Threads -> SUBSET Devices]
    /\ given \in [Threads -> Devices \union {NoDevice}]

\* All calls of a process are given to one and the same interface: the
\* unlocked getInterface never creates a second one, because DllMain has
\* made it create or find the first before anyone can call.
OneBackEnd == Cardinality(served) <= 1

\* The report of loadDll tells the truth: exactly the functions it lists as
\* present are forwarded to the wrapped DLL, the others are not found.
LoadReportTrue ==
    \A t \in Threads :
        answer[t] # None /\ answer[t].how \in {"forwarded", "not found"} =>
            (answer[t].how = "forwarded" <=> told[answer[t].fn] = "present")

\* When no log statement is underway the log's buffer is empty: however their
\* steps interleave or race, no text stays for an unrelated report.
NoStaleText == text # {} => \E t \in Threads : Access(t) # "none"

\* No device is handed out to a call that began after it was handed out,
\* unless the enumeration was started again; by the Cannelloni client, whose
\* two enumerating functions and all threads share scanIndex, not even to
\* one that began before.
HandedOutOnce ==
    /\ \A t \in Threads : given[t] \notin seen[t]
    /\ setup.class = "J2534Cannelloni" => \A d \in Devices : handed[d] <= 1

\* What may end the process, called completely: with the wrapper DllMain,
\* which frees the map of loadDll twice; PassThruReadDetails, whose pointer
\* loadDll forgets; PassThruGetNextCarDAQ, which reports a name that may be
\* NULL; every function if the wrapped DLL was not found.  With the
\* Cannelloni client PassThruReadVersion, and PassThruWriteMsgs for messages
\* that are not valid.
RiskyFunctions ==
    CASE setup.class = "J2534DllWrapper" /\ setup.found ->
           {"DllMain", "PassThruReadDetails", "PassThruGetNextCarDAQ"}
      [] setup.class = "J2534DllWrapper" /\ ~setup.found ->
           Functions \union {"DllMain"}
      [] setup.class = "J2534Cannelloni" -> {"PassThruReadVersion", "PassThruWriteMsgs"}
      [] OTHER -> {}

\* What two threads must not call at once, because of the log's buffer: any
\* two functions of the logger, which is the back end where none of the
\* others is configured, and PassThruReadMsgs if the wrapper cannot forward it.
RacingFunctions ==
    CASE setup.class = "J2534DllWrapper" /\ "PassThruReadMsgs" \notin setup.exports ->
           {"PassThruReadMsgs"}
      [] setup.class \notin {"J2534DllWrapper", "J2534Emulator", "J2534Cannelloni"} ->
           Functions
      [] OTHER -> {}

Api == INSTANCE PassThruApi WITH
    NoCall <- None, pending <- call, risky <- RiskyFunctions, racing <- RacingFunctions

\* The DLL is what PassThruApi promises of it: every call is answered by
\* itself, and the process ends only in a call with NULL, in a risky one, or
\* in two that race.
ImplementsApi == Api!ApiSpec

-----------------------------------------------------------------------------
(* Statements of the code and of its comments that the code does not keep. *)

\* "Function ... not found in DLL.": it is not there.
NotFoundMeansAbsent ==
    \A t \in Threads :
        setup.found /\ answer[t] # None /\ answer[t].how = "not found" =>
            answer[t].fn \notin setup.exports

\* "If the end marker is detected, send the buffered message": when the end
\* marker of a statement has sent the buffer, its texts have been sent.
LoggedIsSent ==
    \A t \in Threads : pc[t] = "sent" => \A part \in DOMAIN NextLog : <<t, part>> \notin unsent
=============================================================================
