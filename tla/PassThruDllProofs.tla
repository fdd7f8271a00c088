------------------------- MODULE PassThruDllProofs -------------------------
(***************************************************************************)
(* Proofs about PassThruDll, for any threads, any installations and any    *)
(* calls.                                                                  *)
(*                                                                         *)
(* The invariants of PassThruDll follow from where the threads are: while  *)
(* DllMain runs nobody is in a call; once it has returned the interface    *)
(* stands; and the back end a thread is in is that interface.              *)
(***************************************************************************)
EXTENDS PassThruDll, FiniteSetTheorems, TLAPS

Logging == {"append1", "append2", "append3", "logged", "sent"}
Onward == Logging \union {"forwarded", "hand"}
InBackEnd == Registered \union Onward

\* The variables of DllMain, J2534Global and the calls.
DllType ==
    /\ setup \in Installations
    /\ process \in {"loading", "serving", "ended"}
    /\ backend \in Interfaces \union {None}
    /\ pointer \in [Functions -> {"unset", "null", "dll"}]
    /\ told \in [Functions -> {"untold", "present", "missing"}]
    /\ pc \in [Threads -> Labels]
    /\ call \in [Threads -> Calls \union {None}]
    /\ answer \in [Threads -> Answers \union {None}]
    /\ served \subseteq Interfaces

\* The variables of the log and of the enumeration.
SharedType ==
    /\ text \union unsent \subseteq Threads \X DOMAIN NextLog
    /\ scanIndex \in 0 .. DeviceCount
    /\ devCounter \in Nat
    /\ handed \in [Devices -> Nat]
    /\ seen \in [Threads -> SUBSET Devices]
    /\ given \in [Threads -> Devices \union {NoDevice}]

\* While DllMain runs, its thread is the only one in the DLL.
Loading ==
    process = "loading" =>
        /\ served = {}
        /\ \A t \in Threads : call[t] = None /\ answer[t] = None
        /\ \A t \in Threads \ {Loader} : pc[t] \in {"new", "idle"}
        /\ pc[Loader] \in {"attach", "load", "get", "create"}
        /\ pc[Loader] # "attach" /\ setup.class \in Registered => backend # None
        /\ pc[Loader] = "create" => backend = None

\* When it has returned, the interface is there and stays.
Serving ==
    /\ process = "serving" =>
         /\ backend # None
         /\ \A t \in Threads : pc[t] \notin {"attach", "load", "create"}
    /\ served \subseteq {backend}
    /\ backend # None =>
         backend.class = IF setup.class \in Registered THEN setup.class
                                                       ELSE "ExJ2534SimpleLogger"

\* Where a thread is says whether it is in a call and whose code it is in.
Place ==
    \A t \in Threads :
        /\ pc[t] \in {"new", "idle", "attach", "load", "create"} => call[t] = None
        /\ pc[t] \in InBackEnd => call[t] # None /\ backend # None
        /\ pc[t] \in Registered => backend.class = pc[t]
        /\ pc[t] = "hand" => backend.class = "J2534Emulator"
        /\ pc[t] = "forwarded" =>
             backend.class = "J2534DllWrapper" /\ pointer[call[t].fn] = "dll"
        /\ pc[t] \in Logging =>
             /\ backend.class \in {"J2534DllWrapper", "ExJ2534SimpleLogger"}
             /\ backend.class = "J2534DllWrapper" =>
                  call[t].fn = "PassThruReadMsgs" /\ told[call[t].fn] # "present"

\* The pointers are what loadDll said they are.
PointersTold ==
    /\ \A f \in Functions :
         /\ pointer[f] = "dll" <=> told[f] = "present"
         /\ pointer[f] = "null" => f \notin setup.exports
    /\ pc[Loader] = "load" => setup.class = "J2534DllWrapper"
    /\ \/ process = "loading" /\ pc[Loader] \in {"attach", "load"}
       \/ setup.class = "J2534DllWrapper" /\ setup.found =>
            \A f \in Functions : pointer[f] = "unset" => f = "PassThruReadDetails"

\* What has been handed out is what the counters say.
ScanInv ==
    /\ setup.class = "J2534Cannelloni" =>
         \A d \in Devices : handed[d] = IF d < scanIndex THEN 1 ELSE 0
    /\ setup.class # "J2534Cannelloni" /\ devCounter = 0 =>
         \A d \in Devices : handed[d] = 0
    /\ \A t \in Threads :
         /\ seen[t] \subseteq {d \in Devices : handed[d] > 0}
         /\ pc[t] = "hand" => seen[t] = {}
         /\ given[t] \notin seen[t]

DllInv ==
    /\ DllType /\ SharedType
    /\ Loading /\ Serving /\ Place /\ PointersTold
    /\ LoadReportTrue /\ NoStaleText /\ ScanInv
-----------------------------------------------------------------------------
(* What the parts of an action do.                                         *)

USE DllAssumption, ScanAssumption

LEMMA CallHasFunction == \A c \in Calls : c.fn \in Functions
  BY DEF Calls

\* A call is a call, and None is not.
LEMMA CallType ==
  ASSUME DllType, NEW t \in Threads, call[t] # None
  PROVE  call[t] \in Calls /\ call[t].fn \in Functions
  BY CallHasFunction DEF DllType

\* What a thread is doing may change to any label.
LEMMA GotoType ==
  ASSUME DllType, NEW t \in Threads, NEW label \in Labels, Goto(t, label)
  PROVE  pc' \in [Threads -> Labels] /\ pc'[t] = label
         /\ \A u \in Threads \ {t} : pc'[u] = pc[u]
  BY DEF Goto, DllType

\* The answer to a call is an answer.
LEMMA ReturnType ==
  ASSUME DllType, NEW t \in Threads, call[t] # None,
         NEW how \in {"forwarded", "not found", "not supported", "done"},
         Return(t, how)
  PROVE  DllType'
  <1>1. call[t].fn \in Functions
    BY CallType
  <1>2. [fn |-> call[t].fn, how |-> how] \in Answers
    BY <1>1 DEF Answers
  <1>3. "idle" \in Labels
    BY DEF Labels
  <1>4. pc' \in [Threads -> Labels]
    BY <1>3, GotoType DEF Return
  <1>5. answer' \in [Threads -> Answers \union {None}]
    BY <1>2 DEF Return, DllType
  <1> QED
    BY <1>4, <1>5 DEF Return, Settled, DllType

\* The process ends where its threads are.
LEMMA CrashType ==
  ASSUME DllType, Crash
  PROVE  DllType'
  BY DEF DllType, Crash, Settled

-----------------------------------------------------------------------------
(* Types.                                                                  *)

LEMMA InitType == Init => DllType /\ SharedType
  BY DEF Init, DllType, SharedType, LogInit, ScanInit, Labels, NoDevice, Devices

\* DllMain and the exported functions keep the types.
LEMMA EntryType ==
  ASSUME DllInv, NEW t \in Threads,
         SelectInterface \/ LoadDll \/ ThreadAttach(t) \/ GetInterface(t)
           \/ CreateLogger(t) \/ Enter(t)
  PROVE  DllType'
  <1> USE DEF DllInv
  <1> "idle" \in Labels /\ "get" \in Labels /\ "load" \in Labels /\ "create" \in Labels
      /\ Registered \subseteq Labels
    BY DEF Labels
  <1>1. CASE SelectInterface
    <2>1. backend' \in Interfaces \union {None}
      BY <1>1 DEF SelectInterface, Interface, Interfaces
    <2> QED
      BY <1>1, <2>1 DEF SelectInterface, DllType, Settled, Goto
  <1>2. CASE LoadDll
    <2>1. pointer' \in [Functions -> {"unset", "null", "dll"}]
      BY <1>2 DEF LoadDll, DllType
    <2>2. told' \in [Functions -> {"untold", "present", "missing"}]
      BY <1>2 DEF LoadDll, DllType
    <2> QED
      BY <1>2, <2>1, <2>2 DEF LoadDll, DllType, Goto
  <1>3. CASE ThreadAttach(t)
    BY <1>3 DEF ThreadAttach, DllType, Settled, Goto
  <1>4. CASE GetInterface(t)
    <2>1. backend # None => backend \in Interfaces /\ backend.class \in Labels
      BY DEF DllType, Interfaces
    <2> QED
      BY <1>4, <2>1 DEF GetInterface, DllType, Settled, Goto
  <1>5. CASE CreateLogger(t)
    <2>1. backend' \in Interfaces
      BY <1>5 DEF CreateLogger, Interface, Interfaces, Registered
    <2> QED
      BY <1>5, <2>1 DEF CreateLogger, DllType, Settled, Goto
  <1>6. CASE Enter(t)
    BY <1>6 DEF Enter, DllType, Settled, Goto
  <1> QED
    BY <1>1, <1>2, <1>3, <1>4, <1>5, <1>6

\* Where an append leads.
LEMMA NextLogType ==
  /\ DOMAIN NextLog = {"ExJ2534SimpleLogger", "append1", "append2", "append3"}
  /\ \A label \in DOMAIN NextLog : NextLog[label] \in Logging
  BY DEF NextLog, Logging

\* A thread accesses the log's buffer from its first append to its clear.
LEMMA AccessPlace ==
  \A t \in Threads :
    Access(t) # "none" <=> pc[t] \in Logging \union {"ExJ2534SimpleLogger"}
  BY NextLogType DEF Access, Logging

\* The back ends only go on, return or crash.
LEMMA BackEndSteps ==
  ASSUME DllInv, NEW t \in Threads,
         Wrapper(t) \/ Log(t) \/ Emulator(t) \/ Client(t)
  PROVE  /\ process = "serving" /\ pc[t] \in InBackEnd /\ call[t] # None
         /\ Settled /\ UNCHANGED <<backend, served>>
         /\ \/ \E how \in {"forwarded", "not found", "not supported", "done"} :
                 Return(t, how)
            \/ Crash
            \/ /\ \E label \in Onward : Goto(t, label)
               /\ UNCHANGED <<process, call, answer>>
  <1>1. process = "serving" /\ pc[t] \in InBackEnd
    BY DEF Wrapper, WrapperFault, WrapperForward, WrapperNotFound, WrapperJump,
           WrapperReturn, WrapperReportFault, Log, LogText, LogEndMarker, LogReturn,
           LogCorrupt, Emulator, EmulatorFault, EmulatorAnswer, EmulatorTestCounter,
           EmulatorHandOut, Client, ClientFault, ClientAnswer, InBackEnd, Registered,
           Onward, Logging, NextLog, Access, Races
  <1>2. call[t] # None
    BY <1>1 DEF DllInv, Place
  <1>3. CASE Wrapper(t)
    BY <1>1, <1>2, <1>3
    DEF Wrapper, WrapperFault, WrapperForward, WrapperNotFound, WrapperJump,
        WrapperReturn, WrapperReportFault, Return, Crash, Onward, Logging
  <1>4. CASE Log(t)
    BY <1>1, <1>2, <1>4, NextLogType
    DEF Log, LogText, LogEndMarker, LogReturn, LogCorrupt, Return, Crash, Onward, Logging
  <1>5. CASE Emulator(t)
    BY <1>1, <1>2, <1>5
    DEF Emulator, EmulatorFault, EmulatorAnswer, EmulatorTestCounter,
        EmulatorHandOut, Return, Crash, Onward
  <1>6. CASE Client(t)
    BY <1>1, <1>2, <1>6 DEF Client, ClientFault, ClientAnswer, Return, Crash
  <1> QED
    BY <1>3, <1>4, <1>5, <1>6

LEMMA BackEndType ==
  ASSUME DllInv, NEW t \in Threads,
         Wrapper(t) \/ Log(t) \/ Emulator(t) \/ Client(t)
  PROVE  DllType'
  <1>1. CASE \E how \in {"forwarded", "not found", "not supported", "done"} :
               Return(t, how)
    BY <1>1, BackEndSteps, ReturnType DEF DllInv
  <1>2. CASE Crash
    BY <1>2, CrashType DEF DllInv
  <1>3. CASE /\ \E label \in Onward : Goto(t, label)
             /\ UNCHANGED <<process, call, answer>>
    <2>1. Onward \subseteq Labels
      BY DEF Labels, Onward, Logging
    <2>2. pc' \in [Threads -> Labels]
      BY <1>3, <2>1, GotoType DEF DllInv
    <2> QED
      BY <1>3, <2>2, BackEndSteps DEF DllType, Settled, DllInv
  <1> QED
    BY <1>1, <1>2, <1>3, BackEndSteps

\* What the actions do to the log and to the enumeration.
LEMMA SharedSteps ==
  ASSUME DllInv, NEW t \in Threads,
         SelectInterface \/ LoadDll \/ Enter(t) \/ Step(t)
  PROVE  /\ \/ UNCHANGED logVars
            \/ pc[t] \in DOMAIN NextLog /\ LogAppend(t, pc[t])
            \/ LogSend
            \/ \E overlapped \in BOOLEAN : LogClear(t, overlapped)
         /\ \/ UNCHANGED scanVars
            \/ Enter(t) /\ ScanCall(t)
            \/ pc[t] = "J2534Cannelloni"
               /\ (ScanForDevices \/ GetNextDevice(t) \/ GetNextCarDAQ(t))
            \/ pc[t] = "hand" /\ HandOutXDev(t)
  <1>1. CASE SelectInterface \/ LoadDll
    BY <1>1 DEF SelectInterface, LoadDll
  <1>2. CASE Enter(t)
    BY <1>2 DEF Enter
  <1>3. CASE ThreadAttach(t) \/ GetInterface(t) \/ CreateLogger(t)
    BY <1>3 DEF ThreadAttach, GetInterface, CreateLogger
  <1>4. CASE Wrapper(t)
    BY <1>4
    DEF Wrapper, WrapperFault, WrapperForward, WrapperNotFound, WrapperJump,
        WrapperReturn, WrapperReportFault
  <1>5. CASE Log(t)
    BY <1>5 DEF Log, LogText, LogEndMarker, LogReturn, LogCorrupt
  <1>6. CASE Emulator(t)
    BY <1>6 DEF Emulator, EmulatorFault, EmulatorAnswer, EmulatorTestCounter,
                EmulatorHandOut
  <1>7. CASE Client(t)
    BY <1>7 DEF Client, ClientFault, ClientAnswer, ClientEnumerate
  <1> QED
    BY <1>1, <1>2, <1>3, <1>4, <1>5, <1>6, <1>7 DEF Step

\* The log and the enumeration keep their types.
LEMMA SharedTypeStep ==
  ASSUME DllInv, NEW t \in Threads,
         SelectInterface \/ LoadDll \/ Enter(t) \/ Step(t)
  PROVE  SharedType'
  <1> USE DEF DllInv
  <1>1. text' \union unsent' \subseteq Threads \X DOMAIN NextLog
    BY SharedSteps DEF SharedType, LogAppend, LogSend, LogClear, logVars
  <1>2. CASE UNCHANGED scanVars
    BY <1>1, <1>2 DEF SharedType, scanVars
  <1>3. CASE ScanCall(t)
    BY <1>1, <1>3 DEF SharedType, ScanCall
  <1>4. CASE ScanForDevices
    BY <1>1, <1>4 DEF SharedType, ScanForDevices
  <1>5. ASSUME GetNextDevice(t), ~UNCHANGED scanVars
        PROVE  SharedType'
    <2>1. scanIndex \in Devices /\ HandOver(t, scanIndex)
          /\ scanIndex' = scanIndex + 1 /\ UNCHANGED devCounter
      BY <1>5 DEF GetNextDevice, Devices, SharedType
    <2> QED
      BY <1>1, <2>1 DEF SharedType, HandOver, Devices
  <1>6. CASE HandOutXDev(t)
    <2>1. 0 \in Devices
      BY DEF Devices
    <2> QED
      BY <1>1, <1>6, <2>1 DEF SharedType, HandOutXDev, HandOver
  <1> QED
    BY <1>2, <1>3, <1>4, <1>5, <1>6, SharedSteps DEF GetNextCarDAQ

-----------------------------------------------------------------------------
(* Where the threads are.                                                  *)

LEMMA InitPlaces ==
  Init => Loading /\ Serving /\ Place /\ PointersTold
  BY DEF Init, Loading, Serving, Place, PointersTold, InBackEnd, Registered, Onward, Logging

\* DllMain and the exported functions.
LEMMA EntryLoading ==
  ASSUME DllInv, NEW t \in Threads,
         SelectInterface \/ LoadDll \/ ThreadAttach(t) \/ GetInterface(t)
           \/ CreateLogger(t) \/ Enter(t)
  PROVE  Loading' /\ Serving'
  <1> USE DEF DllInv
  <1>1. CASE SelectInterface
    <2>1. setup.class \in Registered => backend' \in Interfaces /\ backend'.class = setup.class
      BY <1>1 DEF SelectInterface, Interface, Interfaces
    <2>2. setup.class \notin Registered => backend' = None
      BY <1>1 DEF SelectInterface
    <2> QED
      BY <1>1, <2>1, <2>2 DEF SelectInterface, Loading, Serving, Settled, Goto, DllType
  <1>2. CASE LoadDll
    BY <1>2 DEF LoadDll, Loading, Serving, Goto, DllType, PointersTold, Registered
  <1>3. CASE ThreadAttach(t)
    BY <1>3 DEF ThreadAttach, Loading, Serving, Settled, Goto, DllType
  <1>4. CASE GetInterface(t)
    <2>1. CASE backend = None
      BY <1>4, <2>1 DEF GetInterface, Loading, Serving, Settled, Goto, DllType
    <2>2. CASE backend # None /\ call[t] = None
      BY <1>4, <2>2 DEF GetInterface, Loading, Serving, Settled, Goto, DllType
    <2>3. CASE backend # None /\ call[t] # None
      <3>1. process = "serving" /\ backend.class \in Registered
        BY <1>4, <2>3 DEF GetInterface, Loading, DllType, Interfaces
      <3>2. served' \subseteq {backend}
        BY <1>4, <2>3 DEF GetInterface, Serving
      <3>3. backend.class \notin {"attach", "load", "create"}
        BY <3>1 DEF Registered
      <3> QED
        BY <1>4, <2>3, <3>1, <3>2, <3>3
        DEF GetInterface, Loading, Serving, Settled, Goto, DllType
    <2> QED
      BY <2>1, <2>2, <2>3
  <1>5. CASE CreateLogger(t)
    <2>1. process = "loading" /\ t = Loader
      BY <1>5 DEF CreateLogger, Serving, Loading, DllType
    <2> QED
      BY <1>5, <2>1 DEF CreateLogger, Loading, Serving, Settled, Goto, DllType, Interface
  <1>6. CASE Enter(t)
    BY <1>6 DEF Enter, Loading, Serving, Settled, Goto, DllType
  <1> QED
    BY <1>1, <1>2, <1>3, <1>4, <1>5, <1>6

LEMMA BackEndLoading ==
  ASSUME DllInv, NEW t \in Threads,
         Wrapper(t) \/ Log(t) \/ Emulator(t) \/ Client(t)
  PROVE  Loading' /\ Serving'
  <1> USE BackEndSteps DEF DllInv
  <1>1. process' # "loading"
    BY DEF Return, Crash
  <1>2. \A u \in Threads : pc'[u] \notin {"attach", "load", "create"}
    BY DEF Return, Crash, Goto, Serving, DllType, Onward, Logging
  <1> QED
    BY <1>1, <1>2 DEF Loading, Serving, Settled

\* loadDll runs before anyone is in a call, and fills the pointers it was
\* told of in the same step.
LEMMA PointersStep ==
  ASSUME DllInv, NEW t \in Threads,
         SelectInterface \/ LoadDll \/ Enter(t) \/ Step(t)
  PROVE  PointersTold'
  <1> USE DEF DllInv
  <1>1. CASE SelectInterface
    BY <1>1 DEF SelectInterface, PointersTold, Settled, Goto, DllType
  <1>2. CASE LoadDll
    <2>1. setup.class = "J2534DllWrapper" /\ UNCHANGED setup
      BY <1>2 DEF LoadDll, PointersTold
    <2>2. pc'[Loader] = "get"
      BY <1>2 DEF LoadDll, Goto, DllType
    <2>3. \A f \in Functions :
            /\ pointer'[f] = "dll" <=> told'[f] = "present"
            /\ pointer'[f] = "null" => f \notin setup.exports
      BY <1>2 DEF LoadDll, PointersTold
    <2>4. setup.found =>
            \A f \in Functions : pointer'[f] = "unset" => f = "PassThruReadDetails"
      BY <1>2 DEF LoadDll, LoadedFunctions
    <2> QED
      BY <2>1, <2>2, <2>3, <2>4 DEF PointersTold
  <1>3. CASE Enter(t) \/ ThreadAttach(t)
    BY <1>3 DEF Enter, ThreadAttach, PointersTold, Settled, Goto, DllType
  <1>4. CASE GetInterface(t) \/ CreateLogger(t)
    <2>1. Settled /\ pc[t] \in {"get", "create"}
      BY <1>4 DEF GetInterface, CreateLogger
    <2>2. \A u \in Threads \ {t} : pc'[u] = pc[u]
      BY <1>4 DEF GetInterface, CreateLogger, Goto, DllType
    <2>3. pc'[t] # "load"
      BY <1>4 DEF GetInterface, CreateLogger, Goto, DllType, Interfaces, Registered
    <2>4. \/ ~(process = "loading" /\ pc[Loader] \in {"attach", "load"})
          \/ UNCHANGED process /\ pc'[Loader] = pc[Loader]
      <3>1. process = "loading" => t = Loader
        BY <2>1 DEF Loading
      <3> QED
        BY <2>1, <3>1
    <2> QED
      BY <2>1, <2>2, <2>3, <2>4 DEF PointersTold, Settled
  <1>5. CASE Wrapper(t) \/ Log(t) \/ Emulator(t) \/ Client(t)
    <2>1. pc'[Loader] # "load"
      BY <1>5, BackEndSteps
      DEF Return, Crash, Goto, DllType, Serving, Onward, Logging
    <2>2. Settled /\ process = "serving"
      BY <1>5, BackEndSteps
    <2> QED
      BY <2>1, <2>2 DEF PointersTold, Settled
  <1> QED
    BY <1>1, <1>2, <1>3, <1>4, <1>5 DEF Step

\* DllMain and the exported functions put threads where they should be.
LEMMA EntryPlace ==
  ASSUME DllInv, NEW t \in Threads,
         SelectInterface \/ LoadDll \/ ThreadAttach(t) \/ GetInterface(t)
           \/ CreateLogger(t) \/ Enter(t)
  PROVE  Place'
  <1> USE DEF DllInv
  <1>1. CASE SelectInterface \/ LoadDll
    <2>1. \A u \in Threads : call'[u] = None /\ pc'[u] \notin InBackEnd
      <3>1. \A u \in Threads : call[u] = None
        BY <1>1 DEF SelectInterface, LoadDll, Loading
      <3>2. \A u \in Threads \ {Loader} : pc'[u] \in {"new", "idle"}
        BY <1>1 DEF SelectInterface, LoadDll, Loading, Goto, DllType
      <3>3. pc'[Loader] \in {"load", "get"}
        BY <1>1 DEF SelectInterface, LoadDll, Goto, DllType
      <3> QED
        BY <1>1, <3>1, <3>2, <3>3
        DEF SelectInterface, LoadDll, InBackEnd, Registered, Onward, Logging
    <2> QED
      BY <2>1 DEF Place, InBackEnd, Onward
  <1>2. CASE ThreadAttach(t) \/ Enter(t)
    <2>1. Settled /\ UNCHANGED backend
      BY <1>2 DEF ThreadAttach, Enter
    <2>2. pc'[t] = "get" /\ \A u \in Threads \ {t} : pc'[u] = pc[u] /\ call'[u] = call[u]
      BY <1>2 DEF ThreadAttach, Enter, Goto, DllType
    <2>3. "get" \notin InBackEnd
      BY DEF InBackEnd, Registered, Onward, Logging
    <2> QED
      BY <2>1, <2>2, <2>3 DEF Place, Settled, InBackEnd, Onward
  <1>3. CASE GetInterface(t)
    <2>1. Settled /\ UNCHANGED <<backend, call>>
      BY <1>3 DEF GetInterface
    <2>2. \A u \in Threads \ {t} : pc'[u] = pc[u]
      BY <1>3 DEF GetInterface, Goto, DllType
    <2>3. \/ pc'[t] = "create" /\ backend = None
          \/ pc'[t] = "idle" /\ call[t] = None
          \/ pc'[t] = backend.class /\ backend # None /\ call[t] # None
      BY <1>3 DEF GetInterface, Goto, DllType
    <2>4. backend = None => call[t] = None
      BY <1>3 DEF GetInterface, Serving, Loading, DllType
    <2>5. backend # None => backend.class \in Registered
      BY DEF DllType, Interfaces
    <2>6. \A label \in Registered :
            label \notin Onward \union {"new", "idle", "attach", "load", "create"}
      BY DEF Registered, Onward, Logging
    <2>7. "create" \notin InBackEnd /\ "idle" \notin InBackEnd
      BY DEF InBackEnd, Registered, Onward, Logging
    <2>8. CASE backend = None
      BY <2>1, <2>2, <2>3, <2>4, <2>7, <2>8 DEF Place, Settled, InBackEnd, Onward
    <2>9. CASE backend # None /\ call[t] = None
      BY <2>1, <2>2, <2>3, <2>7, <2>9 DEF Place, Settled, InBackEnd, Onward
    <2>10. CASE backend # None /\ call[t] # None
      <3>1. pc'[t] \in Registered
        BY <2>3, <2>5, <2>10
      <3> QED
        BY <2>1, <2>2, <2>3, <2>6, <2>10, <3>1 DEF Place, Settled, Onward
    <2> QED
      BY <2>8, <2>9, <2>10
  <1>4. CASE CreateLogger(t)
    <2>1. process = "loading" /\ t = Loader
      BY <1>4 DEF CreateLogger, Serving, Loading, DllType
    <2>2. \A u \in Threads : call'[u] = None
      BY <1>4, <2>1 DEF CreateLogger, Loading
    <2>3. \A u \in Threads : pc'[u] \in {"get", "new", "idle"}
      BY <1>4, <2>1 DEF CreateLogger, Loading, Goto, DllType
    <2>4. \A u \in Threads : pc'[u] \notin InBackEnd
      BY <2>3 DEF InBackEnd, Registered, Onward, Logging
    <2> QED
      BY <2>2, <2>4 DEF Place, InBackEnd, Onward
  <1> QED
    BY <1>1, <1>2, <1>3, <1>4

\* So do the back ends.
LEMMA BackEndPlace ==
  ASSUME DllInv, NEW t \in Threads,
         Wrapper(t) \/ Log(t) \/ Emulator(t) \/ Client(t)
  PROVE  Place'
  <1> USE DEF DllInv
  <1>1. Settled /\ UNCHANGED backend
    BY BackEndSteps
  <1>a. \/ \E how \in {"forwarded", "not found", "not supported", "done"} : Return(t, how)
        \/ Crash
        \/ /\ \E label \in Onward : Goto(t, label)
           /\ UNCHANGED <<process, call, answer>>
    BY BackEndSteps
  <1>2. \A u \in Threads \ {t} : pc'[u] = pc[u] /\ call'[u] = call[u]
    BY <1>a DEF Return, Crash, Goto, DllType
  <1>3. \/ pc'[t] = "idle" /\ call'[t] = None
        \/ pc'[t] \in Onward /\ call'[t] = call[t]
        \/ pc'[t] = pc[t] /\ call'[t] = call[t]
    BY <1>a DEF Return, Crash, Goto, DllType
  <1>4. /\ pc'[t] = "hand" => backend.class = "J2534Emulator"
        /\ pc'[t] = "forwarded" =>
             backend.class = "J2534DllWrapper" /\ pointer[call[t].fn] = "dll"
        /\ pc'[t] \in Logging =>
             /\ backend.class \in {"J2534DllWrapper", "ExJ2534SimpleLogger"}
             /\ backend.class = "J2534DllWrapper" =>
                  call[t].fn = "PassThruReadMsgs" /\ told[call[t].fn] # "present"
    <2>1. pc[t] \in Registered => backend.class = pc[t]
      BY DEF Place
    <2>2. CASE pc'[t] = pc[t]
      BY <2>2 DEF Place
    <2>3. CASE pc'[t] = "idle"
      BY <2>3 DEF Logging
    <2>4. CASE WrapperForward(t)
      BY <2>1, <2>4 DEF WrapperForward, Goto, DllType, Registered, Logging
    <2>5. CASE WrapperNotFound(t) /\ Goto(t, "append1") /\ call[t].fn = "PassThruReadMsgs"
      <3>1. told[call[t].fn] # "present"
        BY <2>5, BackEndSteps, CallType DEF PointersTold, WrapperNotFound
      <3> QED
        BY <2>1, <2>5, <3>1 DEF WrapperNotFound, Goto, DllType, Registered, Logging
    <2>6. CASE LogText(t) \/ LogEndMarker(t)
      <3>1. pc'[t] \in Logging
        BY <2>6, NextLogType DEF LogText, LogEndMarker, Goto, DllType, Logging
      <3>2. pc[t] \in Logging \union {"ExJ2534SimpleLogger"}
        BY <2>6, NextLogType DEF LogText, LogEndMarker, Logging
      <3>3. pc'[t] \notin {"hand", "forwarded"}
        BY <3>1 DEF Logging
      <3> QED
        BY <2>1, <3>1, <3>2, <3>3 DEF Place, Registered
    <2>7. CASE EmulatorTestCounter(t) /\ Goto(t, "hand")
      BY <2>1, <2>7 DEF EmulatorTestCounter, Goto, DllType, Registered, Logging
    <2> QED
      BY <2>2, <2>3, <2>4, <2>5, <2>6, <2>7
      DEF Wrapper, WrapperFault, WrapperNotFound, WrapperJump, WrapperReturn,
          WrapperReportFault, Log, LogReturn, LogCorrupt, Emulator, EmulatorFault,
          EmulatorAnswer, EmulatorTestCounter, EmulatorHandOut, Client, ClientFault,
          ClientAnswer, Return, Crash, Goto, DllType
  <1>7. call[t] # None /\ backend # None
    BY BackEndSteps DEF Place
  <1>8. /\ "idle" \notin InBackEnd
        /\ \A label \in Onward :
             label \notin Registered \union {"new", "idle", "attach", "load", "create"}
    BY DEF InBackEnd, Registered, Onward, Logging
  <1>9. ASSUME NEW u \in Threads \ {t}
        PROVE  /\ pc'[u] \in {"new", "idle", "attach", "load", "create"} => call'[u] = None
               /\ pc'[u] \in InBackEnd => call'[u] # None /\ backend' # None
               /\ pc'[u] \in Registered => backend'.class = pc'[u]
               /\ pc'[u] = "hand" => backend'.class = "J2534Emulator"
               /\ pc'[u] = "forwarded" =>
                    backend'.class = "J2534DllWrapper" /\ pointer'[call'[u].fn] = "dll"
               /\ pc'[u] \in Logging =>
                    /\ backend'.class \in {"J2534DllWrapper", "ExJ2534SimpleLogger"}
                    /\ backend'.class = "J2534DllWrapper" =>
                         call'[u].fn = "PassThruReadMsgs" /\ told'[call'[u].fn] # "present"
    BY <1>1, <1>2, <1>9 DEF Place, Settled
  <1>10. CASE pc'[t] = "idle" /\ call'[t] = None
    BY <1>8, <1>9, <1>10 DEF Place, InBackEnd, Onward
  <1>11. CASE pc'[t] \in Onward /\ call'[t] = call[t]
    BY <1>1, <1>4, <1>7, <1>8, <1>9, <1>11 DEF Place, Settled
  <1>12. CASE pc'[t] = pc[t] /\ call'[t] = call[t]
    BY <1>1, <1>4, <1>7, <1>9, <1>12 DEF Place, Settled
  <1> QED
    BY <1>3, <1>10, <1>11, <1>12

-----------------------------------------------------------------------------
(* The invariants of PassThruDll.                                          *)

\* An answer that agrees with the report of loadDll.
LEMMA ReportReturn ==
  ASSUME LoadReportTrue, DllType, NEW t \in Threads, NEW h, Return(t, h),
         h = "forwarded" => told[call[t].fn] = "present",
         h = "not found" => told[call[t].fn] # "present"
  PROVE  LoadReportTrue'
  <1> DEFINE f == call[t].fn
  <1>1. answer' = [answer EXCEPT ![t] = [fn |-> f, how |-> h]]
    BY DEF Return
  <1>2. UNCHANGED told
    BY DEF Return, Settled
  <1>3. h = "forwarded" => told[f] = "present"
    OBVIOUS
  <1>4. h = "not found" => told[f] # "present"
    OBVIOUS
  <1> HIDE DEF f
  <1>5. answer'[t] = [fn |-> f, how |-> h]
    BY <1>1 DEF DllType
  <1>6. \A u \in Threads \ {t} : answer'[u] = answer[u]
    BY <1>1 DEF DllType
  <1>7. answer'[t].how = h /\ answer'[t].fn = f
    <2> DEFINE a == answer'[t]
    <2>1. a = [fn |-> f, how |-> h]
      BY <1>5
    <2>2. [fn |-> f, how |-> h].how = h /\ [fn |-> f, how |-> h].fn = f
      OBVIOUS
    <2> HIDE DEF a
    <2>3. a.how = h /\ a.fn = f
      BY <2>1, <2>2
    <2> QED
      BY <2>3 DEF a
  <1>8. answer'[t].how \in {"forwarded", "not found"} =>
          (answer'[t].how = "forwarded" <=> told'[answer'[t].fn] = "present")
    BY <1>2, <1>3, <1>4, <1>7
  <1>9. ASSUME NEW u \in Threads \ {t}
        PROVE  answer'[u] # None /\ answer'[u].how \in {"forwarded", "not found"} =>
                 (answer'[u].how = "forwarded" <=> told'[answer'[u].fn] = "present")
    BY <1>2, <1>6 DEF LoadReportTrue
  <1> QED
    BY <1>8, <1>9 DEF LoadReportTrue

\* An answer is given where the report of loadDll is kept.
LEMMA ReportStep ==
  ASSUME DllInv, NEW t \in Threads,
         SelectInterface \/ LoadDll \/ Enter(t) \/ Step(t)
  PROVE  LoadReportTrue'
  <1> USE DEF DllInv
  <1>1. CASE SelectInterface
    BY <1>1 DEF SelectInterface, LoadReportTrue, Settled
  <1>2. CASE LoadDll
    <2>1. \A u \in Threads : answer'[u] = None
      BY <1>2 DEF LoadDll, Loading
    <2> QED
      BY <2>1 DEF LoadReportTrue
  <1>3. CASE Enter(t)
    <2>1. \A u \in Threads : answer'[u] = None \/ answer'[u] = answer[u]
      BY <1>3 DEF Enter, DllType
    <2> QED
      BY <1>3, <2>1 DEF Enter, LoadReportTrue, Settled
  <1>4. CASE ThreadAttach(t) \/ GetInterface(t) \/ CreateLogger(t)
    BY <1>4 DEF ThreadAttach, GetInterface, CreateLogger, LoadReportTrue, Settled
  <1>5. ASSUME UNCHANGED answer, Settled
        PROVE  LoadReportTrue'
    BY <1>5 DEF LoadReportTrue, Settled
  <1>6. ASSUME NEW how \in {"forwarded", "not found", "not supported", "done"},
               Return(t, how), call[t].fn \in Functions,
               how = "forwarded" => told[call[t].fn] = "present",
               how = "not found" => told[call[t].fn] # "present"
        PROVE  LoadReportTrue'
    BY <1>6, ReportReturn
  <1>7. CASE Wrapper(t) \/ Log(t) \/ Emulator(t) \/ Client(t)
    <2>1. Settled /\ call[t].fn \in Functions
      BY <1>7, BackEndSteps, CallType
    <2>2. pointer[call[t].fn] = "dll" <=> told[call[t].fn] = "present"
      BY <2>1 DEF PointersTold
    <2>3. CASE Wrapper(t)
      <3>1. CASE WrapperNotFound(t)
        <4>1. told[call[t].fn] # "present"
          BY <2>2, <3>1 DEF WrapperNotFound
        <4>2. Return(t, "not found") \/ UNCHANGED answer
          BY <3>1 DEF WrapperNotFound
        <4>3. ASSUME Return(t, "not found")
              PROVE  LoadReportTrue'
          BY <1>6, <2>1, <4>1, <4>3
        <4> QED
          BY <1>5, <2>1, <4>2, <4>3
      <3>2. CASE WrapperReturn(t)
        <4>1. told[call[t].fn] = "present" /\ Return(t, "forwarded")
          BY <2>2, <3>2 DEF WrapperReturn, Place
        <4> QED
          BY <1>6, <2>1, <4>1
      <3>3. CASE WrapperFault(t) \/ WrapperForward(t) \/ WrapperJump(t)
                 \/ WrapperReportFault(t)
        BY <1>5, <3>3 DEF WrapperFault, WrapperForward, WrapperJump,
                          WrapperReportFault, Crash
      <3> QED
        BY <2>3, <3>1, <3>2, <3>3 DEF Wrapper
    <2>4. CASE Log(t)
      <3>1. CASE LogText(t) \/ LogEndMarker(t)
        BY <1>5, <3>1 DEF LogText, LogEndMarker
      <3>2. CASE LogReturn(t)
        BY <1>6, <2>1, <3>2 DEF LogReturn, Place, Logging
      <3>3. CASE LogCorrupt(t)
        BY <1>5, <3>3 DEF LogCorrupt, Crash
      <3> QED
        BY <2>4, <3>1, <3>2, <3>3 DEF Log
    <2>5. CASE Emulator(t) \/ Client(t)
      BY <1>5, <1>6, <2>1, <2>5
      DEF Emulator, EmulatorFault, EmulatorAnswer, EmulatorTestCounter,
          EmulatorHandOut, Client, ClientFault, ClientAnswer, Crash
    <2> QED
      BY <1>7, <2>3, <2>4, <2>5
  <1> QED
    BY <1>1, <1>2, <1>3, <1>4, <1>7 DEF Step

\* Whoever appends has the rest of its log statement before it, and only the
\* append of another thread can undo a clear.
LEMMA TextStep ==
  ASSUME DllInv, NEW t \in Threads,
         SelectInterface \/ LoadDll \/ Enter(t) \/ Step(t)
  PROVE  NoStaleText'
  <1> DEFINE InLog == Logging \union {"ExJ2534SimpleLogger"}
  <1> USE DEF DllInv
  <1>1. NoStaleText' <=> (text' # {} => \E u \in Threads : pc'[u] \in InLog)
    <2>1. \A u \in Threads : (Access(u))' # "none" <=> pc'[u] \in InLog
      BY NextLogType DEF Access, Logging
    <2> QED
      BY <2>1 DEF NoStaleText
  <1>2. text # {} => \E u \in Threads : pc[u] \in InLog
    BY AccessPlace DEF NoStaleText
  <1>3. CASE SelectInterface \/ LoadDll
    <2>1. \A u \in Threads : pc[u] \notin InLog
      BY <1>3 DEF SelectInterface, LoadDll, Loading, Logging
    <2>2. text = {} /\ UNCHANGED text
      BY <1>2, <1>3, <2>1 DEF SelectInterface, LoadDll, logVars
    <2> QED
      BY <1>1, <2>2
  <1>4. ASSUME pc[t] \notin InLog, UNCHANGED text,
               \A u \in Threads \ {t} : pc'[u] = pc[u]
        PROVE  NoStaleText'
    BY <1>1, <1>2, <1>4
  <1>5. CASE Enter(t) \/ ThreadAttach(t) \/ GetInterface(t) \/ CreateLogger(t)
    BY <1>4, <1>5 DEF Enter, ThreadAttach, GetInterface, CreateLogger, Goto, DllType,
                      logVars, Logging
  <1>6. CASE Wrapper(t) \/ Emulator(t) \/ Client(t)
    <2>1. \A u \in Threads \ {t} : pc'[u] = pc[u]
      <3>1. \/ \E how \in {"forwarded", "not found", "not supported", "done"} : Return(t, how)
            \/ Crash
            \/ \E label \in Onward : Goto(t, label)
        BY <1>6, BackEndSteps
      <3> QED
        BY <3>1 DEF Return, Crash, Goto, DllType
    <2>2. pc[t] \notin InLog /\ UNCHANGED text
      BY <1>6
      DEF Wrapper, WrapperFault, WrapperForward, WrapperNotFound, WrapperJump,
          WrapperReturn, WrapperReportFault, Emulator, EmulatorFault, EmulatorAnswer,
          EmulatorTestCounter, EmulatorHandOut, Client, ClientFault, ClientAnswer,
          logVars, Logging
    <2> QED
      BY <1>4, <2>1, <2>2
  <1>7. CASE LogText(t) \/ LogEndMarker(t)
    <2>1. pc'[t] \in Logging
      BY <1>7, NextLogType DEF LogText, LogEndMarker, Goto, DllType, Logging
    <2> QED
      BY <1>1, <2>1
  <1>8. CASE LogReturn(t)
    <2>1. text' = {} \/ \E u \in Threads \ {t} : Access(u) = "append"
      BY <1>8 DEF LogReturn, LogClear
    <2>2. \A u \in Threads \ {t} : pc'[u] = pc[u]
      BY <1>8 DEF LogReturn, Return, Goto, DllType
    <2> QED
      BY <1>1, <2>1, <2>2, AccessPlace
  <1>9. CASE LogCorrupt(t)
    BY <1>1, <1>2, <1>9 DEF LogCorrupt, Crash, logVars
  <1> QED
    BY <1>3, <1>5, <1>6, <1>7, <1>8, <1>9 DEF Step, Log

LEMMA InitInv == Init => DllInv
  <1> SUFFICES ASSUME Init
               PROVE  DllInv
    OBVIOUS
  <1>1. LoadReportTrue /\ NoStaleText
    BY DEF Init, LoadReportTrue, NoStaleText, LogInit
  <1>2. ScanInv
    <2>1. \A t \in Threads : pc[t] # "hand" /\ seen[t] = {}
      BY DEF Init, ScanInit
    <2>2. scanIndex = 0 /\ \A d \in Devices : handed[d] = 0 /\ ~(d < 0)
      BY DEF Init, ScanInit, Devices
    <2> QED
      BY <2>1, <2>2 DEF ScanInv
  <1> QED
    BY <1>1, <1>2, InitType, InitPlaces DEF DllInv

\* Only a thread that found the emulator's counter at zero gets to "hand",
\* and nothing had been handed out before it was called.
LEMMA HandStep ==
  ASSUME DllInv, NEW t \in Threads,
         SelectInterface \/ LoadDll \/ Enter(t) \/ Step(t)
  PROVE  \A u \in Threads : pc'[u] = "hand" =>
            /\ seen[u] = {} /\ setup.class = "J2534Emulator"
            /\ pc[u] = "hand" \/ UNCHANGED scanVars
  <1> USE DEF DllInv
  <1>1. CASE SelectInterface \/ LoadDll
    BY <1>1 DEF SelectInterface, LoadDll, Loading, Goto, DllType
  <1>2. \A u \in Threads : pc[u] = "hand" => seen[u] = {} /\ setup.class = "J2534Emulator"
    BY DEF Place, Serving, ScanInv, InBackEnd, Onward
  <1>3. CASE Enter(t) \/ ThreadAttach(t) \/ CreateLogger(t)
    <2>1. pc'[t] # "hand" /\ \A u \in Threads \ {t} : pc'[u] = pc[u]
      BY <1>3 DEF Enter, ThreadAttach, CreateLogger, Goto, DllType
    <2> QED
      BY <1>2, <2>1
  <1>4. CASE GetInterface(t)
    <2>1. pc'[t] # "hand" /\ \A u \in Threads \ {t} : pc'[u] = pc[u]
      BY <1>4 DEF GetInterface, Goto, DllType, Interfaces, Registered
    <2> QED
      BY <1>2, <2>1
  <1>5. CASE Wrapper(t) \/ Log(t) \/ Emulator(t) \/ Client(t)
    <2>1. \/ \E how \in {"forwarded", "not found", "not supported", "done"} : Return(t, how)
          \/ Crash
          \/ \E label \in Onward : Goto(t, label)
      BY <1>5, BackEndSteps
    <2>2. \A u \in Threads \ {t} : pc'[u] = pc[u]
      BY <2>1 DEF Return, Crash, Goto, DllType
    <2>3. pc'[t] = "hand" /\ pc[t] # "hand" => EmulatorTestCounter(t) /\ CounterIsZero
      <3>1. CASE Log(t)
        BY <3>1, NextLogType
        DEF Log, LogText, LogEndMarker, LogReturn, LogCorrupt, Return, Crash, Goto,
            DllType, Logging
      <3>2. CASE Wrapper(t) \/ Emulator(t) \/ Client(t)
        BY <3>2
        DEF Wrapper, WrapperFault, WrapperForward, WrapperNotFound, WrapperJump,
            WrapperReturn, WrapperReportFault, Emulator, EmulatorFault, EmulatorAnswer,
            EmulatorTestCounter, EmulatorHandOut, Client, ClientFault, ClientAnswer,
            Return, Crash, Goto, DllType
      <3> QED
        BY <1>5, <3>1, <3>2
    <2>4. ASSUME EmulatorTestCounter(t), CounterIsZero
          PROVE  seen[t] = {} /\ setup.class = "J2534Emulator" /\ UNCHANGED scanVars
      <3>1. backend.class = "J2534Emulator" /\ backend # None
        BY <2>4 DEF EmulatorTestCounter, Place, Registered, InBackEnd
      <3>2. setup.class = "J2534Emulator"
        BY <3>1 DEF Serving
      <3>3. \A d \in Devices : handed[d] = 0
        BY <2>4, <3>2 DEF CounterIsZero, ScanInv
      <3>4. seen[t] = {}
        BY <3>3 DEF ScanInv
      <3> QED
        BY <2>4, <3>2, <3>4 DEF EmulatorTestCounter
    <2> QED
      BY <1>2, <2>2, <2>3, <2>4
  <1> QED
    BY <1>1, <1>3, <1>4, <1>5 DEF Step

\* The counters and what was handed out move together.
LEMMA ScanStep ==
  ASSUME DllInv, NEW t \in Threads,
         SelectInterface \/ LoadDll \/ Enter(t) \/ Step(t)
  PROVE  ScanInv'
  <1> USE DEF DllInv
  <1>1. UNCHANGED setup
    BY BackEndSteps
    DEF SelectInterface, LoadDll, Enter, Step, ThreadAttach, GetInterface, CreateLogger,
        Settled
  <1>2. \A u \in Threads : pc'[u] = "hand" =>
            /\ seen[u] = {} /\ setup.class = "J2534Emulator"
            /\ pc[u] = "hand" \/ UNCHANGED scanVars
    BY HandStep
  <1>3. CASE UNCHANGED scanVars
    BY <1>1, <1>2, <1>3 DEF ScanInv, scanVars
  <1>4. CASE Enter(t) /\ ScanCall(t)
    <2>1. pc'[t] = "get"
      BY <1>4 DEF Enter, Goto, DllType
    <2>2. given'[t] \notin seen'[t]
      BY <1>4 DEF ScanCall, SharedType, NoDevice, Devices
    <2>3. seen'[t] = {d \in Devices : handed[d] > 0}
          /\ \A u \in Threads \ {t} : seen'[u] = seen[u] /\ given'[u] = given[u]
      BY <1>4 DEF ScanCall, SharedType
    <2>4. UNCHANGED <<scanIndex, devCounter, handed>>
      BY <1>4 DEF ScanCall
    <2> QED
      BY <1>1, <1>2, <2>1, <2>2, <2>3, <2>4 DEF ScanInv
  <1>5. CASE pc[t] = "J2534Cannelloni"
             /\ (ScanForDevices \/ GetNextDevice(t) \/ GetNextCarDAQ(t))
    <2>1. setup.class = "J2534Cannelloni"
      BY <1>5 DEF Place, Serving, Registered, InBackEnd
    <2>2. \A u \in Threads : pc'[u] # "hand"
      BY <1>2, <2>1
    <2>3. CASE ScanForDevices
      BY <1>1, <2>1, <2>2, <2>3 DEF ScanForDevices, ScanInv, SharedType, Devices
    <2>4. CASE GetNextDevice(t) /\ ~UNCHANGED scanVars
      <3>1. scanIndex \in Devices /\ HandOver(t, scanIndex)
            /\ scanIndex' = scanIndex + 1 /\ UNCHANGED <<devCounter, seen>>
        BY <2>4 DEF GetNextDevice, HandOver, Devices, SharedType
      <3>2. \A d \in Devices : handed[d] = IF d < scanIndex THEN 1 ELSE 0
        BY <2>1 DEF ScanInv
      <3>3. \A d \in Devices :
              handed'[d] = IF d = scanIndex THEN handed[d] + 1 ELSE handed[d]
        BY <3>1 DEF HandOver, SharedType
      <3>4. \A d \in Devices : handed'[d] = IF d < scanIndex' THEN 1 ELSE 0
        BY <3>1, <3>2, <3>3 DEF Devices, SharedType
      <3>5. scanIndex \notin seen[t]
        BY <3>1, <3>2 DEF ScanInv, Devices
      <3>6. given'[t] = scanIndex /\ \A u \in Threads \ {t} : given'[u] = given[u]
        BY <3>1 DEF HandOver, SharedType
      <3>7. \A d \in Devices : handed[d] > 0 => handed'[d] > 0
        BY <3>2, <3>3
      <3>8. \A u \in Threads : seen'[u] \subseteq {d \in Devices : handed'[d] > 0}
        BY <3>1, <3>7 DEF ScanInv
      <3> QED
        BY <1>1, <2>1, <2>2, <3>1, <3>4, <3>5, <3>6, <3>8 DEF ScanInv
    <2> QED
      BY <1>3, <1>5, <2>3, <2>4 DEF GetNextCarDAQ
  <1>6. CASE pc[t] = "hand" /\ HandOutXDev(t)
    <2>1. setup.class # "J2534Cannelloni" /\ seen[t] = {}
      BY <1>6 DEF Place, Serving, ScanInv, InBackEnd, Onward
    <2>2. devCounter' # 0 /\ UNCHANGED seen
      BY <1>6 DEF HandOutXDev, HandOver, SharedType
    <2>3. given'[t] \notin seen'[t] /\ \A u \in Threads \ {t} : given'[u] = given[u]
      BY <1>6, <2>1, <2>2 DEF HandOutXDev, HandOver, SharedType
    <2>4. \A d \in Devices : handed[d] > 0 => handed'[d] > 0
      BY <1>6 DEF HandOutXDev, HandOver, SharedType
    <2> QED
      BY <1>1, <1>2, <2>1, <2>2, <2>3, <2>4 DEF ScanInv
  <1> QED
    BY <1>3, <1>4, <1>5, <1>6, SharedSteps

-----------------------------------------------------------------------------
(* The theorems.                                                           *)

LEMMA StepInv == DllInv /\ [Next]_vars => DllInv'
  <1> SUFFICES ASSUME DllInv, [Next]_vars
               PROVE  DllInv'
    OBVIOUS
  <1>1. ASSUME NEW t \in Threads,
               SelectInterface \/ LoadDll \/ Enter(t) \/ Step(t)
        PROVE  DllInv'
    <2>1. DllType'
      BY <1>1, EntryType, BackEndType DEF Step
    <2>2. Loading' /\ Serving'
      BY <1>1, EntryLoading, BackEndLoading DEF Step
    <2>3. Place'
      BY <1>1, EntryPlace, BackEndPlace DEF Step
    <2> QED
      BY <1>1, <2>1, <2>2, <2>3, SharedTypeStep, PointersStep, ReportStep, TextStep,
         ScanStep DEF DllInv
  <1>2. CASE UNCHANGED vars
    <2> USE <1>2 DEF vars, dllVars, logVars, scanVars, DllInv
    <2>1. DllType' /\ SharedType'
      BY DEF DllType, SharedType
    <2>2. Loading' /\ Serving'
      BY DEF Loading, Serving
    <2>3. Place' /\ PointersTold'
      BY DEF Place, PointersTold
    <2>4. LoadReportTrue' /\ NoStaleText' /\ ScanInv'
      BY DEF LoadReportTrue, NoStaleText, Access, ScanInv
    <2> QED
      BY <2>1, <2>2, <2>3, <2>4
  <1>3. Loader \in Threads
    OBVIOUS
  <1> QED
    BY <1>1, <1>2, <1>3 DEF Next, Over

\* In every reachable state the threads are where the code puts them.
THEOREM Invariant == Spec => []DllInv
  BY InitInv, StepInv, PTL DEF Spec

\* Every variable stays in its type.
THEOREM TypeCorrect == Spec => []TypeOK
  <1>1. DllInv => TypeOK
    BY DEF DllInv, DllType, SharedType, TypeOK
  <1> QED
    BY <1>1, Invariant, PTL

\* However the unlocked getInterface is called, a process never has calls in
\* two interfaces.
THEOREM OneInterface == Spec => []OneBackEnd
  <1>1. DllInv => OneBackEnd
    <2> SUFFICES ASSUME DllInv
                 PROVE  Cardinality(served) <= 1
      BY DEF OneBackEnd
    <2>1. served = {} \/ served = {backend}
      BY DEF DllInv, Serving
    <2>2. CASE served = {}
      <3>1. Cardinality({}) = 0
        BY FS_EmptySet
      <3>2. Cardinality(served) = 0
        BY <2>2, <3>1
      <3> QED
        BY <3>2
    <2>3. CASE served = {backend}
      <3>1. Cardinality({backend}) = 1
        BY FS_Singleton
      <3>2. Cardinality(served) = 1
        BY <2>3, <3>1
      <3> QED
        BY <3>2
    <2> QED
      BY <2>1, <2>2, <2>3
  <1> QED
    BY <1>1, Invariant, PTL

\* The functions loadDll reports as present, and no others, are forwarded.
THEOREM ReportIsTrue == Spec => []LoadReportTrue
  BY Invariant, PTL DEF DllInv

\* No text is left in the log's buffer without a statement to send it.
THEOREM BufferIsFresh == Spec => []NoStaleText
  BY Invariant, PTL DEF DllInv

\* No device is handed out twice in an enumeration that is not restarted.
THEOREM EnumerationOnce == Spec => []HandedOutOnce
  <1>1. DllInv => HandedOutOnce
    BY DEF DllInv, ScanInv, HandedOutOnce
  <1> QED
    BY <1>1, Invariant, PTL

=============================================================================
