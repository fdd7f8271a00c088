----------------------- MODULE PassThruDllRefinement -----------------------
(***************************************************************************)
(* Every step of PassThruDll is a step of PassThruApi or none: whatever    *)
(* installation is configured, a thread's call is answered on its own, and *)
(* the process ends only where PassThruApi excuses it.  (That calls are    *)
(* answered at all is liveness, which only TLC checks.)                    *)
(***************************************************************************)
EXTENDS PassThruDllProofs

\* The safety part of ImplementsApi.
ApiSafety == Api!ApiInit /\ [][Api!ApiNext]_(Api!apiVars)

\* The functions that are risky somewhere are functions.
LEMMA KnownFunctions ==
  {"PassThruReadDetails", "PassThruGetNextCarDAQ", "PassThruReadVersion",
   "PassThruReadMsgs", "PassThruWriteMsgs"} \subseteq Functions
  BY DEF Functions, Pointers

LEMMA RiskyType ==
  /\ RiskyFunctions \in SUBSET (Functions \union {"DllMain"})
  /\ RacingFunctions \in SUBSET Functions
  BY KnownFunctions DEF RiskyFunctions, RacingFunctions

\* The tables are the same ones on both sides.
LEMMA SameTables == Api!Calls = Calls /\ Api!Functions = Functions /\ Api!Complete = Complete
  BY DEF Api!Calls, Calls, Api!Functions, Functions, Api!Pointers, Pointers,
         Api!Plain, Plain, Api!At, At, Api!Complete, Complete

\* What is risky or races does not change, and is known where the process
\* may end.
LEMMA RiskyStays == UNCHANGED setup => UNCHANGED <<RiskyFunctions, RacingFunctions>>
  BY DEF RiskyFunctions, RacingFunctions

LEMMA RiskyWrapper ==
  setup.class = "J2534DllWrapper" =>
    /\ {"DllMain", "PassThruReadDetails", "PassThruGetNextCarDAQ"} \subseteq RiskyFunctions
    /\ setup.found = FALSE => Functions \subseteq RiskyFunctions
  BY KnownFunctions DEF RiskyFunctions

LEMMA RiskyClient ==
  setup.class = "J2534Cannelloni" =>
    {"PassThruReadVersion", "PassThruWriteMsgs"} \subseteq RiskyFunctions
  BY DEF RiskyFunctions

\* A log statement underway is risky, or races with those of other threads.
LEMMA RacingLog ==
  ASSUME DllInv, NEW t \in Threads, process = "serving", Access(t) # "none"
  PROVE  /\ call[t] # None
         /\ call[t].fn \in RiskyFunctions \union RacingFunctions
  <1>1. pc[t] \in Logging \union {"ExJ2534SimpleLogger"}
    BY AccessPlace
  <1>2. /\ call[t] # None /\ backend # None
        /\ backend.class \in {"J2534DllWrapper", "ExJ2534SimpleLogger"}
        /\ backend.class = "J2534DllWrapper" =>
             call[t].fn = "PassThruReadMsgs" /\ told[call[t].fn] # "present"
    BY <1>1 DEF DllInv, Place, InBackEnd, Onward, Registered
  <1>3. call[t].fn \in Functions
    BY <1>2, CallType DEF DllInv
  <1>4. CASE backend.class = "J2534DllWrapper"
    <2>1. setup.class = "J2534DllWrapper" /\ setup.found \in BOOLEAN
      BY <1>2, <1>4, DllAssumption DEF DllInv, DllType, Serving, Registered
    <2>2. pointer["PassThruReadMsgs"] # "dll"
      BY <1>2, <1>3, <1>4 DEF DllInv, PointersTold
    <2>3. setup.found => "PassThruReadMsgs" \notin setup.exports
      BY <1>2, <1>3, <1>4, <2>1, <2>2 DEF DllInv, DllType, PointersTold
    <2>4. setup.found => "PassThruReadMsgs" \in RacingFunctions
      BY <2>1, <2>3 DEF RacingFunctions
    <2> QED
      BY <1>2, <1>3, <1>4, <2>1, <2>4, RiskyWrapper
  <1>5. CASE backend.class = "ExJ2534SimpleLogger"
    <2>1. setup.class \notin {"J2534DllWrapper", "J2534Emulator", "J2534Cannelloni"}
      BY <1>2, <1>5 DEF DllInv, Serving, Registered
    <2>2. RacingFunctions = Functions
      BY <2>1 DEF RacingFunctions
    <2> QED
      BY <1>2, <1>3, <2>2
  <1> QED
    BY <1>2, <1>4, <1>5

\* The mapping of one step.
MappedStep == [Api!ApiNext]_(Api!apiVars)

LEMMA InitMapped == Init => Api!ApiInit
  BY RiskyType, SameTables DEF Init, Api!ApiInit

-----------------------------------------------------------------------------
(* The four kinds of steps.                                                *)

LEMMA StutterMapped ==
  ASSUME UNCHANGED <<setup, process, call>>
  PROVE  MappedStep
  BY RiskyStays DEF MappedStep, Api!apiVars

\* A return is the answer.
LEMMA ReturnMapped ==
  ASSUME DllInv, NEW t \in Threads, process = "serving", call[t] # None,
         NEW how, Return(t, how)
  PROVE  MappedStep
  <1>1. Api!Answer(t)
    BY RiskyStays DEF Api!Answer, Return, Settled
  <1> QED
    BY <1>1 DEF MappedStep, Api!ApiNext

\* A crash must be excused by a call ...
LEMMA CrashMapped ==
  ASSUME DllInv, NEW t \in Threads, process = "serving", call[t] # None, Crash,
         call[t].missing # Complete \/ call[t].fn \in RiskyFunctions
  PROVE  MappedStep
  <1>1. Api!Excused(call[t])
    BY SameTables DEF Api!Excused
  <1>2. Api!EndInCall
    BY <1>1, RiskyStays DEF Api!EndInCall, Crash, Settled
  <1> QED
    BY <1>2 DEF MappedStep, Api!ApiNext

\* ... or by two whose log statements race.
LEMMA RaceMapped ==
  ASSUME DllInv, NEW t \in Threads, process = "serving", LogCorrupt(t)
  PROVE  MappedStep
  <1>1. PICK u \in Threads \ {t} : Races(Access(t), Access(u))
    BY DEF LogCorrupt
  <1>2. Access(t) # "none" /\ Access(u) # "none" /\ Crash
    BY <1>1 DEF Races, LogCorrupt
  <1>3. /\ call[t] # None /\ call[t].fn \in RiskyFunctions \union RacingFunctions
        /\ call[u] # None /\ call[u].fn \in RiskyFunctions \union RacingFunctions
    BY <1>2, RacingLog
  <1>4. CASE call[t].fn \in RiskyFunctions
    BY <1>2, <1>3, <1>4, CrashMapped
  <1>5. CASE call[u].fn \in RiskyFunctions
    BY <1>2, <1>3, <1>5, CrashMapped
  <1>6. CASE call[t].fn \in RacingFunctions /\ call[u].fn \in RacingFunctions
    <2>1. Api!Race(call[t], call[u])
      BY <1>3, <1>6 DEF Api!Race
    <2>2. Api!EndInCall
      BY <1>2, <2>1, RiskyStays DEF Api!EndInCall, Crash, Settled
    <2> QED
      BY <2>2 DEF MappedStep, Api!ApiNext
  <1> QED
    BY <1>3, <1>4, <1>5, <1>6

-----------------------------------------------------------------------------
(* The steps.                                                              *)

LEMMA EntryMapped ==
  ASSUME DllInv, NEW t \in Threads,
         SelectInterface \/ LoadDll \/ ThreadAttach(t) \/ GetInterface(t)
           \/ CreateLogger(t) \/ Enter(t)
  PROVE  MappedStep
  <1> USE DEF DllInv
  <1>1. CASE SelectInterface
    BY <1>1, StutterMapped DEF SelectInterface, Settled
  <1>2. CASE LoadDll
    <2>1. CASE process' = "loading"
      BY <1>2, <2>1, StutterMapped DEF LoadDll
    <2>2. CASE process' = "ended"
      <3>1. "DllMain" \in RiskyFunctions
        BY <1>2, RiskyWrapper DEF LoadDll, PointersTold
      <3>2. Api!EndWhileLoading
        BY <1>2, <2>2, <3>1, RiskyStays DEF LoadDll, Api!EndWhileLoading
      <3> QED
        BY <3>2 DEF MappedStep, Api!ApiNext
    <2> QED
      BY <1>2, <2>1, <2>2 DEF LoadDll
  <1>3. CASE ThreadAttach(t)
    BY <1>3, StutterMapped DEF ThreadAttach, Settled
  <1>4. CASE GetInterface(t)
    <2>1. CASE UNCHANGED process
      BY <1>4, <2>1, StutterMapped DEF GetInterface, Settled
    <2>2. CASE process' # process
      <3>1. process = "loading" /\ process' = "serving"
        BY <1>4, <2>2 DEF GetInterface, DllType
      <3>2. Api!Loaded
        BY <1>4, <3>1, RiskyStays DEF Api!Loaded, GetInterface, Settled
      <3> QED
        BY <3>2 DEF MappedStep, Api!ApiNext
    <2> QED
      BY <2>1, <2>2
  <1>5. CASE CreateLogger(t)
    BY <1>5, StutterMapped DEF CreateLogger, Settled
  <1>6. CASE Enter(t)
    <2>1. call[t] = None
      BY <1>6 DEF Enter, Place
    <2>2. \E c \in Api!Calls : call' = [call EXCEPT ![t] = c]
      <3>1. PICK c \in Repertoire[t] : call' = [call EXCEPT ![t] = c]
        BY <1>6 DEF Enter
      <3>2. c \in Calls
        BY <3>1, DllAssumption
      <3> QED
        BY <3>1, <3>2, SameTables
    <2>3. Api!Call(t)
      BY <1>6, <2>1, <2>2, RiskyStays DEF Api!Call, Enter, Settled
    <2> QED
      BY <2>3 DEF MappedStep, Api!ApiNext
  <1> QED
    BY <1>1, <1>2, <1>3, <1>4, <1>5, <1>6

\* The wrapper, with a pointer nobody set or a parameter it does not test.
LEMMA WrapperMapped ==
  ASSUME DllInv, NEW t \in Threads, Wrapper(t)
  PROVE  MappedStep
  <1> USE DEF DllInv
  <1>1. process = "serving" /\ call[t] # None /\ call[t].fn \in Functions
    BY BackEndSteps, CallType
  <1>2. backend # None /\ backend.class = "J2534DllWrapper"
    BY DEF Wrapper, WrapperFault, WrapperForward, WrapperNotFound, WrapperJump,
           WrapperReturn, WrapperReportFault, Place, Registered, InBackEnd, Onward
  <1>3. setup.class = "J2534DllWrapper"
    BY <1>2 DEF Serving
  <1>4. CASE WrapperFault(t)
    BY <1>1, <1>4, CrashMapped DEF WrapperFault, Reads
  <1>5. CASE WrapperForward(t)
    BY <1>5, StutterMapped DEF WrapperForward, Settled
  <1>6. CASE WrapperNotFound(t)
    <2>1. CASE Return(t, "not found")
      BY <1>1, <2>1, ReturnMapped
    <2>2. CASE UNCHANGED <<setup, process, call>>
      BY <2>2, StutterMapped
    <2> QED
      BY <1>6, <2>1, <2>2 DEF WrapperNotFound, Settled
  <1>7. CASE WrapperJump(t)
    <2>1. setup.found \in BOOLEAN
      BY DllAssumption DEF DllType
    <2>2. setup.found => call[t].fn = "PassThruReadDetails"
      BY <1>1, <1>3, <1>7 DEF WrapperJump, PointersTold
    <2>3. call[t].fn \in RiskyFunctions
      BY <1>1, <1>3, <2>1, <2>2, RiskyWrapper
    <2> QED
      BY <1>1, <1>7, <2>3, CrashMapped DEF WrapperJump
  <1>8. CASE WrapperReturn(t)
    BY <1>1, <1>8, ReturnMapped DEF WrapperReturn
  <1>9. CASE WrapperReportFault(t)
    BY <1>1, <1>3, <1>9, RiskyWrapper, CrashMapped DEF WrapperReportFault
  <1> QED
    BY <1>4, <1>5, <1>6, <1>7, <1>8, <1>9 DEF Wrapper

\* The other back ends.
LEMMA OthersMapped ==
  ASSUME DllInv, NEW t \in Threads, Log(t) \/ Emulator(t) \/ Client(t)
  PROVE  MappedStep
  <1> USE DEF DllInv
  <1>1. process = "serving" /\ call[t] # None
    BY BackEndSteps
  <1>2. CASE LogText(t) \/ LogEndMarker(t)
    BY <1>2, StutterMapped DEF LogText, LogEndMarker, Settled
  <1>3. CASE LogReturn(t)
    BY <1>1, <1>3, ReturnMapped DEF LogReturn
  <1>9. CASE LogCorrupt(t)
    BY <1>1, <1>9, RaceMapped
  <1>4. CASE EmulatorFault(t)
    BY <1>1, <1>4, CrashMapped DEF EmulatorFault, Reads
  <1>5. CASE EmulatorAnswer(t) \/ EmulatorHandOut(t)
    BY <1>1, <1>5, ReturnMapped DEF EmulatorAnswer, EmulatorHandOut
  <1>6. CASE EmulatorTestCounter(t)
    <2>1. CASE Return(t, "done")
      BY <1>1, <2>1, ReturnMapped
    <2>2. CASE UNCHANGED <<setup, process, call>>
      BY <2>2, StutterMapped
    <2> QED
      BY <1>6, <2>1, <2>2 DEF EmulatorTestCounter, Settled
  <1>7. CASE ClientFault(t)
    <2>1. CASE call[t].fn \in {"PassThruReadVersion", "PassThruWriteMsgs"}
      <3>1. setup.class = "J2534Cannelloni"
        BY <1>7 DEF ClientFault, Place, Serving, Registered, InBackEnd
      <3> QED
        BY <1>1, <1>7, <2>1, <3>1, RiskyClient, CrashMapped DEF ClientFault
    <2>2. CASE Reads(t, ClientReads) \/ Reads(t, ClientMayRead)
      BY <1>1, <1>7, <2>2, CrashMapped DEF ClientFault, Reads
    <2> QED
      BY <1>7, <2>1, <2>2 DEF ClientFault
  <1>8. CASE ClientAnswer(t)
    BY <1>1, <1>8, ReturnMapped DEF ClientAnswer
  <1> QED
    BY <1>2, <1>3, <1>4, <1>5, <1>6, <1>7, <1>8, <1>9 DEF Log, Emulator, Client

-----------------------------------------------------------------------------
\* The DLL keeps what PassThruApi promises, as far as it is safety: a call is
\* answered at most once and by itself, and the process ends only in a call
\* that is excused.
THEOREM DllImplementsApi == Spec => ApiSafety
  <1>1. DllInv /\ [Next]_vars => MappedStep
    <2> SUFFICES ASSUME DllInv, [Next]_vars
                 PROVE  MappedStep
      OBVIOUS
    <2>1. Loader \in Threads
      BY DllAssumption
    <2>2. ASSUME NEW t \in Threads,
                 SelectInterface \/ LoadDll \/ Enter(t) \/ Step(t)
          PROVE  MappedStep
      BY <2>2, EntryMapped, WrapperMapped, OthersMapped DEF Step
    <2>3. CASE UNCHANGED vars
      BY <2>3, StutterMapped DEF vars, dllVars
    <2> QED
      BY <2>1, <2>2, <2>3 DEF Next, Over
  <1> QED
    BY <1>1, InitMapped, Invariant, PTL DEF Spec, ApiSafety, MappedStep
=============================================================================
