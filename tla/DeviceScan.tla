----------------------------- MODULE DeviceScan -----------------------------
(***************************************************************************)
(* The enumeration of devices.  The Cannelloni client keeps one scanIndex  *)
(* for PassThruGetNextDevice, PassThruGetNextCarDAQ and every thread; it   *)
(* is read and moved under globalMutex, so each of these calls is one      *)
(* step.  The emulator has one device and a counter that no lock protects: *)
(* its test and its increment are two steps.  The history variables say    *)
(* which devices were handed out since the last PassThruScanForDevices and *)
(* which of them before a thread's current call began.                     *)
(***************************************************************************)
EXTENDS Integers

CONSTANTS
    Threads,
    DeviceCount    \* VIRTUAL_DEVICE_COUNT (3 in the code)

ASSUME ScanAssumption == DeviceCount \in Nat \ {0}

VARIABLES
    scanIndex,     \* J2534CannelloniClient::scanIndex
    devCounter,    \* _dev_counter of the emulator
    handed,        \* history: how often each device was handed out
    seen,          \* history: devices handed out before the call of a thread
    given          \* history: the device the call of a thread was given

scanVars == <<scanIndex, devCounter, handed, seen, given>>

Devices == 0 .. DeviceCount - 1
NoDevice == -1

ScanInit ==
    /\ scanIndex = 0
    /\ devCounter = 0
    /\ handed = [d \in Devices |-> 0]
    /\ seen = [t \in Threads |-> {}]
    /\ given = [t \in Threads |-> NoDevice]

-----------------------------------------------------------------------------
(* Faulty variants, never used by the actions below.                       *)

\* An increment of the emulator's counter that is missing.
HandOutXDev_Uncounted(t) ==
    /\ handed' = [handed EXCEPT ![0] = @ + 1]
    /\ given' = [given EXCEPT ![t] = 0]
    /\ UNCHANGED <<scanIndex, devCounter, seen>>

\* A test for the end of the enumeration that is off by one.
GetNextDevice_OffByOne(t) ==
    \/ /\ scanIndex <= DeviceCount
       /\ given' = [given EXCEPT ![t] = scanIndex]
       /\ scanIndex' = scanIndex + 1
       /\ UNCHANGED <<devCounter, handed, seen>>
    \/ /\ scanIndex > DeviceCount
       /\ UNCHANGED scanVars

-----------------------------------------------------------------------------
\* A thread enters a call.
ScanCall(t) ==
    /\ seen' = [seen EXCEPT ![t] = {d \in Devices : handed[d] > 0}]
    /\ given' = [given EXCEPT ![t] = NoDevice]
    /\ UNCHANGED <<scanIndex, devCounter, handed>>

HandOver(t, d) ==
    /\ handed' = [handed EXCEPT ![d] = @ + 1]
    /\ given' = [given EXCEPT ![t] = d]
    /\ UNCHANGED seen

\* PassThruScanForDevices of the client: a new enumeration.
ScanForDevices ==
    /\ scanIndex' = 0
    /\ handed' = [d \in Devices |-> 0]
    /\ seen' = [t \in Threads |-> {}]
    /\ UNCHANGED <<devCounter, given>>

\* PassThruGetNextDevice of the client; ERR_NO_MORE_DEVICES at the end.
GetNextDevice(t) ==
    \/ /\ scanIndex < DeviceCount
       /\ HandOver(t, scanIndex)
       /\ scanIndex' = scanIndex + 1
       /\ UNCHANGED devCounter
    \/ /\ scanIndex >= DeviceCount
       /\ UNCHANGED scanVars

\* PassThruGetNextCarDAQ of the client: a LocalAlloc of the name or of the
\* address that fails leaves the enumeration where it is.
GetNextCarDAQ(t) ==
    \/ GetNextDevice(t)
    \/ scanIndex < DeviceCount /\ UNCHANGED scanVars

\* PassThruGetNextCarDAQ of the emulator: the test ...
CounterIsZero == devCounter = 0

\* ... and, with strings allocated in between, the increment.
HandOutXDev(t) ==
    /\ HandOver(t, 0)
    /\ devCounter' = devCounter + 1
    /\ UNCHANGED scanIndex
=============================================================================
