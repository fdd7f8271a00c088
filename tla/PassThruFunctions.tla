------------------------- MODULE PassThruFunctions -------------------------
(***************************************************************************)
(* The functions the DLL exports and what each back end does with their    *)
(* pointers.  Of a function's arguments only this is kept: which pointer   *)
(* parameters it has, and which of them a back end dereferences without    *)
(* testing them for NULL, always (Reads) or on some path only (MayRead).   *)
(* The tables follow the order of the sources, a group of neighbouring     *)
(* functions in each.  In a complete call every pointer is good, counts    *)
(* and sizes say no more than is there, and every buffer holds a string,   *)
(* output buffers included: the back ends report the contents of those     *)
(* before they fill them.                                                  *)
(***************************************************************************)
EXTENDS TLC

\* The pointer parameters of the exported functions that have one.
Pointers ==
    [PassThruOpen |-> {"pName", "pDeviceID"},
     PassThruConnect |-> {"pChannelID"},
     PassThruReadMsgs |-> {"pMsg", "pNumMsgs"},
     PassThruWriteMsgs |-> {"pMsg", "pNumMsgs"},
     PassThruQueueMsgs |-> {"pMsg", "pNumMsgs"},
     PassThruStartPeriodicMsg |-> {"pMsg", "pMsgID"},
     PassThruStartMsgFilter |->
        {"pMaskMsg", "pPatternMsg", "pFlowControlMsg", "pMsgID"},
     PassThruReadVersion |-> {"pFirmwareVersion", "pDllVersion", "pApiVersion"},
     PassThruGetLastError |-> {"pErrorDescription"},
     PassThruIoctl |-> {"pInput", "pOutput"},
     PassThruReadIPSetup |->
        {"host_name", "ip_addr", "subnet_mask", "gateway", "dhcp_addr"},
     PassThruWriteIPSetup |->
        {"host_name", "ip_addr", "subnet_mask", "gateway", "dhcp_addr"},
     PassThruReadPCSetup |-> {"host_name", "ip_addr"},
     PassThruGetNextCarDAQ |-> {"name", "version", "addr"},
     PassThruScanForDevices |-> {"pDeviceCount"},
     PassThruGetNextDevice |-> {"psDevice"},
     PassThruSelect |-> {"ChannelSetPtr"},
     PassThruReadDetails |-> {"pName"}]

\* The functions without one.
Plain ==
    {"PassThruClose", "PassThruDisconnect", "PassThruStopPeriodicMsg",
     "PassThruStopMsgFilter", "PassThruSetProgrammingVoltage",
     "PassThruExConfigureWiFi", "PassThruExDeviceWatchdog",
     "PassThruExDownloadCypheredFlashData", "PassThruExEraseFlash",
     "PassThruExInitiateCypheredFlashDownload", "PassThruExReadFlash",
     "PassThruExResetFlash", "PassThruExRunSelfTest", "PassThruExWriteFlash",
     "PassThruLoadFirmware", "PassThruRecoverFirmware", "PassThruGetPointer"}

Functions == DOMAIN Pointers \union Plain

At(table, f) == IF f \in DOMAIN table THEN table[f] ELSE {}

\* A call passes good pointers, or NULL for one of them.
Complete == "no pointer"
Calls == UNION {[fn : {f}, missing : At(Pointers, f) \union {Complete}] : f \in Functions}

-----------------------------------------------------------------------------
(* J2534DllWrapper: what is read for the report before the pointer of the  *)
(* wrapped function is tested.                                             *)

WrapperDevice ==
    [PassThruOpen |-> {"pDeviceID"}, PassThruClose |-> {},
     PassThruConnect |-> {"pChannelID"}, PassThruDisconnect |-> {}]

WrapperMessages ==
    [f \in {"PassThruReadMsgs", "PassThruQueueMsgs", "PassThruWriteMsgs"} |-> {"pNumMsgs"}]

WrapperPeriodic ==
    [PassThruStartPeriodicMsg |-> {"pMsg", "pMsgID"}, PassThruStopPeriodicMsg |-> {}]

\* pFlowControlMsg may be NULL by the J2534 standard; it is read all the same.
WrapperFilter ==
    [PassThruStartMsgFilter |->
        {"pMaskMsg", "pPatternMsg", "pFlowControlMsg", "pMsgID"},
     PassThruStopMsgFilter |-> {}]

WrapperInfo ==
    [PassThruSetProgrammingVoltage |-> {},
     PassThruReadVersion |-> {"pFirmwareVersion", "pDllVersion", "pApiVersion"},
     PassThruGetLastError |-> {"pErrorDescription"},
     PassThruIoctl |-> {}]

WrapperExtra ==
    [f \in {"PassThruExConfigureWiFi", "PassThruExDeviceWatchdog",
            "PassThruExDownloadCypheredFlashData", "PassThruExEraseFlash",
            "PassThruExInitiateCypheredFlashDownload"} |-> {}]

WrapperFlash ==
    [f \in {"PassThruExReadFlash", "PassThruExResetFlash",
            "PassThruExRunSelfTest", "PassThruExWriteFlash",
            "PassThruLoadFirmware", "PassThruRecoverFirmware"} |-> {}]

WrapperSetup ==
    [f \in {"PassThruReadIPSetup", "PassThruWriteIPSetup"} |->
        {"host_name", "ip_addr", "subnet_mask", "gateway", "dhcp_addr"}]
    @@ [PassThruReadPCSetup |-> {"host_name", "ip_addr"},
        PassThruGetPointer |-> {}]

WrapperDiscovery ==
    [PassThruGetNextCarDAQ |-> {"version"}, PassThruScanForDevices |-> {"pDeviceCount"},
     PassThruGetNextDevice |-> {}, PassThruSelect |-> {},
     PassThruReadDetails |-> {"pName"}]

WrapperReads ==
    WrapperDevice @@ WrapperMessages @@ WrapperPeriodic @@ WrapperFilter
      @@ WrapperInfo @@ WrapperExtra @@ WrapperFlash @@ WrapperSetup
      @@ WrapperDiscovery

\* With *pNumMsgs = 0 the messages are not looked at.
WrapperMayRead ==
    [f \in {"PassThruQueueMsgs", "PassThruWriteMsgs"} |-> {"pMsg"}]

-----------------------------------------------------------------------------
(* J2534Emulator                                                           *)

EmulatorDevice ==
    [PassThruOpen |-> {"pDeviceID"}, PassThruClose |-> {},
     PassThruConnect |-> {"pChannelID"}, PassThruDisconnect |-> {}]

EmulatorMessages ==
    [PassThruReadMsgs |-> {"pNumMsgs", "pMsg"},
     PassThruQueueMsgs |-> {"pNumMsgs"}, PassThruWriteMsgs |-> {"pNumMsgs"}]

EmulatorInfo ==
    [f \in {"PassThruStartPeriodicMsg", "PassThruStopPeriodicMsg",
            "PassThruStartMsgFilter", "PassThruStopMsgFilter",
            "PassThruSetProgrammingVoltage", "PassThruGetLastError"} |-> {}]
    @@ [PassThruReadVersion |-> {"pFirmwareVersion", "pDllVersion", "pApiVersion"}]

\* The functions from PassThruExConfigureWiFi on only report their name.
EmulatorStubs ==
    [f \in {"PassThruExConfigureWiFi", "PassThruExDeviceWatchdog",
            "PassThruExDownloadCypheredFlashData", "PassThruExEraseFlash",
            "PassThruExInitiateCypheredFlashDownload", "PassThruExReadFlash",
            "PassThruExResetFlash", "PassThruExRunSelfTest", "PassThruExWriteFlash",
            "PassThruLoadFirmware", "PassThruRecoverFirmware", "PassThruReadIPSetup",
            "PassThruWriteIPSetup", "PassThruReadPCSetup", "PassThruGetPointer"} |-> {}]

EmulatorV0500 ==
    [f \in {"PassThruScanForDevices", "PassThruGetNextDevice", "PassThruSelect",
            "PassThruReadDetails"} |-> {}]

EmulatorReads ==
    EmulatorDevice @@ EmulatorMessages @@ EmulatorInfo @@ EmulatorStubs @@ EmulatorV0500

\* The output of the controls the emulator answers, the messages if there are any.
EmulatorMayRead ==
    [PassThruIoctl |-> {"pOutput"},
     PassThruQueueMsgs |-> {"pMsg"}, PassThruWriteMsgs |-> {"pMsg"}]

-----------------------------------------------------------------------------
(* J2534CannelloniClient                                                   *)

ClientMessages ==
    [PassThruReadMsgs |-> {"pNumMsgs"}, PassThruQueueMsgs |-> {"pNumMsgs"},
     PassThruWriteMsgs |-> {"pNumMsgs"}]

ClientPeriodic ==
    [PassThruStartPeriodicMsg |-> {"pMsg", "pMsgID"}, PassThruStopPeriodicMsg |-> {},
     PassThruStartMsgFilter |->
        {"pMaskMsg", "pPatternMsg", "pFlowControlMsg", "pMsgID"},
     PassThruStopMsgFilter |-> {}, PassThruSetProgrammingVoltage |-> {},
     PassThruReadVersion |-> {"pFirmwareVersion", "pDllVersion", "pApiVersion"}]

ClientSetup ==
    [f \in {"PassThruLoadFirmware", "PassThruRecoverFirmware", "PassThruGetPointer"} |-> {}]
    @@ [f \in {"PassThruReadIPSetup", "PassThruWriteIPSetup"} |->
          {"host_name", "ip_addr", "subnet_mask", "gateway", "dhcp_addr"}]
    @@ [PassThruReadPCSetup |-> {"host_name", "ip_addr"}]

ClientDetails == [PassThruReadDetails |-> {"pName"}]

ClientReads == ClientMessages @@ ClientPeriodic @@ ClientSetup @@ ClientDetails

\* Once the device is known, a message is there, or the control has an output.
\* PassThruReadMsgs tests pMsg where it copies, but not where it reports.
ClientMayRead ==
    [PassThruConnect |-> {"pChannelID"}, PassThruReadMsgs |-> {"pMsg"},
     PassThruQueueMsgs |-> {"pMsg"}, PassThruWriteMsgs |-> {"pMsg"},
     PassThruIoctl |-> {"pOutput"}]
=============================================================================
