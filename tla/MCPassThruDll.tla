---------------------------- MODULE MCPassThruDll ----------------------------
(***************************************************************************)
(* The instances of PassThruDll that TLC checks: one thread makes every    *)
(* call the API has, with every single NULL argument, the other some that  *)
(* share state with it.  The wrapped DLL exports everything, nothing, or   *)
(* all but two functions.  A class without a generator is like none.       *)
(***************************************************************************)
EXTENDS PassThruDll

CONSTANTS t1, t2

Install(class, found, exports) == [class |-> class, found |-> found, exports |-> exports]

MCInstallations ==
    {Install(c, FALSE, {}) : c \in Classes \ {"unknown"}}
      \union {Install("J2534DllWrapper", TRUE, e) :
                e \in {Functions, {},
                       Functions \ {"PassThruReadMsgs", "PassThruStopMsgFilter"}}}

Wrapping == {Install("J2534DllWrapper", TRUE, Functions)}
Logging == {Install("", FALSE, {})}

MCRepertoire ==
    [t \in Threads |->
       IF t = t1 THEN Calls
       ELSE [fn : {"PassThruReadMsgs", "PassThruGetNextCarDAQ"}, missing : {Complete}]]
=============================================================================
