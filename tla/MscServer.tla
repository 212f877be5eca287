----------------------------- MODULE MscServer -----------------------------
(***************************************************************************)
(* The mass-storage file server around its transport (CMscFileController,  *)
(* CMscFileSession, CMscFileServer), and CUsbMscFileClassController, the   *)
(* client that starts and stops it for USB Manager.                        *)
(*                                                                         *)
(* m.server is the process and how many sessions it counts, m.cc the class *)
(* controller, m.shown the property KCoreAppUIsUSBFileTransfer, m.ret what *)
(* the last call returned.                                                 *)
(***************************************************************************)
EXTENDS MscTransport

Server == [ process : {"None", "Running", "Ending"}, iSessionCount : 0..2 ]
ClassController == [ iState : {"EUsbServiceIdle", "EUsbServiceStarted"}, stopping : BOOLEAN ]

NoProtocol == [ sense |-> "NoSense" ]

-----------------------------------------------------------------------------
\* The controller.

\* Reset: a new protocol, without sense data.
ControllerReset(m) == [m EXCEPT !.scsi = NoProtocol]

\* A request on endpoint 0 is acknowledged, or refused.
Answer(m, how) == [m EXCEPT !.ldd.ep0 = IF @ = "None" THEN @ ELSE how]

\* DecodeEp0Data.  An unknown request is neither answered nor refused, and neither is
\* what cannot be a header, after which no other request is read until the device is
\* configured again.
DecodeEp0Data(m) ==
  CASE m.c.iRequest = "GetMaxLun" ->
         [m EXCEPT !.c.active = TRUE, !.c.iStatus = Pending, !.c.iCurrentState = "ESendMaxLun"]
    [] m.c.iRequest = "Reset" -> Answer(HwStart(ControllerReset(HwStop(m)), TRUE), "Answered")
    [] m.c.iRequest \in {"BadGetMaxLun", "BadReset"} -> ReadEp0Data(Answer(m, "None"))
    [] m.c.iRequest = "Short" -> Answer(m, "Ignored")
    [] OTHER -> ReadEp0Data(Answer(m, "Ignored"))

\* Mutant: after an error, no request is read any more.
ControlRunLOnce(m) ==
  LET d == [m EXCEPT !.c.active = FALSE] IN
  IF m.c.iStatus = KErrNone /\ m.c.iCurrentState = "EReadEp0Data" THEN DecodeEp0Data(d) ELSE d

\* CControlInterface::RunL
ControlRunL(m) ==
  LET d == [m EXCEPT !.c.active = FALSE] IN
  IF m.c.iStatus = KErrNone /\ m.c.iCurrentState = "EReadEp0Data" THEN
    DecodeEp0Data(d)
  ELSE ReadEp0Data(d)

-----------------------------------------------------------------------------
\* Sessions.

\* NewSessionL and ConstructL: one session at a time.
Connect(m) ==
  CASE m.server.process = "Ending" -> [m EXCEPT !.ret = KErrServerTerminated]
    [] m.server.process # "Ending" /\ m.server.iSessionCount > 0 -> [m EXCEPT !.ret = KErrInUse]
    [] OTHER -> [m EXCEPT !.ret = KErrNone, !.server.iSessionCount = @ + 1]

\* ~CMscFileSession
CloseSession(m) == [m EXCEPT !.server.iSessionCount = @ - 1]

\* SetupLogicalUnitL: a new image and a new protocol.
SetupLogicalUnit(m) ==
  [m EXCEPT !.ret = m.in.setup,
            !.image.iIsOpened = IF m.in.setup = KErrNone THEN FALSE ELSE @,
            !.scsi = IF m.in.setup = KErrNone THEN NoProtocol ELSE @]

\* StartL shows the file transfer before it knows that there is one.
SessionStart(m, raced) == TransportStart([m EXCEPT !.shown = TRUE], raced)

\* Stop and Shutdown: CActiveScheduler::Stop ends the server's thread,
\* and what its objects hold is of no use any more.
SessionStop(m) == TransportStop([m EXCEPT !.shown = FALSE, !.ret = KErrNone])
SessionShutdown(m) ==
  [m EXCEPT !.server.process = "Ending", !.scsi = NoProtocol, !.image.iIsOpened = FALSE,
            !.t = [InitTransport EXCEPT !.active = m.t.active],
            !.c = [InitControl EXCEPT !.active = m.c.active],
            !.n = [InitNotifier EXCEPT !.active = m.n.active]]

-----------------------------------------------------------------------------
\* The class controller.

\* A process has nothing of an earlier one's.
NewProcess(m) ==
  [m EXCEPT !.server = [process |-> "Running", iSessionCount |-> 0],
            !.t = InitTransport, !.c = InitControl, !.n = InitNotifier,
            !.scsi = NoProtocol, !.image.iIsOpened = FALSE]

\* StartServer: a server that is still ending is found by its name.
StartServer(m) ==
  CASE m.server.process # "None" -> [m EXCEPT !.ret = KErrNone]
    [] m.server.process = "None" /\ m.in.process = KErrNone ->
         [NewProcess(m) EXCEPT !.ret = KErrNone]
    [] OTHER -> [m EXCEPT !.ret = m.in.process]

\* SetupUnitsL sets the image up through a session of its own, closed in any case.
SetupUnits(m) ==
  LET n == Connect(m) IN IF n.ret # KErrNone THEN n ELSE CloseSession(SetupLogicalUnit(n))

\* Start: the first step that fails ends it.  A session whose Start failed stays open.
ClassControllerStart(m, raced) ==
  LET served == StartServer(m)
      setup  == SetupUnits(served)
      opened == Connect(setup)
      done   == SessionStart(opened, raced)
  IN CASE served.ret # KErrNone -> served
       [] served.ret = KErrNone /\ setup.ret # KErrNone -> setup
       [] served.ret = KErrNone /\ setup.ret = KErrNone /\ opened.ret # KErrNone -> opened
       [] OTHER -> [done EXCEPT !.cc.iState = IF done.ret = KErrNone THEN "EUsbServiceStarted"
                                              ELSE "EUsbServiceIdle"]

\* Stop
ClassControllerStop(m) ==
  [CloseSession(SessionShutdown(SessionStop(m))) EXCEPT
     !.cc = [iState |-> "EUsbServiceIdle", stopping |-> FALSE]]

=============================================================================
