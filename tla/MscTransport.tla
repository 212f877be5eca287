---------------------------- MODULE MscTransport ----------------------------
(***************************************************************************)
(* CBulkOnlyTransport, CControlInterface and CActiveDeviceStateNotifier:   *)
(* the bulk-only transport of the mass-storage server.                     *)
(*                                                                         *)
(* m.t, m.c and m.n are the three active objects, m.ldd the driver of the  *)
(* USB client and m.thread what the single thread of the server is waiting *)
(* for inside a handler: User::WaitForRequest and User::After block it, and *)
(* a continuation takes the handler up again.  The assertions that a debug *)
(* build makes (EMsBulkOnlyStillActive) are early returns here, as in the  *)
(* release build.  iReadSetUp is never set: no SCSI command takes data.    *)
(* What a member holds after its last use is forgotten.                    *)
(***************************************************************************)
EXTENDS Sequences, MscScsi

KBOTMaxBufSize == 1024

TransportStates == { "ENone", "EWaitForCBW", "EWritingData", "ESendingCSW", "EPermErr" }
ControlStates   == { "ENone", "EReadEp0Data", "ESendMaxLun" }
CswStatuses     == { "ECommandPassed", "ECommandFailed", "EPhaseError" }
Threads   == { "Free", "Stalled", "StalledAfterData", "Padding", "Discarding" }
\* Short: fewer bytes than a header has, as in the data of a request that was ignored.
Requests  == { "GetMaxLun", "BadGetMaxLun", "Reset", "BadReset", "Unknown", "Short" }
\* Undefined, Default and Address are one to this code: not configured.
BusStates == { "Unconfigured", "Configured", "Suspended" }
Reported  == BusStates \cup { "AlternateSetting" }

NoPacket == [ kind |-> "None" ]
DataPacket(real, fresh, reports) ==
  [ kind |-> "Data", real |-> real, fresh |-> fresh, reports |-> reports ]
CswPacket(tag, residue, status) ==
  [ kind |-> "CSW", tag |-> tag, residue |-> residue, status |-> status ]
NoCbw == [ valid |-> FALSE, tag |-> 0, len |-> 0, toHost |-> FALSE,
           cmd |-> [ op |-> "Unknown", len |-> 0, ok |-> TRUE ] ]

InitTransport ==
  [ iCurrentState |-> "ENone", active |-> FALSE, iStatus |-> KErrNone, iCbwBuf |-> NoCbw,
    iWriteSetUp |-> FALSE, iWriteBuf |-> NoBuffer, iDataResidue |-> 0, iCbwTag |-> 0,
    iCmdStatus |-> "ECommandPassed", iStarted |-> FALSE, iStallAllowed |-> TRUE,
    iInterfaceConfigured |-> FALSE ]
InitControl  == [ iCurrentState |-> "ENone", active |-> FALSE, iStatus |-> KErrNone,
                  iRequest |-> "Unknown" ]
InitNotifier == [ active |-> FALSE, iStatus |-> KErrNone, iDeviceState |-> "None",
                  iOldDeviceState |-> "None" ]

\* The driver: requests outstanding on the bulk endpoints, the packet on its way
\* to the host, whether the IN endpoint is halted, what has come in on the OUT
\* endpoint and on endpoint 0, and the device states not yet told.
InitLdd == [ open |-> FALSE, out |-> FALSE, in |-> NoPacket, stalled |-> FALSE,
             rx |-> << >>, ep0 |-> "None", states |-> << >> ]

Block(m, where) == [m EXCEPT !.thread = where]

-----------------------------------------------------------------------------
\* The control interface.

\* ReadEp0Data
ReadEp0Data(m) ==
  IF m.c.active THEN m
  ELSE [m EXCEPT !.c.active = TRUE, !.c.iStatus = Pending, !.c.iCurrentState = "EReadEp0Data"]

\* CControlInterface::Cancel.  A reply that is cancelled leaves its request unanswered.
CancelControl(m) ==
  [m EXCEPT !.c = InitControl,
            !.ldd.ep0 = IF m.c.active /\ m.c.iCurrentState = "ESendMaxLun"
                             /\ m.c.iStatus = Pending /\ m.ldd.ep0 = "GetMaxLun"
                          THEN "Ignored" ELSE @]

-----------------------------------------------------------------------------
\* The bulk endpoints.

\* A request on an endpoint that is not configured fails at once.
TransportActive(m, state) ==
  [m EXCEPT !.t.active = TRUE, !.t.iCurrentState = state,
            !.t.iStatus = IF m.bus = "Unconfigured" THEN KErrGeneral ELSE Pending]

\* ReadCBW
ReadCBW(m) ==
  IF m.t.active THEN m 
  ELSE TransportActive([m EXCEPT !.ldd.out = (m.bus # "Unconfigured")], "EWaitForCBW")

\* A write on the IN endpoint.
Write(m, packet, state) ==
  TransportActive([m EXCEPT !.ldd.in = IF m.bus = "Unconfigured" THEN NoPacket ELSE packet],
                  state)

\* SendCSW
SendCSW(m, residue, status) ==
  IF m.t.active THEN m
  ELSE Write([m EXCEPT !.t.iCbwTag = 0, !.t.iDataResidue = 0, !.t.iStallAllowed = TRUE,
                       !.t.iCmdStatus = "ECommandPassed"],
             CswPacket(m.t.iCbwTag, residue, status), "ESendingCSW")

\* SetPermError completes the transport's own request.
SetPermError(m) ==
  [m EXCEPT !.t.iCurrentState = "EPermErr", !.t.active = TRUE, !.t.iStatus = KErrNone]

\* Mutant: only the OUT endpoint.
CancelTransportOut(m) == [m EXCEPT !.t.active = FALSE, !.ldd.out = FALSE]

\* Cancel() of the transport: the requests on both endpoints.  The next state is
\* ENone, which HwStart and Stop set.
CancelTransport(m) ==
  LET t == m.t IN
  [m EXCEPT !.t = [InitTransport EXCEPT
                     !.iWriteSetUp = t.iWriteSetUp, !.iWriteBuf = t.iWriteBuf,
                     !.iStarted = t.iStarted, !.iInterfaceConfigured = t.iInterfaceConfigured],
            !.ldd.in = IF t.active THEN NoPacket ELSE @,
            !.ldd.out = @ /\ ~t.active]

\* StallEndpointAndWaitForClear: a device that is not configured has no endpoint
\* to halt.
StallIn(m, where) == Block([m EXCEPT !.ldd.stalled = (m.bus # "Unconfigured")], where)

-----------------------------------------------------------------------------
\* The data phase.

\* PrepareWriteToHost: what the command has set up, zeros after it or instead of
\* it, or its beginning only (case 7, a phase error).  The endpoint is halted
\* after a short reply that was not filled up.
PrepareWriteToHost(m, len) ==
  LET buf    == m.t.iWriteBuf
      real   == Min2(buf.len, len)
      d      == [m EXCEPT !.t.iDataResidue = len - real]
      padded == [d EXCEPT !.t.iStallAllowed = FALSE]
      packet == DataPacket(real, buf.fresh, buf.reports)
      none   == [m EXCEPT !.t.iDataResidue = len]
      zeros  == DataPacket(0, TRUE, "Data")
  IN CASE ~m.t.iWriteSetUp /\ len <= KBOTMaxBufSize ->
            Write([none EXCEPT !.t.iStallAllowed = FALSE], zeros, "EWritingData")
       [] ~m.t.iWriteSetUp /\ len > KBOTMaxBufSize ->
            Block([none EXCEPT !.ldd.in = IF m.bus = "Unconfigured" THEN NoPacket ELSE zeros],
                  "Padding")
       [] m.t.iWriteSetUp /\ buf.len < len /\ len < KBOTMaxBufSize ->
            Write(padded, packet, "EWritingData")
       [] m.t.iWriteSetUp /\ buf.len > len ->
            Write([d EXCEPT !.t.iCmdStatus = "EPhaseError"], packet, "EWritingData")
       [] OTHER -> Write(d, packet, "EWritingData")

\* PrepareReadFromHost discards what the host sends.
PrepareReadFromHost(m, len) == Block([m EXCEPT !.t.iDataResidue = len], "Discarding")

\* Mutant: a command that replies does not mind a host that expects nothing.
StatusAlways(m) == m.t.iCmdStatus

\* The status of a command whose data phase had nothing of the command's.
StatusUnlessWrite(m) == IF m.t.iWriteSetUp THEN "EPhaseError" ELSE m.t.iCmdStatus

\* DecodeCBW.  Data set up before is of an earlier command from now on.
DecodeCBW(m) ==
  LET cbw == m.t.iCbwBuf
      e   == [m EXCEPT !.t.iWriteBuf.fresh = FALSE, !.t.iCbwBuf = NoCbw]
      p   == DecodePacket(e, cbw.cmd)
      d   == [p EXCEPT !.t.iCbwTag = cbw.tag, !.t.iStallAllowed = TRUE,
                       !.t.iCmdStatus = IF SenseOk(p) THEN "ECommandPassed"
                                        ELSE "ECommandFailed"]
  IN CASE ~cbw.valid -> SetPermError(e)
       [] cbw.valid /\ cbw.len = 0 ->
            SendCSW([d EXCEPT !.t.iDataResidue = 0], 0, StatusUnlessWrite(d))
       [] cbw.valid /\ cbw.len # 0 /\ cbw.toHost -> PrepareWriteToHost(d, cbw.len)
       [] OTHER -> PrepareReadFromHost(d, cbw.len)

\* CBulkOnlyTransport::RunL
TransportRunL(m) ==
  LET d == [m EXCEPT !.t.active = FALSE]
      w == [d EXCEPT !.t.iWriteSetUp = FALSE, !.t.iWriteBuf = NoBuffer]
  IN CASE m.t.iStatus # KErrNone \/ m.t.iCurrentState = "ENone" -> SetPermError(d)
       [] m.t.iStatus = KErrNone /\ m.t.iCurrentState = "EWaitForCBW" -> DecodeCBW(d)
       [] m.t.iStatus = KErrNone /\ m.t.iCurrentState = "EWritingData" ->
            IF w.t.iDataResidue # 0 /\ w.t.iStallAllowed THEN StallIn(w, "StalledAfterData")
            ELSE SendCSW(w, w.t.iDataResidue, w.t.iCmdStatus)
       [] m.t.iStatus = KErrNone /\ m.t.iCurrentState = "ESendingCSW" -> ReadCBW(d)
       [] OTHER -> StallIn(d, "Stalled")

\* What the blocked handler does next.
Resume(m) ==
  LET d == Block(m, "Free") IN
  CASE m.thread = "StalledAfterData" -> SendCSW(d, d.t.iDataResidue, d.t.iCmdStatus)
    [] m.thread = "Padding" -> SendCSW(d, d.t.iDataResidue, d.t.iCmdStatus)
    [] m.thread = "Discarding" -> SendCSW(d, d.t.iDataResidue, StatusUnlessWrite(d))
    [] OTHER -> d

-----------------------------------------------------------------------------
\* The device state.

\* HwStart.  ReadAndDiscardData asserts, in any build, that iReadBuf has a
\* length; nothing ever gives it one.
HwStart(m, discard) ==
  LET d == [ReadEp0Data(m) EXCEPT !.t.iCurrentState = "ENone", !.t.iWriteSetUp = FALSE,
                                  !.t.iWriteBuf = NoBuffer, !.t.iStarted = TRUE]
  IN IF discard /\ m.ldd.rx # << >> THEN [d EXCEPT !.fault = Raise(@, EmptyReadBuffer)]
     ELSE ReadCBW(d)

\* HwStop
HwStop(m) ==
  IF m.t.iStarted THEN [CancelControl(CancelTransport(m)) EXCEPT !.t.iStarted = FALSE] ELSE m

\* CActiveDeviceStateNotifier::Activate
ActivateNotifier(m) ==
  IF m.n.active THEN m ELSE [m EXCEPT !.n.active = TRUE, !.n.iStatus = Pending]

\* Mutant: a configuration that is lost stops nothing.
NotifierRunLKeepsOn(m) ==
  LET st == m.n.iDeviceState
      d  == [m EXCEPT !.n.active = FALSE, !.n.iDeviceState = "None"]
      n  == IF st = "Configured" THEN HwStart(d, FALSE) ELSE d
  IN ActivateNotifier([n EXCEPT !.n.iOldDeviceState = IF st = "Suspended" THEN st ELSE "None"])

\* CActiveDeviceStateNotifier::RunL.  Of the state before, it matters whether it was
\* Suspended.  HwSuspend and HwResume do nothing, and a change of
\* the alternate setting is not looked at.
NotifierRunL(m) ==
  LET st == m.n.iDeviceState
      d  == [m EXCEPT !.n.active = FALSE, !.n.iDeviceState = "None"]
      old == IF st = "AlternateSetting" THEN m.n.iOldDeviceState
             ELSE IF st = "Suspended" THEN st ELSE "None"
      n  == CASE st = "Configured" /\ m.n.iOldDeviceState # "Suspended" -> HwStart(d, FALSE)
              [] st = "Unconfigured" -> HwStop(d)
              [] OTHER -> d
  IN ActivateNotifier([n EXCEPT !.n.iOldDeviceState = old])

\* CBulkOnlyTransport::Start.  A notification is asked for before the state is
\* read; raced says that the device was configured between the two.
TransportStart(m, raced) ==
  LET o == ActivateNotifier([m EXCEPT !.ldd.open = TRUE])
      r == IF raced THEN [o EXCEPT !.bus = "Configured", !.ldd.states = <<"Configured">>] ELSE o
      d == IF r.bus = "Configured" THEN HwStart(r, FALSE) ELSE r
  IN CASE m.t.active -> [m EXCEPT !.ret = KErrInUse]
       [] ~m.t.active /\ m.in.ldd # KErrNone -> [m EXCEPT !.ret = m.in.ldd]
       [] OTHER -> [d EXCEPT !.t.iInterfaceConfigured = TRUE,
                             !.ret = IF r.bus = "Configured" /\ m.c.active THEN KErrServerBusy
                                     ELSE KErrNone]

\* Mutant: the notifier is left running.
TransportStopPartly(m) ==
  LET d == CancelTransport(CancelControl(m)) IN
  [d EXCEPT !.t.iInterfaceConfigured = FALSE,
            !.ldd = IF m.t.iInterfaceConfigured THEN InitLdd ELSE @]

\* CBulkOnlyTransport::Stop
TransportStop(m) ==
  LET d == [CancelTransport(CancelControl(m)) EXCEPT !.n.active = FALSE] IN
  [d EXCEPT !.t.iInterfaceConfigured = FALSE,
            !.ldd = IF m.t.iInterfaceConfigured THEN InitLdd ELSE @]

=============================================================================
