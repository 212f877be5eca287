------------------------------- MODULE DevCon -------------------------------
(***************************************************************************)
(* usbdevcon, the process that answers the device requests of a host on    *)
(* endpoint 0: CUsbDevCon with its shutdown timer, CUsbStateWatcher,       *)
(* CStateMachine, CEP0Reader and CEP0Writer.                               *)
(*                                                                         *)
(* Every method is an operator on the memory m of the process: m.timer is  *)
(* CUsbDevCon itself, whose only request is the timer's, m.watching the    *)
(* state watcher's request, m.machine, m.reader and m.writer the rest;     *)
(* m.control says whether the process has device control, m.packet the     *)
(* request whose data is to come, m.answer the answer it sends.            *)
(***************************************************************************)
EXTENDS RemotePersonality

NoRequest == [name |-> "none"]

MachineStates == { "None", "Setup", "Data", "Status" }

Idle == [active |-> FALSE, iStatus |-> KErrNone]
Waits == [active |-> TRUE, iStatus |-> Pending]

InitDevCon == [ timer |-> Idle, watching |-> FALSE, machine |-> "None", reader |-> Idle,
                writer |-> Idle, packet |-> NoRequest, control |-> FALSE, remote |-> InitRemote ]

\* What the host sees: its request is over, with a stall, a status packet or data.
Answer(m, how) == [m EXCEPT !.answer = how]

\* CEP0Reader::ReadSetupPacketL and ReadL, CEP0Writer::WriteL: nothing while active.
Read(m)  == IF m.d.reader.active THEN m ELSE [m EXCEPT !.d.reader = Waits]
Write(m) == IF m.d.writer.active THEN m ELSE [m EXCEPT !.d.writer = Waits]

\* Mutant: the read goes on.
MachineStopReading(m) == [m EXCEPT !.d.writer = Idle,
                                   !.d.packet = NoRequest, !.d.machine = "None"]

\* CStateMachine::Stop
MachineStop(m) == [m EXCEPT !.d.reader = Idle, !.d.writer = Idle,
                            !.d.packet = NoRequest, !.d.machine = "None"]

\* CStateMachine::StartL, also the way back from every error.
MachineStart(m) ==
  Read([IF m.d.machine # "None" THEN MachineStop(m) ELSE m EXCEPT !.d.machine = "Setup"])

\* CRequestsHandler::Handle: the plugins in turn; there is one.
Handle(m, request) ==
  LET t == DoHandle([remote |-> m.d.remote, err |-> KErrNone, in |-> m.in], request)
  IN [m EXCEPT !.d.remote = t.remote, !.err = t.err]

NextRequest(m) == Read([m EXCEPT !.d.machine = "Setup", !.d.packet = NoRequest])
Status(m) == IF m.err = KErrNone THEN Answer(m, "Status") ELSE Answer(m, "Stall")

\* ProcessSetupPacketL
ProcessSetupPacket(m, request) ==
  LET t == Handle(m, request) IN
  CASE request.length /\ ~request.toHost -> Read([m EXCEPT !.d.machine = "Data"])
    [] t.err = KErrNone /\ request.length /\ request.toHost -> Write([t EXCEPT !.d.machine = "Status"])
    [] OTHER -> NextRequest(Status(t))

\* Mutant: after an error nothing is read.
ReadEP0Stops(m, request) ==
  LET d == [m EXCEPT !.d.reader.active = FALSE] IN
  CASE m.d.reader.iStatus # KErrNone -> d
    [] m.d.reader.iStatus = KErrNone /\ m.d.machine = "Setup" -> ProcessSetupPacket(d, request)
    [] m.d.reader.iStatus = KErrNone /\ m.d.machine = "Data" -> NextRequest(Status(Handle(d, request)))
    [] OTHER -> d

\* CEP0Reader::RunL and CStateMachine::ReadEP0L
ReadEP0(m, request) ==
  LET d == [m EXCEPT !.d.reader.active = FALSE] IN
  CASE m.d.reader.iStatus # KErrNone -> MachineStart(d)
    [] m.d.reader.iStatus = KErrNone /\ m.d.machine = "Setup" -> ProcessSetupPacket(d, request)
    [] m.d.reader.iStatus = KErrNone /\ m.d.machine = "Data" -> NextRequest(Status(Handle(d, request)))
    [] OTHER -> d

\* CEP0Writer::RunL and CStateMachine::WroteEP0L
WroteEP0(m) ==
  LET d == [m EXCEPT !.d.writer.active = FALSE] IN
  CASE m.d.writer.iStatus # KErrNone -> MachineStart(d)
    [] m.d.writer.iStatus = KErrNone /\ m.d.machine = "Status" -> NextRequest(d)
    [] OTHER -> d

-----------------------------------------------------------------------------
\* CUsbDevCon

Release(m) == IF m.d.machine = "None" THEN m ELSE [MachineStop(m) EXCEPT !.d.control = FALSE]

\* StartL: the timer's request is cancelled and not the active object that waits for
\* it, which runs with KErrCancel, or with KErrNone when the timer was faster.
StartL(m) ==
  LET t == IF m.d.machine = "None" THEN MachineStart([m EXCEPT !.d.control = TRUE]) ELSE m IN
  [t EXCEPT !.d.timer.iStatus = IF t.d.timer = Waits THEN KErrCancel ELSE @]

\* StopL: the timer is not started while the active object waits for the last one.
StopL(m) ==
  LET t == Release(m) IN
  IF t.d.timer.active THEN t ELSE [t EXCEPT !.d.timer = Waits]

\* Mutant: the resumption of a suspended device is not handled.
ActAccordinglyToUsbStateOnce(m, state) ==
  [ (CASE state = "Undefined" -> StopL(m)
       [] state = "Attached" -> m
       [] state \in {"Suspended", "Powered"} -> Release(m)
       [] OTHER -> StartL(m)) EXCEPT !.d.watching = (state # "Suspended") ]

\* ActAccordinglyToUsbStateL, which ends by waiting for the next state.
ActAccordinglyToUsbState(m, state) ==
  [ (CASE state = "Undefined" -> StopL(m)
       [] state = "Attached" -> m
       [] state \in {"Suspended", "Powered"} -> Release(m)
       [] OTHER -> StartL(m)) EXCEPT !.d.watching = TRUE ]

\* ConstructL
Construct(m, state) == ActAccordinglyToUsbState([m EXCEPT !.d = InitDevCon], state)

=============================================================================
