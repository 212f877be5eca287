----------------------------- MODULE MscSystem -----------------------------
(***************************************************************************)
(* The mass-storage server, USB Manager's class controller, the driver and *)
(* a host that follows the bulk-only transport: it sends one command at a  *)
(* time, reads or writes its data, reads its status, clears a halted       *)
(* endpoint and tries again, and recovers by a reset after a phase error,  *)
(* a second stall or when it has waited long enough.                       *)
(***************************************************************************)
EXTENDS MscServer

CONSTANTS
  Cbws,       \* command block wrappers the host sends: [valid, len, toHost, cmd]
  Ep0Requests,\* requests on endpoint 0, besides the reset of a recovery
  Blocks,     \* size of the image
  Outside,    \* answers of the outside: [open, read, ldd, setup, process]
  Races,      \* whether the device may be configured while the server starts
  MaxStates,  \* device states waiting for the notifier
  MaxRx       \* packets waiting on the OUT endpoint

Command == [ op : Ops, len : Nat, ok : BOOLEAN ]
AllCbws == [ valid : BOOLEAN, len : Nat, toHost : BOOLEAN, cmd : Command ]
MscErrors == { KErrNone, KErrGeneral, KErrNotFound, KErrInUse, KErrServerBusy,
               KErrServerTerminated }
Answers == [ open : MscErrors, read : MscErrors, ldd : MscErrors, setup : MscErrors,
             process : MscErrors ]

ASSUME MscAssumption ==
  /\ Cbws \subseteq AllCbws /\ Ep0Requests \subseteq Requests \ {"Reset"}
  /\ Blocks \in Nat /\ Outside \subseteq Answers /\ Races \subseteq BOOLEAN
  /\ MaxStates \in Nat \ {0} /\ MaxRx \in Nat \ {0}

VARIABLES
  transport,  \* CBulkOnlyTransport
  control,    \* CControlInterface
  notifier,   \* CActiveDeviceStateNotifier
  scsi,       \* CScsiProtocol
  image,      \* CFileSystemImage
  ldd,        \* the driver: RDevUsbcClient
  thread,     \* what the server's thread is blocked in, inside a handler
  server,     \* CMscFileServer: the process and its sessions
  cc,         \* CUsbMscFileClassController
  shown,      \* KCoreAppUIsUSBFileTransfer
  bus,        \* state of the device on the bus
  host,       \* the host
  fault       \* how the process ended, NoFault while it runs

vars == << transport, control, notifier, scsi, image, ldd, thread, server, cc,
           shown, bus, host, fault >>
serverVars == << transport, control, notifier, scsi, image, thread, server, cc, shown >>

Cbw == [ valid : BOOLEAN, tag : 0..1, len : Nat, toHost : BOOLEAN, cmd : Command ]
OutData == [ NoCbw EXCEPT !.tag = 1 ]     \* not a command block wrapper

\* The host: phase, tag and length of its command, bytes of the command's own
\* that it got, stalls it has cleared, whether its last command failed and it has
\* not been told why, and whether it has sent something that is not a command since
\* the device was configured or reset.
Phases == { "Idle", "DataIn", "DataOut", "Status", "ClearIn", "Reset", "ResetClear" }
InitHost == [ phase |-> "Idle", tag |-> 0, len |-> 0, got |-> 0, stalls |-> 0,
              failed |-> FALSE, corrupt |-> FALSE ]
\* The host has nothing outstanding.
HostIdle(h) == [h EXCEPT !.phase = "Idle", !.len = 0, !.got = 0, !.stalls = 0]

Mem(in) == [ t |-> transport, c |-> control, n |-> notifier, scsi |-> scsi, image |-> image,
             ldd |-> ldd, thread |-> thread, server |-> server, cc |-> cc, shown |-> shown,
             bus |-> bus, fault |-> NoFault, ret |-> KErrNone, in |-> in ]
\* A handler that asks the outside nothing.
Unasked == Mem(<< >>)

Commit(m) ==
  /\ fault' = m.fault
  /\ IF m.fault # NoFault
       THEN UNCHANGED << serverVars, ldd, bus, host >>
       ELSE /\ transport' = m.t /\ control' = m.c /\ notifier' = m.n /\ scsi' = m.scsi
            /\ image' = m.image /\ ldd' = m.ldd /\ thread' = m.thread
            /\ server' = m.server /\ cc' = m.cc /\ shown' = m.shown /\ bus' = m.bus
            /\ UNCHANGED host

Init ==
  /\ transport = InitTransport /\ control = InitControl /\ notifier = InitNotifier
  /\ scsi = NoProtocol /\ image = [blocks |-> Blocks, iIsOpened |-> FALSE]
  /\ ldd = InitLdd /\ thread = "Free"
  /\ server = [process |-> "None", iSessionCount |-> 0]
  /\ cc = [iState |-> "EUsbServiceIdle", stopping |-> FALSE]
  /\ shown = FALSE /\ bus = "Unconfigured" /\ host = InitHost /\ fault = NoFault

Running == fault = NoFault

-----------------------------------------------------------------------------
\* The server's thread.  Messages of sessions come first (EPriorityHigh), then
\* the active objects in the order in which they were added.
ThreadFree == Running /\ server.process = "Running" /\ thread = "Free"
NoMessage  == ThreadFree /\ ~cc.stopping

RunControl == /\ NoMessage /\ Ready(control)
              /\ Commit(ControlRunL(Unasked))

RunNotifier == /\ NoMessage /\ ~Ready(control) /\ Ready(notifier)
               /\ Commit(NotifierRunL(Unasked))

RunTransport == /\ NoMessage /\ ~Ready(control) /\ ~Ready(notifier) /\ Ready(transport)
                /\ \E in \in Outside : Commit(TransportRunL(Mem(in)))

\* A blocked handler goes on when the host has cleared the endpoint, taken the
\* padding or sent its data; the waits on the driver also end with the
\* configuration, with an error nobody looks at.
ThreadUnblocked ==
  \/ thread \in {"Stalled", "StalledAfterData"} /\ ~ldd.stalled
  \/ thread = "Padding" /\ (ldd.in = NoPacket \/ bus = "Unconfigured")
  \/ thread = "Discarding" /\ (ldd.rx # << >> \/ bus = "Unconfigured")

ThreadResumes ==
  /\ Running /\ ThreadUnblocked
  /\ Commit(Resume(CASE thread = "Padding" -> [Unasked EXCEPT !.ldd.in = NoPacket]
                     [] thread = "Discarding" /\ ldd.rx # << >> ->
                          [Unasked EXCEPT !.ldd.rx = Tail(@)]
                     [] OTHER -> Unasked))

\* ... or, after ten seconds, without the endpoint being cleared.
StallGivesUp ==
  /\ Running /\ thread \in {"Stalled", "StalledAfterData"} /\ ldd.stalled
  /\ Commit(Resume(Unasked))

\* The thread ends: handles to the driver are closed and all objects are gone.
ServerEnds ==
  /\ Running /\ server.process = "Ending"
  /\ Commit([NewProcess(Unasked) EXCEPT !.ldd = InitLdd,
               !.server = [process |-> "None", iSessionCount |-> 0]])

-----------------------------------------------------------------------------
\* USB Manager starts and stops the class.  A message waits for a blocked thread, and
\* is served before anything else when it is not.
Start ==
  /\ Running /\ cc.iState = "EUsbServiceIdle" /\ thread = "Free"
  /\ \E in \in Outside, raced \in Races :
       /\ raced => bus = "Unconfigured"
       /\ Commit(ClassControllerStart(Mem(in), raced))

AskStop ==
  /\ Running /\ cc.iState = "EUsbServiceStarted" /\ ~cc.stopping /\ thread # "Free"
  /\ cc' = [cc EXCEPT !.stopping = TRUE]
  /\ UNCHANGED << transport, control, notifier, scsi, image, ldd, thread, server, shown,
                  bus, host, fault >>

Stop ==
  /\ ThreadFree /\ cc.iState = "EUsbServiceStarted"
  /\ LET m == ClassControllerStop(Unasked) IN
       /\ transport' = m.t /\ control' = m.c /\ notifier' = m.n /\ scsi' = m.scsi
       /\ image' = m.image /\ ldd' = m.ldd /\ thread' = m.thread /\ server' = m.server
       /\ cc' = m.cc /\ shown' = m.shown
  /\ host' = [HostIdle(host) EXCEPT !.failed = FALSE, !.corrupt = FALSE]
  /\ UNCHANGED << bus, fault >>

-----------------------------------------------------------------------------
\* The driver completes requests.

NotifierCompletes ==
  /\ Running /\ notifier.active /\ notifier.iStatus = Pending /\ ldd.states # << >>
  /\ notifier' = [notifier EXCEPT !.iStatus = KErrNone, !.iDeviceState = Head(ldd.states)]
  /\ ldd' = [ldd EXCEPT !.states = Tail(@)]
  /\ UNCHANGED << transport, control, scsi, image, thread, server, cc, shown, bus, host, fault >>

ReadCompletes ==
  /\ Running /\ transport.active /\ transport.iStatus = Pending /\ ldd.out /\ ldd.rx # << >>
  /\ transport' = [transport EXCEPT !.iStatus = KErrNone, !.iCbwBuf = Head(ldd.rx)]
  /\ ldd' = [ldd EXCEPT !.rx = Tail(@), !.out = FALSE]
  /\ UNCHANGED << control, notifier, scsi, image, thread, server, cc, shown, bus, host, fault >>

\* A request of the host is read, or the reply to it has been read; a reply to a
\* request that has gone ends when the next one arrives, which then is the one read.
Ep0Completes ==
  /\ Running /\ control.active /\ control.iStatus = Pending
  /\ \/ /\ control.iCurrentState = "EReadEp0Data" /\ ldd.ep0 \in Requests
        /\ control' = [control EXCEPT !.iStatus = KErrNone, !.iRequest = ldd.ep0]
        /\ UNCHANGED ldd
     \/ /\ control.iCurrentState = "ESendMaxLun"
        /\ control' = [control EXCEPT !.iStatus = KErrNone]
        /\ ldd' = [ldd EXCEPT !.ep0 = IF @ = "GetMaxLun" THEN "None" ELSE @]
  /\ UNCHANGED << transport, notifier, scsi, image, thread, server, cc, shown, bus, host, fault >>

-----------------------------------------------------------------------------
\* The host.
Reachable == Running /\ bus = "Configured" /\ ldd.open

HostSends ==
  /\ Reachable /\ host.phase = "Idle" /\ ldd.ep0 = "None" /\ Len(ldd.rx) < MaxRx
  /\ \E c \in Cbws :
       LET cbw == [valid |-> c.valid, tag |-> 1 - host.tag, len |-> c.len,
                   toHost |-> c.toHost, cmd |-> c.cmd]
       IN /\ ldd' = [ldd EXCEPT !.rx = Append(@, cbw)]
          /\ host' = [host EXCEPT !.tag = cbw.tag, !.len = c.len,
                        !.corrupt = @ \/ ~c.valid, !.failed = @ /\ c.cmd.op = "RequestSense",
                        !.phase = IF c.len = 0 THEN "Status"
                                  ELSE IF c.toHost THEN "DataIn" ELSE "DataOut"]
  /\ UNCHANGED << serverVars, bus, fault >>

HostSendsData ==
  /\ Reachable /\ host.phase = "DataOut" /\ Len(ldd.rx) < MaxRx
  /\ ldd' = [ldd EXCEPT !.rx = Append(@, OutData)]
  /\ host' = [host EXCEPT !.phase = "Status"]
  /\ UNCHANGED << serverVars, bus, fault >>

\* A write of the transport completes; the padding is taken by ThreadResumes.
WriteDone == IF thread = "Padding" THEN transport ELSE [transport EXCEPT !.iStatus = KErrNone]

\* The data of the command.
HostReadsData ==
  /\ Reachable /\ ~ldd.stalled /\ host.phase = "DataIn" /\ ldd.in.kind = "Data"
  /\ host' = [host EXCEPT !.phase = "Status",
                !.got = IF ldd.in.fresh THEN ldd.in.real ELSE 0,
                !.failed = @ /\ ldd.in.reports = "Data"]
  /\ transport' = WriteDone
  /\ ldd' = [ldd EXCEPT !.in = NoPacket]
  /\ UNCHANGED << control, notifier, scsi, image, thread, server, cc, shown, bus, fault >>

\* The status of the command.
HostReadsStatus ==
  /\ Reachable /\ ~ldd.stalled /\ host.phase = "Status" /\ ldd.in.kind = "CSW"
  /\ host' = [HostIdle(host) EXCEPT
                !.phase = IF ldd.in.status = "EPhaseError" THEN "Reset" ELSE "Idle",
                !.failed = @ \/ ldd.in.status = "ECommandFailed"]
  /\ transport' = WriteDone
  /\ ldd' = [ldd EXCEPT !.in = NoPacket,
                        !.ep0 = IF ldd.in.status = "EPhaseError" THEN "Reset" ELSE @]
  /\ UNCHANGED << control, notifier, scsi, image, thread, server, cc, shown, bus, fault >>

HostSeesStall ==
  /\ Reachable /\ ldd.stalled /\ host.phase \in {"DataIn", "Status"}
  /\ host' = [(IF host.phase = "Status" /\ host.stalls = 1 THEN HostIdle(host) ELSE host) EXCEPT
                !.stalls = 1 - @, !.phase = IF host.phase = "Status" /\ host.stalls = 1 THEN "Reset" ELSE "ClearIn"]
  /\ ldd' = [ldd EXCEPT !.ep0 = IF host'.phase = "Reset" THEN "Reset" ELSE @]
  /\ UNCHANGED << serverVars, bus, fault >>

HostClears ==
  /\ Reachable /\ host.phase \in {"ClearIn", "ResetClear"}
  /\ ldd' = [ldd EXCEPT !.stalled = FALSE]
  /\ host' = [host EXCEPT !.phase = IF @ = "ClearIn" THEN "Status" ELSE "Idle"]
  /\ UNCHANGED << serverVars, bus, fault >>

\* A host that has waited long enough, or that has received a packet it did not
\* expect, starts a recovery; it may still have data to send.
HostResets ==
  /\ Reachable /\ host.phase \in {"DataIn", "DataOut", "Status"}
  /\ host' = [HostIdle(host) EXCEPT !.phase = "Reset"]
  /\ ldd' = [ldd EXCEPT !.ep0 = "Reset"]
  /\ UNCHANGED << serverVars, bus, fault >>

\* The reset is answered: a request on endpoint 0 ends any earlier one.
HostResetAnswered ==
  /\ Reachable /\ host.phase = "Reset" /\ ldd.ep0 = "Answered"
  /\ host' = [host EXCEPT !.phase = "ResetClear", !.failed = FALSE, !.corrupt = FALSE]
  /\ ldd' = [ldd EXCEPT !.ep0 = "None"]
  /\ UNCHANGED << serverVars, bus, fault >>

\* Another request on endpoint 0, between commands, and the end of one without an
\* answer, or that nobody reads.
HostAsks ==
  /\ Reachable /\ host.phase = "Idle"
  /\ \/ ldd.ep0 = "None" /\ \E r \in Ep0Requests : ldd' = [ldd EXCEPT !.ep0 = r]
     \/ /\ ldd.ep0 = "Ignored" \/ (ldd.ep0 # "None" /\ ~control.active)
        /\ ldd' = [ldd EXCEPT !.ep0 = "None"]
  /\ UNCHANGED << serverVars, bus, host, fault >>

-----------------------------------------------------------------------------
\* The server has done what it can and knows the state of the device: it takes less
\* time than a host needs to configure, suspend or resume a device.
Served == /\ thread = "Free" /\ ~Ready(control) /\ ~Ready(notifier) /\ ~Ready(transport)
          /\ ldd.states = << >>

\* The bus.  A configuration that is lost takes with it what was on its way, and
\* ends the requests on the endpoints with an error.
BusNext(st) ==
  CASE st = "Unconfigured" -> {"Configured"}
    [] st = "Configured" -> {"Unconfigured", "Suspended"}
    [] st = "Suspended" -> {"Unconfigured", "Configured"}

Fails(ao) == [ao EXCEPT !.iStatus = IF ao.active /\ @ = Pending THEN KErrGeneral ELSE @]

Told(st) == IF ldd.open THEN Append(ldd.states, st) ELSE << >>

BusGoesTo(st) ==
  /\ st # "Unconfigured" => Served
  /\ Running /\ st \in BusNext(bus) /\ Len(ldd.states) < MaxStates
  /\ bus' = st
  /\ IF st = "Unconfigured"
       THEN /\ transport' = Fails(transport) /\ control' = Fails(control)
            /\ ldd' = [ldd EXCEPT !.in = NoPacket, !.out = FALSE, !.stalled = FALSE,
                         !.rx = << >>, !.ep0 = "None", !.states = Told(st)]
            /\ host' = [HostIdle(host) EXCEPT !.failed = FALSE, !.corrupt = FALSE]
       ELSE /\ st = "Suspended" => host.phase = "Idle" /\ ldd.ep0 = "None"
            /\ ldd' = [ldd EXCEPT !.states = Told(st)]
            /\ UNCHANGED << transport, control, host >>
  /\ UNCHANGED << notifier, scsi, image, thread, server, cc, shown, fault >>

BusChanges == \E st \in BusStates : BusGoesTo(st)

\* A server that waits for the host to send data or to take padding does not answer
\* the reset: the host resets the port.
HostResetsPort ==
  host.phase = "Reset" /\ thread \in {"Discarding", "Padding"} /\ BusGoesTo("Unconfigured")

\* SET_INTERFACE chooses the only setting again.
AlternateSetting ==
  /\ Reachable /\ host.phase = "Idle" /\ Len(ldd.states) < MaxStates
  /\ ldd' = [ldd EXCEPT !.states = Append(@, "AlternateSetting")]
  /\ UNCHANGED << serverVars, bus, host, fault >>

-----------------------------------------------------------------------------
Scheduler == RunControl \/ RunNotifier \/ RunTransport \/ ThreadResumes
Driver == NotifierCompletes \/ ReadCompletes \/ Ep0Completes
HostSteps == \/ HostSendsData \/ HostReadsData \/ HostReadsStatus \/ HostSeesStall
             \/ HostClears \/ HostResetAnswered

Next == \/ Scheduler \/ Driver \/ HostSteps
        \/ StallGivesUp \/ ServerEnds \/ Start \/ AskStop \/ Stop
        \/ HostSends \/ HostResets \/ HostAsks \/ BusChanges \/ AlternateSetting

Spec == Init /\ [][Next]_vars

\* What goes on by itself: the scheduler runs ready objects, the driver completes
\* what it can, User::After ends, a message is served, and the host goes on with a
\* command and a recovery it has begun.  It owes no command, and no cable or USB
\* Manager owes anything.
Progress == \/ Scheduler \/ Driver \/ HostSteps \/ HostResetsPort \/ StallGivesUp
            \/ cc.stopping /\ Stop

ServerCan ==
  \/ /\ ThreadFree
     /\ cc.stopping \/ Ready(control) \/ Ready(notifier) \/ Ready(transport)
  \/ ThreadUnblocked \/ thread \in {"Stalled", "StalledAfterData"}
DriverCan == \/ notifier.active /\ notifier.iStatus = Pending /\ ldd.states # << >>
             \/ transport.active /\ transport.iStatus = Pending /\ ldd.out /\ ldd.rx # << >>
             \/ /\ control.active /\ control.iStatus = Pending
                /\ control.iCurrentState = "ESendMaxLun" \/ ldd.ep0 \in Requests
HostCan ==
  \/ /\ Reachable
     /\ \/ host.phase = "DataOut" /\ Len(ldd.rx) < MaxRx
        \/ host.phase \in {"DataIn", "Status"} /\ ldd.stalled
        \/ host.phase = "DataIn" /\ ldd.in.kind = "Data"
        \/ host.phase = "Status" /\ ldd.in.kind = "CSW"
        \/ host.phase \in {"ClearIn", "ResetClear"}
        \/ host.phase = "Reset" /\ ldd.ep0 = "Answered"
  \/ /\ host.phase = "Reset" /\ thread \in {"Discarding", "Padding"}
     /\ Len(ldd.states) < MaxStates

\* WF_vars(Progress), with its ENABLED written out: no step of Progress is owed by
\* itself, only that they do not all stop.
Fairness == []<><<Progress>>_vars \/ []<>~(Running /\ (ServerCan \/ DriverCan \/ HostCan))

FairSpec == Spec /\ Fairness

=============================================================================
