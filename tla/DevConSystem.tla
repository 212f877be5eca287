---------------------------- MODULE DevConSystem ----------------------------
(***************************************************************************)
(* usbdevcon with the starter of the usbwatcher process that keeps it      *)
(* running (DevConStarter), the driver, the bus, the host and the service  *)
(* of usbwatcher that the host's choice of a personality ends at.          *)
(***************************************************************************)
EXTENDS DevCon, DevConStarter, Sequences, Naturals

CONSTANTS
  Requests,     \* what the host sends: [name, id, plain, length, toHost]
  SetAnswers,   \* answers of the watcher to SetPersonality
  MaxStates,    \* device states waiting for the state watcher
  Alternates    \* may the host choose an alternate setting?

Request == [ name : {"GetAllPersonalities", "GetLastResult", "SetPersonality", "Other"},
             id : HostIds, plain : BOOLEAN, length : BOOLEAN, toHost : BOOLEAN ]

ASSUME DevConAssumption ==
  /\ Requests \subseteq Request /\ SetAnswers \subseteq Codes \cup {KErrNotSupported}
  /\ MaxStates \in Nat \ {0} /\ Alternates \in BOOLEAN

VARIABLES
  process,   \* the usbdevcon process: "None", "Created" or "Up"
  devcon,    \* its objects
  starter,   \* CUsbDevConStarter, in the usbwatcher process
  cable,     \* the cable as the usbwatcher process knows it
  bus,       \* state of the device
  states,    \* device states the driver has for the state watcher
  host,      \* what the host asks, and the choice it made
  running,   \* the personality the watcher runs
  fault      \* how usbwatcher ended, NoFault while it runs

vars == << process, devcon, starter, cable, bus, states, host, running, fault >>

BusStates == { "Undefined", "Attached", "Powered", "Default", "Address", "Configured",
               "Suspended" }
BusNext == [ Undefined |-> {"Attached", "Powered"}, Attached |-> {"Powered"},
             Powered |-> {"Default"}, Default |-> {"Address"},
             Address |-> {"Configured", "Default"},
             Configured |-> {"Default", "Suspended"}, Suspended |-> {"Configured"} ]

\* NoRequest, or the request the host waits for the end of; asked is the personality
\* that it chose and was not refused, while it has asked only for the result since.
InitHost == [request |-> NoRequest, pending |-> FALSE, asked |-> "none"]

Memory(current) ==
  [d |-> devcon, err |-> KErrNone, answer |-> "None", in |-> [current |-> current]]

\* The host after an answer.
Answered(answer) ==
  LET r == host.request IN
  IF answer = "None" \/ r = NoRequest THEN host
  ELSE [ request |-> NoRequest, pending |-> FALSE,
         asked |-> IF r.name = "SetPersonality" /\ answer = "Status" THEN Mapping[r.id]
                   ELSE host.asked ]

Becomes(m) == devcon' = m.d /\ host' = Answered(m.answer)
Up == process = "Up" /\ fault = NoFault
Outside == << process, starter, cable, bus, running, fault >>

Init ==
  /\ process = "None" /\ devcon = InitDevCon /\ starter = InitStarter
  /\ cable = FALSE /\ bus = "Undefined" /\ states = <<>> /\ host = InitHost
  /\ running \in DeviceIds /\ fault = NoFault

-----------------------------------------------------------------------------
\* The process.

RunStateWatcher ==
  /\ Up /\ devcon.watching /\ states # <<>>
  /\ IF Head(states) = "Alternate"
       THEN devcon' = [devcon EXCEPT !.watching = FALSE] /\ UNCHANGED host
       ELSE Becomes(ActAccordinglyToUsbState(Memory(KErrNone), Head(states)))
  /\ states' = Tail(states)
  /\ UNCHANGED Outside

RunReader ==
  /\ Up /\ Ready(devcon.reader)
  /\ \E current \in {KErrNone, KErrGeneral} :
       Becomes(ReadEP0(Memory(current), devcon.packet))
  /\ UNCHANGED << Outside, states >>

RunWriter ==
  /\ Up /\ Ready(devcon.writer)
  /\ Becomes(WroteEP0(Memory(KErrNone)))
  /\ UNCHANGED << Outside, states >>

RunSetPersonality ==
  /\ Up /\ Ready(devcon.remote)
  /\ devcon' = [devcon EXCEPT !.remote = SetPersonalityRunL([remote |-> @]).remote]
  /\ UNCHANGED << Outside, states, host >>

\* CUsbDevCon::RunL, below the priority of the others: with KErrNone the process ends,
\* with its requests cancelled and its handle to the driver closed.
RunTimer ==
  /\ Up /\ Ready(devcon.timer)
  /\ ~Ready(devcon.reader) /\ ~Ready(devcon.writer)
  /\ ~(devcon.watching /\ states # <<>>)
  /\ IF devcon.timer.iStatus = KErrNone
       THEN /\ process' = "None" /\ devcon' = InitDevCon /\ states' = <<>>
            /\ starter' = [starter EXCEPT !.iStatus = KErrNone]
       ELSE /\ devcon' = [devcon EXCEPT !.timer.active = FALSE]
            /\ UNCHANGED << process, states, starter >>
  /\ UNCHANGED << cable, bus, host, running, fault >>

\* E32Main: the process comes up, looks at the bus and tells the starter.
ProcessStarts ==
  /\ process = "Created" /\ process' = "Up"
  /\ Becomes(Construct(Memory(KErrNone), bus))
  /\ starter' = [starter EXCEPT !.iStatus = KErrNone]
  /\ states' = <<>>
  /\ UNCHANGED << cable, bus, running, fault >>

-----------------------------------------------------------------------------
\* The starter.

StarterBecomes(m) ==
  /\ starter' = m.starter /\ fault' = m.fault
  /\ process' = IF m.starter.iState = "WaitingRendezvous" /\ starter.iState # "WaitingRendezvous"
                  THEN "Created" ELSE process

StarterMemory == [ starter |-> starter, fault |-> fault, in |-> [process |-> KErrNone] ]

\* CUsbWatcher::StateChangeNotifyL, of a cable connected or disconnected.
CableReported ==
  /\ fault = NoFault /\ cable # (bus # "Undefined") /\ cable' = (bus # "Undefined")
  /\ StarterBecomes(IF cable' THEN StarterStart(StarterMemory) ELSE StopRestarting(StarterMemory))
  /\ UNCHANGED << devcon, bus, states, host, running >>

\* The logon to a process that has ended completes at once.
RunStarter ==
  /\ fault = NoFault /\ Ready(starter)
  /\ LET m == StarterRunL(StarterMemory) IN
       StarterBecomes(IF m.starter.iState = "Running" /\ process = "None"
                        THEN [m EXCEPT !.starter.iStatus = KErrNone] ELSE m)
  /\ UNCHANGED << devcon, cable, bus, states, host, running >>

-----------------------------------------------------------------------------
\* The driver, the bus, the host and the watcher.

\* Every new state is for the state watcher of a process that is up, while it listens;
\* the requests of the host end, and those of the process on endpoint 0 with an error.
BusGoesTo(s) ==
  /\ bus' = s
  /\ states' = IF Up /\ devcon.watching THEN Append(states, s) ELSE states
  /\ host' = [host EXCEPT !.request = NoRequest, !.pending = FALSE]
  /\ devcon' = [devcon EXCEPT
       !.reader.iStatus = IF devcon.reader = Waits /\ devcon.machine = "Data" THEN KErrGeneral ELSE @,
       !.writer.iStatus = IF devcon.writer = Waits THEN KErrGeneral ELSE @]
  /\ UNCHANGED << process, starter, cable, running, fault >>

BusChanges ==
  /\ Len(states) < MaxStates
  /\ \E s \in BusNext[bus] \cup {"Undefined"} : s # bus /\ BusGoesTo(s)

AlternateSetting ==
  /\ Alternates /\ Up /\ devcon.watching /\ bus = "Configured" /\ Len(states) < MaxStates
  /\ states' = Append(states, "Alternate")
  /\ UNCHANGED << Outside, devcon, host >>

\* The process is done with what it was told before the host asks for something: a host
\* resets and resumes a device, and gives it time to recover, slower than that.
Settled == states = <<>> /\ ~Ready(devcon.timer) /\ ~Ready(devcon.reader) /\ ~Ready(devcon.writer)

HostAsks ==
  /\ bus \in {"Address", "Configured"} /\ host.request = NoRequest /\ Settled
  /\ \E r \in Requests :
       host' = [request |-> r, pending |-> TRUE,
                asked |-> IF r.name = "GetLastResult" THEN host.asked ELSE "none"]
  /\ UNCHANGED << Outside, devcon, states >>

\* The setup packet, for the process that has device control; nobody else answers it.
\* What is left of an earlier request that the bus has ended fails first.
SetupArrives ==
  /\ host.pending
  /\ \/ /\ devcon.control /\ devcon.machine = "Setup" /\ devcon.reader = Waits
        /\ devcon' = [devcon EXCEPT !.reader.iStatus = KErrNone, !.packet = host.request]
        /\ host' = [host EXCEPT !.pending = FALSE]
     \/ /\ devcon.machine = "Data" /\ devcon.reader = Waits
        /\ devcon' = [devcon EXCEPT !.reader.iStatus = KErrGeneral]
        /\ UNCHANGED host
     \/ /\ devcon.writer = Waits
        /\ devcon' = [devcon EXCEPT !.writer.iStatus = KErrGeneral]
        /\ UNCHANGED host
     \/ /\ ~devcon.control
        /\ host' = Answered("Stall")
        /\ UNCHANGED devcon
  /\ UNCHANGED << Outside, states >>

\* The data the request announced, and the answer that the process writes.
DataArrives ==
  /\ host.request # NoRequest /\ ~host.pending
  /\ devcon.machine = "Data" /\ devcon.reader = Waits
  /\ devcon' = [devcon EXCEPT !.reader.iStatus = KErrNone]
  /\ UNCHANGED << Outside, states, host >>

DataIsRead ==
  /\ host.request # NoRequest /\ ~host.pending /\ devcon.writer = Waits
  /\ devcon' = [devcon EXCEPT !.writer.iStatus = KErrNone]
  /\ host' = Answered("Data")
  /\ UNCHANGED << Outside, states >>

\* The watcher answers every SetPersonality (RequestsAnswered of UsbWatcherProperties).
WatcherAnswers ==
  /\ devcon.remote.active /\ devcon.remote.iStatus = Pending
  /\ \E code \in SetAnswers :
       /\ devcon' = [devcon EXCEPT !.remote.iStatus = code]
       /\ running' = IF code = KErrNone THEN devcon.remote.id ELSE running
  /\ UNCHANGED << process, starter, cable, bus, states, host, fault >>

TimerExpires ==
  /\ devcon.timer = Waits
  /\ devcon' = [devcon EXCEPT !.timer.iStatus = KErrNone]
  /\ UNCHANGED << Outside, states, host >>

-----------------------------------------------------------------------------
Transfers == SetupArrives \/ DataArrives \/ DataIsRead
Others == CableReported \/ RunStarter

Next == \/ RunStateWatcher \/ RunReader \/ RunWriter \/ RunSetPersonality \/ RunTimer
        \/ ProcessStarts \/ Others \/ Transfers \/ BusChanges \/ AlternateSetting
        \/ HostAsks \/ WatcherAnswers \/ TimerExpires

Spec == Init /\ [][Next]_vars

\* Each active object of the two processes runs when it is ready (the bus and the host
\* are slower than the schedulers), and the driver and the watcher answer.
FairSpec == Spec /\ WF_vars(RunStateWatcher \/ ProcessStarts) /\ WF_vars(RunReader \/ RunWriter)
                 /\ WF_vars(RunSetPersonality) /\ WF_vars(RunTimer) /\ WF_vars(Others)
                 /\ WF_vars(Transfers) /\ WF_vars(WatcherAnswers)

=============================================================================
