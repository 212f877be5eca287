----------------------------- MODULE OtgWatcher -----------------------------
(***************************************************************************)
(* usbotgwatcher: CUsbOtgWatcher with its host states, CUsbServiceControl, *)
(* timers, notes and the observers of the ID pin, VBus, the OTG state, the *)
(* host events and the messages, under one active scheduler; and outside   *)
(* it USB Manager, the OTG stack, the cable, the device and the user.      *)
(*                                                                         *)
(* One action per RunL, each the whole handler.  The outside acts between  *)
(* any two of them.  What is left of its whims is counted in left.         *)
(***************************************************************************)
EXTENDS OtgServiceControl

CONSTANTS
  Outside,        \* answers a handler may get
  Attachments,    \* what a device may be reported as
  LoadResults,    \* how the loading of its drivers may end
  MessageKinds,   \* messages of the OTG stack
  StartResults, StopResults, FailedStates,   \* what USB Manager ends its changes with
  MaxPlugs, MaxTroubles,                     \* bounds: cables plugged in, whims
  Races           \* which of the races below may happen

AllRaces == { "UnplugOvertakes", "UserOvertakesVBus", "ChangeEndsInHandler",
              "ObserverFails", "OtherClient" }
AllMessages == { "BadHubPosition", "VBusError", "SrpReceived", "RequestSession",
                 "BadDeviceAttached", "BadDeviceDetached", "ConnectionProblem",
                 "UnsupportedDevice" }
AllLoadResults == { "Success", "Partial", "PartialDetached", "Failure" }
AttachErrors == { "None", "DetachedDuringDriverLoading", "BadPower", "Unsupported" }
Answers == [ driverLoading : {KErrNone, KErrGeneral}, busFailures : 0..MaxTrial,
             clear : {KErrNone, KErrGeneral}, queries : 0..6 ]

ASSUME OtgAssumption ==
  /\ Outside \subseteq Answers /\ Outside # {}
  /\ Attachments \subseteq [error : AttachErrors, otg : BOOLEAN]
  /\ LoadResults \subseteq AllLoadResults
  /\ MessageKinds \subseteq AllMessages /\ None \notin AllMessages
  /\ StartResults \subseteq Results /\ StopResults \subseteq Results
  /\ FailedStates \subseteq {"Idle", "FatalError"}
  /\ MaxPlugs \in Nat /\ MaxTroubles \in Nat
  /\ Races \subseteq AllRaces

VARIABLES
  host,        \* iHostState and the members of the host states
  notes,       \* CUsbNotifManager
  connecting,  \* CUsbIndicatorNotifier: iConnectingIndicatorOn
  published,   \* P&S KUsbWatcherIsPeripheralConnected
  ctl,         \* CUsbServiceControl
  asked,       \* what the watcher has last asked of it
  panic,       \* the panic that ended the process
  obs,         \* the observers' requests
  service,     \* USB Manager
  bus,         \* VBus
  idPin,       \* P&S ID pin: TRUE when the A-plug is in
  otg,         \* P&S OTG state
  dev,         \* the device at the other end
  events,      \* host events USB Manager has not delivered
  message,     \* the message it has not delivered
  left         \* [plugs, troubles] still to come

watcherVars == << host, notes, connecting, published, ctl, asked, panic, service, bus >>
outsideVars == << idPin, otg, dev, events, message, left >>
vars == << watcherVars, obs, outsideVars >>

Observers == { "IdPin", "VBus", "OtgState", "HostEvent", "Message" }
OtgStates == { "AIdle", "AHost", "APeripheral", "AVbusError", "BIdle" }
\* Rejected: its attachment was reported with an error, so its detachment is not.
\* Bad: one the OTG stack sees before there is VBus, and reports in messages.
Devices == { "None", "Bad", "Rejected", "Loading", "Loaded" }
Event(kind, what) == [kind |-> kind, what |-> what]
Events == { Event("Attachment", e) : e \in Attachments }
          \cup { Event("DriverLoad", r) : r \in LoadResults } \cup { Event("Detachment", None) }

Mem(in) == [ host |-> host, notes |-> notes, connecting |-> connecting,
             published |-> published, ctl |-> ctl, asked |-> asked, panic |-> NoFault,
             service |-> service, bus |-> bus, idPin |-> idPin, in |-> in ]

\* The memory a handler ends with; a panic ends the process where it stood.
Commit(m) ==
  /\ panic' = m.panic
  /\ IF m.panic # NoFault
       THEN UNCHANGED << host, notes, connecting, published, ctl, asked, service, bus >>
       ELSE /\ host' = m.host /\ notes' = m.notes /\ connecting' = m.connecting
            /\ published' = m.published /\ ctl' = m.ctl /\ asked' = m.asked
            /\ service' = m.service /\ bus' = m.bus

Running == panic = NoFault

-----------------------------------------------------------------------------
\* ConstructL: the session of a plug that is in already is started there.
Constructed(in, pin) ==
  [ host |-> InitHost, notes |-> [warning |-> "Hidden", error |-> "Hidden"],
    connecting |-> FALSE, published |-> FALSE, ctl |-> InitControl, asked |-> "None",
    panic |-> NoFault, service |-> [state |-> "Idle", id |-> None],
    bus |-> [up |-> FALSE, wanted |-> FALSE], idPin |-> pin, in |-> in ]

Init ==
  /\ idPin \in BOOLEAN
  /\ \E in \in Outside :
       LET new == Constructed(in, idPin)
           m   == IF idPin THEN StartSession(new) ELSE new
       IN /\ host = m.host /\ notes = m.notes /\ connecting = m.connecting
          /\ published = m.published /\ ctl = m.ctl /\ asked = m.asked
          /\ panic = m.panic /\ service = m.service /\ bus = m.bus
  /\ obs = [o \in Observers |-> "Waiting"]
  /\ otg = IF idPin THEN "AIdle" ELSE "BIdle"
  /\ dev = "None" /\ events = << >> /\ message = None
  /\ left = [plugs |-> MaxPlugs, troubles |-> MaxTroubles]

-----------------------------------------------------------------------------
\* The active scheduler: all objects have the same priority, and the first ready
\* one in the order of CActiveScheduler::Add runs.  Notes come and go: they are last.
Order == << "ServiceControl", "Attachment", "DriversNotFound", "TooMuchPower",
            "IdPin", "VBus", "OtgState", "HostEvent", "Message", "Note" >>

IsReady(o) ==
  \/ o = "ServiceControl" /\ Ready(ctl)
  \/ o \in host.elapsed
  \/ o \in Observers /\ obs[o] \in {"Ready", "Failed"}
  \/ o = "HostEvent" /\ obs[o] = "Waiting" /\ events # << >>
  \/ o = "Message" /\ obs[o] = "Waiting" /\ message # None
  \/ o = "Note" /\ "Closed" \in {notes.warning, notes.error}

Turn(o) == /\ Running /\ IsReady(o)
           /\ \A i, j \in DOMAIN Order : Order[i] = o /\ j < i => ~IsReady(Order[j])

\* An observer subscribes again before it calls anybody, but not after an error.
Failed(o) == obs[o] = "Failed"
Resubscribe(o) == obs' = [obs EXCEPT ![o] = IF @ = "Failed" THEN "Deaf" ELSE "Waiting"]

\* USB Manager ends the change it is making.
Complete(m, what, result) ==
  IF ~m.ctl.active \/ m.ctl.iStatus # Pending THEN m
  ELSE CASE m.ctl.waits = what -> [m EXCEPT !.ctl.iStatus = result]
         [] m.ctl.waits = "StateNotification" -> [m EXCEPT !.ctl.iStatus = KErrNone]
         [] OTHER -> m

Changed(m, st) ==
  [m EXCEPT !.service = [state |-> st, id |-> IF st = "Started" THEN @.id ELSE None]]

ChangeEnded(m) ==
  CASE m.service.state = "Starting" ->
         {Complete(Changed(m, "Started"), "TryStart", KErrNone)}
         \cup { Complete(Changed(m, st), "TryStart", r) :
                  st \in FailedStates, r \in StartResults \ {KErrNone} }
    [] m.service.state = "Stopping" ->
         { Complete(Changed(m, IF r = KErrNone THEN "Idle" ELSE "Started"), "TryStop", r) :
             r \in StopResults }
    [] OTHER -> {}

\* The memory RunL of the ID pin observer finds: a change may end under its hands.
AtIdPin(in) ==
  {Mem(in)} \cup (IF "ChangeEndsInHandler" \in Races THEN ChangeEnded(Mem(in)) ELSE {})

RunServiceControl ==
  /\ Turn("ServiceControl")
  /\ \E in \in Outside : Commit(ServiceControlRunL(Mem(in)))
  /\ UNCHANGED << obs, outsideVars >>

RunTimer(t) ==
  /\ Turn(t)
  /\ \E in \in Outside : Commit(TimerElapsed(Mem(in), t))
  /\ UNCHANGED << obs, outsideVars >>

RunIdPin ==
  /\ Turn("IdPin")
  /\ \E in \in Outside : \E m \in AtIdPin(in) :
       Commit(CASE Failed("IdPin")           -> HandleDropping(m, "IdPinError")
                [] ~Failed("IdPin") /\ idPin -> IdPinOn(m)
                [] OTHER                     -> IdPinOff(m))
  /\ Resubscribe("IdPin") /\ UNCHANGED outsideVars

\* The indicator has subscribed to VBus before the watcher has.
RunVBus ==
  /\ Turn("VBus")
  /\ \E in \in Outside :
       LET m == Mem(in) IN
       Commit(CASE Failed("VBus")            -> HandleDropping(m, "VBusObserverError")
                [] ~Failed("VBus") /\ bus.up -> VBusUp(SetIndicator(m))
                [] OTHER                     -> VBusDown(SetIndicator(m)))
  /\ Resubscribe("VBus") /\ UNCHANGED outsideVars

RunOtgState ==
  /\ Turn("OtgState")
  /\ \E in \in Outside :
       LET m == Mem(in) IN
       Commit(IF Failed("OtgState") THEN HandleDropping(m, "OtgStateError")
              ELSE CASE otg = "AIdle"       -> AIdle(m)
                     [] otg = "AHost"       -> AHost(m)
                     [] otg = "APeripheral" -> ToPeripheral(m)
                     [] otg = "AVbusError"  -> AVBusError(m)
                     [] otg = "BIdle"       -> BDevice(m))
  /\ Resubscribe("OtgState") /\ UNCHANGED outsideVars

RunHostEvent ==
  /\ Turn("HostEvent")
  /\ \E in \in Outside :
       LET m == Mem(in)
           e == Head(events)
       IN Commit(IF Failed("HostEvent") THEN HandleDropping(m, "HostEventNotificationError")
                 ELSE CASE e.kind = "Attachment" -> DeviceAttached(m, e.what)
                        [] e.kind = "Detachment" -> DeviceDetached(m)
                        [] e.kind = "DriverLoad" -> DriverLoad(m, e.what))
  /\ events' = IF Failed("HostEvent") THEN events ELSE Tail(events)
  /\ Resubscribe("HostEvent") /\ UNCHANGED << idPin, otg, dev, message, left >>

RunMessage ==
  /\ Turn("Message")
  /\ \E in \in Outside :
       LET m == Mem(in) IN
       Commit(IF Failed("Message") THEN HandleDropping(m, "MessageNotificationError")
              ELSE CASE message = "BadHubPosition" -> BadHubPosition(m)
                     [] message = "VBusError"      -> AVBusError(m)
                     [] message = "SrpReceived"    -> SrpReceived(m)
                     [] message = "RequestSession" -> SessionRequested(m)
                     [] OTHER                      -> MessageReceived(m, message))
  /\ message' = IF Failed("Message") THEN message ELSE None
  /\ Resubscribe("Message") /\ UNCHANGED << idPin, otg, dev, events, left >>

\* CNotifierActive::RunL: the note is gone, and a waited note's observer is told.
RunNote ==
  /\ Turn("Note")
  /\ \E in \in Outside :
       LET m == Mem(in) IN
       Commit(IF notes.error = "Closed"
                THEN WaitNotifierCompleted([m EXCEPT !.notes.error = "Hidden"])
                ELSE [m EXCEPT !.notes.warning = "Hidden"])
  /\ UNCHANGED << obs, outsideVars >>

=============================================================================
