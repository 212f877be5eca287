----------------------------- MODULE OtgSystem ------------------------------
(***************************************************************************)
(* What usbotgwatcher does not control: USB Manager, the OTG stack, the    *)
(* cable, the device and the user; and the whole system.                   *)
(***************************************************************************)
EXTENDS OtgWatcher

Alerted(o) == [obs EXCEPT ![o] = IF @ = "Waiting" THEN "Ready" ELSE @]
\* Cables, devices and roles come slowly: the watcher has done all it had to do.
Quiet == \A i \in DOMAIN Order : ~IsReady(Order[i])
Whim == left.troubles > 0 /\ left' = [left EXCEPT !.troubles = @ - 1]

unchangedHost == << host, notes, connecting, published, asked, panic >>

-----------------------------------------------------------------------------
\* USB Manager ends the change it is making, and tells the one who waits.
ServiceChanges ==
  /\ Running
  /\ \E in \in Outside : \E m \in ChangeEnded(Mem(in)) : service' = m.service /\ ctl' = m.ctl
  /\ UNCHANGED << unchangedHost, bus, obs, outsideVars >>

\* Another client starts the service with its personality, or stops it.
OtherClient ==
  /\ Running /\ "OtherClient" \in Races /\ service.state \in {"Idle", "Started"}
  /\ \E in \in Outside :
       LET m == Mem(in)
           new == IF m.service.state = "Started" THEN [m.service EXCEPT !.state = "Stopping"]
                  ELSE [state |-> "Starting", id |-> OtherPersonality]
       IN service' = new /\ ctl' = Complete(m, "StateNotification", KErrNone).ctl
  /\ Whim
  /\ UNCHANGED << unchangedHost, bus, obs, idPin, otg, dev, events, message >>

-----------------------------------------------------------------------------
\* The cable.  The next plug comes when the last session is over and done with.
PlugIn ==
  /\ Running /\ ~idPin /\ left.plugs > 0
  /\ ~bus.up /\ dev = "None" /\ events = << >> /\ otg = "BIdle"
  /\ Quiet
  /\ idPin' = TRUE /\ obs' = Alerted("IdPin")
  /\ left' = [left EXCEPT !.plugs = @ - 1]
  /\ UNCHANGED << watcherVars, otg, dev, events, message >>

\* The OTG stack ends the session of a cable that is pulled out.
PlugOut ==
  /\ Running /\ idPin
  /\ \/ message = None /\ obs["OtgState"] # "Ready"
     \/ "UnplugOvertakes" \in Races
  /\ idPin' = FALSE /\ obs' = Alerted("IdPin")
  /\ bus' = [bus EXCEPT !.wanted = FALSE]
  /\ UNCHANGED << unchangedHost, ctl, service, otg, dev, events, message, left >>

\* VBus rises for a session that was asked for, when the last one is over.
VBusRises ==
  /\ Running /\ ~bus.up /\ bus.wanted /\ idPin /\ dev = "None" /\ events = << >>
  /\ bus' = [bus EXCEPT !.up = TRUE] /\ obs' = Alerted("VBus")
  /\ UNCHANGED << unchangedHost, ctl, service, outsideVars >>

VBusFalls ==
  /\ Running /\ bus.up /\ ~bus.wanted
  /\ bus' = [bus EXCEPT !.up = FALSE] /\ obs' = Alerted("VBus")
  /\ UNCHANGED << unchangedHost, ctl, service, outsideVars >>

-----------------------------------------------------------------------------
\* The device, whose attachment is reported when its drivers are about to load.
DeviceAttaches(e) ==
  /\ Running /\ Quiet /\ bus.up /\ idPin /\ dev = "None" /\ events = << >>
  /\ otg \in {"AIdle", "AHost"}
  /\ events' = << Event("Attachment", e) >>
  /\ dev' = CASE e.error = "None" -> "Loading"
              [] e.error = "DetachedDuringDriverLoading" -> "None"
              [] OTHER -> "Rejected"
  /\ UNCHANGED << watcherVars, obs, idPin, otg, message, left >>

DriversLoaded(result) ==
  /\ Running /\ dev = "Loading"
  /\ events' = Append(events, Event("DriverLoad", result)) /\ dev' = "Loaded"
  /\ UNCHANGED << watcherVars, obs, idPin, otg, message, left >>

\* It is pulled, or its VBus is gone.
DeviceDetaches ==
  /\ Running /\ dev # "None" /\ (dev = "Bad" => ~idPin)
  /\ events' = IF dev \in {"Rejected", "Bad"} THEN events ELSE Append(events, Event("Detachment", None))
  /\ dev' = "None"
  /\ UNCHANGED << watcherVars, obs, idPin, otg, message, left >>

-----------------------------------------------------------------------------
\* The OTG stack publishes the state that follows from the cable and the device;
\* roles it hands over (HNP) and errors last until VBus is down.
Role == IF ~idPin THEN "BIdle" ELSE IF dev \in {"None", "Bad"} THEN "AIdle" ELSE "AHost"

Publish(st) == /\ otg' = st /\ obs' = Alerted("OtgState")
               /\ UNCHANGED << unchangedHost, ctl, service, idPin, dev, events, message >>

OtgFollows ==
  /\ Running /\ otg # Role /\ (otg \notin {"APeripheral", "AVbusError"} \/ ~bus.up)
  /\ Publish(Role) /\ UNCHANGED << bus, left >>

HandsOver ==
  /\ Running /\ Quiet /\ bus.up /\ bus.wanted /\ idPin /\ dev = "None" /\ events = << >>
  /\ otg \in {"AIdle", "AHost"}
  /\ Publish("APeripheral") /\ Whim /\ UNCHANGED bus

TakesBack ==
  /\ Running /\ otg = "APeripheral"
  /\ \E st \in {"AIdle", "AHost"} : Publish(st)
  /\ UNCHANGED << bus, left >>

VBusError ==
  /\ Running /\ bus.up /\ idPin /\ otg # "AVbusError"
  /\ Publish("AVbusError") /\ Whim /\ bus' = [bus EXCEPT !.wanted = FALSE]

\* A message is about a cable that is in: a hub at its end, a session that is asked
\* for while there is no VBus, or a device that is bad from the start.
MessageArrives(kind) ==
  /\ Running /\ message = None /\ idPin /\ obs["Message"] = "Waiting"
  /\ kind = "BadHubPosition" =>
       bus.up /\ dev = "None" /\ events = << >> /\ otg \in {"AIdle", "AHost"}
  /\ kind \in {"SrpReceived", "RequestSession"} => ~bus.up /\ otg = "AIdle"
  /\ kind = "BadDeviceAttached" => ~bus.up /\ dev = "None" /\ events = << >>
  /\ kind = "BadDeviceDetached" => dev = "Bad"
  /\ dev' = CASE kind = "BadDeviceAttached" -> "Bad"
              [] kind = "BadDeviceDetached" -> "None"
              [] OTHER -> dev
  /\ message' = kind
  /\ IF kind = "BadDeviceDetached" THEN UNCHANGED left ELSE Whim
  /\ UNCHANGED << watcherVars, obs, idPin, otg, events >>

-----------------------------------------------------------------------------
TimerElapses ==
  /\ Running
  /\ \E t \in host.timers \ host.elapsed : host' = [host EXCEPT !.elapsed = @ \cup {t}]
  /\ UNCHANGED << notes, connecting, published, ctl, asked, panic, service, bus, obs, outsideVars >>

\* The user reads for longer than the dropped VBus takes to fall.
UserClosesNote ==
  /\ Running
  /\ \E n \in {"warning", "error"} :
       /\ notes[n] = "Shown"
       /\ n = "error" /\ "UserOvertakesVBus" \notin Races => ~bus.up /\ dev \in {"None", "Bad"}
       /\ notes' = [notes EXCEPT ![n] = "Closed"]
  /\ UNCHANGED << host, connecting, published, ctl, asked, panic, service, bus, obs, outsideVars >>

ObserverFails ==
  /\ Running /\ "ObserverFails" \in Races
  /\ \E o \in Observers :
       /\ obs[o] = "Waiting" /\ (o = "Message" => message = None)
       /\ obs' = [obs EXCEPT ![o] = "Failed"]
  /\ Whim
  /\ UNCHANGED << watcherVars, idPin, otg, dev, events, message >>

-----------------------------------------------------------------------------
Scheduler == \/ RunServiceControl \/ RunIdPin \/ RunVBus \/ RunOtgState
             \/ RunHostEvent \/ RunMessage \/ RunNote
             \/ \E t \in Timers : RunTimer(t)
Stack == \/ ServiceChanges \/ VBusFalls \/ OtgFollows
World == \/ Stack \/ OtherClient \/ PlugIn \/ PlugOut \/ VBusRises \/ DeviceDetaches
         \/ (\E e \in Attachments : DeviceAttaches(e))
         \/ (\E r \in LoadResults : DriversLoaded(r))
         \/ HandsOver \/ TakesBack \/ VBusError
         \/ (\E k \in MessageKinds : MessageArrives(k))
         \/ TimerElapses \/ UserClosesNote \/ ObserverFails

Next == Scheduler \/ World

Spec == Init /\ [][Next]_vars

\* The scheduler runs what is ready, USB Manager and the OTG stack do what they
\* were asked, timers elapse and a device without VBus is gone.  The cable, the
\* device and the user owe nothing.  The first conjunct is WF_vars(Scheduler) with
\* its ENABLED written out: the scheduler can take a step exactly when it is not Quiet.
Fairness == /\ []<><<Scheduler>>_vars \/ []<>(Quiet \/ ~Running)
            /\ WF_vars(ServiceChanges) /\ WF_vars(VBusFalls) /\ WF_vars(OtgFollows)
            /\ WF_vars(TimerElapses)
            /\ WF_vars(~bus.up /\ DeviceDetaches)

FairSpec == Spec /\ Fairness
=============================================================================
