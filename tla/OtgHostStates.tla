---------------------------- MODULE OtgHostStates ----------------------------
(***************************************************************************)
(* The host state machine of usbotgwatcher: CUsbState and the seven        *)
(* concrete states.  One operator per event; a state that does not expect  *)
(* an event panics the process, as CUsbState does.                         *)
(***************************************************************************)
EXTENDS OtgNotifiers

Timers == { "Attachment", "DriversNotFound", "TooMuchPower" }

\* What CUsbStateHostHandleDropping is told to handle.
Recoverable == { "HubsNotSupported", "TooMuchPower", "UnsupportedDevice",
                 "ConnectedToOTG", "DanglingCable", "ErrorInConnection" }
Fatal == { "CanNotStartUsbServices", "NoMemory", "IdPinError", "VBusObserverError",
           "HostEventNotificationError", "OtgStateError", "MessageNotificationError",
           "CanNotEnableDriverLoading", "CanNotClearBusError", "CanNotRaiseVBus" }
Problems == Recoverable \cup Fatal

\* The reasons the process is panicked for, named for the event nobody expected.
NotExpected == { "VBusUp", "DeviceAttached", "DeviceDetached", "DriverLoad", "BadHubPosition",
                 "BIdle", "SituationToHandle", "UsbServiceState" }
Panics == NotExpected \cup { NoFault, "CanNotStopUsbServices" }
Panic(m, why) == [m EXCEPT !.panic = Raise(@, why)]

MaxTrial == 3   \* of BusRequest in one attempt to raise VBus

\* iHostState, the problem being handled, whether AInitiate has seen the device
\* attached, the active timers and those whose time is over.
Host == [ iHostState : HostStates, iWhat : Problems \cup {None},
          iDeviceAttached : BOOLEAN, timers : SUBSET Timers, elapsed : SUBSET Timers ]
InitHost == [ iHostState |-> "Undefined", iWhat |-> None, iDeviceAttached |-> FALSE,
              timers |-> {}, elapsed |-> {} ]

CancelTimer(m, t) == [m EXCEPT !.host.timers = @ \ {t}, !.host.elapsed = @ \ {t}]
After(m, t) == [m EXCEPT !.host.timers = @ \cup {t}, !.host.elapsed = @ \ {t}]

\* The calls of the bus: up is VBus, wanted what the watcher has asked for.
Bus == [ up : BOOLEAN, wanted : BOOLEAN ]
\* An unplugged cable has no session to ask for.
BusRequest(m) == [m EXCEPT !.bus.wanted = m.idPin]
BusDrop(m)    == [m EXCEPT !.bus.wanted = FALSE]

-----------------------------------------------------------------------------
\* Mutant: a timer outlives its state.
LeaveTimersOn(m) ==
  CASE m.host.iHostState = "HandleDropping" -> CloseAllNotifiers(m)
    [] m.host.iHostState = "AHost" -> [m EXCEPT !.published = FALSE]
    [] OTHER -> m

\* ChangeHostStateL: the old state's JustBeforeLeaving, then the assignment.
JustBeforeLeaving(m) ==
  CASE m.host.iHostState = "AInitiate"        -> CancelTimer(m, "Attachment")
    [] m.host.iHostState = "DelayAttached"    -> CancelTimer(m, "DriversNotFound")
    [] m.host.iHostState = "DelayNotAttached" -> CancelTimer(m, "TooMuchPower")
    [] m.host.iHostState = "HandleDropping"   -> CloseAllNotifiers(m)
    [] m.host.iHostState = "AHost"            -> [m EXCEPT !.published = FALSE]
    [] OTHER -> m

Enter(m, st) == [JustBeforeLeaving(m) EXCEPT !.host.iHostState = st]

\* The new state's JustAdvanced, then the observers of the state: the indicator.
ToUndefined(m)  == SetIndicator(Enter(m, "Undefined"))
ToPeripheral(m) == SetIndicator(Enter(m, "APeripheral"))
ToHost(m)       == SetIndicator([Enter(m, "AHost") EXCEPT !.published = TRUE])

\* Mutant: nothing ends the delay.
DelayForever(m) == SetIndicator(Enter(m, "DelayAttached"))

DelayAttachedHandle(m)    == SetIndicator(After(Enter(m, "DelayAttached"), "DriversNotFound"))
DelayNotAttachedHandle(m) == SetIndicator(After(Enter(m, "DelayNotAttached"), "TooMuchPower"))

\* HandleL(what, EUsbStateHostHandleDropping): drop VBus and tell the user.
HandleDropping(m, what) ==
  SetIndicator(ShowError(BusDrop([Enter(m, "HandleDropping") EXCEPT !.host.iWhat = what])))

\* VBus is raised, unless it is up, with up to MaxTrial requests.
RaiseVBus(m) ==
  IF m.bus.up \/ m.in.busFailures = 0 THEN After(IF m.bus.up THEN m ELSE BusRequest(m), "Attachment")
  ELSE IF m.in.clear # KErrNone THEN HandleDropping(m, "CanNotClearBusError")
  ELSE IF m.in.busFailures >= MaxTrial THEN HandleDropping(m, "CanNotRaiseVBus")
  ELSE After(BusRequest(m), "Attachment")

AInitiate(m) ==
  LET n == [Enter(m, "AInitiate") EXCEPT !.host.iDeviceAttached = FALSE] IN
  SetIndicator(IF m.in.driverLoading # KErrNone
                 THEN HandleDropping(n, "CanNotEnableDriverLoading")
                 ELSE RaiseVBus(n))

-----------------------------------------------------------------------------
\* VBus and the OTG state.
HostState(m) == m.host.iHostState
VBusUp(m) ==
  CASE HostState(m) \in {"Undefined", "AInitiate"} -> m
    [] HostState(m) = "HandleDropping" -> AInitiate(m)
    [] OTHER -> Panic(m, "VBusUp")

VBusDown(m) ==
  IF HostState(m) \in {"Undefined", "HandleDropping"} THEN m
  ELSE HandleDropping(m, "ErrorInConnection")

AIdle(m) ==
  IF HostState(m) \in {"APeripheral", "DelayNotAttached"} THEN AInitiate(m) ELSE m

AHost(m) == IF HostState(m) = "APeripheral" THEN AInitiate(m) ELSE m

\* Also the event KErrUsbOtgVbusError; BusClearError leaves no state here.
AVBusError(m) ==
  IF HostState(m) \in {"Undefined", "HandleDropping"} THEN m
  ELSE HandleDropping(m, "TooMuchPower")

\* The B-device's states BIdle and BPeripheral.
BDevice(m) == IF HostState(m) = "Undefined" THEN m ELSE Panic(m, "BIdle")

-----------------------------------------------------------------------------
\* Host events.  An attachment e is [error, otg]: otg when the descriptor reads as one of
\* HNP and SRP, which it may also when GetOtgDescriptor has failed and left it unset.
\* Mutant: the error of the attachment is handled as the problem it is not.
InitiateAttachedRaw(m, e) ==
  LET n == CancelTimer([m EXCEPT !.host.iDeviceAttached = TRUE], "Attachment") IN
  CASE e.otg -> HandleDropping(n, "ConnectedToOTG")
    [] ~e.otg /\ e.error = "None" -> n
    [] ~e.otg /\ e.error = "DetachedDuringDriverLoading" -> AInitiate(n)
    [] ~e.otg /\ e.error = "BadPower" -> DelayNotAttachedHandle(n)
    [] OTHER -> HandleDropping(n, e.error)

InitiateAttached(m, e) ==
  LET n == CancelTimer([m EXCEPT !.host.iDeviceAttached = TRUE], "Attachment") IN
  CASE e.otg -> HandleDropping(n, "ConnectedToOTG")
    [] ~e.otg /\ e.error = "None" -> n
    [] ~e.otg /\ e.error = "DetachedDuringDriverLoading" -> AInitiate(n)
    [] ~e.otg /\ e.error = "BadPower" -> DelayNotAttachedHandle(n)
    [] OTHER -> HandleDropping(n, "UnsupportedDevice")

DeviceAttached(m, e) ==
  LET Attach(n) == IF HostState(n) = "AInitiate" THEN InitiateAttached(n, e) ELSE n IN
  CASE HostState(m) \in {"Undefined", "HandleDropping", "AInitiate"} -> Attach(m)
    [] HostState(m) \in {"DelayAttached", "DelayNotAttached"} -> Attach(AInitiate(m))
    [] OTHER -> Panic(m, "DeviceAttached")

\* Mutants: the drivers are not waited for; the peripheral may go unnoticed.
DetachWhenAttached(m) ==
  IF HostState(m) \in {"AHost", "DelayAttached"} THEN AInitiate(m) ELSE Panic(m, "DeviceDetached")
DetachUnnoticed(m) ==
  CASE HostState(m) \in {"Undefined", "HandleDropping", "AHost"} -> m
    [] HostState(m) \in {"AInitiate", "DelayAttached"} -> AInitiate(m)
    [] OTHER -> Panic(m, "DeviceDetached")

DeviceDetached(m) ==
  CASE HostState(m) \in {"Undefined", "HandleDropping"} -> m
    [] HostState(m) = "AInitiate" ->
         IF m.host.iDeviceAttached THEN AInitiate(m) ELSE Panic(m, "DeviceDetached")
    [] HostState(m) \in {"AHost", "DelayAttached"} -> AInitiate(m)
    [] OTHER -> Panic(m, "DeviceDetached")

\* Mutant: drivers that load while a problem is handled make a host.
DriverLoadAnyway(m, result) ==
  CASE HostState(m) = "Undefined" -> m
    [] HostState(m) \in {"AInitiate", "HandleDropping"} ->
         (CASE result \in {"Success", "PartialDetached"} -> ToHost(m)
            [] result = "Partial" -> ToHost(ShowWarning(m))
            [] result = "Failure" -> DelayAttachedHandle(m))
    [] OTHER -> Panic(m, "DriverLoad")

DriverLoad(m, result) ==
  CASE HostState(m) \in {"Undefined", "HandleDropping"} -> m
    [] HostState(m) = "AInitiate" ->
         (CASE result \in {"Success", "PartialDetached"} -> ToHost(m)
            [] result = "Partial" -> ToHost(ShowWarning(m))
            [] result = "Failure" -> DelayAttachedHandle(m))
    [] OTHER -> Panic(m, "DriverLoad")

-----------------------------------------------------------------------------
\* Messages of the OTG stack, those that are handled alike folded together.
BadHubPosition(m) ==
  IF HostState(m) \in {"Undefined", "AHost"} THEN Panic(m, "BadHubPosition")
  ELSE HandleDropping(m, "HubsNotSupported")

AskForBus(m) ==
  IF m.bus.up THEN m
  ELSE IF m.in.busFailures > 0 THEN HandleDropping(m, "ErrorInConnection")
  ELSE BusRequest(m)

SrpReceived(m) == IF HostState(m) = "Undefined" THEN m ELSE AskForBus(m)

SessionRequested(m) ==
  IF HostState(m) \in {"AInitiate", "AHost", "APeripheral"} THEN AskForBus(m) ELSE m

MessageReceived(m, msg) ==
  CASE HostState(m) = "Undefined" /\ msg = "BadDeviceAttached"
         -> HandleDropping(m, "UnsupportedDevice")
    [] HostState(m) = "HandleDropping" /\ msg = "BadDeviceDetached" -> ToUndefined(m)
    [] HostState(m) \in {"AInitiate", "AHost", "APeripheral"} /\ msg = "ConnectionProblem"
         -> HandleDropping(m, "ErrorInConnection")
    [] HostState(m) \in {"AInitiate", "AHost", "APeripheral"} /\ msg = "UnsupportedDevice"
         -> HandleDropping(m, "UnsupportedDevice")
    [] OTHER -> m

\* The error note is answered: try again, or give up after a fatal problem.
WaitNotifierCompleted(m) ==
  CASE m.host.iWhat \in Recoverable -> AInitiate(m)
    [] m.host.iWhat \in Fatal -> ToUndefined(m)
    [] OTHER -> Panic(m, "SituationToHandle")

TimerElapsed(m, t) ==
  HandleDropping(CancelTimer(m, t), IF t = "Attachment" THEN "DanglingCable" ELSE "UnsupportedDevice")
=============================================================================
