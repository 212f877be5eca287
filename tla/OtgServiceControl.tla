-------------------------- MODULE OtgServiceControl --------------------------
(***************************************************************************)
(* CUsbServiceControl, the active object that starts and stops the USB     *)
(* service for usbotgwatcher, and what the watcher asks of it.             *)
(*                                                                         *)
(* A handler may ask USB Manager several times (GetServiceState,           *)
(* GetCurrentPersonalityId): m.in.queries of them succeed before one fails.*)
(***************************************************************************)
EXTENDS OtgHostStates

CONSTANT iPersonalityId,     \* the personality of the host, MTP
         OtherPersonality    \* the one another client may have started

Personalities == { iPersonalityId, OtherPersonality }
ASSUME PersonalityAssumption == None \notin Personalities /\ iPersonalityId # OtherPersonality

KErrNoMemory == "KErrNoMemory"
Results == { KErrNone, KErrGeneral, KErrNoMemory }

\* USB Manager: the service and the personality it runs with.
ServiceStates == { "Idle", "Starting", "Started", "Stopping", "FatalError" }
Service == [ state : ServiceStates, id : Personalities \cup {None} ]

\* waits: what the outstanding request is.
Control == [ active : BOOLEAN, iStatus : Results \cup {Pending},
             iPersonalityId : Personalities \cup {None},
             waits : { "TryStart", "TryStop", "StateNotification" } ]
InitControl == [ active |-> FALSE, iStatus |-> KErrNone, iPersonalityId |-> None,
                 waits |-> "StateNotification" ]

-----------------------------------------------------------------------------
\* Requests of RUsb, as USB Manager serves them.
Wait(m, what) ==
  [m EXCEPT !.ctl.active = TRUE, !.ctl.iStatus = Pending, !.ctl.waits = what]

TryStart(m, id) ==
  Wait([m EXCEPT !.service = [state |-> "Starting", id |-> id]], "TryStart")
TryStop(m) == Wait([m EXCEPT !.service.state = "Stopping"], "TryStop")
ServiceStateNotification(m) == Wait(m, "StateNotification")

\* Cancel() withdraws the interest in the request; USB Manager goes on with it.
ControlCancel(m) == [m EXCEPT !.ctl.active = FALSE]

QueryFails(m) == m.in.queries = 0
Later(m) == [m EXCEPT !.in.queries = IF QueryFails(m) THEN 0 ELSE @ - 1]   \* a query later
Want(m, id) == [m EXCEPT !.ctl.iPersonalityId = id]

-----------------------------------------------------------------------------
\* CUsbOtgWatcher::UsbServiceControlReqCompletedL.  iUsbServiceRequest has been
\* cleared by then, so that an error other than KErrNoMemory has no effect.
ReqCompleted(m, aError) ==
  CASE aError = KErrNoMemory -> HandleDropping(m, "NoMemory")
    [] aError = KErrNone ->
         (CASE QueryFails(m) -> HandleDropping(m, "CanNotStartUsbServices")
            [] ~QueryFails(m) /\ m.service.state = "Idle"    -> m
            [] ~QueryFails(m) /\ m.service.state = "Started" -> AInitiate(m)
            [] OTHER -> Panic(m, "UsbServiceState"))
    [] OTHER -> m

\* The call returns an error, and does nothing else.
StopFails(m) == QueryFails(m) \/ m.service.state = "FatalError"
StartFails(m) ==
  StopFails(m) \/ (m.service.state = "Started" /\ QueryFails(Later(m)))

\* A change that is under way is waited for, by the request that is there or a new one.
WaitForChange(m) == IF m.ctl.active THEN m ELSE ServiceStateNotification(m)

\* Mutant: the stop during a start does not forget the personality to start.
StopLForgetful(m) ==
  CASE StopFails(m) \/ m.service.state = "Idle" -> m
    [] ~StopFails(m) /\ m.service.state = "Started" -> TryStop(ControlCancel(m))
    [] OTHER -> WaitForChange(m)

StopL(m) ==
  CASE StopFails(m) \/ m.service.state = "Idle" -> m
    [] ~StopFails(m) /\ m.service.state = "Started" -> TryStop(ControlCancel(m))
    [] OTHER -> WaitForChange(Want(m, None))

StartL(m, id) ==
  CASE StartFails(m) -> m
    [] ~StartFails(m) /\ m.service.state = "Idle" -> TryStart(ControlCancel(Want(m, id)), id)
    [] ~StartFails(m) /\ m.service.state = "Started" ->
         IF m.service.id = id THEN ReqCompleted(m, KErrInUse) ELSE StopL(Later(Later(Want(m, id))))
    [] OTHER -> WaitForChange(Want(m, id))

\* RunL with iStatus KErrNone and the service Idle or Started, its query answered.
StartWanted(m) ==
  LET n == Want(m, None) IN
  IF StartFails(n) THEN ReqCompleted(n, KErrGeneral) ELSE StartL(n, m.ctl.iPersonalityId)

ServiceIsIdle(m) ==
  IF m.ctl.iPersonalityId # None THEN StartWanted(m) ELSE ReqCompleted(m, KErrNone)

\* Mutant: a service nobody wants any more is left alone.
ServiceIsLeft(m) ==
  CASE QueryFails(m) -> ReqCompleted(m, KErrGeneral)
    [] ~QueryFails(m) /\ m.ctl.iPersonalityId \in {m.service.id, None}
         -> ReqCompleted(Later(Want(m, None)), KErrNone)
    [] OTHER -> StartWanted(Later(m))

ServiceIsStarted(m) ==
  CASE QueryFails(m) -> ReqCompleted(m, KErrGeneral)
    [] ~QueryFails(m) /\ m.ctl.iPersonalityId = m.service.id
         -> ReqCompleted(Later(Want(m, None)), KErrNone)
    [] ~QueryFails(m) /\ m.ctl.iPersonalityId = None -> StopL(Later(m))
    [] OTHER -> StartWanted(Later(m))

ServiceControlRunL(mem) ==
  LET m == [mem EXCEPT !.ctl.active = FALSE] IN
  CASE m.ctl.iStatus # KErrNone -> ReqCompleted(m, m.ctl.iStatus)
    [] m.ctl.iStatus = KErrNone /\ (QueryFails(m) \/ m.service.state = "FatalError")
         -> ReqCompleted(m, KErrGeneral)
    [] m.ctl.iStatus = KErrNone /\ ~QueryFails(m) /\ m.service.state = "Idle" -> ServiceIsIdle(Later(m))
    [] m.ctl.iStatus = KErrNone /\ ~QueryFails(m) /\ m.service.state = "Started"
         -> ServiceIsStarted(Later(m))
    [] OTHER -> ServiceStateNotification(m)

-----------------------------------------------------------------------------
\* CUsbOtgWatcher: the session follows the ID pin.  asked is not in the code:
\* the last thing the watcher has asked for.
StartSession(m) ==
  LET n == [m EXCEPT !.asked = "Start"] IN
  IF StartFails(n) THEN HandleDropping(n, "CanNotStartUsbServices") ELSE StartL(n, iPersonalityId)

IdPinOn(m) == StartSession(m)

\* VBus is not dropped here: the OTG stack ends the session of an unplugged cable.
IdPinOff(m) ==
  LET n == CloseAllNotifiers(ToUndefined([m EXCEPT !.asked = "Stop"])) IN
  IF StopFails(n) THEN Panic(n, "CanNotStopUsbServices") ELSE StopL(n)
=============================================================================
