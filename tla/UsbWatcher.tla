----------------------------- MODULE UsbWatcher -----------------------------
(***************************************************************************)
(* CUsbWatcher: decides which USB personality runs.  It starts one when a  *)
(* cable is connected, stops it when the cable goes, and changes it for    *)
(* the clients of the usbwatcher server (CUsbWatcherSession), honouring    *)
(* the global system state (charging, normal) and the device lock.         *)
(*                                                                         *)
(* Every method is an operator from the memory of the process before the   *)
(* call to the memory after it, so that a RunL which calls several methods *)
(* is their composition.  The memory m is a record with a field for each   *)
(* part of the process (see Mem in UsbWatcherSystem).                      *)
(***************************************************************************)
EXTENDS PersonalityHandler, DevConStarter, IndicatorHandler

CONSTANTS
  Sessions,            \* client sessions of the usbwatcher server
  Unsupported,         \* a personality id no installed plugin supports
  Hidden,              \* personalities that are never saved as the default
  ChargingPersonality  \* KUsbWatcherChargingDefaultPersonality, None if absent

ASSUME WatcherAssumption ==
  /\ Unsupported \notin Personalities \cup {None}
  /\ Hidden \subseteq Personalities
  /\ ChargingPersonality \in Personalities \cup {None}

WatcherStates == { "Idle", "Starting", "Started", "Stopping", "ConfirmStop" }

Watcher == [ iState : WatcherStates, active : BOOLEAN, iStatus : Statuses,
             iPersonalityId : Personalities, iPrevPersonalityId : Personalities,
             iOldPrevPersonalityId : Personalities,
             iSetPersonalityOngoing : BOOLEAN, iSetPreviousPersonalityOngoing : BOOLEAN,
             iPersonalityChangeOngoing : BOOLEAN, iStopStartScenario : BOOLEAN,
             iSetPreviousPersonalityOnDisconnect : BOOLEAN,
             iStarted : BOOLEAN, iNormalStart : BOOLEAN ]

InitWatcher(p) ==
  [ iState |-> "Idle", active |-> FALSE, iStatus |-> KErrNone,
    iPersonalityId |-> p, iPrevPersonalityId |-> p, iOldPrevPersonalityId |-> p,
    iSetPersonalityOngoing |-> FALSE, iSetPreviousPersonalityOngoing |-> FALSE,
    iPersonalityChangeOngoing |-> FALSE, iStopStartScenario |-> FALSE,
    iSetPreviousPersonalityOnDisconnect |-> FALSE,
    iStarted |-> FALSE, iNormalStart |-> FALSE ]

\* One client session: the id of its outstanding SetPersonality (or None), and
\* which other messages of it are outstanding.
Session == [ set : Personalities \cup {Unsupported, None}, setPrevious : BOOLEAN,
             cancelSet : BOOLEAN, cancelSetPrevious : BOOLEAN ]

NoMessages == [ set |-> None, setPrevious |-> FALSE,
                cancelSet |-> FALSE, cancelSetPrevious |-> FALSE ]

-----------------------------------------------------------------------------
\* Completing messages.

\* Mutant: the outstanding SetPersonality messages are forgotten.
NotifyOthers(m, code) ==
  [m EXCEPT !.ss = [s \in Sessions |-> [NoMessages EXCEPT !.set = m.ss[s].set]]]

\* CUsbWatcherSession::Notify for every registered session: each outstanding
\* message is completed; m.answers remembers how SetPersonality was answered.
NotifySessions(m, code) ==
  [m EXCEPT !.ss = [s \in Sessions |-> NoMessages],
            !.answers = @ \cup { [session |-> s, id |-> m.ss[s].set,
                                  code |-> code, superseded |-> FALSE] :
                                 s \in { t \in Sessions : m.ss[t].set # None } }]

\* WritePersonalityId: hidden personalities are not written; the write may fail.
WriteResult(m, id) == IF id \in Hidden THEN KErrNone ELSE m.in.disk
WritePersonalityId(m, id) ==
  IF id \in Hidden \/ m.in.disk # KErrNone THEN m ELSE [m EXCEPT !.cenrep = id]

\* The two ways Notify undoes a change that did not succeed.
UndoSetPersonality(m) ==
  [m EXCEPT !.w.iPersonalityId = m.w.iPrevPersonalityId,
            !.w.iPrevPersonalityId = m.w.iOldPrevPersonalityId]
SwapPersonalities(m) ==
  [m EXCEPT !.w.iPersonalityId = m.w.iPrevPersonalityId,
            !.w.iPrevPersonalityId = m.w.iPersonalityId]

\* Mutant: a change that has been carried out is not saved.
EndSetUnsaved(m, code) ==
  LET d == [m EXCEPT !.w.iSetPersonalityOngoing = FALSE]
  IN IF ~m.w.iSetPersonalityOngoing THEN m
     ELSE IF code = KErrNone THEN d ELSE UndoSetPersonality(d)

\* Notify, first half: the end of a SetPersonality.
EndSetPersonality(m, code) ==
  LET d == [m EXCEPT !.w.iSetPersonalityOngoing = FALSE]
  IN IF ~m.w.iSetPersonalityOngoing THEN m
     ELSE IF code = KErrNone THEN WritePersonalityId(d, d.w.iPersonalityId)
     ELSE UndoSetPersonality(d)

\* Notify, second half: the end of a SetPreviousPersonality.
EndSetPreviousPersonality(m, code) ==
  LET d == [m EXCEPT !.w.iSetPreviousPersonalityOngoing = FALSE]
  IN IF ~m.w.iSetPreviousPersonalityOngoing THEN m
     ELSE IF code = KErrNone THEN WritePersonalityId(d, d.w.iPersonalityId)
     ELSE SwapPersonalities(d)

\* Notify: every outstanding change and every outstanding message ends.
Notify(m, aStatus) ==
  LET status == IF m.w.iSetPersonalityOngoing /\ aStatus = KErrNone
                  THEN WriteResult(m, m.w.iPersonalityId) ELSE aStatus
      d == EndSetPersonality([m EXCEPT !.w.iPersonalityChangeOngoing = FALSE], aStatus)
  IN NotifySessions(EndSetPreviousPersonality(d, status), status)

-----------------------------------------------------------------------------
\* Starting and stopping.

\* SetActive() of the watcher, entering state s.
WatcherActive(m, s) ==
  [m EXCEPT !.w.active = TRUE, !.w.iState = s,
            !.fault = IF m.w.active THEN Raise(@, SetActiveTwice) ELSE @]

Publish(m, p) == [m EXCEPT !.prop = p]

\* Mutant: the global state is not observed.
ObserveNothing(m) == m

\* CUsbGlobalSystemStateObserver::Subscribe and Cancel.
ObserveGlobalState(m) ==
  IF m.obs.active THEN m ELSE [m EXCEPT !.obs = [active |-> TRUE, iStatus |-> Pending]]
CancelObserver(m) == [m EXCEPT !.obs = [active |-> FALSE, iStatus |-> KErrNone]]

\* CUsbDeviceLock::Locked: every value of the property but EAutolockOff.
Locked(m) == m.lock.value # "Off"

\* Mutant: the personality before the change is published.
LaunchPublishesPrevious(m) ==
  LET n == [Publish(m, m.w.iPrevPersonalityId) EXCEPT !.w.iStarted = TRUE]
  IN WatcherActive(HandlerStart(n), "Starting")

\* Start, in the two global states that lead to a started personality.
Launch(m) ==
  LET n == [Publish(m, m.w.iPersonalityId) EXCEPT !.w.iStarted = TRUE]
  IN WatcherActive(HandlerStart(n), "Starting")

StartCharging(m) ==
  LET n == [ObserveGlobalState(m) EXCEPT !.w.iPrevPersonalityId = m.w.iPersonalityId]
  IN IF ChargingPersonality = None THEN n
     ELSE Launch([n EXCEPT !.w.iPersonalityId = ChargingPersonality,
                           !.w.iSetPreviousPersonalityOnDisconnect = TRUE])

StartNormal(m) ==
  LET n == [m EXCEPT !.w.iNormalStart = TRUE]
  IN IF Locked(m) THEN n ELSE Launch(CancelObserver(n))

\* Start: only from Idle.  In any other global state the start waits for the
\* observer to report a better one.
Start(m) ==
  LET d == [m EXCEPT !.w.iStarted = FALSE, !.w.iNormalStart = FALSE] IN
  CASE m.w.iState # "Idle" -> m
    [] m.w.iState = "Idle" /\ m.global = "Charging" -> StartCharging(d)
    [] m.w.iState = "Idle" /\ m.global = "Normal" -> StartNormal(d)
    [] OTHER -> ObserveGlobalState(d)

\* Mutants of Cancel: the state stays what it was; the handler is not cancelled.
CancelKeepsState(m) ==
  IF ~m.w.active THEN m
  ELSE [Publish(HandlerCancel(m), None) EXCEPT !.w.active = FALSE]

CancelForgetsHandler(m) ==
  IF ~m.w.active THEN m
  ELSE [Publish(m, None) EXCEPT !.w.active = FALSE,
          !.w.iState = IF @ = "ConfirmStop" THEN "Started" ELSE "Idle",
          !.fault = IF m.w.iStatus = Pending THEN Raise(@, CancelHangs) ELSE @]

\* CActive::Cancel() of the watcher, with its DoCancel.  It waits for iStatus:
\* somebody must have completed it.
Cancel(m) ==
  IF ~m.w.active THEN m ELSE
  LET n == CASE m.w.iState \in {"Starting", "Stopping"} ->
                  [Publish(HandlerCancel(m), None) EXCEPT !.w.iState = "Idle"]
             [] m.w.iState = "ConfirmStop" ->
                  [HandlerCancel(m) EXCEPT !.w.iState = "Started"]
             [] OTHER -> m
  IN [n EXCEPT !.w.active = FALSE,
               !.fault = IF n.w.iStatus = Pending THEN Raise(@, CancelHangs) ELSE @]

\* Mutant: a started personality is not stopped.
StopOnlyStarting(m) == IF m.w.iState = "Starting" THEN Cancel(m) ELSE m

\* Stop
Stop(m) ==
  CASE m.w.iState = "Started" -> WatcherActive(HandlerStop(m), "Stopping")
    [] m.w.iState = "Starting" -> Cancel(m)
    [] OTHER -> m

\* StopStart: asks for a confirmation, or confirms to itself.
StopStart(m, nonBlocking) ==
  CASE m.w.iState = "Started" /\ ~nonBlocking ->
         WatcherActive(ConfirmPersonalityUnload(m), "ConfirmStop")
    [] m.w.iState = "Started" /\ nonBlocking ->
         WatcherActive([m EXCEPT !.w.iStatus = KErrNone], "ConfirmStop")
    [] OTHER -> m

\* SwitchPersonality: without a cable, or as A-device, only the setting changes.
SwitchPersonality(m, nonBlocking) ==
  CASE m.idPin \/ m.dev.current = "Undefined" -> Notify(m, KErrNone)
    [] ~m.idPin /\ m.dev.current # "Undefined"
         /\ m.w.iState \in {"Stopping", "Starting"} -> Start(Cancel(m))
    [] ~m.idPin /\ m.dev.current # "Undefined" /\ m.w.iState = "ConfirmStop" ->
         StopStart([Cancel(m) EXCEPT !.w.iState = "Started"], nonBlocking)
    [] ~m.idPin /\ m.dev.current # "Undefined" /\ m.w.iState = "Started" ->
         StopStart(m, nonBlocking)
    [] OTHER -> Start(m)

\* RunL, after the scheduler has cleared the active flag.  A failed start
\* leaves RunL; RunError takes the watcher back to Idle.
WatcherRunL(m) ==
  LET ret == m.w.iStatus
      d   == [m EXCEPT !.w.active = FALSE]
      started == [Notify(d, ret) EXCEPT !.w.iStopStartScenario = FALSE]
      stopped == [d EXCEPT !.w.iState = "Idle"]
      confirmed == [d EXCEPT !.w.iStopStartScenario = TRUE]
  IN CASE m.w.iState = "Starting" ->
            IF ret = KErrNone THEN [started EXCEPT !.w.iState = "Started"]
            ELSE [Publish(started, None) EXCEPT !.w.iState = "Idle"]
       [] m.w.iState = "Stopping" ->
            IF m.w.iStopStartScenario THEN Start(stopped) ELSE Publish(stopped, None)
       [] m.w.iState = "Started" ->
            IF m.w.iStopStartScenario THEN d ELSE WatcherActive(HandlerStop(d), "Stopping")
       [] m.w.iState = "Idle" -> IF m.w.iStopStartScenario THEN Start(d) ELSE d
       [] m.w.iState = "ConfirmStop" ->
            IF ret = KErrNone THEN WatcherActive(HandlerStop(confirmed), "Stopping")
            ELSE [Notify(d, ret) EXCEPT !.w.iState = "Started"]

-----------------------------------------------------------------------------
\* Requests of clients.

\* SetPersonality.  The previous id is kept when the current one was temporary.
SetPersonality(m, id, nonBlocking) ==
  LET temporary == m.w.iSetPreviousPersonalityOnDisconnect
      d == [m EXCEPT !.w.iSetPersonalityOngoing = TRUE,
                     !.w.iPersonalityChangeOngoing = TRUE,
                     !.w.iSetPreviousPersonalityOnDisconnect = FALSE,
                     !.w.iOldPrevPersonalityId =
                        IF temporary THEN @ ELSE m.w.iPrevPersonalityId,
                     !.w.iPrevPersonalityId =
                        IF temporary THEN @ ELSE m.w.iPersonalityId]
  IN CASE id \notin Personalities -> Notify(m, KErrNotFound)
       [] id \in Personalities /\ id = m.w.iPersonalityId -> Notify(d, KErrNone)
       [] OTHER -> SwitchPersonality([d EXCEPT !.w.iPersonalityId = id], nonBlocking)

\* CancelSetPersonality and CancelSetPreviousPersonality have the same body.
CancelChange(m) ==
  SwitchPersonality([Notify(m, KErrCancel) EXCEPT !.w.iPersonalityChangeOngoing = TRUE,
                                                  !.w.iStopStartScenario = FALSE], FALSE)

SetPreviousPersonality(m) ==
  LET d == [SwapPersonalities(m) EXCEPT
              !.w.iSetPreviousPersonalityOnDisconnect = FALSE,
              !.w.iSetPreviousPersonalityOngoing = TRUE,
              !.w.iPersonalityChangeOngoing = TRUE]
  IN CASE m.idPin -> Notify(m, KErrAccessDenied)
       [] ~m.idPin /\ m.w.iPersonalityId = m.w.iPrevPersonalityId -> Notify(d, KErrNone)
       [] OTHER -> SwitchPersonality(d, FALSE)

SetPreviousPersonalityOnDisconnect(m) ==
  CASE m.idPin -> Notify(m, KErrAccessDenied)
    [] ~m.idPin /\ m.dev.current # "Undefined" ->
         [m EXCEPT !.w.iSetPreviousPersonalityOnDisconnect = TRUE]
    [] OTHER -> m

-----------------------------------------------------------------------------
\* Events of the device, the lock and the global state.

\* The starter of usbdevcon is called in the normal global state only.
StartDevCon(m) == IF m.global = "Normal" THEN StarterStart(m) ELSE m

\* StateChangeNotifyL, device attached (or found powered).
DeviceAttached(m, old, new) ==
  LET n == HandlerStateChange(m, old, new)
      busy == n.w.iPersonalityChangeOngoing
  IN StartDevCon( CASE n.w.iState = "Idle" /\ ~busy -> Start(n)
                    [] n.w.iState \notin {"Idle", "Started"} /\ ~busy -> Start(Cancel(n))
                    [] OTHER -> n )

\* StateChangeNotifyL, device detached.
DeviceDetached(m, old) ==
  LET n == StopRestarting(HandlerStateChange(CancelObserver(m), old, "Undefined"))
      restored == IF n.w.iSetPreviousPersonalityOnDisconnect
                    THEN LET r == SwapPersonalities(n) IN
                         [WritePersonalityId(r, r.w.iPersonalityId) EXCEPT
                            !.w.iSetPreviousPersonalityOnDisconnect = FALSE]
                    ELSE n
      t == Notify(restored, KErrCancel)
  IN CASE t.w.iState = "Starting" -> Cancel(t)
       [] t.w.iState = "ConfirmStop" -> Stop(Cancel(t))
       [] OTHER -> Stop(t)

\* StateChangeNotifyL
StateChangeNotify(m, old, new) ==
  LET n == IF m.w.iNormalStart THEN [m EXCEPT !.ind = IndicatorChange(@, old, new)] ELSE m
  IN CASE n.idPin -> n
       [] ~n.idPin /\ new \in {"Attached", "Powered"} ->
            IF old = "Undefined" THEN DeviceAttached(n, old, new) ELSE n
       [] ~n.idPin /\ new = "Undefined" -> DeviceDetached(n, old)
       [] OTHER -> IF n.w.iState = "Started" THEN HandlerStateChange(n, old, new) ELSE n

\* Mutant: a start under way is not cancelled by the lock.
LockOnlyStarted(m) ==
  IF m.idPin \/ m.dev.current = "Undefined" \/ m.w.iState # "Started" THEN m
  ELSE Stop(CancelCableConnectedNotifier(m))

\* Lock (remote lock): a connected personality is stopped.
Lock(m) ==
  IF m.idPin \/ m.dev.current = "Undefined" THEN m
  ELSE LET n == CancelCableConnectedNotifier(m)
       IN IF n.w.iState # "Started" THEN Cancel(n) ELSE Stop(n)

\* Mutant: without a cable.
UnlockAnyDevice(m) == IF ~m.idPin THEN Start(m) ELSE m

Unlock(m) ==
  IF ~m.idPin /\ m.dev.current \in {"Attached", "Powered"} THEN Start(m) ELSE m

\* StopPersonality and StartPersonality, called by the global state observer.
StopPersonality(m) ==
  [Stop([m EXCEPT !.w.iPersonalityId = m.w.iPrevPersonalityId]) EXCEPT !.w.iStarted = FALSE]

StartPersonality(m) == StartDevCon(IF m.w.iStarted THEN m ELSE Start(m))

=============================================================================
