------------------------ MODULE UsbWatcherProperties ------------------------
(***************************************************************************)
(* What is checked, and proved, of the usbwatcher process.                 *)
(***************************************************************************)
EXTENDS UsbWatcherSystem

\* Type invariant of every part of the process (CUsbWatcher, its handler, the
\* sessions and the observers).
TypeOK ==
  /\ watcher \in Watcher
  /\ handler \in Handler
  /\ sessions \in [Sessions -> Session]
  /\ property \in Personalities \cup {None}
  /\ cenrep \in Personalities
  /\ indicator \in Indicator
  /\ starter \in Starter
  /\ observer \in Request
  /\ lock \in Lock_
  /\ device \in Device
  /\ global \in GlobalStates
  /\ idPin \in IdPins
  /\ answers \in SUBSET Answer
  /\ fault \in Faults

\* The watcher is active exactly in the states that wait for the handler, so
\* SetActive() never finds it active and RunL never runs in Idle or Started.
ActiveInBusyStates ==
  watcher.active <=> watcher.iState \in {"Starting", "Stopping", "ConfirmStop"}

\* As long as the watcher waits, the handler is at work on that very request
\* and holds the pointer to complete it: no completion is lost, and Cancel()
\* in CUsbWatcher::DoCancel never waits for a completion that cannot come.
\* A handler at rest has completed what it was asked for.
HandlerServesWatcher ==
  watcher.active /\ watcher.iStatus = Pending =>
    /\ handler.active /\ handler.iRequestStatus
    /\ CASE watcher.iState = "Starting" ->
              /\ handler.iState \in {"PrepareStart", "StartUsb", "FinishStart"}
              /\ handler.plugin # None
         [] watcher.iState = "Stopping" ->
              /\ handler.iState \in {"PrepareStop", "StopUsb", "FinishStop"}
              /\ ~handler.isFailureCleanup
         [] watcher.iState = "ConfirmStop" -> handler.iState = "Started"

\* A started personality has its plugin, and an idle watcher has none, but for
\* the one a failed start is still cleaning up (RunError in StartUsb).
PluginFollowsWatcher ==
  /\ watcher.iState \in {"Started", "ConfirmStop"} =>
       handler.iState = "Started" /\ handler.plugin # None
  /\ watcher.iState = "Started" => ~handler.active
  /\ watcher.iState = "Idle" =>
       \/ handler.iState = "Idle" /\ handler.plugin = None /\ ~handler.active
       \/ /\ handler.isFailureCleanup
          /\ handler.iState \in {"PrepareStop", "StopUsb", "FinishStop"}

\* KUsbWatcherSelectedPersonality tells the rest of the phone which personality
\* runs: while one is started it names the plugin that is loaded.
PublishedIsRunning ==
  watcher.iState \in {"Started", "ConfirmStop"} => property = handler.plugin

\* Who is told yes got what was asked for: a SetPersonality that a change completes
\* with KErrNone has its id selected and, unless hidden, saved as the default.  (One
\* that its own session supersedes is completed with KErrNone and nothing is promised.)
AckedIsSaved ==
  \A a \in answers : a.code = KErrNone /\ ~a.superseded
    => watcher.iPersonalityId = a.id /\ (a.id \in Hidden \/ cenrep = a.id)

\* The process never misuses an active object and no Cancel() waits forever.
NeverFaults == fault = NoFault

\* No Cancel() of the watcher waits for a completion nobody owes it: DoCancel
\* leaves iStatus completed in every state it can be called in.
CancelNeverHangs == fault # CancelHangs

\* An action property: remote-locking a connected device stops what runs or has begun
\* to, and leaves no personality up, but for what the code leaves: an unload that is
\* being confirmed is only called off, and the personality goes on; a stop that the lock
\* cancels before TryStop ends with the plugin gone and USB up, and so does the cancelled
\* start of the next personality, as long as USB Manager still runs that one.
BeingStopped == handler.iState \in {"PrepareStop", "StopUsb", "FinishStop"}
UntoldToStop == handler.iState \in {"Idle", "PrepareStart", "PrepareStop"}
LockStops ==
  [][RunLock /\ lock.value = "RemoteLocked" /\ device.current # "Undefined" /\ ~idPin
             /\ watcher.iState # "ConfirmStop"
       => /\ watcher'.iState \in {"Idle", "Stopping"}
          /\ handler'.usb # None =>
               BeingStopped' \/ (UntoldToStop /\ handler'.usb = handler.usb)]_vars

\* An action property: a personality is started only when a cable is connected,
\* or before the report of its removal has been handled.
StartsOnlyWithCable ==
  [][watcher.iState # "Starting" /\ watcher'.iState = "Starting"
       => device.current # "Undefined" \/ device.ready]_vars

\* The indicators follow the device state last handled: none without a cable,
\* never both, and "connected" in Configured once the watcher has started.
IndicatorTracksDevice ==
  /\ ~(indicator.addressed /\ indicator.connected)
  /\ device.iPreviousState \in {"Undefined", "Attached", "Powered", "Default"}
        => ~indicator.connected
  /\ device.iPreviousState = "Undefined" => ~indicator.addressed
  /\ device.iPreviousState = "Configured" /\ watcher.iNormalStart => indicator.connected

\* The handler implements the life cycle of a personality: USB is brought up only for the
\* loaded plugin, and no plugin is dropped or replaced under a running USB, but when what
\* the plugin prepares is cancelled: DoCancel then tells USB Manager nothing.
Lifecycle == INSTANCE PersonalityLifecycle WITH
  loaded <- handler.plugin, up <- handler.usb,
  preparing <- handler.iState \in {"PrepareStart", "PrepareStop"}
LifecycleSpec == Lifecycle!LifecycleSpec

\* The process is at rest: nothing it was told about is still to be handled.
Disconnected == device.current = "Undefined" /\ device.iPreviousState = "Undefined"
Connected == device.iPreviousState # "Undefined" /\ ~device.ready

\* Liveness: once the cable is out for good the watcher goes to Idle for good.
DisconnectStops == <>[]Disconnected => <>[](watcher.iState = "Idle" \/ ~Running)

\* Liveness: with a cable in, a phone that reached the normal state, is never
\* locked and where no start fails gets its personality started for good.
NothingFails == watcher.iStatus # KErrGeneral /\ handler.iStatus # KErrGeneral
ConnectStarts ==
  []NothingFails /\ [](lock.value = "Off") /\ <>[](Connected /\ global = "Normal")
    => <>[](watcher.iState = "Started" \/ ~Running)

\* Liveness: on a phone in the normal global state that is never locked, every outstanding
\* SetPersonality is answered (or its session is closed, or the process has ended).  On a
\* locked phone, and before the normal state, Start() forgets the change: it neither starts
\* nor notifies; and a remote lock calls off an unload that is being confirmed, unanswered.
RequestsAnswered ==
  [](lock.value = "Off" /\ global = "Normal") =>
    \A s \in Sessions :
      sessions[s].set # None
        ~> \/ sessions[s].set = None \/ ~Running
           \/ \E a \in answers : a.session = s

=============================================================================
