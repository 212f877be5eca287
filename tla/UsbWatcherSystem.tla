-------------------------- MODULE UsbWatcherSystem --------------------------
(***************************************************************************)
(* The usbwatcher process: CUsbWatcher with its personality handler,       *)
(* sessions, device-state, device-lock and global-state observers, the     *)
(* indicator handler and the usbdevcon starter, under one active           *)
(* scheduler, and the outside that completes their requests.               *)
(*                                                                         *)
(* One action per RunL and per client message, each the whole handler.     *)
(* The outside acts between any two of them.                               *)
(***************************************************************************)
EXTENDS UsbWatcher

CONSTANTS
  BusStates,        \* device states USB Manager reports
  GlobalStates,     \* values of KPSGlobalSystemState, folded to four
  LockValues,       \* values of the autolock status: Off, RemoteLocked, Other
  IdPins,           \* values the ID pin takes: TRUE is the A-device
  ClientOps,        \* operations the clients use
  NonBlocking,      \* values of aNonBlocking in SetPersonality
  Outside           \* answers of the outside: [disk, plugin, process]

ClientOperations == { "Set", "CancelSet", "SetPrevious", "SetPreviousSync",
                      "CancelSetPrevious", "OnDisconnect", "Close" }
AllGlobalStates == { "Other", "Charging", "ChargingToNormal", "Normal" }
AllLockValues   == { "Off", "RemoteLocked", "Other" }
Answers == [disk : Codes, plugin : Codes, process : Codes]

ASSUME SystemAssumption ==
  /\ BusStates \subseteq DeviceStates /\ "Undefined" \in BusStates
  /\ GlobalStates \subseteq AllGlobalStates
  /\ LockValues \subseteq AllLockValues /\ "Off" \in LockValues
  /\ IdPins \subseteq BOOLEAN
  /\ ClientOps \subseteq ClientOperations
  /\ NonBlocking \subseteq BOOLEAN
  /\ Outside \subseteq Answers /\ Outside # {}

VARIABLES
  watcher,    \* CUsbWatcher
  handler,    \* CUsbActivePersonalityHandler
  sessions,   \* CUsbWatcherSession of every client
  property,   \* P&S KUsbWatcherSelectedPersonality
  cenrep,     \* central repository KUsbWatcherPersonality
  indicator,  \* CUsbIndicatorHandler
  starter,    \* CUsbDevConStarter
  observer,   \* CUsbGlobalSystemStateObserver
  lock,       \* CUsbDeviceLock and the autolock status it observes
  device,     \* CUsbActiveState and the state it was last given
  global,     \* P&S KPSGlobalSystemState
  idPin,      \* P&S ID pin: TRUE when the A-plug is connected
  answers,    \* SetPersonality messages completed by the last step
  fault       \* how the process ended, NoFault while it runs

vars == << watcher, handler, sessions, property, cenrep, indicator, starter,
           observer, lock, device, global, idPin, answers, fault >>

Request == [active : BOOLEAN, iStatus : Statuses]
Device  == [current : BusStates, iPreviousState : BusStates, ready : BOOLEAN]
Lock_   == [value : LockValues, ready : BOOLEAN]
Answer  == [session : Sessions, id : Personalities \cup {Unsupported}, code : Codes,
            superseded : BOOLEAN]

\* The memory a handler starts with, given the answers it is going to get.
Mem(in) == [ w |-> watcher, h |-> handler, ss |-> sessions, prop |-> property,
             cenrep |-> cenrep, ind |-> indicator, starter |-> starter,
             obs |-> observer, lock |-> lock, dev |-> device, global |-> global,
             idPin |-> idPin, answers |-> {}, fault |-> NoFault, in |-> in ]

\* The memory a handler ends with; a fault ends the process where it stood.
Commit(m) ==
  /\ fault' = m.fault
  /\ IF m.fault # NoFault
       THEN UNCHANGED << watcher, handler, sessions, property, cenrep, indicator,
                         starter, observer, lock, device, global, idPin, answers >>
       ELSE /\ watcher' = m.w /\ handler' = m.h /\ sessions' = m.ss
            /\ property' = m.prop /\ cenrep' = m.cenrep /\ indicator' = m.ind
            /\ starter' = m.starter /\ observer' = m.obs /\ lock' = m.lock
            /\ device' = m.dev /\ answers' = m.answers
            /\ UNCHANGED << global, idPin >>

Running == fault = NoFault

-----------------------------------------------------------------------------
\* ConstructL: the active objects are constructed and the state of the device
\* is Undefined (a cable found at boot is the first event reported).
Init ==
  /\ \E p \in Personalities : watcher = InitWatcher(p) /\ cenrep = p
  /\ handler = InitHandler
  /\ sessions = [s \in Sessions |-> NoMessages]
  /\ property = None
  /\ indicator = InitIndicator
  /\ starter = InitStarter
  /\ observer = [active |-> FALSE, iStatus |-> KErrNone]
  /\ lock \in [value : LockValues, ready : {FALSE}]
  /\ device = [current |-> "Undefined", iPreviousState |-> "Undefined", ready |-> FALSE]
  /\ global \in GlobalStates
  /\ idPin \in IdPins
  /\ answers = {}
  /\ fault = NoFault

-----------------------------------------------------------------------------
\* The active scheduler.  All active objects of the process have the same
\* priority, so the first ready one in the order of CActiveScheduler::Add runs.
\* The server has a higher priority: a client's message is served before them.
WatcherReady  == Ready(watcher)
HandlerReady  == ~WatcherReady /\ Ready(handler)
LockReady     == ~WatcherReady /\ ~Ready(handler) /\ lock.ready
ObserverReady == ~WatcherReady /\ ~Ready(handler) /\ ~lock.ready /\ Ready(observer)
StarterReady  == /\ ~WatcherReady /\ ~Ready(handler) /\ ~lock.ready /\ ~Ready(observer)
                 /\ Ready(starter)
DeviceReady   == /\ ~WatcherReady /\ ~Ready(handler) /\ ~lock.ready /\ ~Ready(observer)
                 /\ ~Ready(starter) /\ device.ready

RunWatcher == /\ Running /\ WatcherReady
              /\ \E in \in Outside : Commit(WatcherRunL(Mem(in)))

RunHandler == /\ Running /\ HandlerReady
              /\ \E in \in Outside : Commit(HandlerRunL(Mem(in)))

\* CUsbDeviceLock::RunL subscribes again and reads the present value.
RunLock ==
  /\ Running /\ LockReady
  /\ \E in \in Outside :
       LET m == [Mem(in) EXCEPT !.lock.ready = FALSE] IN
       Commit(CASE lock.value = "Off" -> Unlock(m)
                [] lock.value = "RemoteLocked" -> Lock(m)
                [] OTHER -> m)

\* CUsbGlobalSystemStateObserver::RunL subscribes again and reads the present value.
RunObserver ==
  /\ Running /\ ObserverReady
  /\ \E in \in Outside :
       LET m == [Mem(in) EXCEPT !.obs.iStatus = Pending] IN
       Commit(CASE global = "ChargingToNormal" -> StopPersonality(m)
                [] global = "Charging" -> StartPersonality(m)
                [] global = "Normal" -> StartPersonality(CancelObserver(m))
                [] OTHER -> m)

RunStarter == /\ Running /\ StarterReady
              /\ \E in \in Outside : Commit(StarterRunL(Mem(in)))

\* CUsbActiveState::RunL asks for the next state, then reports a change.
RunDevice ==
  /\ Running /\ DeviceReady
  /\ \E in \in Outside :
       LET new == device.current
           old == device.iPreviousState
           m == [Mem(in) EXCEPT !.dev.ready = FALSE]
       IN Commit(IF new = old THEN m
                 ELSE [StateChangeNotify(m, old, new) EXCEPT !.dev.iPreviousState = new])

-----------------------------------------------------------------------------
\* Messages of the clients.  CUsbWatcherSession answers an earlier message of
\* the same kind with KErrNone, ends every other pending change, and asks.

\* The session's own earlier SetPersonality is completed with KErrNone.
SupersedeSet(m, s) ==
  [m EXCEPT !.ss[s].set = None,
            !.answers = IF m.ss[s].set = None THEN @
                        ELSE @ \cup {[session |-> s, id |-> m.ss[s].set,
                                      code |-> KErrNone, superseded |-> TRUE]}]

SessionSetPersonality(s, id, nonBlocking) ==
  \E in \in Outside :
    LET n == Notify(SupersedeSet(Mem(in), s), KErrCancel)
    IN Commit(SetPersonality([n EXCEPT !.ss[s].set = id], id, nonBlocking))

SessionCancelSetPersonality(s) ==
  /\ sessions[s].set # None
  /\ \E in \in Outside : Commit(CancelChange([Mem(in) EXCEPT !.ss[s].cancelSet = TRUE]))

SessionSetPrevious(s, sync) ==
  \E in \in Outside :
    LET n == Notify([Mem(in) EXCEPT !.ss[s].setPrevious = FALSE], KErrCancel)
    IN Commit(SetPreviousPersonality([n EXCEPT !.ss[s].setPrevious = ~sync]))

SessionCancelSetPrevious(s) ==
  /\ sessions[s].setPrevious
  /\ \E in \in Outside : Commit(CancelChange([Mem(in) EXCEPT !.ss[s].cancelSetPrevious = TRUE]))

SessionOnDisconnect(s) ==
  \E in \in Outside : Commit(SetPreviousPersonalityOnDisconnect(Mem(in)))

\* The client closes its session, or dies: the destructor only deregisters it.
SessionClose(s) ==
  /\ sessions[s] # NoMessages
  /\ \E in \in Outside : Commit([Mem(in) EXCEPT !.ss[s] = NoMessages])

Client(s) ==
  /\ Running
  /\ \/ /\ "Set" \in ClientOps
        /\ \E id \in Personalities \cup {Unsupported}, nb \in NonBlocking :
             SessionSetPersonality(s, id, nb)
     \/ "CancelSet" \in ClientOps /\ SessionCancelSetPersonality(s)
     \/ "SetPrevious" \in ClientOps /\ SessionSetPrevious(s, FALSE)
     \/ "SetPreviousSync" \in ClientOps /\ SessionSetPrevious(s, TRUE)
     \/ "CancelSetPrevious" \in ClientOps /\ SessionCancelSetPrevious(s)
     \/ "OnDisconnect" \in ClientOps /\ SessionOnDisconnect(s)
     \/ "Close" \in ClientOps /\ SessionClose(s)

-----------------------------------------------------------------------------
\* The outside.

\* The personality plugin answers a call it had deferred.
PluginAnswers ==
  /\ Running /\ handler.active /\ handler.iStatus = Pending
  /\ \/ /\ handler.iState \in PluginCalls
        /\ handler' = [handler EXCEPT !.iStatus = KErrNone]
     \/ /\ handler.iState = "Started"
        /\ \E code \in ConfirmAnswers : handler' = [handler EXCEPT !.iStatus = code]
  /\ UNCHANGED << watcher, sessions, property, cenrep, indicator, starter,
                  observer, lock, device, global, idPin, fault >>
  /\ answers' = {}

\* USB Manager answers TryStart or TryStop.
UsbManagerAnswers ==
  /\ Running /\ handler.active /\ handler.iStatus = Pending
  /\ \/ /\ handler.iState = "StartUsb"
        /\ \E code \in TryStartAnswers : handler' = [handler EXCEPT !.iStatus = code]
     \/ /\ handler.iState = "StopUsb"
        /\ handler' = [handler EXCEPT !.iStatus = KErrNone]
  /\ UNCHANGED << watcher, sessions, property, cenrep, indicator, starter,
                  observer, lock, device, global, idPin, fault >>
  /\ answers' = {}

\* The user closes the cable-connected query.
UserClosesNote ==
  /\ Running /\ handler.cableNote
  /\ handler' = [handler EXCEPT !.cableNote = FALSE]
  /\ UNCHANGED << watcher, sessions, property, cenrep, indicator, starter,
                  observer, lock, device, global, idPin, fault >>
  /\ answers' = {}

\* The usbdevcon process reaches its rendezvous, or terminates.
DevConProcess ==
  /\ Running /\ starter.active /\ starter.iStatus = Pending
  /\ \E code \in {KErrNone, KErrGeneral} : starter' = [starter EXCEPT !.iStatus = code]
  /\ UNCHANGED << watcher, handler, sessions, property, cenrep, indicator,
                  observer, lock, device, global, idPin, fault >>
  /\ answers' = {}

\* USB Manager reports a device state.  States in between may have been missed,
\* but a connection begins with Attached, or with Powered when that was missed,
\* and the host enumerates only a device with a personality up.
Enumerated == { "Default", "Address", "Configured" }
BusNext(st) ==
  CASE st = "Undefined" -> BusStates \cap {"Attached", "Powered"}
    [] st # "Undefined" /\ handler.usb = None -> BusStates \ Enumerated
    [] OTHER -> BusStates

DeviceStateReported ==
  /\ Running /\ ~device.ready
  /\ \E st \in BusNext(device.current) :
       device' = [device EXCEPT !.current = st, !.ready = TRUE]
  /\ UNCHANGED << watcher, handler, sessions, property, cenrep, indicator, starter,
                  observer, lock, global, idPin, fault >>
  /\ answers' = {}

LockChanges ==
  /\ Running
  /\ \E v \in LockValues \ {lock.value} : lock' = [value |-> v, ready |-> TRUE]
  /\ UNCHANGED << watcher, handler, sessions, property, cenrep, indicator, starter,
                  observer, device, global, idPin, fault >>
  /\ answers' = {}

\* The global state of the phone: it starts up into charging or normal mode,
\* and leaves charging through the state ChargingToNormal.
GlobalSteps == { <<"Other", "Charging">>, <<"Other", "Normal">>,
                 <<"Charging", "ChargingToNormal">>, <<"ChargingToNormal", "Normal">> }

GlobalStateChanges ==
  /\ Running
  /\ \E g \in GlobalStates : <<global, g>> \in GlobalSteps /\ global' = g
  /\ observer' = [observer EXCEPT !.iStatus = IF observer.active THEN KErrNone ELSE @]
  /\ UNCHANGED << watcher, handler, sessions, property, cenrep, indicator, starter,
                  lock, device, idPin, fault >>
  /\ answers' = {}

IdPinChanges ==
  /\ Running
  /\ idPin' \in IdPins \ {idPin}
  /\ UNCHANGED << watcher, handler, sessions, property, cenrep, indicator, starter,
                  observer, lock, device, global, fault >>
  /\ answers' = {}

-----------------------------------------------------------------------------
Scheduler == RunWatcher \/ RunHandler \/ RunLock \/ RunObserver \/ RunStarter \/ RunDevice
World == \/ PluginAnswers \/ UsbManagerAnswers \/ UserClosesNote \/ DevConProcess
         \/ DeviceStateReported \/ LockChanges \/ GlobalStateChanges \/ IdPinChanges

Next == Scheduler \/ World \/ \E s \in Sessions : Client(s)

Spec == Init /\ [][Next]_vars

\* The scheduler keeps running ready objects; the plugin and USB Manager answer
\* what they are asked.  Clients, the user and the cable owe nothing.  The first
\* conjunct is WF_vars(Scheduler) with its ENABLED written out: one of the active
\* objects is ready exactly when the scheduler can take a step.
SomethingReady == /\ Running
                  /\ \/ Ready(watcher) \/ Ready(handler) \/ lock.ready
                     \/ Ready(observer) \/ Ready(starter) \/ device.ready
Fairness == /\ []<><<Scheduler>>_vars \/ []<>~SomethingReady
            /\ WF_vars(PluginAnswers)
            /\ WF_vars(UsbManagerAnswers)

FairSpec == Spec /\ Fairness

=============================================================================
