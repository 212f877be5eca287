-------------------------- MODULE UsbWatcherTypes --------------------------
(***************************************************************************)
(* Type correctness of the usbwatcher process, for every set of            *)
(* personalities, sessions and environments: THEOREM TypeCorrect.          *)
(*                                                                         *)
(* The operators of the components map a memory to a memory, so there is   *)
(* one lemma per operator saying that it preserves Memory, in the order of *)
(* the modules, and one step per action in the theorem.                    *)
(***************************************************************************)
EXTENDS UsbWatcherProperties, TLAPS

\* The type of the memory record the handlers work on.
Memory == [ w : Watcher, h : Handler, ss : [Sessions -> Session],
            prop : Personalities \cup {None}, cenrep : Personalities, ind : Indicator,
            starter : Starter, obs : Request, lock : Lock_, dev : Device,
            global : GlobalStates, idPin : IdPins, answers : SUBSET Answer,
            fault : Faults, in : Answers ]

USE DEF Codes, Statuses

-----------------------------------------------------------------------------
\* The personality handler (CUsbActivePersonalityHandler).

\* HandlerActive maps a memory to a memory.
LEMMA HandlerActiveType ==
  ASSUME NEW m \in Memory, NEW st \in Statuses
  PROVE  HandlerActive(m, st) \in Memory
<1>1. [m.h EXCEPT !.active = TRUE, !.iStatus = st] \in Handler
  BY DEF Memory, Handler
<1> QED BY <1>1 DEF HandlerActive, Memory, Faults, Raise

\* CompleteRequest maps a memory to a memory.
LEMMA CompleteRequestType ==
  ASSUME NEW m \in Memory, NEW code \in Codes
  PROVE  CompleteRequest(m, code) \in Memory
<1>1. [m.w EXCEPT !.iStatus = code] \in Watcher
  BY DEF Memory, Watcher
<1>2. [m.h EXCEPT !.iRequestStatus = FALSE] \in Handler
  BY DEF Memory, Handler
<1>3. [m EXCEPT !.w = [m.w EXCEPT !.iStatus = code],
                !.h = [m.h EXCEPT !.iRequestStatus = FALSE]] \in Memory
  BY <1>1, <1>2 DEF Memory
<1>4. \A f \in Faults : [m EXCEPT !.fault = f] \in Memory
  BY DEF Memory
<1> QED BY <1>3, <1>4 DEF CompleteRequest, Faults, Memory, Raise

\* TakeRequest maps a memory to a memory.
LEMMA TakeRequestType ==
  ASSUME NEW m \in Memory
  PROVE  TakeRequest(m) \in Memory
<1>1. [m.w EXCEPT !.iStatus = Pending] \in Watcher
  BY DEF Memory, Watcher
<1>2. [m.h EXCEPT !.iRequestStatus = TRUE] \in Handler
  BY DEF Memory, Handler
<1> QED BY <1>1, <1>2 DEF TakeRequest, Memory

\* CancelAllNotes maps a memory to a memory.
LEMMA CancelAllNotesType ==
  ASSUME NEW m \in Memory
  PROVE  CancelAllNotes(m) \in Memory
<1>1. [m.h EXCEPT !.cableNote = FALSE] \in Handler
  BY DEF Memory, Handler
<1> QED BY <1>1 DEF CancelAllNotes, Memory

\* A call of the plugin is answered at once or is pending.
LEMMA PluginStatusType == ASSUME NEW call PROVE PluginStatus(call) \in Statuses
BY DEF PluginStatus

\* Confirm maps a memory to a memory.
LEMMA ConfirmType ==
  ASSUME NEW m \in Memory
  PROVE  ConfirmPersonalityUnload(m) \in Memory
<1> DEFINE t == TakeRequest(m)
<1>1. t \in Memory /\ CancelAllNotes(t) \in Memory
  BY TakeRequestType, CancelAllNotesType
<1> HIDE DEF t
<1>2. \A st \in Statuses : HandlerActive(t, st) \in Memory
                           /\ HandlerActive(CancelAllNotes(t), st) \in Memory
  BY <1>1, HandlerActiveType
<1> QED BY <1>2 DEF ConfirmPersonalityUnload, t

\* HandlerStart maps a memory to a memory.
LEMMA HandlerStartType ==
  ASSUME NEW m \in Memory
  PROVE  HandlerStart(m) \in Memory
<1> DEFINE t == CancelAllNotes(TakeRequest(m))
           id == m.w.iPersonalityId
           u == [t EXCEPT !.h.plugin = id, !.h.iState = "PrepareStart",
                          !.h.isFailureCleanup = FALSE]
<1>1. t \in Memory
  BY TakeRequestType, CancelAllNotesType
<1>2. CompleteRequest(t, KErrGeneral) \in Memory
  BY <1>1, CompleteRequestType
<1>3. ASSUME id \in Personalities
      PROVE  HandlerActive(u, PluginStatus("PrepareStart")) \in Memory
  <2> HIDE DEF t, id
  <2>1. [t.h EXCEPT !.plugin = id, !.iState = "PrepareStart", !.isFailureCleanup = FALSE]
          \in Handler
    BY <1>1, <1>3 DEF Memory, Handler, HandlerStates
  <2>2. u \in Memory
    BY <1>1, <2>1 DEF Memory
  <2> QED BY <2>2, HandlerActiveType, PluginStatusType
<1> QED BY <1>2, <1>3 DEF HandlerStart

\* PrepareStop maps a memory to a memory.
LEMMA PrepareStopType ==
  ASSUME NEW m \in Memory, NEW cleanup \in BOOLEAN
  PROVE  PrepareStop(m, cleanup) \in Memory
<1> DEFINE t == [m EXCEPT !.h.iState = "PrepareStop", !.h.isFailureCleanup = cleanup]
<1>1. [m.h EXCEPT !.iState = "PrepareStop", !.isFailureCleanup = cleanup] \in Handler
  BY DEF Memory, Handler, HandlerStates
<1>2. t \in Memory
  BY <1>1 DEF Memory
<1>3. \A st \in Statuses : HandlerActive(t, st) \in Memory
  BY <1>2, HandlerActiveType
<1> QED BY <1>2, <1>3, PluginStatusType DEF PrepareStop

\* HandlerStop maps a memory to a memory.
LEMMA HandlerStopType ==
  ASSUME NEW m \in Memory
  PROVE  HandlerStop(m) \in Memory
BY TakeRequestType, PrepareStopType DEF HandlerStop

\* HandlerStateChange maps a memory to a memory.
LEMMA HandlerStateChangeType ==
  ASSUME NEW m \in Memory, NEW old, NEW new
  PROVE  HandlerStateChange(m, old, new) \in Memory
<1>1. \A b \in BOOLEAN, c \in BOOLEAN :
        [m.h EXCEPT !.undefined = b, !.cableNote = c] \in Handler
  BY DEF Memory, Handler
<1>2. \A b \in BOOLEAN, c \in BOOLEAN :
        [m EXCEPT !.h.undefined = b, !.h.cableNote = c] \in Memory
  BY <1>1 DEF Memory
<1>3. m.h.cableNote \in BOOLEAN
  BY DEF Memory, Handler
<1> QED BY <1>2, <1>3 DEF HandlerStateChange

\* What DoCancel makes of the handler.
LEMMA CancelledType ==
  ASSUME NEW h \in Handler
  PROVE  /\ Cancelled(h) \in Handler /\ ~Cancelled(h).active
         /\ Cancelled(h).iRequestStatus = h.iRequestStatus
         /\ h.iState = "Started"
              => Cancelled(h).iState = "Started" /\ Cancelled(h).plugin = h.plugin
         /\ h.iState # "Started"
              => Cancelled(h).iState = "Idle" /\ Cancelled(h).plugin = None
         /\ Cancelled(h).usb = IF h.iState \in UsbEnds THEN None ELSE h.usb
BY DEF Cancelled, Handler, HandlerStates

\* HandlerCancel maps a memory to a memory.
LEMMA HandlerCancelType ==
  ASSUME NEW m \in Memory
  PROVE  HandlerCancel(m) \in Memory
<1> DEFINE f == IF m.h.iState = "FinishStart" THEN Raise(m.fault, SetActiveTwice) ELSE m.fault
           d == [m EXCEPT !.h = Cancelled(m.h), !.fault = f]
<1>1. Cancelled(m.h) \in Handler
  BY CancelledType DEF Memory
<1>2. f \in Faults
  BY DEF Memory, Faults, Raise
<1>3. d \in Memory
  BY <1>1, <1>2 DEF Memory
<1>4. CancelAllNotes(d) \in Memory
  BY <1>3, CancelAllNotesType
<1>5. CompleteRequest(CancelAllNotes(d), KErrCancel) \in Memory
  BY <1>4, CompleteRequestType
<1> QED BY <1>5 DEF HandlerCancel

\* HandlerRunL maps a memory to a memory.
LEMMA HandlerRunLType ==
  ASSUME NEW m \in Memory, m.h.iStatus \in Codes
  PROVE  HandlerRunL(m) \in Memory
<1> DEFINE ret == m.h.iStatus
           d == [m EXCEPT !.h.active = FALSE]
           to(s, st) == HandlerActive([d EXCEPT !.h.iState = s], st)
           done(n) == CompleteRequest(n, ret)
<1>1. /\ d \in Memory
      /\ [d EXCEPT !.h.usb = None] \in Memory
  <2>1. /\ [m.h EXCEPT !.active = FALSE] \in Handler
        /\ [m.h EXCEPT !.active = FALSE, !.usb = None] \in Handler
    BY DEF Memory, Handler
  <2> QED BY <2>1 DEF Memory
<1>2. ASSUME NEW s \in HandlerStates, NEW st \in Statuses
      PROVE  to(s, st) \in Memory
  <2>1. [d.h EXCEPT !.iState = s] \in Handler
    BY <1>1 DEF Memory, Handler
  <2>2. [d EXCEPT !.h.iState = s] \in Memory
    BY <1>1, <2>1 DEF Memory
  <2> QED BY <2>2, HandlerActiveType
<1>3. CASE m.h.iState = "PrepareStart"
  <2>1. to("StartUsb", Pending) \in Memory
    BY <1>2 DEF HandlerStates
  <2> DEFINE n == to("StartUsb", Pending)
  <2> HIDE DEF n
  <2>2. n \in Memory /\ m.w.iPersonalityId \in Personalities
    BY <2>1 DEF n, Memory, Watcher
  <2>3. [n.h EXCEPT !.usb = m.w.iPersonalityId] \in Handler
    BY <2>2 DEF Memory, Handler
  <2>4. [n EXCEPT !.h.usb = m.w.iPersonalityId] \in Memory
    BY <2>2, <2>3 DEF Memory
  <2> QED BY <1>3, <2>4 DEF HandlerRunL, n
<1>4. CASE m.h.iState = "StartUsb"
  <2>1. HandlerRunError([d EXCEPT !.h.usb = None], ret) \in Memory
    BY <1>1, PrepareStopType, CompleteRequestType DEF HandlerRunError
  <2>2. to("FinishStart", PluginStatus("FinishStart")) \in Memory
    BY <1>2, PluginStatusType DEF HandlerStates
  <2> QED BY <1>4, <2>1, <2>2 DEF HandlerRunL
<1>5. CASE m.h.iState = "FinishStart"
  <2> DEFINE n == done(d)
  <2>1. n \in Memory
    BY <1>1, CompleteRequestType
  <2> HIDE DEF n
  <2>2. [n.h EXCEPT !.iState = "Started"] \in Handler
    BY <2>1 DEF Memory, Handler, HandlerStates
  <2>3. [n EXCEPT !.h.iState = "Started"] \in Memory
    BY <2>1, <2>2 DEF Memory
  <2> QED BY <1>5, <2>3 DEF HandlerRunL, n
<1>6. CASE m.h.iState \in {"PrepareStop", "StopUsb"}
  <2>1. /\ to("StopUsb", Pending) \in Memory
        /\ to("FinishStop", PluginStatus("FinishStop")) \in Memory
    BY <1>2, PluginStatusType DEF HandlerStates
  <2> QED BY <1>6, <2>1 DEF HandlerRunL
<1>7. CASE m.h.iState = "FinishStop"
  <2> DEFINE f == [d EXCEPT !.h.plugin = None, !.h.usb = None, !.h.iState = "Idle",
                            !.h.cableNote = @ /\ ~m.h.undefined]
  <2> DEFINE note == d.h.cableNote /\ ~m.h.undefined
  <2>1. f \in Memory
    <3>1. note \in BOOLEAN
      OBVIOUS
    <3> HIDE DEF note
    <3>2. [d.h EXCEPT !.plugin = None, !.usb = None, !.iState = "Idle", !.cableNote = note]
            \in Handler
      <4>1. d.h \in Handler
        BY <1>1 DEF Memory
      <4> HIDE DEF d
      <4> QED BY <3>1, <4>1 DEF Handler, HandlerStates
    <3>3. [d EXCEPT !.h.plugin = None, !.h.usb = None, !.h.iState = "Idle",
                    !.h.cableNote = note] \in Memory
      BY <1>1, <3>2 DEF Memory
    <3> QED BY <3>3 DEF note
  <2>2. done(f) \in Memory
    BY <2>1, CompleteRequestType
  <2> QED BY <1>7, <2>1, <2>2 DEF HandlerRunL
<1>8. CASE m.h.iState \in {"Idle", "Started"}
  <2>1. done(d) \in Memory
    BY <1>1, CompleteRequestType
  <2> QED BY <1>8, <1>1, <2>1 DEF HandlerRunL
<1>9. m.h.iState \in HandlerStates
  BY DEF Memory, Handler
<1> QED BY <1>3, <1>4, <1>5, <1>6, <1>7, <1>8, <1>9 DEF HandlerStates

-----------------------------------------------------------------------------
\* The starter of usbdevcon and the indicator handler.

\* StarterWaits maps a memory to a memory.
LEMMA StarterWaitsType ==
  ASSUME NEW m \in Memory, NEW s \in StarterStates
  PROVE  StarterWaits(m, s) \in Memory
<1>1. [m.starter EXCEPT !.iState = s, !.active = TRUE, !.iStatus = Pending] \in Starter
  BY DEF Memory, Starter
<1> QED BY <1>1 DEF StarterWaits, Memory, Faults, Raise

\* StarterFlag maps a memory to a memory.
LEMMA StarterFlagType ==
  ASSUME NEW m \in Memory, NEW b \in BOOLEAN
  PROVE  [m EXCEPT !.starter.iStarted = b] \in Memory
<1>1. [m.starter EXCEPT !.iStarted = b] \in Starter
  BY DEF Memory, Starter
<1> QED BY <1>1 DEF Memory

\* StarterStart maps a memory to a memory.
LEMMA StarterStartType ==
  ASSUME NEW m \in Memory
  PROVE  StarterStart(m) \in Memory
<1>1. /\ [m EXCEPT !.starter.iStarted = TRUE] \in Memory
      /\ [m EXCEPT !.starter.iStarted = FALSE] \in Memory
  BY StarterFlagType
<1>2. StarterWaits([m EXCEPT !.starter.iStarted = TRUE], "WaitingRendezvous") \in Memory
  BY <1>1, StarterWaitsType DEF StarterStates
<1> QED BY <1>1, <1>2 DEF StarterStart

\* StopRestarting maps a memory to a memory.
LEMMA StopRestartingType ==
  ASSUME NEW m \in Memory
  PROVE  StopRestarting(m) \in Memory
BY StarterFlagType DEF StopRestarting

\* StarterRunL maps a memory to a memory.
LEMMA StarterRunLType ==
  ASSUME NEW m \in Memory
  PROVE  StarterRunL(m) \in Memory
<1> DEFINE d == [m EXCEPT !.starter.active = FALSE]
           i == [d EXCEPT !.starter.iState = "Idle"]
<1>1. d \in Memory
  <2>1. [m.starter EXCEPT !.active = FALSE] \in Starter
    BY DEF Memory, Starter
  <2> QED BY <2>1 DEF Memory
<1>2. i \in Memory
  <2>1. [d.starter EXCEPT !.iState = "Idle"] \in Starter
    BY <1>1 DEF Memory, Starter, StarterStates
  <2> QED BY <1>1, <2>1 DEF Memory
<1>3. StarterWaits(d, "Running") \in Memory /\ StarterStart(i) \in Memory
  BY <1>1, <1>2, StarterWaitsType, StarterStartType DEF StarterStates
<1>4. m.starter.iState \in StarterStates
  BY DEF Memory, Starter
<1> QED BY <1>1, <1>2, <1>3, <1>4 DEF StarterRunL, StarterStates

\* Showing an indicator keeps the type of the handler of indicators.
LEMMA ShowType ==
  ASSUME NEW i \in Indicator, NEW on \in BOOLEAN
  PROVE  ShowConnected(i, on) \in Indicator /\ ShowAddressed(i, on) \in Indicator
BY DEF ShowConnected, ShowAddressed, Indicator

\* A change of the device state keeps the type of the handler of indicators.
LEMMA IndicatorChangeType ==
  ASSUME NEW i \in Indicator, NEW old \in DeviceStates, NEW new \in DeviceStates
  PROVE  IndicatorChange(i, old, new) \in Indicator
<1>1. ShowConnected(i, FALSE) \in Indicator
  BY ShowType
<1>2. /\ ShowAddressed(i, TRUE) \in Indicator
      /\ ShowAddressed(ShowConnected(i, FALSE), TRUE) \in Indicator
  BY <1>1, ShowType
<1>3. \A on \in BOOLEAN : ShowConnected(ShowAddressed(i, FALSE), on) \in Indicator
  BY ShowType
<1>4. [i EXCEPT !.iDevStateB4Suspend = old] \in Indicator
  BY DEF Indicator
<1> QED BY <1>1, <1>2, <1>3, <1>4 DEF IndicatorChange, DeviceStates

-----------------------------------------------------------------------------
\* CUsbWatcher.  A memory stays one when its watcher is replaced by a watcher,
\* and so on for the other parts the methods assign to.

\* A memory whose watcher is replaced by a watcher is a memory.
LEMMA SetWatcherType ==
  ASSUME NEW m \in Memory, NEW w \in Watcher
  PROVE  [m EXCEPT !.w = w] \in Memory
BY DEF Memory

\* The fields of the watcher, one assignment at a time.
LEMMA WatcherFlags ==
  ASSUME NEW m \in Memory, NEW b \in BOOLEAN
  PROVE  /\ [m EXCEPT !.w.active = b] \in Memory
         /\ [m EXCEPT !.w.iSetPersonalityOngoing = b] \in Memory
         /\ [m EXCEPT !.w.iSetPreviousPersonalityOngoing = b] \in Memory
         /\ [m EXCEPT !.w.iPersonalityChangeOngoing = b] \in Memory
         /\ [m EXCEPT !.w.iStopStartScenario = b] \in Memory
         /\ [m EXCEPT !.w.iSetPreviousPersonalityOnDisconnect = b] \in Memory
         /\ [m EXCEPT !.w.iStarted = b] \in Memory
         /\ [m EXCEPT !.w.iNormalStart = b] \in Memory
<1>1. m.w \in Watcher
  BY DEF Memory
<1>2. /\ [m.w EXCEPT !.active = b] \in Watcher
      /\ [m.w EXCEPT !.iSetPersonalityOngoing = b] \in Watcher
      /\ [m.w EXCEPT !.iSetPreviousPersonalityOngoing = b] \in Watcher
      /\ [m.w EXCEPT !.iPersonalityChangeOngoing = b] \in Watcher
  BY <1>1 DEF Watcher
<1>3. /\ [m.w EXCEPT !.iStopStartScenario = b] \in Watcher
      /\ [m.w EXCEPT !.iSetPreviousPersonalityOnDisconnect = b] \in Watcher
      /\ [m.w EXCEPT !.iStarted = b] \in Watcher
      /\ [m.w EXCEPT !.iNormalStart = b] \in Watcher
  BY <1>1 DEF Watcher
<1> QED BY <1>2, <1>3, SetWatcherType

\* Assigning a personality to the watcher keeps its type.
LEMMA WatcherIds ==
  ASSUME NEW m \in Memory, NEW p \in Personalities
  PROVE  /\ [m EXCEPT !.w.iPersonalityId = p] \in Memory
         /\ [m EXCEPT !.w.iPrevPersonalityId = p] \in Memory
<1>1. /\ [m.w EXCEPT !.iPersonalityId = p] \in Watcher
      /\ [m.w EXCEPT !.iPrevPersonalityId = p] \in Watcher
  BY DEF Memory, Watcher
<1> QED BY <1>1, SetWatcherType

\* Assigning a state to the watcher keeps its type.
LEMMA WatcherStateType ==
  ASSUME NEW m \in Memory, NEW s \in WatcherStates
  PROVE  [m EXCEPT !.w.iState = s] \in Memory
<1>1. [m.w EXCEPT !.iState = s] \in Watcher
  BY DEF Memory, Watcher
<1> QED BY <1>1, SetWatcherType

\* Assigning a request status to the watcher keeps its type.
LEMMA WatcherStatusType ==
  ASSUME NEW m \in Memory, NEW st \in Statuses
  PROVE  [m EXCEPT !.w.iStatus = st] \in Memory
<1>1. [m.w EXCEPT !.iStatus = st] \in Watcher
  BY DEF Memory, Watcher
<1> QED BY <1>1, SetWatcherType

\* Raising a fault keeps the type of the memory.
LEMMA FaultType ==
  ASSUME NEW m \in Memory, NEW f \in Faults
  PROVE  [m EXCEPT !.fault = f] \in Memory
BY DEF Memory

\* Answering the sessions keeps the type of the memory.
LEMMA NotifySessionsType ==
  ASSUME NEW m \in Memory, NEW code \in Codes
  PROVE  NotifySessions(m, code) \in Memory
<1> DEFINE told == { [session |-> s, id |-> m.ss[s].set, code |-> code, superseded |-> FALSE] :
                     s \in { t \in Sessions : m.ss[t].set # None } }
<1>1. [s \in Sessions |-> NoMessages] \in [Sessions -> Session]
  BY DEF NoMessages, Session
<1>2. told \in SUBSET Answer
  <2>1. \A s \in Sessions : m.ss[s] \in Session
    BY DEF Memory
  <2>2. ASSUME NEW s \in Sessions, m.ss[s].set # None
        PROVE  [session |-> s, id |-> m.ss[s].set, code |-> code, superseded |-> FALSE] \in Answer
    <3>1. m.ss[s].set \in Personalities \cup {Unsupported}
      BY <2>1, <2>2 DEF Session
    <3> QED BY <3>1 DEF Answer
  <2> QED BY <2>2
<1>3. m.answers \cup told \in SUBSET Answer
  BY <1>2 DEF Memory
<1> HIDE DEF told
<1>4. [m EXCEPT !.ss = [s \in Sessions |-> NoMessages], !.answers = @ \cup told] \in Memory
  BY <1>1, <1>3 DEF Memory
<1> QED BY <1>4 DEF NotifySessions, told

\* Write maps a memory to a memory.
LEMMA WriteType ==
  ASSUME NEW m \in Memory, NEW id \in Personalities
  PROVE  WritePersonalityId(m, id) \in Memory /\ WriteResult(m, id) \in Codes
BY DEF Memory, WritePersonalityId, WriteResult, Answers

\* Undo maps a memory to a memory.
LEMMA UndoType ==
  ASSUME NEW m \in Memory
  PROVE  UndoSetPersonality(m) \in Memory /\ SwapPersonalities(m) \in Memory
<1>1. /\ [m.w EXCEPT !.iPersonalityId = m.w.iPrevPersonalityId,
                     !.iPrevPersonalityId = m.w.iOldPrevPersonalityId] \in Watcher
      /\ [m.w EXCEPT !.iPersonalityId = m.w.iPrevPersonalityId,
                     !.iPrevPersonalityId = m.w.iPersonalityId] \in Watcher
  BY DEF Memory, Watcher
<1> QED BY <1>1 DEF UndoSetPersonality, SwapPersonalities, Memory

\* EndSetPersonality maps a memory to a memory.
LEMMA EndSetPersonalityType ==
  ASSUME NEW m \in Memory, NEW code \in Codes
  PROVE  EndSetPersonality(m, code) \in Memory
<1> DEFINE d == [m EXCEPT !.w.iSetPersonalityOngoing = FALSE]
<1>1. d \in Memory
  BY WatcherFlags
<1> HIDE DEF d
<1>2. d.w.iPersonalityId \in Personalities
  BY <1>1 DEF Memory, Watcher
<1> QED BY <1>1, <1>2, WriteType, UndoType DEF EndSetPersonality, d

\* EndSetPreviousPersonality maps a memory to a memory.
LEMMA EndSetPreviousPersonalityType ==
  ASSUME NEW m \in Memory, NEW code \in Codes
  PROVE  EndSetPreviousPersonality(m, code) \in Memory
<1> DEFINE d == [m EXCEPT !.w.iSetPreviousPersonalityOngoing = FALSE]
<1>1. d \in Memory
  BY WatcherFlags
<1> HIDE DEF d
<1>2. d.w.iPersonalityId \in Personalities
  BY <1>1 DEF Memory, Watcher
<1> QED BY <1>1, <1>2, WriteType, UndoType DEF EndSetPreviousPersonality, d

\* Notify maps a memory to a memory.
LEMMA NotifyType ==
  ASSUME NEW m \in Memory, NEW aStatus \in Codes
  PROVE  Notify(m, aStatus) \in Memory
<1> DEFINE status == IF m.w.iSetPersonalityOngoing /\ aStatus = KErrNone
                       THEN WriteResult(m, m.w.iPersonalityId) ELSE aStatus
           c == [m EXCEPT !.w.iPersonalityChangeOngoing = FALSE]
           d == EndSetPersonality(c, aStatus)
<1>1. status \in Codes
  <2>1. m.w.iPersonalityId \in Personalities
    BY DEF Memory, Watcher
  <2> QED BY <2>1, WriteType
<1>2. c \in Memory
  BY WatcherFlags
<1>3. d \in Memory
  BY <1>2, EndSetPersonalityType
<1> HIDE DEF status, d
<1>4. NotifySessions(EndSetPreviousPersonality(d, status), status) \in Memory
  BY <1>1, <1>3, EndSetPreviousPersonalityType, NotifySessionsType
<1> QED BY <1>4 DEF Notify, status, d

\* WatcherActive maps a memory to a memory.
LEMMA WatcherActiveType ==
  ASSUME NEW m \in Memory, NEW s \in WatcherStates
  PROVE  WatcherActive(m, s) \in Memory
<1>1. [m.w EXCEPT !.active = TRUE, !.iState = s] \in Watcher
  BY DEF Memory, Watcher
<1> QED BY <1>1 DEF WatcherActive, Memory, Faults, Raise

\* Publish maps a memory to a memory.
LEMMA PublishType ==
  ASSUME NEW m \in Memory, NEW p \in Personalities \cup {None}
  PROVE  Publish(m, p) \in Memory
BY DEF Publish, Memory

\* Observer maps a memory to a memory.
LEMMA ObserverType ==
  ASSUME NEW m \in Memory
  PROVE  ObserveGlobalState(m) \in Memory /\ CancelObserver(m) \in Memory
BY DEF ObserveGlobalState, CancelObserver, Memory, Request

\* Launch maps a memory to a memory.
LEMMA LaunchType ==
  ASSUME NEW m \in Memory
  PROVE  Launch(m) \in Memory
<1> DEFINE n == [Publish(m, m.w.iPersonalityId) EXCEPT !.w.iStarted = TRUE]
<1>1. n \in Memory
  <2>1. m.w.iPersonalityId \in Personalities
    BY DEF Memory, Watcher
  <2> QED BY <2>1, PublishType, WatcherFlags
<1> HIDE DEF n
<1>2. WatcherActive(HandlerStart(n), "Starting") \in Memory
  BY <1>1, HandlerStartType, WatcherActiveType DEF WatcherStates
<1> QED BY <1>2 DEF Launch, n

\* StartCharging maps a memory to a memory.
LEMMA StartChargingType ==
  ASSUME NEW m \in Memory
  PROVE  StartCharging(m) \in Memory
<1> DEFINE n == [ObserveGlobalState(m) EXCEPT !.w.iPrevPersonalityId = m.w.iPersonalityId]
<1>1. n \in Memory
  <2>1. m.w.iPersonalityId \in Personalities
    BY DEF Memory, Watcher
  <2> QED BY <2>1, ObserverType, WatcherIds
<1> HIDE DEF n
<1>2. ASSUME ChargingPersonality # None
      PROVE  Launch([n EXCEPT !.w.iPersonalityId = ChargingPersonality,
                              !.w.iSetPreviousPersonalityOnDisconnect = TRUE]) \in Memory
  <2>1. ChargingPersonality \in Personalities
    BY <1>2, WatcherAssumption
  <2>2. [n.w EXCEPT !.iPersonalityId = ChargingPersonality,
                    !.iSetPreviousPersonalityOnDisconnect = TRUE] \in Watcher
    BY <1>1, <2>1 DEF Memory, Watcher
  <2>3. [n EXCEPT !.w.iPersonalityId = ChargingPersonality,
                  !.w.iSetPreviousPersonalityOnDisconnect = TRUE] \in Memory
    BY <1>1, <2>2 DEF Memory
  <2> QED BY <2>3, LaunchType
<1> QED BY <1>1, <1>2 DEF StartCharging, n

\* StartNormal maps a memory to a memory.
LEMMA StartNormalType ==
  ASSUME NEW m \in Memory
  PROVE  StartNormal(m) \in Memory
BY WatcherFlags, ObserverType, LaunchType DEF StartNormal

\* Start maps a memory to a memory.
LEMMA StartType ==
  ASSUME NEW m \in Memory
  PROVE  Start(m) \in Memory
<1> DEFINE d == [m EXCEPT !.w.iStarted = FALSE, !.w.iNormalStart = FALSE]
<1>1. [m.w EXCEPT !.iStarted = FALSE, !.iNormalStart = FALSE] \in Watcher
  BY DEF Memory, Watcher
<1>2. d \in Memory
  BY <1>1 DEF Memory
<1> HIDE DEF d
<1> QED BY <1>2, StartChargingType, StartNormalType, ObserverType DEF Start, d

\* Cancel maps a memory to a memory.
LEMMA CancelType ==
  ASSUME NEW m \in Memory
  PROVE  Cancel(m) \in Memory
<1> DEFINE n == CASE m.w.iState \in {"Starting", "Stopping"} ->
                       [Publish(HandlerCancel(m), None) EXCEPT !.w.iState = "Idle"]
                  [] m.w.iState = "ConfirmStop" ->
                       [HandlerCancel(m) EXCEPT !.w.iState = "Started"]
                  [] OTHER -> m
<1>1. HandlerCancel(m) \in Memory /\ Publish(HandlerCancel(m), None) \in Memory
  BY HandlerCancelType, PublishType
<1>2. /\ [Publish(HandlerCancel(m), None) EXCEPT !.w.iState = "Idle"] \in Memory
      /\ [HandlerCancel(m) EXCEPT !.w.iState = "Started"] \in Memory
  BY <1>1, WatcherStateType DEF WatcherStates
<1>3. n \in Memory
  BY <1>2
<1> HIDE DEF n
<1>4. [n EXCEPT !.w.active = FALSE] \in Memory
  BY <1>3, WatcherFlags
<1>5. [n EXCEPT !.w.active = FALSE,
                !.fault = IF n.w.iStatus = Pending THEN Raise(@, CancelHangs) ELSE @] \in Memory
  BY <1>3, <1>4 DEF Memory, Faults, Raise
<1> QED BY <1>5 DEF Cancel, n

\* Stop maps a memory to a memory.
LEMMA StopType ==
  ASSUME NEW m \in Memory
  PROVE  Stop(m) \in Memory
<1>1. WatcherActive(HandlerStop(m), "Stopping") \in Memory
  BY HandlerStopType, WatcherActiveType DEF WatcherStates
<1> QED BY <1>1, CancelType DEF Stop

\* StopStart maps a memory to a memory.
LEMMA StopStartType ==
  ASSUME NEW m \in Memory, NEW nonBlocking \in BOOLEAN
  PROVE  StopStart(m, nonBlocking) \in Memory
<1>1. WatcherActive(ConfirmPersonalityUnload(m), "ConfirmStop") \in Memory
  BY ConfirmType, WatcherActiveType DEF WatcherStates
<1>2. WatcherActive([m EXCEPT !.w.iStatus = KErrNone], "ConfirmStop") \in Memory
  BY WatcherStatusType, WatcherActiveType DEF WatcherStates
<1> QED BY <1>1, <1>2 DEF StopStart

\* SwitchPersonality maps a memory to a memory.
LEMMA SwitchPersonalityType ==
  ASSUME NEW m \in Memory, NEW nonBlocking \in BOOLEAN
  PROVE  SwitchPersonality(m, nonBlocking) \in Memory
<1>1. Notify(m, KErrNone) \in Memory /\ Start(Cancel(m)) \in Memory /\ Start(m) \in Memory
  BY NotifyType, CancelType, StartType
<1>2. [Cancel(m) EXCEPT !.w.iState = "Started"] \in Memory
  BY CancelType, WatcherStateType DEF WatcherStates
<1>3. StopStart([Cancel(m) EXCEPT !.w.iState = "Started"], nonBlocking) \in Memory
  BY <1>2, StopStartType
<1>4. StopStart(m, nonBlocking) \in Memory
  BY StopStartType
<1> QED BY <1>1, <1>3, <1>4 DEF SwitchPersonality

\* WatcherRunL maps a memory to a memory.
LEMMA WatcherRunLType ==
  ASSUME NEW m \in Memory, m.w.iStatus \in Codes
  PROVE  WatcherRunL(m) \in Memory
<1> DEFINE ret == m.w.iStatus
           d   == [m EXCEPT !.w.active = FALSE]
           started == [Notify(d, ret) EXCEPT !.w.iStopStartScenario = FALSE]
           stopped == [d EXCEPT !.w.iState = "Idle"]
           confirmed == [d EXCEPT !.w.iStopStartScenario = TRUE]
<1>1. d \in Memory
  BY WatcherFlags
<1>2. stopped \in Memory /\ confirmed \in Memory /\ Notify(d, ret) \in Memory
  <2> HIDE DEF d
  <2> QED BY <1>1, WatcherStateType, WatcherFlags, NotifyType DEF WatcherStates
<1>3. started \in Memory
  <2> HIDE DEF d
  <2> QED BY <1>2, WatcherFlags
<1>4. CASE m.w.iState = "Starting"
  <2> HIDE DEF started
  <2>1. Publish(started, None) \in Memory
    BY <1>3, PublishType
  <2>2. [started EXCEPT !.w.iState = "Started"] \in Memory
        /\ [Publish(started, None) EXCEPT !.w.iState = "Idle"] \in Memory
    BY <1>3, <2>1, WatcherStateType DEF WatcherStates
  <2> QED BY <1>4, <2>2 DEF WatcherRunL, started
<1>5. CASE m.w.iState = "Stopping"
  <2> HIDE DEF stopped
  <2>1. Start(stopped) \in Memory /\ Publish(stopped, None) \in Memory
    BY <1>2, StartType, PublishType
  <2> QED BY <1>5, <2>1 DEF WatcherRunL, stopped
<1>6. CASE m.w.iState \in {"Started", "Idle"}
  <2> HIDE DEF d
  <2>1. WatcherActive(HandlerStop(d), "Stopping") \in Memory /\ Start(d) \in Memory
    BY <1>1, HandlerStopType, WatcherActiveType, StartType DEF WatcherStates
  <2> QED BY <1>1, <1>6, <2>1 DEF WatcherRunL, d
<1>7. CASE m.w.iState = "ConfirmStop"
  <2> HIDE DEF confirmed, d
  <2>1. WatcherActive(HandlerStop(confirmed), "Stopping") \in Memory
    BY <1>2, HandlerStopType, WatcherActiveType DEF WatcherStates
  <2>2. [Notify(d, ret) EXCEPT !.w.iState = "Started"] \in Memory
    BY <1>2, WatcherStateType DEF WatcherStates
  <2> QED BY <1>7, <2>1, <2>2 DEF WatcherRunL, confirmed, d
<1>8. m.w.iState \in WatcherStates
  BY DEF Memory, Watcher
<1> QED BY <1>4, <1>5, <1>6, <1>7, <1>8 DEF WatcherStates

-----------------------------------------------------------------------------
\* The requests of clients and the events of device, lock and global state.

\* SetPersonality maps a memory to a memory.
LEMMA SetPersonalityType ==
  ASSUME NEW m \in Memory, NEW id \in Personalities \cup {Unsupported},
         NEW nonBlocking \in BOOLEAN
  PROVE  SetPersonality(m, id, nonBlocking) \in Memory
<1> DEFINE temporary == m.w.iSetPreviousPersonalityOnDisconnect
           d == [m EXCEPT !.w.iSetPersonalityOngoing = TRUE,
                          !.w.iPersonalityChangeOngoing = TRUE,
                          !.w.iSetPreviousPersonalityOnDisconnect = FALSE,
                          !.w.iOldPrevPersonalityId =
                             IF temporary THEN @ ELSE m.w.iPrevPersonalityId,
                          !.w.iPrevPersonalityId =
                             IF temporary THEN @ ELSE m.w.iPersonalityId]
<1>1. ASSUME NEW p \in Personalities, NEW q \in Personalities
      PROVE  [m EXCEPT !.w.iSetPersonalityOngoing = TRUE,
                       !.w.iPersonalityChangeOngoing = TRUE,
                       !.w.iSetPreviousPersonalityOnDisconnect = FALSE,
                       !.w.iOldPrevPersonalityId = p,
                       !.w.iPrevPersonalityId = q] \in Memory
  <2>1. [m.w EXCEPT !.iSetPersonalityOngoing = TRUE,
                    !.iPersonalityChangeOngoing = TRUE,
                    !.iSetPreviousPersonalityOnDisconnect = FALSE,
                    !.iOldPrevPersonalityId = p,
                    !.iPrevPersonalityId = q] \in Watcher
    BY DEF Memory, Watcher
  <2> QED BY <2>1 DEF Memory
<1>2. /\ m.w.iPersonalityId \in Personalities
      /\ m.w.iPrevPersonalityId \in Personalities
      /\ m.w.iOldPrevPersonalityId \in Personalities
  BY DEF Memory, Watcher
<1>3. d \in Memory
  <2>1. CASE temporary BY <1>1, <1>2, <2>1
  <2>2. CASE ~temporary BY <1>1, <1>2, <2>2
  <2> QED BY <2>1, <2>2
<1> HIDE DEF d
<1>4. Notify(m, KErrNotFound) \in Memory /\ Notify(d, KErrNone) \in Memory
  BY <1>3, NotifyType
<1>5. ASSUME id \in Personalities
      PROVE  SwitchPersonality([d EXCEPT !.w.iPersonalityId = id], nonBlocking) \in Memory
  BY <1>3, <1>5, WatcherIds, SwitchPersonalityType
<1> QED BY <1>4, <1>5 DEF SetPersonality, d

\* CancelChange maps a memory to a memory.
LEMMA CancelChangeType ==
  ASSUME NEW m \in Memory
  PROVE  CancelChange(m) \in Memory
<1> DEFINE n == Notify(m, KErrCancel)
<1>1. n \in Memory
  BY NotifyType
<1> HIDE DEF n
<1>2. [n.w EXCEPT !.iPersonalityChangeOngoing = TRUE, !.iStopStartScenario = FALSE] \in Watcher
  BY <1>1 DEF Memory, Watcher
<1>3. [n EXCEPT !.w.iPersonalityChangeOngoing = TRUE, !.w.iStopStartScenario = FALSE] \in Memory
  BY <1>1, <1>2 DEF Memory
<1> QED BY <1>3, SwitchPersonalityType DEF CancelChange, n

\* SetPreviousPersonality maps a memory to a memory.
LEMMA SetPreviousPersonalityType ==
  ASSUME NEW m \in Memory
  PROVE  SetPreviousPersonality(m) \in Memory
<1> DEFINE n == SwapPersonalities(m)
           d == [n EXCEPT !.w.iSetPreviousPersonalityOnDisconnect = FALSE,
                          !.w.iSetPreviousPersonalityOngoing = TRUE,
                          !.w.iPersonalityChangeOngoing = TRUE]
<1>1. n \in Memory
  BY UndoType
<1> HIDE DEF n
<1>2. [n.w EXCEPT !.iSetPreviousPersonalityOnDisconnect = FALSE,
                  !.iSetPreviousPersonalityOngoing = TRUE,
                  !.iPersonalityChangeOngoing = TRUE] \in Watcher
  BY <1>1 DEF Memory, Watcher
<1>3. d \in Memory
  BY <1>1, <1>2 DEF Memory
<1> HIDE DEF d
<1>4. Notify(m, KErrAccessDenied) \in Memory /\ Notify(d, KErrNone) \in Memory
      /\ SwitchPersonality(d, FALSE) \in Memory
  BY <1>3, NotifyType, SwitchPersonalityType
<1> QED BY <1>4 DEF SetPreviousPersonality, d, n

\* OnDisconnect maps a memory to a memory.
LEMMA OnDisconnectType ==
  ASSUME NEW m \in Memory
  PROVE  SetPreviousPersonalityOnDisconnect(m) \in Memory
BY NotifyType, WatcherFlags DEF SetPreviousPersonalityOnDisconnect

\* StartDevCon maps a memory to a memory.
LEMMA StartDevConType ==
  ASSUME NEW m \in Memory
  PROVE  StartDevCon(m) \in Memory
BY StarterStartType DEF StartDevCon

\* DeviceAttached maps a memory to a memory.
LEMMA DeviceAttachedType ==
  ASSUME NEW m \in Memory, NEW old, NEW new
  PROVE  DeviceAttached(m, old, new) \in Memory
<1> DEFINE n == HandlerStateChange(m, old, new)
<1>1. n \in Memory
  BY HandlerStateChangeType
<1> HIDE DEF n
<1>2. Start(n) \in Memory /\ Start(Cancel(n)) \in Memory
  BY <1>1, StartType, CancelType
<1> QED BY <1>1, <1>2, StartDevConType DEF DeviceAttached, n

\* DeviceDetached maps a memory to a memory.
LEMMA DeviceDetachedType ==
  ASSUME NEW m \in Memory, NEW old
  PROVE  DeviceDetached(m, old) \in Memory
<1> DEFINE n == StopRestarting(HandlerStateChange(CancelObserver(m), old, "Undefined"))
           r == SwapPersonalities(n)
           x == [WritePersonalityId(r, r.w.iPersonalityId) EXCEPT
                   !.w.iSetPreviousPersonalityOnDisconnect = FALSE]
           restored == IF n.w.iSetPreviousPersonalityOnDisconnect THEN x ELSE n
           t == Notify(restored, KErrCancel)
<1>1. n \in Memory
  BY ObserverType, HandlerStateChangeType, StopRestartingType
<1> HIDE DEF n
<1>2. r \in Memory
  BY <1>1, UndoType
<1> HIDE DEF r
<1>3. x \in Memory
  <2>1. r.w.iPersonalityId \in Personalities
    BY <1>2 DEF Memory, Watcher
  <2>2. WritePersonalityId(r, r.w.iPersonalityId) \in Memory
    BY <1>2, <2>1, WriteType
  <2> QED BY <2>2, WatcherFlags
<1> HIDE DEF x
<1>4. restored \in Memory
  BY <1>1, <1>3
<1> HIDE DEF restored
<1>5. t \in Memory
  BY <1>4, NotifyType
<1> HIDE DEF t
<1>6. Cancel(t) \in Memory /\ Stop(Cancel(t)) \in Memory /\ Stop(t) \in Memory
  BY <1>5, CancelType, StopType
<1> QED BY <1>6 DEF DeviceDetached, t, restored, x, r, n

\* StateChangeNotify maps a memory to a memory.
LEMMA StateChangeNotifyType ==
  ASSUME NEW m \in Memory, NEW old \in DeviceStates, NEW new \in DeviceStates
  PROVE  StateChangeNotify(m, old, new) \in Memory
<1> DEFINE n == IF m.w.iNormalStart
                  THEN [m EXCEPT !.ind = IndicatorChange(@, old, new)] ELSE m
<1>1. n \in Memory
  <2>1. IndicatorChange(m.ind, old, new) \in Indicator
    BY IndicatorChangeType DEF Memory
  <2> QED BY <2>1 DEF Memory
<1> HIDE DEF n
<1>2. /\ DeviceAttached(n, old, new) \in Memory
      /\ DeviceDetached(n, old) \in Memory
      /\ HandlerStateChange(n, old, new) \in Memory
  BY <1>1, DeviceAttachedType, DeviceDetachedType, HandlerStateChangeType
<1> QED BY <1>1, <1>2 DEF StateChangeNotify, n

\* Lock maps a memory to a memory.
LEMMA LockType ==
  ASSUME NEW m \in Memory
  PROVE  Lock(m) \in Memory
<1> DEFINE n == CancelCableConnectedNotifier(m)
<1>1. n \in Memory
  BY CancelAllNotesType DEF CancelAllNotes, CancelCableConnectedNotifier
<1> HIDE DEF n
<1> QED BY <1>1, CancelType, StopType DEF Lock, n

\* Unlock maps a memory to a memory.
LEMMA UnlockType ==
  ASSUME NEW m \in Memory
  PROVE  Unlock(m) \in Memory
BY StartType DEF Unlock

\* GlobalState maps a memory to a memory.
LEMMA GlobalStateType ==
  ASSUME NEW m \in Memory
  PROVE  StopPersonality(m) \in Memory /\ StartPersonality(m) \in Memory
<1> DEFINE n == [m EXCEPT !.w.iPersonalityId = m.w.iPrevPersonalityId]
<1>1. n \in Memory
  <2>1. m.w.iPrevPersonalityId \in Personalities
    BY DEF Memory, Watcher
  <2> QED BY <2>1, WatcherIds
<1> HIDE DEF n
<1>2. [Stop(n) EXCEPT !.w.iStarted = FALSE] \in Memory
  BY <1>1, StopType, WatcherFlags
<1>3. StartPersonality(m) \in Memory
  BY StartType, StartDevConType DEF StartPersonality
<1> QED BY <1>2, <1>3 DEF StopPersonality, n

-----------------------------------------------------------------------------
\* The actions.

\* The process as an event finds it is a memory.
LEMMA MemType ==
  ASSUME TypeOK, NEW in \in Outside
  PROVE  Mem(in) \in Memory
BY SystemAssumption DEF TypeOK, Mem, Memory, Faults

\* A handler that ends in a memory of the right type leaves a state of that type.
LEMMA CommitType ==
  ASSUME TypeOK, NEW m \in Memory, Commit(m)
  PROVE  TypeOK'
BY DEF TypeOK, Commit, Memory

\* The active objects that may run are among those modelled.
LEMMA ReadyType ==
  ASSUME TypeOK
  PROVE  /\ Ready(watcher) => watcher.iStatus \in Codes
         /\ Ready(handler) => handler.iStatus \in Codes
BY DEF TypeOK, Ready, Watcher, Handler

\* The process starts in its type.
LEMMA InitType == Init => TypeOK
<1> SUFFICES ASSUME Init PROVE TypeOK
  OBVIOUS
<1>1. watcher \in Watcher /\ cenrep \in Personalities
  BY DEF Init, InitWatcher, Watcher, WatcherStates
<1>2. handler \in Handler
  BY DEF Init, InitHandler, Handler, HandlerStates
<1>3. sessions \in [Sessions -> Session]
  BY DEF Init, NoMessages, Session
<1>4. indicator \in Indicator /\ starter \in Starter /\ observer \in Request
  BY DEF Init, InitIndicator, Indicator, DeviceStates, InitStarter, Starter,
         StarterStates, Request
<1>5. lock \in Lock_ /\ device \in Device
  BY SystemAssumption DEF Init, Lock_, Device
<1> QED BY <1>1, <1>2, <1>3, <1>4, <1>5 DEF Init, TypeOK, Faults

\* Every RunL keeps the types.
LEMMA SchedulerType == TypeOK /\ Scheduler => TypeOK'
<1> SUFFICES ASSUME TypeOK, Scheduler PROVE TypeOK'
  OBVIOUS
<1>1. CASE RunWatcher
  <2>1. PICK in \in Outside : Commit(WatcherRunL(Mem(in)))
    BY <1>1 DEF RunWatcher
  <2>2. Mem(in).w.iStatus \in Codes
    BY <1>1, ReadyType DEF RunWatcher, WatcherReady, Mem
  <2>3. WatcherRunL(Mem(in)) \in Memory
    BY <2>2, MemType, WatcherRunLType
  <2> QED BY <2>1, <2>3, CommitType
<1>2. CASE RunHandler
  <2>1. PICK in \in Outside : Commit(HandlerRunL(Mem(in)))
    BY <1>2 DEF RunHandler
  <2>2. Mem(in).h.iStatus \in Codes
    BY <1>2, ReadyType DEF RunHandler, HandlerReady, Mem
  <2>3. HandlerRunL(Mem(in)) \in Memory
    BY <2>2, MemType, HandlerRunLType
  <2> QED BY <2>1, <2>3, CommitType
<1>3. CASE RunLock
  <2> DEFINE n(in) == [Mem(in) EXCEPT !.lock.ready = FALSE]
  <2>1. PICK in \in Outside :
          Commit(CASE lock.value = "Off" -> Unlock(n(in))
                   [] lock.value = "RemoteLocked" -> Lock(n(in))
                   [] OTHER -> n(in))
    BY <1>3 DEF RunLock
  <2>2. n(in) \in Memory
    BY MemType DEF Memory, Lock_
  <2> HIDE DEF n
  <2>3. Unlock(n(in)) \in Memory /\ Lock(n(in)) \in Memory
    BY <2>2, UnlockType, LockType
  <2> QED BY <2>1, <2>2, <2>3, CommitType
<1>4. CASE RunObserver
  <2> DEFINE n(in) == [Mem(in) EXCEPT !.obs.iStatus = Pending]
  <2>1. PICK in \in Outside :
          Commit(CASE global = "ChargingToNormal" -> StopPersonality(n(in))
                   [] global = "Charging" -> StartPersonality(n(in))
                   [] global = "Normal" -> StartPersonality(CancelObserver(n(in)))
                   [] OTHER -> n(in))
    BY <1>4 DEF RunObserver
  <2>2. n(in) \in Memory
    BY MemType DEF Memory, Request
  <2> HIDE DEF n
  <2>3. /\ StopPersonality(n(in)) \in Memory /\ StartPersonality(n(in)) \in Memory
        /\ StartPersonality(CancelObserver(n(in))) \in Memory
    BY <2>2, ObserverType, GlobalStateType
  <2> QED BY <2>1, <2>2, <2>3, CommitType
<1>5. CASE RunStarter
  <2>1. PICK in \in Outside : Commit(StarterRunL(Mem(in)))
    BY <1>5 DEF RunStarter
  <2>2. StarterRunL(Mem(in)) \in Memory
    BY MemType, StarterRunLType
  <2> QED BY <2>1, <2>2, CommitType
<1>6. CASE RunDevice
  <2> DEFINE new == device.current
             old == device.iPreviousState
             n(in) == [Mem(in) EXCEPT !.dev.ready = FALSE]
             r(in) == [StateChangeNotify(n(in), old, new) EXCEPT !.dev.iPreviousState = new]
  <2>1. PICK in \in Outside : Commit(IF new = old THEN n(in) ELSE r(in))
    BY <1>6 DEF RunDevice
  <2>2. new \in BusStates /\ old \in BusStates /\ new \in DeviceStates /\ old \in DeviceStates
    BY SystemAssumption DEF TypeOK, Device
  <2>3. n(in) \in Memory
    BY MemType DEF Memory, Device
  <2> HIDE DEF n, new, old
  <2>4. StateChangeNotify(n(in), old, new) \in Memory
    BY <2>2, <2>3, StateChangeNotifyType
  <2>5. r(in) \in Memory
    BY <2>2, <2>4 DEF Memory, Device
  <2> HIDE DEF r
  <2> QED BY <2>1, <2>3, <2>5, CommitType
<1> QED BY <1>1, <1>2, <1>3, <1>4, <1>5, <1>6 DEF Scheduler

\* Storing a pending message of a session keeps the type of its sessions.
LEMMA SetMessageType ==
  ASSUME NEW m \in Memory, NEW s \in Sessions, NEW b \in BOOLEAN,
         NEW id \in Personalities \cup {Unsupported, None}
  PROVE  /\ [m EXCEPT !.ss[s].set = id] \in Memory
         /\ [m EXCEPT !.ss[s].setPrevious = b] \in Memory
         /\ [m EXCEPT !.ss[s].cancelSet = b] \in Memory
         /\ [m EXCEPT !.ss[s].cancelSetPrevious = b] \in Memory
         /\ [m EXCEPT !.ss[s] = NoMessages] \in Memory
<1>1. m.ss \in [Sessions -> Session]
  BY DEF Memory
<1>2. /\ [m.ss[s] EXCEPT !.set = id] \in Session
      /\ [m.ss[s] EXCEPT !.setPrevious = b] \in Session
      /\ [m.ss[s] EXCEPT !.cancelSet = b] \in Session
      /\ [m.ss[s] EXCEPT !.cancelSetPrevious = b] \in Session
      /\ NoMessages \in Session
  BY <1>1 DEF Session, NoMessages
<1>3. /\ [m.ss EXCEPT ![s] = [m.ss[s] EXCEPT !.set = id]] \in [Sessions -> Session]
      /\ [m.ss EXCEPT ![s] = [m.ss[s] EXCEPT !.setPrevious = b]] \in [Sessions -> Session]
      /\ [m.ss EXCEPT ![s] = [m.ss[s] EXCEPT !.cancelSet = b]] \in [Sessions -> Session]
      /\ [m.ss EXCEPT ![s] = [m.ss[s] EXCEPT !.cancelSetPrevious = b]] \in [Sessions -> Session]
      /\ [m.ss EXCEPT ![s] = NoMessages] \in [Sessions -> Session]
  BY <1>1, <1>2
<1> QED BY <1>3 DEF Memory

\* Answering a superseded SetPersonality keeps the type of the memory.
LEMMA SupersedeType ==
  ASSUME NEW m \in Memory, NEW s \in Sessions
  PROVE  SupersedeSet(m, s) \in Memory
<1> DEFINE a == m.answers \cup {[session |-> s, id |-> m.ss[s].set,
                                 code |-> KErrNone, superseded |-> TRUE]}
<1>1. [m EXCEPT !.ss[s].set = None] \in Memory
  BY SetMessageType
<1>2. ASSUME m.ss[s].set # None
      PROVE  a \in SUBSET Answer
  <2>1. m.ss[s] \in Session /\ m.answers \in SUBSET Answer
    BY DEF Memory
  <2>2. m.ss[s].set \in Personalities \cup {Unsupported}
    BY <1>2, <2>1 DEF Session
  <2>3. [session |-> s, id |-> m.ss[s].set, code |-> KErrNone, superseded |-> TRUE]
          \in Answer
    BY <2>2 DEF Answer
  <2> QED BY <2>1, <2>3
<1> HIDE DEF a
<1>3. m.ss[s].set # None => [m EXCEPT !.ss[s].set = None, !.answers = a] \in Memory
  BY <1>1, <1>2 DEF Memory
<1>4. CASE m.ss[s].set = None
  <2>1. SupersedeSet(m, s) = [m EXCEPT !.ss[s].set = None]
    BY <1>1, <1>4 DEF SupersedeSet, Memory
  <2> QED BY <1>1, <2>1
<1>5. CASE m.ss[s].set # None
  BY <1>3, <1>5 DEF SupersedeSet, a
<1> QED BY <1>4, <1>5

\* Every message of a client keeps the types.
LEMMA ClientType ==
  ASSUME TypeOK, NEW s \in Sessions, Client(s)
  PROVE  TypeOK'
<1>1. ASSUME NEW id \in Personalities \cup {Unsupported}, NEW nb \in NonBlocking,
             SessionSetPersonality(s, id, nb)
      PROVE  TypeOK'
  <2> DEFINE n(in) == Notify(SupersedeSet(Mem(in), s), KErrCancel)
  <2>1. PICK in \in Outside : Commit(SetPersonality([n(in) EXCEPT !.ss[s].set = id], id, nb))
    BY <1>1 DEF SessionSetPersonality
  <2>2. SupersedeSet(Mem(in), s) \in Memory
    BY MemType, SupersedeType
  <2>4. n(in) \in Memory
    BY <2>2, NotifyType
  <2> HIDE DEF n
  <2>5. [n(in) EXCEPT !.ss[s].set = id] \in Memory
    BY <2>4, SetMessageType
  <2>6. nb \in BOOLEAN
    BY SystemAssumption
  <2>7. SetPersonality([n(in) EXCEPT !.ss[s].set = id], id, nb) \in Memory
    BY <2>5, <2>6, SetPersonalityType
  <2> QED BY <2>1, <2>7, CommitType
<1>2. CASE SessionCancelSetPersonality(s)
  <2>1. PICK in \in Outside : Commit(CancelChange([Mem(in) EXCEPT !.ss[s].cancelSet = TRUE]))
    BY <1>2 DEF SessionCancelSetPersonality
  <2>2. [Mem(in) EXCEPT !.ss[s].cancelSet = TRUE] \in Memory
    BY MemType, SetMessageType
  <2>3. CancelChange([Mem(in) EXCEPT !.ss[s].cancelSet = TRUE]) \in Memory
    BY <2>2, CancelChangeType
  <2> QED BY <2>1, <2>3, CommitType
<1>3. ASSUME NEW sync \in BOOLEAN, SessionSetPrevious(s, sync)
      PROVE  TypeOK'
  <2> DEFINE n(in) == Notify([Mem(in) EXCEPT !.ss[s].setPrevious = FALSE], KErrCancel)
  <2>1. PICK in \in Outside :
          Commit(SetPreviousPersonality([n(in) EXCEPT !.ss[s].setPrevious = ~sync]))
    BY <1>3 DEF SessionSetPrevious
  <2>2. [Mem(in) EXCEPT !.ss[s].setPrevious = FALSE] \in Memory
    BY MemType, SetMessageType
  <2>3. n(in) \in Memory
    BY <2>2, NotifyType
  <2> HIDE DEF n
  <2>4. [n(in) EXCEPT !.ss[s].setPrevious = ~sync] \in Memory
    BY <2>3, SetMessageType
  <2>5. SetPreviousPersonality([n(in) EXCEPT !.ss[s].setPrevious = ~sync]) \in Memory
    BY <2>4, SetPreviousPersonalityType
  <2> QED BY <2>1, <2>5, CommitType
<1>4. CASE SessionCancelSetPrevious(s)
  <2>1. PICK in \in Outside :
          Commit(CancelChange([Mem(in) EXCEPT !.ss[s].cancelSetPrevious = TRUE]))
    BY <1>4 DEF SessionCancelSetPrevious
  <2>2. [Mem(in) EXCEPT !.ss[s].cancelSetPrevious = TRUE] \in Memory
    BY MemType, SetMessageType
  <2>3. CancelChange([Mem(in) EXCEPT !.ss[s].cancelSetPrevious = TRUE]) \in Memory
    BY <2>2, CancelChangeType
  <2> QED BY <2>1, <2>3, CommitType
<1>5. CASE SessionOnDisconnect(s)
  <2>1. PICK in \in Outside : Commit(SetPreviousPersonalityOnDisconnect(Mem(in)))
    BY <1>5 DEF SessionOnDisconnect
  <2>2. SetPreviousPersonalityOnDisconnect(Mem(in)) \in Memory
    BY MemType, OnDisconnectType
  <2> QED BY <2>1, <2>2, CommitType
<1>6. CASE SessionClose(s)
  <2>1. PICK in \in Outside : Commit([Mem(in) EXCEPT !.ss[s] = NoMessages])
    BY <1>6 DEF SessionClose
  <2>2. [Mem(in) EXCEPT !.ss[s] = NoMessages] \in Memory
    BY MemType, SetMessageType
  <2> QED BY <2>1, <2>2, CommitType
<1> QED BY <1>1, <1>2, <1>3, <1>4, <1>5, <1>6 DEF Client

\* Every step of the environment keeps the types.
LEMMA WorldType == TypeOK /\ World => TypeOK'
<1> SUFFICES ASSUME TypeOK, World PROVE TypeOK'
  OBVIOUS
<1> USE DEF TypeOK
<1>1. CASE PluginAnswers
  BY <1>1, HandlerAssumption DEF PluginAnswers, Handler
<1>2. CASE UsbManagerAnswers
  BY <1>2, HandlerAssumption DEF UsbManagerAnswers, Handler
<1>3. CASE UserClosesNote
  BY <1>3 DEF UserClosesNote, Handler
<1>4. CASE DevConProcess
  BY <1>4 DEF DevConProcess, Starter
<1>5. CASE DeviceStateReported
  <2>1. BusNext(device.current) \subseteq BusStates
    BY DEF BusNext
  <2> QED BY <1>5, <2>1 DEF DeviceStateReported, Device
<1>6. CASE LockChanges
  BY <1>6 DEF LockChanges, Lock_
<1>7. CASE GlobalStateChanges
  BY <1>7 DEF GlobalStateChanges, Request
<1>8. CASE IdPinChanges
  BY <1>8 DEF IdPinChanges
<1> QED BY <1>1, <1>2, <1>3, <1>4, <1>5, <1>6, <1>7, <1>8 DEF World

\* Every variable of the process keeps its type, whatever the sets of
\* personalities and sessions and whatever the plugins and USB Manager answer.
THEOREM TypeCorrect == Spec => []TypeOK
<1>1. TypeOK /\ UNCHANGED vars => TypeOK'
  BY DEF TypeOK, vars
<1>2. TypeOK /\ [Next]_vars => TypeOK'
  BY <1>1, SchedulerType, WorldType, ClientType DEF Next
<1> QED BY <1>2, InitType, PTL DEF Spec

=============================================================================
