-------------------------- MODULE UsbWatcherSafety --------------------------
(***************************************************************************)
(* The watcher and its handler stay in step: proofs, for every set of      *)
(* personalities, sessions and environments, that a watcher that waits is  *)
(* served (HandlerServesWatcher), that it is active exactly in the states  *)
(* that wait (ActiveInBusyStates), that no Cancel() blocks the process     *)
(* (CancelNeverHangs), and that the published personality is the one       *)
(* loaded (PublishedIsRunning).                                            *)
(*                                                                         *)
(* None of the four is inductive alone.  Service below is: it adds what    *)
(* the handler has reached when it completes the watcher's request, which  *)
(* is what the watcher's next RunL relies on.                              *)
(*                                                                         *)
(* The second part proves, of a phone that no charger switches on, that    *)
(* a client is told yes only of a choice that is in force and saved        *)
(* (AckedIsSaved), and that the indicators follow the device               *)
(* (IndicatorTracksDevice).                                                *)
(***************************************************************************)
EXTENDS UsbWatcherTypes

Busy == {"Starting", "Stopping", "ConfirmStop"}

\* The handler has the personality started, and it is the published one.
Loaded(h, prop) == h.iState = "Started" /\ h.plugin # None /\ prop = h.plugin

Serving(w, h) ==
  /\ h.active /\ h.iRequestStatus
  /\ w.iState = "Starting" =>
       h.iState \in {"PrepareStart", "StartUsb", "FinishStart"} /\ h.plugin # None
  /\ w.iState = "Stopping" =>
       h.iState \in {"PrepareStop", "StopUsb", "FinishStop"} /\ ~h.isFailureCleanup
  /\ w.iState = "ConfirmStop" => h.iState = "Started"

\* What the watcher w may rely on of the handler h and the published id prop.
Service(w, h, prop) ==
  /\ w.active <=> w.iState \in Busy
  /\ w.active /\ w.iStatus = Pending => Serving(w, h)
  /\ w.iState \in {"Started", "ConfirmStop"} => Loaded(h, prop)
  /\ w.iState = "Started" => ~h.active
  /\ w.iState = "ConfirmStop" /\ w.iStatus # Pending => ~h.active
  /\ w.iState = "Starting" /\ w.iStatus = Pending => prop = h.plugin
  /\ w.iState = "Starting" /\ w.iStatus = KErrNone => Loaded(h, prop) /\ ~h.active

\* A process that has faulted is left where it stood; before that it keeps Service.
InStep(m) == /\ m.fault # CancelHangs
             /\ m.fault = NoFault => Service(m.w, m.h, m.prop)

\* An operation that may raise a fault, but not a hang.
Raised(m, n) == \/ n.fault = m.fault
                \/ m.fault = NoFault /\ n.fault \in {SetActiveTwice, NullRequest}

\* An operation that leaves alone everything Service speaks of.
Quiet(m, n) ==
  /\ Raised(m, n)
  /\ n.prop = m.prop
  /\ n.w.iState = m.w.iState /\ n.w.active = m.w.active /\ n.w.iStatus = m.w.iStatus
  /\ n.h.iState = m.h.iState /\ n.h.active = m.h.active /\ n.h.plugin = m.h.plugin
  /\ n.h.iRequestStatus = m.h.iRequestStatus
  /\ n.h.isFailureCleanup = m.h.isFailureCleanup

\* The faults are different from each other.
LEMMA FaultsDiffer == /\ NoFault # CancelHangs /\ SetActiveTwice # CancelHangs
                      /\ NullRequest # CancelHangs /\ NoFault # SetActiveTwice
                      /\ NoFault # NullRequest
BY DEF NoFault, CancelHangs, SetActiveTwice, NullRequest

\* The completion codes are different from each other.
LEMMA CodesDiffer == /\ Pending \notin Codes /\ KErrNone # KErrGeneral /\ KErrNone # KErrCancel
                     /\ Pending # KErrGeneral /\ Pending # KErrNone /\ Pending # KErrCancel
BY DEF Codes, Pending, KErrNone, KErrGeneral, KErrCancel, KErrNotFound, KErrAccessDenied,
       KErrDiskFull, KErrInUse

\* A quiet operation keeps the process in step.
LEMMA QuietKeeps ==
  ASSUME NEW m, NEW n, Quiet(m, n), InStep(m)
  PROVE  InStep(n)
BY FaultsDiffer DEF Quiet, Raised, InStep, Service, Serving, Loaded

\* Two quiet operations are quiet.
LEMMA QuietTwice ==
  ASSUME NEW m, NEW n, NEW o, Quiet(m, n), Quiet(n, o)
  PROVE  Quiet(m, o)
BY FaultsDiffer DEF Quiet, Raised

\* Once something has gone wrong nothing more is claimed.
LEMMA FaultKeeps ==
  ASSUME NEW m, NEW n, InStep(m), Raised(m, n), m.fault = NoFault /\ n.fault = NoFault => InStep(n)
  PROVE  InStep(n)
BY FaultsDiffer DEF Raised, InStep

\* Two operations that raise no hang raise none.
LEMMA RaisedTwice ==
  ASSUME NEW m, NEW n, NEW o, Raised(m, n), Raised(n, o)
  PROVE  Raised(m, o)
BY FaultsDiffer DEF Raised

-----------------------------------------------------------------------------
\* Operations that are quiet.

\* Ending and answering a change of personality is quiet.
LEMMA NotifyQuiet ==
  ASSUME NEW m \in Memory, NEW code \in Codes
  PROVE  Quiet(m, Notify(m, code))
<1>1. ASSUME NEW k \in Memory, NEW id \in Personalities
      PROVE  Quiet(k, WritePersonalityId(k, id))
  BY DEF WritePersonalityId, Quiet, Raised, Memory
<1>2. ASSUME NEW k \in Memory
      PROVE  Quiet(k, UndoSetPersonality(k)) /\ Quiet(k, SwapPersonalities(k))
  BY DEF UndoSetPersonality, SwapPersonalities, Quiet, Raised, Memory, Watcher
<1>3. ASSUME NEW k \in Memory, NEW c \in Codes
      PROVE  Quiet(k, EndSetPersonality(k, c))
  <2> DEFINE d == [k EXCEPT !.w.iSetPersonalityOngoing = FALSE]
  <2>1. d \in Memory /\ Quiet(k, d) /\ Quiet(k, k)
    <3>1. d \in Memory
      BY WatcherFlags
    <3> QED BY <3>1 DEF Quiet, Raised, Memory, Watcher
  <2> HIDE DEF d
  <2>2. d.w.iPersonalityId \in Personalities
    BY <2>1 DEF Memory, Watcher
  <2>3. /\ Quiet(d, WritePersonalityId(d, d.w.iPersonalityId))
        /\ Quiet(d, UndoSetPersonality(d))
    BY <1>1, <1>2, <2>1, <2>2
  <2> QED BY <2>1, <2>3, QuietTwice DEF EndSetPersonality, d
<1>4. ASSUME NEW k \in Memory, NEW c \in Codes
      PROVE  Quiet(k, EndSetPreviousPersonality(k, c))
  <2> DEFINE d == [k EXCEPT !.w.iSetPreviousPersonalityOngoing = FALSE]
  <2>1. d \in Memory /\ Quiet(k, d) /\ Quiet(k, k)
    <3>1. d \in Memory
      BY WatcherFlags
    <3> QED BY <3>1 DEF Quiet, Raised, Memory, Watcher
  <2> HIDE DEF d
  <2>2. d.w.iPersonalityId \in Personalities
    BY <2>1 DEF Memory, Watcher
  <2>3. /\ Quiet(d, WritePersonalityId(d, d.w.iPersonalityId))
        /\ Quiet(d, SwapPersonalities(d))
    BY <1>1, <1>2, <2>1, <2>2
  <2> QED BY <2>1, <2>3, QuietTwice DEF EndSetPreviousPersonality, d
<1>5. ASSUME NEW k \in Memory, NEW c \in Codes
      PROVE  Quiet(k, NotifySessions(k, c))
  BY DEF NotifySessions, Quiet, Raised, Memory
<1> DEFINE status == IF m.w.iSetPersonalityOngoing /\ code = KErrNone
                       THEN WriteResult(m, m.w.iPersonalityId) ELSE code
           c == [m EXCEPT !.w.iPersonalityChangeOngoing = FALSE]
           d == EndSetPersonality(c, code)
           e == EndSetPreviousPersonality(d, status)
<1>6. status \in Codes
  <2>1. m.w.iPersonalityId \in Personalities
    BY DEF Memory, Watcher
  <2> QED BY <2>1, WriteType
<1>7. c \in Memory /\ Quiet(m, c)
  <2>1. c \in Memory
    BY WatcherFlags
  <2> QED BY <2>1 DEF Quiet, Raised, Memory, Watcher
<1> HIDE DEF c, status
<1>8. d \in Memory /\ Quiet(c, d)
  BY <1>3, <1>7, EndSetPersonalityType
<1> HIDE DEF d
<1>9. e \in Memory /\ Quiet(d, e)
  BY <1>4, <1>6, <1>8, EndSetPreviousPersonalityType
<1> HIDE DEF e
<1>10. Quiet(e, NotifySessions(e, status))
  BY <1>5, <1>6, <1>9
<1>11. Quiet(m, NotifySessions(e, status))
  BY <1>7, <1>8, <1>9, <1>10, QuietTwice
<1> QED BY <1>11 DEF Notify, e, d, c, status

\* Subscribing to and cancelling the observer of the global state is quiet.
LEMMA ObserverQuiet ==
  ASSUME NEW m \in Memory
  PROVE  Quiet(m, ObserveGlobalState(m)) /\ Quiet(m, CancelObserver(m))
BY DEF ObserveGlobalState, CancelObserver, Quiet, Raised, Memory

\* Taking down the notes is quiet.
LEMMA NotesQuiet ==
  ASSUME NEW m \in Memory, NEW old, NEW new
  PROVE  /\ Quiet(m, CancelAllNotes(m)) /\ Quiet(m, CancelCableConnectedNotifier(m))
         /\ Quiet(m, HandlerStateChange(m, old, new))
BY DEF CancelAllNotes, CancelCableConnectedNotifier, HandlerStateChange, Quiet, Raised,
       Memory, Handler

\* The starter of usbdevcon waiting for the process is quiet.
LEMMA StarterWaitsQuiet ==
  ASSUME NEW m \in Memory, NEW s
  PROVE  Quiet(m, StarterWaits(m, s))
BY FaultsDiffer DEF StarterWaits, Raise, Quiet, Raised, Memory, Faults

\* Every operation of the starter of usbdevcon is quiet.
LEMMA StarterQuiet ==
  ASSUME NEW m \in Memory
  PROVE  /\ Quiet(m, StarterStart(m)) /\ Quiet(m, StopRestarting(m))
         /\ Quiet(m, StarterRunL(m)) /\ Quiet(m, StartDevCon(m))
<1>1. ASSUME NEW k \in Memory
      PROVE  Quiet(k, StarterStart(k))
  <2> DEFINE t == [k EXCEPT !.starter.iStarted = TRUE]
  <2>1. t \in Memory /\ Quiet(k, t) /\ Quiet(k, [k EXCEPT !.starter.iStarted = FALSE])
    BY StarterFlagType DEF Quiet, Raised, Memory
  <2> HIDE DEF t
  <2>2. Quiet(t, StarterWaits(t, "WaitingRendezvous"))
    BY <2>1, StarterWaitsQuiet
  <2> QED BY <2>1, <2>2, QuietTwice DEF StarterStart, t
<1>2. Quiet(m, StopRestarting(m)) /\ Quiet(m, m)
  BY DEF StopRestarting, Quiet, Raised, Memory
<1>3. Quiet(m, StarterRunL(m))
  <2> DEFINE d == [m EXCEPT !.starter.active = FALSE]
             i == [d EXCEPT !.starter.iState = "Idle"]
  <2>1. d \in Memory /\ Quiet(m, d)
    <3>1. [m.starter EXCEPT !.active = FALSE] \in Starter
      BY DEF Memory, Starter
    <3> QED BY <3>1 DEF Quiet, Raised, Memory
  <2>2. i \in Memory /\ Quiet(d, i)
    <3>1. [d.starter EXCEPT !.iState = "Idle"] \in Starter
      BY <2>1 DEF Memory, Starter, StarterStates
    <3> QED BY <2>1, <3>1 DEF Quiet, Raised, Memory
  <2> HIDE DEF d, i
  <2>3. Quiet(d, StarterWaits(d, "Running")) /\ Quiet(i, StarterStart(i)) /\ Quiet(m, i)
    BY <1>1, <2>1, <2>2, StarterWaitsQuiet, QuietTwice
  <2>4. Quiet(m, StarterWaits(d, "Running")) /\ Quiet(m, StarterStart(i))
    BY <2>1, <2>3, QuietTwice
  <2>5. m.starter.iState \in StarterStates
    BY DEF Memory, Starter
  <2> QED BY <2>1, <2>3, <2>4, <2>5 DEF StarterRunL, StarterStates, d, i
<1> QED BY <1>1, <1>2, <1>3 DEF StartDevCon

-----------------------------------------------------------------------------
\* What the calls of the handler do to watcher, handler and published id.

\* What HandlerActive changes of what Service speaks of.
LEMMA HandlerActiveEffect ==
  ASSUME NEW m \in Memory, NEW st
  PROVE  LET n == HandlerActive(m, st) IN
         /\ n.w = m.w /\ n.prop = m.prop /\ n.h.active
         /\ n.h.iState = m.h.iState /\ n.h.plugin = m.h.plugin
         /\ n.h.iRequestStatus = m.h.iRequestStatus
         /\ n.h.isFailureCleanup = m.h.isFailureCleanup
         /\ Raised(m, n)
BY FaultsDiffer DEF HandlerActive, Raise, Raised, Memory, Handler, Faults

\* What CompleteRequest changes of what Service speaks of.
LEMMA CompleteRequestEffect ==
  ASSUME NEW m \in Memory, NEW code
  PROVE  LET n == CompleteRequest(m, code) IN
         /\ n.w.iState = m.w.iState /\ n.w.active = m.w.active /\ n.prop = m.prop
         /\ n.h.iState = m.h.iState /\ n.h.active = m.h.active
         /\ n.h.plugin = m.h.plugin /\ n.h.isFailureCleanup = m.h.isFailureCleanup
         /\ n.w.iStatus = IF m.h.iRequestStatus THEN code ELSE m.w.iStatus
         /\ Raised(m, n)
BY FaultsDiffer DEF CompleteRequest, Raise, Raised, Memory, Handler, Watcher, Faults

\* What TakeRequest changes of what Service speaks of.
LEMMA TakeRequestEffect ==
  ASSUME NEW m \in Memory
  PROVE  LET n == TakeRequest(m) IN
         /\ n.w.iState = m.w.iState /\ n.w.active = m.w.active /\ n.w.iStatus = Pending
         /\ n.w.iPersonalityId = m.w.iPersonalityId
         /\ n.prop = m.prop /\ n.fault = m.fault
         /\ n.h = [m.h EXCEPT !.iRequestStatus = TRUE]
BY DEF TakeRequest, Memory, Watcher

\* A start either ends at once with an error or has the handler at work on it.
LEMMA HandlerStartEffect ==
  ASSUME NEW m \in Memory
  PROVE  LET n == HandlerStart(m) IN
         /\ n.w.iState = m.w.iState /\ n.w.active = m.w.active /\ n.prop = m.prop
         /\ Raised(m, n)
         /\ \/ n.w.iStatus = KErrGeneral
            \/ /\ n.w.iStatus = Pending /\ n.h.active /\ n.h.iRequestStatus
               /\ n.h.iState = "PrepareStart"
               /\ n.h.plugin = m.w.iPersonalityId
<1> DEFINE r == TakeRequest(m)
           t == CancelAllNotes(r)
           id == m.w.iPersonalityId
           u == [t EXCEPT !.h.plugin = id, !.h.iState = "PrepareStart",
                          !.h.isFailureCleanup = FALSE]
<1>1. r \in Memory /\ t \in Memory
  BY TakeRequestType, CancelAllNotesType
<1>2. /\ t.w.iState = m.w.iState /\ t.w.active = m.w.active /\ t.w.iStatus = Pending
      /\ t.prop = m.prop /\ t.h.iRequestStatus /\ Raised(m, t)
  <2>1. r.h.iRequestStatus
    BY TakeRequestEffect DEF Memory, Handler
  <2> HIDE DEF r
  <2>2. Quiet(r, t)
    BY <1>1, NotesQuiet
  <2>3. /\ r.w.iState = m.w.iState /\ r.w.active = m.w.active /\ r.w.iStatus = Pending
        /\ r.prop = m.prop /\ r.fault = m.fault
    BY TakeRequestEffect DEF r
  <2> QED BY <2>1, <2>2, <2>3 DEF Quiet, Raised
<1> HIDE DEF r, t
<1>3. CASE HandlerStart(m) = CompleteRequest(t, KErrGeneral)
  BY <1>1, <1>2, <1>3, CompleteRequestEffect, RaisedTwice
<1>4. CASE /\ id \in Personalities
           /\ HandlerStart(m) = HandlerActive(u, PluginStatus("PrepareStart"))
  <2>1. [t.h EXCEPT !.plugin = id, !.iState = "PrepareStart", !.isFailureCleanup = FALSE]
          \in Handler
    BY <1>1, <1>4 DEF Memory, Handler, HandlerStates
  <2>2. /\ u \in Memory /\ u.w = t.w /\ u.prop = t.prop /\ u.fault = t.fault
        /\ u.h.iState = "PrepareStart" /\ u.h.plugin = id
        /\ u.h.iRequestStatus = t.h.iRequestStatus
    BY <1>1, <2>1 DEF Memory, Handler
  <2> HIDE DEF u, id
  <2>3. Raised(m, u)
    BY <1>2, <2>2 DEF Raised
  <2>4. LET n == HandlerActive(u, PluginStatus("PrepareStart")) IN
         /\ n.w = u.w /\ n.prop = u.prop /\ n.h.active
         /\ n.h.iState = u.h.iState /\ n.h.plugin = u.h.plugin
         /\ n.h.iRequestStatus = u.h.iRequestStatus
         /\ Raised(u, n)
    BY <2>2, HandlerActiveEffect
  <2> QED BY <1>2, <1>4, <2>2, <2>3, <2>4, RaisedTwice DEF id
<1> QED BY <1>3, <1>4 DEF HandlerStart, r, t

\* What PrepareStop changes of what Service speaks of.
LEMMA PrepareStopEffect ==
  ASSUME NEW m \in Memory, NEW cleanup \in BOOLEAN
  PROVE  LET n == PrepareStop(m, cleanup) IN
         /\ n.w = m.w /\ n.prop = m.prop
         /\ n.h.iState = "PrepareStop" /\ n.h.isFailureCleanup = cleanup
         /\ n.h.iRequestStatus = m.h.iRequestStatus
         /\ ~cleanup => n.h.active
         /\ Raised(m, n)
<1> DEFINE t == [m EXCEPT !.h.iState = "PrepareStop", !.h.isFailureCleanup = cleanup]
<1>1. [m.h EXCEPT !.iState = "PrepareStop", !.isFailureCleanup = cleanup] \in Handler
  BY DEF Memory, Handler, HandlerStates
<1>2. /\ t \in Memory /\ t.w = m.w /\ t.prop = m.prop /\ t.fault = m.fault
      /\ t.h.iState = "PrepareStop" /\ t.h.isFailureCleanup = cleanup
      /\ t.h.iRequestStatus = m.h.iRequestStatus
  BY <1>1 DEF Memory, Handler
<1> HIDE DEF t
<1>3. \/ PrepareStop(m, cleanup) = t /\ cleanup
      \/ PrepareStop(m, cleanup) = HandlerActive(t, KErrNone)
      \/ PrepareStop(m, cleanup) = HandlerActive(t, PluginStatus("PrepareStop"))
  BY Zenon DEF PrepareStop, t
<1>4. KErrNone \in Statuses /\ PluginStatus("PrepareStop") \in Statuses
  BY PluginStatusType DEF Codes, Statuses
<1>5. ASSUME NEW st \in Statuses
      PROVE  LET n == HandlerActive(t, st) IN
             /\ n.w = t.w /\ n.prop = t.prop /\ n.h.active
             /\ n.h.iState = t.h.iState /\ n.h.isFailureCleanup = t.h.isFailureCleanup
             /\ n.h.iRequestStatus = t.h.iRequestStatus
             /\ Raised(m, n)
  BY <1>2, HandlerActiveEffect DEF Raised
<1>6. Raised(m, t)
  BY <1>2 DEF Raised
<1> QED BY <1>2, <1>3, <1>4, <1>5, <1>6

\* Asking for a stop has the handler at work on it.
LEMMA HandlerStopEffect ==
  ASSUME NEW m \in Memory
  PROVE  LET n == HandlerStop(m) IN
         /\ n.w.iState = m.w.iState /\ n.w.active = m.w.active /\ n.w.iStatus = Pending
         /\ n.h.active /\ n.h.iRequestStatus
         /\ n.h.iState = "PrepareStop" /\ ~n.h.isFailureCleanup
         /\ Raised(m, n)
<1> DEFINE r == TakeRequest(m)
<1>1. /\ r \in Memory /\ r.w.iState = m.w.iState /\ r.w.active = m.w.active
      /\ r.w.iStatus = Pending /\ r.h.iRequestStatus /\ r.fault = m.fault
  BY TakeRequestType, TakeRequestEffect DEF Memory, Handler
<1> HIDE DEF r
<1>2. LET n == PrepareStop(r, FALSE) IN
         /\ n.w = r.w /\ n.h.iState = "PrepareStop" /\ n.h.isFailureCleanup = FALSE
         /\ n.h.iRequestStatus = r.h.iRequestStatus /\ n.h.active /\ Raised(r, n)
  BY <1>1, PrepareStopEffect
<1> QED BY <1>1, <1>2 DEF HandlerStop, r, Raised

\* What Confirm changes of what Service speaks of.
LEMMA ConfirmEffect ==
  ASSUME NEW m \in Memory
  PROVE  LET n == ConfirmPersonalityUnload(m) IN
         /\ n.w.iState = m.w.iState /\ n.w.active = m.w.active /\ n.w.iStatus = Pending
         /\ n.prop = m.prop /\ n.h.active /\ n.h.iRequestStatus
         /\ n.h.iState = m.h.iState /\ n.h.plugin = m.h.plugin
         /\ Raised(m, n)
<1> DEFINE r == TakeRequest(m)
           t == CancelAllNotes(r)
<1>1. /\ r \in Memory /\ r.w.iState = m.w.iState /\ r.w.active = m.w.active
      /\ r.w.iStatus = Pending /\ r.h.iRequestStatus /\ r.fault = m.fault
      /\ r.prop = m.prop /\ r.h.iState = m.h.iState /\ r.h.plugin = m.h.plugin
  BY TakeRequestType, TakeRequestEffect DEF Memory, Handler
<1> HIDE DEF r
<1>2. t \in Memory /\ Quiet(r, t)
  BY <1>1, NotesQuiet, CancelAllNotesType
<1> HIDE DEF t
<1>3. \/ ConfirmPersonalityUnload(m) = HandlerActive(r, KErrGeneral)
      \/ ConfirmPersonalityUnload(m) = HandlerActive(t, Pending)
      \/ ConfirmPersonalityUnload(m) = HandlerActive(t, KErrNone)
  BY Zenon DEF ConfirmPersonalityUnload, r, t
<1>4. PICK k \in {r, t}, st \in Statuses : ConfirmPersonalityUnload(m) = HandlerActive(k, st)
  <2>1. KErrGeneral \in Statuses /\ Pending \in Statuses /\ KErrNone \in Statuses
    BY DEF Codes, Statuses
  <2> QED BY <1>3, <2>1
<1>5. /\ k \in Memory /\ k.w.iState = m.w.iState /\ k.w.active = m.w.active
      /\ k.w.iStatus = Pending /\ k.h.iRequestStatus /\ Raised(m, k)
      /\ k.prop = m.prop /\ k.h.iState = m.h.iState /\ k.h.plugin = m.h.plugin
  BY <1>1, <1>2 DEF Quiet, Raised
<1>6. LET n == HandlerActive(k, st) IN
         /\ n.w = k.w /\ n.prop = k.prop /\ n.h.active
         /\ n.h.iState = k.h.iState /\ n.h.plugin = k.h.plugin
         /\ n.h.iRequestStatus = k.h.iRequestStatus
         /\ Raised(k, n)
  BY <1>5, HandlerActiveEffect
<1> QED BY <1>4, <1>5, <1>6, RaisedTwice

\* Cancelling the handler leaves it inactive; a request it holds is completed.
LEMMA HandlerCancelEffect ==
  ASSUME NEW m \in Memory
  PROVE  LET n == HandlerCancel(m) IN
         /\ n.w.iState = m.w.iState /\ n.w.active = m.w.active /\ n.prop = m.prop
         /\ ~n.h.active
         /\ m.h.iState = "Started" => n.h.iState = "Started" /\ n.h.plugin = m.h.plugin
         /\ n.w.iStatus = IF m.h.active /\ m.h.iRequestStatus
                            THEN KErrCancel ELSE m.w.iStatus
         /\ Raised(m, n)
<1> DEFINE started == m.h.iState = "Started"
           f == IF m.h.iState = "FinishStart" THEN Raise(m.fault, SetActiveTwice) ELSE m.fault
           d == [m EXCEPT !.h = Cancelled(m.h), !.fault = f]
           c == CancelAllNotes(d)
<1>1. CASE ~m.h.active
  BY <1>1 DEF HandlerCancel, Raised, Memory, Handler
<1>2. CASE m.h.active
  <2>1. d \in Memory /\ m.h \in Handler
    <3>1. m.h \in Handler /\ f \in Faults
      BY DEF Memory, Faults, Raise
    <3> QED BY <3>1, CancelledType DEF Memory
  <2>2. /\ d.w = m.w /\ d.prop = m.prop /\ ~d.h.active
        /\ started => d.h.iState = "Started" /\ d.h.plugin = m.h.plugin
        /\ d.h.iRequestStatus = m.h.iRequestStatus
        /\ Raised(m, d)
    <3>1. d.w = m.w /\ d.prop = m.prop /\ d.h = Cancelled(m.h) /\ d.fault = f
      BY DEF Memory
    <3>2. Raised(m, d)
      BY <3>1, FaultsDiffer DEF Memory, Raised, Raise, Faults
    <3> QED BY <2>1, <3>1, <3>2, CancelledType
  <2> HIDE DEF d
  <2>3. c \in Memory /\ Quiet(d, c)
    BY <2>1, NotesQuiet, CancelAllNotesType
  <2> HIDE DEF c
  <2>4. LET n == CompleteRequest(c, KErrCancel) IN
         /\ n.w.iState = c.w.iState /\ n.w.active = c.w.active /\ n.prop = c.prop
         /\ n.h.iState = c.h.iState /\ n.h.active = c.h.active
         /\ n.h.plugin = c.h.plugin
         /\ n.w.iStatus = IF c.h.iRequestStatus THEN KErrCancel ELSE c.w.iStatus
         /\ Raised(c, n)
    BY <2>3, CompleteRequestEffect
  <2>5. HandlerCancel(m) = CompleteRequest(c, KErrCancel)
    BY <1>2 DEF HandlerCancel, c, d
  <2>6. c.h.active = FALSE /\ c.h.iRequestStatus = m.h.iRequestStatus
    BY <2>1, <2>2, <2>3 DEF Quiet, Memory, Handler
  <2>7. Raised(m, c)
    BY <2>2, <2>3, RaisedTwice DEF Quiet
  <2> QED BY <1>2, <2>2, <2>3, <2>4, <2>5, <2>6, <2>7, RaisedTwice DEF Quiet
<1> QED BY <1>1, <1>2 DEF Memory, Handler

-----------------------------------------------------------------------------
\* The methods of the watcher.

\* What WatcherActive changes of what Service speaks of.
LEMMA WatcherActiveEffect ==
  ASSUME NEW m \in Memory, NEW s
  PROVE  LET n == WatcherActive(m, s) IN
         /\ n.w.iState = s /\ n.w.active /\ n.w.iStatus = m.w.iStatus
         /\ n.h = m.h /\ n.prop = m.prop /\ Raised(m, n)
BY FaultsDiffer DEF WatcherActive, Raise, Raised, Memory, Watcher, Faults

\* Flags and ids the methods assign to are not part of Service.
LEMMA FieldsQuiet ==
  ASSUME NEW m \in Memory, NEW b, NEW p
  PROVE  /\ Quiet(m, m)
         /\ Quiet(m, [m EXCEPT !.w.iStarted = FALSE, !.w.iNormalStart = FALSE])
         /\ Quiet(m, [m EXCEPT !.w.iStarted = b])
         /\ Quiet(m, [m EXCEPT !.w.iNormalStart = b])
         /\ Quiet(m, [m EXCEPT !.w.iStopStartScenario = b])
         /\ Quiet(m, [m EXCEPT !.w.iPersonalityId = p])
         /\ Quiet(m, [m EXCEPT !.w.iPrevPersonalityId = p])
         /\ Quiet(m, [m EXCEPT !.w.iSetPreviousPersonalityOnDisconnect = b])
         /\ Quiet(m, [m EXCEPT !.w.iPersonalityId = p,
                               !.w.iSetPreviousPersonalityOnDisconnect = b])
         /\ Quiet(m, [m EXCEPT !.w.iPersonalityChangeOngoing = TRUE,
                               !.w.iStopStartScenario = FALSE])
         /\ Quiet(m, [m EXCEPT !.w.iSetPreviousPersonalityOnDisconnect = FALSE,
                               !.w.iSetPreviousPersonalityOngoing = TRUE,
                               !.w.iPersonalityChangeOngoing = TRUE])
BY DEF Quiet, Raised, Memory, Watcher

\* Launch keeps the process in step.
LEMMA LaunchInStep ==
  ASSUME NEW m \in Memory, InStep(m)
  PROVE  InStep(Launch(m))
<1> DEFINE id == m.w.iPersonalityId
           n == [Publish(m, id) EXCEPT !.w.iStarted = TRUE]
           x == HandlerStart(n)
           y == WatcherActive(x, "Starting")
<1>1. id \in Personalities /\ id # None
  BY HandlerAssumption DEF Memory, Watcher
<1>2. /\ n \in Memory /\ n.prop = id /\ n.w.iPersonalityId = id /\ n.fault = m.fault
  <2>1. Publish(m, id) \in Memory
    BY <1>1, PublishType
  <2>2. n \in Memory
    BY <2>1, WatcherFlags
  <2> QED BY <2>2 DEF Publish, Memory, Watcher
<1> HIDE DEF n
<1>3. /\ x \in Memory /\ x.prop = id /\ Raised(m, x)
      /\ \/ x.w.iStatus = KErrGeneral
         \/ /\ x.w.iStatus = Pending /\ x.h.active /\ x.h.iRequestStatus
            /\ x.h.iState = "PrepareStart" /\ x.h.plugin = id
  BY <1>2, HandlerStartEffect, HandlerStartType DEF Raised
<1> HIDE DEF x
<1>4. /\ y.w.iState = "Starting" /\ y.w.active /\ y.w.iStatus = x.w.iStatus
      /\ y.h = x.h /\ y.prop = id /\ Raised(x, y)
  BY <1>3, WatcherActiveEffect
<1> HIDE DEF y, id
<1>5. Service(y.w, y.h, y.prop)
  BY <1>1, <1>3, <1>4, CodesDiffer DEF Service, Serving, Loaded, Busy
<1>6. Raised(m, y)
  BY <1>3, <1>4, RaisedTwice
<1>7. InStep(y)
  BY <1>5, <1>6, FaultsDiffer DEF InStep, Raised
<1> QED BY <1>7 DEF Launch, y, x, n, id

\* Start keeps the process in step.
LEMMA StartInStep ==
  ASSUME NEW m \in Memory, InStep(m)
  PROVE  InStep(Start(m))
<1>1. ASSUME NEW k \in Memory, InStep(k)
      PROVE  InStep(StartCharging(k))
  <2> DEFINE o == ObserveGlobalState(k)
             n == [o EXCEPT !.w.iPrevPersonalityId = k.w.iPersonalityId]
             c == [n EXCEPT !.w.iPersonalityId = ChargingPersonality,
                            !.w.iSetPreviousPersonalityOnDisconnect = TRUE]
  <2>1. o \in Memory /\ InStep(o)
    BY <1>1, ObserverType, ObserverQuiet, QuietKeeps
  <2> HIDE DEF o
  <2>2. n \in Memory /\ InStep(n)
    <3>1. k.w.iPersonalityId \in Personalities
      BY DEF Memory, Watcher
    <3>2. n \in Memory
      BY <2>1, <3>1, WatcherIds
    <3>3. Quiet(o, n)
      BY <2>1, FieldsQuiet
    <3> QED BY <2>1, <3>2, <3>3, QuietKeeps
  <2> HIDE DEF n
  <2>3. ASSUME ChargingPersonality # None
        PROVE  c \in Memory /\ InStep(c)
    <3>1. ChargingPersonality \in Personalities
      BY <2>3, WatcherAssumption
    <3>2. [n.w EXCEPT !.iPersonalityId = ChargingPersonality,
                      !.iSetPreviousPersonalityOnDisconnect = TRUE] \in Watcher
      BY <2>2, <3>1 DEF Memory, Watcher
    <3>3. c \in Memory
      BY <2>2, <3>2 DEF Memory
    <3>4. Quiet(n, c)
      BY <2>2, FieldsQuiet
    <3> QED BY <2>2, <3>3, <3>4, QuietKeeps
  <2> HIDE DEF c
  <2>4. ChargingPersonality # None => InStep(Launch(c))
    BY <2>3, LaunchInStep
  <2> QED BY <2>2, <2>4 DEF StartCharging, c, n, o
<1>2. ASSUME NEW k \in Memory, InStep(k)
      PROVE  InStep(StartNormal(k))
  <2> DEFINE n == [k EXCEPT !.w.iNormalStart = TRUE]
  <2>1. n \in Memory
    BY WatcherFlags
  <2>2. InStep(n)
    <3>1. Quiet(k, n)
      BY FieldsQuiet
    <3> QED BY <1>2, <3>1, QuietKeeps
  <2> HIDE DEF n
  <2>3. CancelObserver(n) \in Memory /\ InStep(CancelObserver(n))
    BY <2>1, <2>2, ObserverType, ObserverQuiet, QuietKeeps
  <2> QED BY <2>2, <2>3, LaunchInStep DEF StartNormal, n
<1> DEFINE d == [m EXCEPT !.w.iStarted = FALSE, !.w.iNormalStart = FALSE]
<1>3. d \in Memory
  <2>1. [m.w EXCEPT !.iStarted = FALSE, !.iNormalStart = FALSE] \in Watcher
    BY DEF Memory, Watcher
  <2> QED BY <2>1 DEF Memory
<1>4. InStep(d)
  <2>1. Quiet(m, d)
    BY FieldsQuiet
  <2> QED BY <2>1, QuietKeeps
<1> HIDE DEF d
<1>5. InStep(StartCharging(d)) /\ InStep(StartNormal(d)) /\ InStep(ObserveGlobalState(d))
  BY <1>1, <1>2, <1>3, <1>4, ObserverQuiet, QuietKeeps
<1> QED BY <1>5 DEF Start, d

\* Cancel() of the watcher finds its request completed, or cancels the handler
\* that holds it: it never waits for nobody.
LEMMA CancelInStep ==
  ASSUME NEW m \in Memory, InStep(m)
  PROVE  /\ InStep(Cancel(m)) /\ Raised(m, Cancel(m))
         /\ m.fault = NoFault /\ m.w.iState = "ConfirmStop" => Cancel(m).w.iState = "Started"
<1> DEFINE c == HandlerCancel(m)
           n == CASE m.w.iState \in {"Starting", "Stopping"} ->
                       [Publish(c, None) EXCEPT !.w.iState = "Idle"]
                  [] m.w.iState = "ConfirmStop" -> [c EXCEPT !.w.iState = "Started"]
                  [] OTHER -> m
           r == [n EXCEPT !.w.active = FALSE,
                          !.fault = IF n.w.iStatus = Pending THEN Raise(@, CancelHangs) ELSE @]
<1>1. CASE ~m.w.active
  <2>1. Cancel(m) = m
    BY <1>1 DEF Cancel
  <2> QED BY <1>1, <2>1 DEF InStep, Service, Busy, Raised
<1>2. CASE m.w.active
  <2>1. /\ c \in Memory /\ c.w.iState = m.w.iState /\ c.w.active = m.w.active
        /\ c.prop = m.prop /\ ~c.h.active
        /\ m.h.iState = "Started" => c.h.iState = "Started" /\ c.h.plugin = m.h.plugin
        /\ c.w.iStatus = IF m.h.active /\ m.h.iRequestStatus THEN KErrCancel ELSE m.w.iStatus
        /\ Raised(m, c)
    BY HandlerCancelEffect, HandlerCancelType
  <2> HIDE DEF c
  <2>2. /\ n \in Memory /\ Raised(m, n)
        /\ m.w.iState \in {"Starting", "Stopping"} =>
             n.w.iState = "Idle" /\ n.w.iStatus = c.w.iStatus
        /\ m.w.iState = "ConfirmStop" =>
             /\ n.w.iState = "Started" /\ n.w.iStatus = c.w.iStatus
             /\ n.h = c.h /\ n.prop = c.prop
    <3>1. CASE m.w.iState \in {"Starting", "Stopping"}
      <4>1. Publish(c, None) \in Memory /\ Raised(m, Publish(c, None))
            /\ Publish(c, None).w = c.w
        BY <2>1, PublishType DEF Publish, Memory, Raised
      <4>2. n = [Publish(c, None) EXCEPT !.w.iState = "Idle"]
        BY <3>1
      <4>3. n \in Memory
        BY <4>1, <4>2, WatcherStateType DEF WatcherStates
      <4>4. n.w.iState = "Idle" /\ n.w.iStatus = c.w.iStatus /\ n.fault = Publish(c, None).fault
        BY <4>1, <4>2 DEF Memory, Watcher
      <4> QED BY <3>1, <4>1, <4>3, <4>4 DEF Raised
    <3>2. CASE m.w.iState = "ConfirmStop"
      <4>1. n = [c EXCEPT !.w.iState = "Started"]
        BY <3>2
      <4>2. n \in Memory
        BY <2>1, <4>1, WatcherStateType DEF WatcherStates
      <4>3. /\ n.w.iState = "Started" /\ n.w.iStatus = c.w.iStatus
            /\ n.h = c.h /\ n.prop = c.prop /\ n.fault = c.fault
        BY <2>1, <4>1 DEF Memory, Watcher
      <4> QED BY <2>1, <3>2, <4>2, <4>3 DEF Raised
    <3>3. CASE m.w.iState \notin Busy
      BY <3>3 DEF Busy, Raised
    <3> QED BY <3>1, <3>2, <3>3 DEF Busy
  <2> HIDE DEF n
  <2>3. Cancel(m) = r
    BY <1>2 DEF Cancel, r, n, c
  <2>4. /\ r.w.iState = n.w.iState /\ ~r.w.active /\ r.w.iStatus = n.w.iStatus
        /\ r.h = n.h /\ r.prop = n.prop
        /\ r.fault = IF n.w.iStatus = Pending THEN Raise(n.fault, CancelHangs) ELSE n.fault
    BY <2>2 DEF Memory, Watcher
  <2> HIDE DEF r
  <2>5. CASE m.fault # NoFault
    <3>1. n.fault = m.fault /\ r.fault = m.fault
      BY <2>2, <2>4, <2>5, FaultsDiffer DEF Raised, Raise
    <3> QED BY <2>3, <2>5, <3>1 DEF InStep, Raised
  <2>6. CASE m.fault = NoFault
    <3>1. Service(m.w, m.h, m.prop)
      BY <2>6 DEF InStep
    <3>2. m.w.iState \in Busy
      BY <1>2, <3>1 DEF Service
    <3>3. c.w.iStatus # Pending
      BY <1>2, <2>1, <3>1, CodesDiffer DEF Service, Serving
    <3>4. n.w.iStatus # Pending
      BY <2>2, <3>2, <3>3 DEF Busy
    <3>5. r.fault = n.fault
      BY <2>4, <3>4
    <3>6. CASE m.w.iState \in {"Starting", "Stopping"}
      <4>1. r.w.iState = "Idle" /\ ~r.w.active
        BY <2>2, <2>4, <3>6
      <4>2. Service(r.w, r.h, r.prop)
        BY <4>1 DEF Service, Busy
      <4> QED BY <2>2, <2>3, <2>6, <3>5, <3>6, <4>2, FaultsDiffer DEF InStep, Raised
    <3>7. CASE m.w.iState = "ConfirmStop"
      <4>1. /\ r.w.iState = "Started" /\ ~r.w.active /\ ~r.h.active
            /\ r.h.iState = "Started" /\ r.h.plugin = m.h.plugin /\ r.prop = m.prop
        BY <2>1, <2>2, <2>4, <3>1, <3>7 DEF Service, Loaded
      <4>2. Service(r.w, r.h, r.prop)
        BY <3>1, <3>7, <4>1 DEF Service, Loaded, Busy
      <4> QED BY <2>2, <2>3, <2>6, <3>5, <3>7, <4>1, <4>2, FaultsDiffer DEF InStep, Raised
    <3> QED BY <3>2, <3>6, <3>7 DEF Busy
  <2> QED BY <2>5, <2>6
<1> QED BY <1>1, <1>2

\* A started personality is stopped: the watcher waits for the handler.
LEMMA StoppingInStep ==
  ASSUME NEW m \in Memory, m.fault # CancelHangs
  PROVE  InStep(WatcherActive(HandlerStop(m), "Stopping"))
<1> DEFINE x == HandlerStop(m)
           y == WatcherActive(x, "Stopping")
<1>1. /\ x \in Memory /\ x.w.iStatus = Pending /\ x.h.active /\ x.h.iRequestStatus
      /\ x.h.iState = "PrepareStop" /\ ~x.h.isFailureCleanup /\ Raised(m, x)
  BY HandlerStopEffect, HandlerStopType
<1> HIDE DEF x
<1>2. /\ y.w.iState = "Stopping" /\ y.w.active /\ y.w.iStatus = Pending
      /\ y.h = x.h /\ Raised(m, y)
  BY <1>1, WatcherActiveEffect, RaisedTwice
<1> HIDE DEF y
<1>3. Service(y.w, y.h, y.prop)
  BY <1>1, <1>2, CodesDiffer DEF Service, Serving, Busy
<1> QED BY <1>2, <1>3, FaultsDiffer DEF InStep, Raised, y, x

\* Stop keeps the process in step.
LEMMA StopInStep ==
  ASSUME NEW m \in Memory, InStep(m)
  PROVE  InStep(Stop(m))
BY StoppingInStep, CancelInStep DEF Stop, InStep

\* StopStart keeps the process in step.
LEMMA StopStartInStep ==
  ASSUME NEW m \in Memory, InStep(m), NEW nonBlocking \in BOOLEAN
  PROVE  InStep(StopStart(m, nonBlocking))
<1>1. CASE m.w.iState # "Started"
  BY <1>1 DEF StopStart
<1>2. CASE m.w.iState = "Started" /\ ~nonBlocking
  <2> DEFINE x == ConfirmPersonalityUnload(m)
             y == WatcherActive(x, "ConfirmStop")
  <2>1. /\ x \in Memory /\ x.w.iStatus = Pending /\ x.prop = m.prop
        /\ x.h.active /\ x.h.iRequestStatus
        /\ x.h.iState = m.h.iState /\ x.h.plugin = m.h.plugin /\ Raised(m, x)
    BY ConfirmEffect, ConfirmType
  <2> HIDE DEF x
  <2>2. /\ y.w.iState = "ConfirmStop" /\ y.w.active /\ y.w.iStatus = Pending
        /\ y.h = x.h /\ y.prop = m.prop /\ Raised(m, y)
    BY <2>1, WatcherActiveEffect, RaisedTwice
  <2> HIDE DEF y
  <2>3. m.fault = NoFault => Service(y.w, y.h, y.prop)
    BY <1>2, <2>1, <2>2, CodesDiffer DEF InStep, Service, Serving, Loaded, Busy
  <2>4. InStep(y)
    BY <2>2, <2>3, FaultsDiffer DEF InStep, Raised
  <2> QED BY <1>2, <2>4 DEF StopStart, y, x
<1>3. CASE m.w.iState = "Started" /\ nonBlocking
  <2> DEFINE x == [m EXCEPT !.w.iStatus = KErrNone]
             y == WatcherActive(x, "ConfirmStop")
  <2>1. /\ x \in Memory /\ x.w.iStatus = KErrNone /\ x.prop = m.prop /\ x.h = m.h
        /\ x.fault = m.fault
    <3>1. KErrNone \in Statuses
      BY DEF Statuses, Codes
    <3>2. x \in Memory
      BY <3>1, WatcherStatusType
    <3> QED BY <3>2 DEF Memory, Watcher
  <2> HIDE DEF x
  <2>2. /\ y.w.iState = "ConfirmStop" /\ y.w.active /\ y.w.iStatus = KErrNone
        /\ y.h = m.h /\ y.prop = m.prop /\ Raised(m, y)
    BY <2>1, WatcherActiveEffect DEF Raised
  <2> HIDE DEF y
  <2>3. m.fault = NoFault => Service(y.w, y.h, y.prop)
    BY <1>3, <2>2, CodesDiffer DEF InStep, Service, Busy
  <2>4. InStep(y)
    BY <2>2, <2>3, FaultsDiffer DEF InStep, Raised
  <2> QED BY <1>3, <2>4 DEF StopStart, y, x
<1> QED BY <1>1, <1>2, <1>3

\* SwitchPersonality keeps the process in step.
LEMMA SwitchPersonalityInStep ==
  ASSUME NEW m \in Memory, InStep(m), NEW nonBlocking \in BOOLEAN
  PROVE  InStep(SwitchPersonality(m, nonBlocking))
<1>1. InStep(Notify(m, KErrNone))
  BY NotifyQuiet, QuietKeeps DEF Codes
<1>2. Cancel(m) \in Memory /\ InStep(Cancel(m))
  BY CancelType, CancelInStep
<1>3. InStep(Start(Cancel(m))) /\ InStep(Start(m)) /\ InStep(StopStart(m, nonBlocking))
  BY <1>2, StartInStep, StopStartInStep
<1>4. ASSUME m.w.iState = "ConfirmStop"
      PROVE  InStep(StopStart([Cancel(m) EXCEPT !.w.iState = "Started"], nonBlocking))
  <2> DEFINE c == Cancel(m)
             n == [c EXCEPT !.w.iState = "Started"]
  <2>1. n \in Memory
    BY <1>2, WatcherStateType DEF WatcherStates
  <2>2. InStep(n)
    <3>1. /\ InStep(c) /\ Raised(m, c)
          /\ m.fault = NoFault => c.w.iState = "Started"
      BY <1>4, CancelInStep
    <3>2. c \in Memory
      BY <1>2
    <3> HIDE DEF c
    <3>3. n.fault = c.fault /\ n.h = c.h /\ n.prop = c.prop
      BY <3>2 DEF Memory
    <3>4. ASSUME m.fault = NoFault
          PROVE  n.w = c.w
      <4>1. c.w.iState = "Started"
        BY <3>1, <3>4
      <4> QED BY <3>2, <4>1 DEF Memory, Watcher
    <3> HIDE DEF n
    <3> QED BY <3>1, <3>3, <3>4, FaultsDiffer DEF InStep, Raised
  <2> HIDE DEF n
  <2>3. InStep(StopStart(n, nonBlocking))
    BY <2>1, <2>2, StopStartInStep
  <2> QED BY <2>3 DEF n
<1> QED BY <1>1, <1>3, <1>4 DEF SwitchPersonality

\* WatcherRunL keeps the process in step.
LEMMA WatcherRunLInStep ==
  ASSUME NEW m \in Memory, InStep(m), m.w.active, m.w.iStatus \in Codes, m.fault = NoFault
  PROVE  InStep(WatcherRunL(m))
<1> DEFINE ret == m.w.iStatus
           d   == [m EXCEPT !.w.active = FALSE]
           t == Notify(d, ret)
           started == [t EXCEPT !.w.iStopStartScenario = FALSE]
           stopped == [d EXCEPT !.w.iState = "Idle"]
           confirmed == [d EXCEPT !.w.iStopStartScenario = TRUE]
<1>1. Service(m.w, m.h, m.prop) /\ ret # Pending
  BY CodesDiffer DEF InStep
<1>2. /\ d \in Memory /\ d.w.iState = m.w.iState /\ ~d.w.active /\ d.h = m.h
      /\ d.prop = m.prop /\ d.fault = NoFault
  <2>1. d \in Memory
    BY WatcherFlags
  <2> QED BY <2>1 DEF Memory, Watcher
<1> HIDE DEF d
<1>3. CASE m.w.iState = "Starting"
  <2>1. t \in Memory /\ Quiet(d, t)
    BY <1>2, NotifyType, NotifyQuiet
  <2> HIDE DEF t
  <2>2. started \in Memory /\ Quiet(t, started)
    BY <2>1, WatcherFlags, FieldsQuiet
  <2> HIDE DEF started
  <2>3. Quiet(d, started)
    BY <2>1, <2>2, QuietTwice
  <2>4. ASSUME ret = KErrNone
        PROVE  InStep([started EXCEPT !.w.iState = "Started"])
    <3> DEFINE n == [started EXCEPT !.w.iState = "Started"]
    <3>1. /\ n.w.iState = "Started" /\ ~n.w.active /\ n.h = started.h
          /\ n.prop = started.prop /\ n.fault = started.fault
      BY <1>2, <2>2, <2>3 DEF Memory, Watcher, Quiet
    <3> HIDE DEF n
    <3>2. Loaded(m.h, m.prop) /\ ~m.h.active
      BY <1>1, <1>3, <2>4 DEF Service
    <3>3. Service(n.w, n.h, n.prop)
      BY <1>2, <2>3, <3>1, <3>2 DEF Service, Loaded, Busy, Quiet
    <3> QED BY <1>2, <2>3, <3>1, <3>3, FaultsDiffer DEF InStep, Quiet, Raised, n
  <2>5. InStep([Publish(started, None) EXCEPT !.w.iState = "Idle"])
    <3> DEFINE n == [Publish(started, None) EXCEPT !.w.iState = "Idle"]
    <3>1. n.w.iState = "Idle" /\ ~n.w.active /\ n.fault = started.fault
      BY <1>2, <2>2, <2>3 DEF Memory, Watcher, Quiet, Publish
    <3> HIDE DEF n
    <3>2. Service(n.w, n.h, n.prop)
      BY <3>1 DEF Service, Busy
    <3> QED BY <1>2, <2>3, <3>1, <3>2, FaultsDiffer DEF InStep, Quiet, Raised, n
  <2> QED BY <1>3, <2>4, <2>5 DEF WatcherRunL, started, t, d
<1>4. CASE m.w.iState = "Stopping"
  <2>1. stopped \in Memory
    BY <1>2, WatcherStateType DEF WatcherStates
  <2>2. stopped.w.iState = "Idle" /\ ~stopped.w.active /\ stopped.fault = NoFault
    BY <1>2 DEF Memory, Watcher
  <2> HIDE DEF stopped
  <2>3. InStep(stopped)
    BY <2>2, FaultsDiffer DEF InStep, Service, Busy
  <2>4. InStep(Publish(stopped, None))
    BY <2>1, <2>2, FaultsDiffer DEF InStep, Service, Busy, Publish, Memory
  <2>5. InStep(Start(stopped))
    BY <2>1, <2>3, StartInStep
  <2> QED BY <1>4, <2>4, <2>5 DEF WatcherRunL, stopped, d
<1>5. CASE m.w.iState = "ConfirmStop"
  <2>1. Loaded(m.h, m.prop) /\ ~m.h.active
    BY <1>1, <1>5 DEF Service
  <2>2. InStep(WatcherActive(HandlerStop(confirmed), "Stopping"))
    <3>1. confirmed \in Memory
      BY <1>2, WatcherFlags
    <3>2. confirmed.fault # CancelHangs
      BY <1>2, FaultsDiffer DEF Memory
    <3> QED BY <3>1, <3>2, StoppingInStep
  <2>3. t \in Memory /\ Quiet(d, t)
    BY <1>2, NotifyType, NotifyQuiet
  <2> HIDE DEF t
  <2>4. InStep([t EXCEPT !.w.iState = "Started"])
    <3> DEFINE n == [t EXCEPT !.w.iState = "Started"]
    <3>1. /\ n.w.iState = "Started" /\ ~n.w.active /\ n.h = t.h
          /\ n.prop = t.prop /\ n.fault = t.fault
      BY <1>2, <2>3 DEF Memory, Watcher, Quiet
    <3> HIDE DEF n
    <3>2. Service(n.w, n.h, n.prop)
      BY <1>2, <2>1, <2>3, <3>1 DEF Service, Loaded, Busy, Quiet
    <3> QED BY <1>2, <2>3, <3>1, <3>2, FaultsDiffer DEF InStep, Quiet, Raised, n
  <2> QED BY <1>5, <2>2, <2>4 DEF WatcherRunL, confirmed, t, d
<1> QED BY <1>1, <1>3, <1>4, <1>5 DEF Service, Busy

\* The handler's step, which the scheduler runs only when the watcher has no
\* completed request to look at.
LEMMA HandlerRunLInStep ==
  ASSUME NEW m \in Memory, InStep(m), m.h.active, m.h.iStatus \in Codes, m.fault = NoFault,
         m.w.active => m.w.iStatus = Pending
  PROVE  InStep(HandlerRunL(m))
<1> DEFINE ret == m.h.iStatus
           d == [m EXCEPT !.h.active = FALSE]
           to(s, st) == HandlerActive([d EXCEPT !.h.iState = s], st)
           done(k) == CompleteRequest(k, ret)
<1>1. Service(m.w, m.h, m.prop) /\ ret # Pending
  BY CodesDiffer DEF InStep
<1>2. /\ d \in Memory /\ d.w = m.w /\ d.prop = m.prop /\ d.fault = NoFault
      /\ ~d.h.active /\ d.h.iState = m.h.iState /\ d.h.plugin = m.h.plugin
      /\ d.h.iRequestStatus = m.h.iRequestStatus
      /\ d.h.isFailureCleanup = m.h.isFailureCleanup
  <2>1. [m.h EXCEPT !.active = FALSE] \in Handler
    BY DEF Memory, Handler
  <2> QED BY <2>1 DEF Memory, Handler
<1> HIDE DEF d
\* An inactive watcher relies on nothing but a started, resting handler.
<1>3. ~m.w.active => m.w.iState = "Idle"
  <2>1. m.w.iState \in WatcherStates
    BY DEF Memory, Watcher
  <2> QED BY <1>1, <2>1 DEF Service, Busy, WatcherStates
<1>4. ASSUME NEW n, n.w.iState = "Idle", ~n.w.active, Raised(m, n)
      PROVE  InStep(n)
  BY <1>4, FaultsDiffer DEF InStep, Service, Busy, Raised
<1>5. ASSUME NEW s \in HandlerStates, NEW st \in Statuses
      PROVE  LET n == to(s, st) IN
             /\ n \in Memory /\ n.w = m.w /\ n.prop = m.prop /\ Raised(m, n)
             /\ n.h.active /\ n.h.iState = s /\ n.h.plugin = m.h.plugin
             /\ n.h.iRequestStatus = m.h.iRequestStatus
             /\ n.h.isFailureCleanup = m.h.isFailureCleanup
  <2> DEFINE k == [d EXCEPT !.h.iState = s]
  <2>1. [d.h EXCEPT !.iState = s] \in Handler
    BY <1>2 DEF Memory, Handler
  <2>2. /\ k \in Memory /\ k.w = m.w /\ k.prop = m.prop /\ k.fault = m.fault
        /\ k.h.iState = s /\ k.h.plugin = m.h.plugin
        /\ k.h.iRequestStatus = m.h.iRequestStatus
        /\ k.h.isFailureCleanup = m.h.isFailureCleanup
    BY <1>2, <2>1 DEF Memory, Handler
  <2> HIDE DEF k
  <2>3. LET n == HandlerActive(k, st) IN
         /\ n \in Memory
         /\ n.w = k.w /\ n.prop = k.prop /\ n.h.active
         /\ n.h.iState = k.h.iState /\ n.h.plugin = k.h.plugin
         /\ n.h.iRequestStatus = k.h.iRequestStatus
         /\ n.h.isFailureCleanup = k.h.isFailureCleanup
         /\ Raised(k, n)
    BY <2>2, HandlerActiveEffect, HandlerActiveType
  <2> QED BY <2>2, <2>3 DEF Raised, k
<1>6. ASSUME NEW k \in Memory, k.w = m.w, k.prop = m.prop, Raised(m, k),
             k.h.iRequestStatus = m.h.iRequestStatus
      PROVE  LET n == done(k) IN
             /\ n \in Memory /\ n.w.iState = m.w.iState /\ n.w.active = m.w.active
             /\ n.prop = m.prop /\ Raised(m, n)
             /\ n.h.iState = k.h.iState /\ n.h.active = k.h.active
             /\ n.h.plugin = k.h.plugin
             /\ n.w.iStatus = IF m.h.iRequestStatus THEN ret ELSE m.w.iStatus
  <2>1. LET n == CompleteRequest(k, ret) IN
         /\ n \in Memory
         /\ n.w.iState = k.w.iState /\ n.w.active = k.w.active /\ n.prop = k.prop
         /\ n.h.iState = k.h.iState /\ n.h.active = k.h.active
         /\ n.h.plugin = k.h.plugin
         /\ n.w.iStatus = IF k.h.iRequestStatus THEN ret ELSE k.w.iStatus
         /\ Raised(k, n)
    BY CompleteRequestEffect, CompleteRequestType
  <2> QED BY <1>6, <2>1, RaisedTwice
<1>7. ASSUME NEW n, n.w = m.w, n.prop = m.prop, Raised(m, n), n.h.plugin = m.h.plugin,
             n.h.active, n.h.iRequestStatus = m.h.iRequestStatus,
             n.h.isFailureCleanup = m.h.isFailureCleanup,
             \/ /\ m.h.iState = "PrepareStart" /\ n.h.iState = "StartUsb"
             \/ /\ m.h.iState = "StartUsb" /\ n.h.iState = "FinishStart"
             \/ /\ m.h.iState = "PrepareStop" /\ n.h.iState = "StopUsb"
             \/ /\ m.h.iState = "StopUsb" /\ n.h.iState = "FinishStop"
      PROVE  InStep(n)
  <2>1. CASE ~m.w.active
    BY <1>3, <1>4, <1>7, <2>1
  <2>2. CASE m.w.active
    <3>1. m.w.iStatus = Pending /\ Serving(m.w, m.h) /\ m.w.iState \in Busy
      BY <1>1, <2>2 DEF Service
    <3>2. Serving(n.w, n.h)
      BY <1>7, <3>1 DEF Serving
    <3>3. m.w.iState # "ConfirmStop"
      BY <1>7, <3>1 DEF Serving
    <3>4. Service(n.w, n.h, n.prop)
      BY <1>1, <1>7, <3>1, <3>2, <3>3, CodesDiffer DEF Service, Busy
    <3> QED BY <1>7, <3>4, FaultsDiffer DEF InStep, Raised
  <2> QED BY <2>1, <2>2
<1>8. Raised(m, d)
  BY <1>2 DEF Raised
<1>9. CASE m.h.iState = "PrepareStart"
  <2> DEFINE k == to("StartUsb", Pending)
             n == [k EXCEPT !.h.usb = m.w.iPersonalityId]
  <2>1. /\ k \in Memory /\ k.w = m.w /\ k.prop = m.prop /\ Raised(m, k)
        /\ k.h.active /\ k.h.iState = "StartUsb" /\ k.h.plugin = m.h.plugin
        /\ k.h.iRequestStatus = m.h.iRequestStatus
        /\ k.h.isFailureCleanup = m.h.isFailureCleanup
    BY <1>5 DEF HandlerStates, Statuses
  <2>2. HandlerRunL(m) = n
    BY <1>9 DEF HandlerRunL, n, k, d
  <2> HIDE DEF k
  <2>3. /\ n.w = k.w /\ n.prop = k.prop /\ n.fault = k.fault
        /\ n.h.active /\ n.h.iState = "StartUsb" /\ n.h.plugin = k.h.plugin
        /\ n.h.iRequestStatus = k.h.iRequestStatus
        /\ n.h.isFailureCleanup = k.h.isFailureCleanup
    BY <2>1 DEF Memory, Handler
  <2> HIDE DEF n
  <2>4. InStep(n)
    BY <1>7, <1>9, <2>1, <2>3 DEF Raised
  <2> QED BY <2>2, <2>4
<1>10. CASE m.h.iState = "StartUsb" /\ ret = KErrNone
  <2>1. HandlerRunL(m) = to("FinishStart", PluginStatus("FinishStart"))
    BY <1>10 DEF HandlerRunL, d
  <2>2. "FinishStart" \in HandlerStates /\ PluginStatus("FinishStart") \in Statuses
    BY PluginStatusType DEF HandlerStates
  <2> HIDE DEF to
  <2> QED BY <1>5, <1>7, <1>10, <2>1, <2>2
<1>11. CASE m.h.iState = "StartUsb" /\ ret # KErrNone
  <2> DEFINE k == [d EXCEPT !.h.usb = None]
             p == PrepareStop(k, TRUE)
             n == done(p)
  <2>1. HandlerRunL(m) = n
    BY <1>11 DEF HandlerRunL, HandlerRunError, n, p, k, d
  <2>2. /\ k \in Memory /\ k.w = m.w /\ k.prop = m.prop /\ k.fault = m.fault
        /\ k.h.iRequestStatus = m.h.iRequestStatus
    <3>1. [d.h EXCEPT !.usb = None] \in Handler
      BY <1>2 DEF Memory, Handler
    <3> QED BY <1>2, <3>1 DEF Memory, Handler
  <2> HIDE DEF k
  <2>3. /\ p \in Memory /\ p.w = m.w /\ p.prop = m.prop /\ Raised(m, p)
        /\ p.h.iRequestStatus = m.h.iRequestStatus
    <3>1. LET q == PrepareStop(k, TRUE) IN
          /\ q.w = k.w /\ q.prop = k.prop /\ q.h.iRequestStatus = k.h.iRequestStatus
          /\ Raised(k, q) /\ q \in Memory
      BY <2>2, PrepareStopEffect, PrepareStopType
    <3> QED BY <2>2, <3>1 DEF Raised
  <2> HIDE DEF p
  <2>4. /\ n.w.iState = m.w.iState /\ n.w.active = m.w.active /\ Raised(m, n)
        /\ n.w.iStatus = IF m.h.iRequestStatus THEN ret ELSE m.w.iStatus
    BY <1>6, <2>3
  <2> HIDE DEF n
  <2>5. CASE ~m.w.active
    BY <1>3, <1>4, <2>1, <2>4, <2>5
  <2>6. CASE m.w.active
    <3>1. Serving(m.w, m.h) /\ m.w.iState \in Busy
      BY <1>1, <2>6 DEF Service
    <3>2. m.w.iState = "Starting" /\ n.w.iStatus = ret
      BY <1>11, <2>4, <3>1 DEF Serving, Busy
    <3>3. Service(n.w, n.h, n.prop)
      BY <1>1, <1>11, <2>4, <2>6, <3>2 DEF Service, Busy
    <3> QED BY <2>1, <2>4, <3>3, FaultsDiffer DEF InStep, Raised
  <2> QED BY <2>5, <2>6
<1>12. CASE m.h.iState = "FinishStart"
  <2> DEFINE k == done(d)
             n == [k EXCEPT !.h.iState = "Started"]
  <2>1. HandlerRunL(m) = n
    BY <1>12 DEF HandlerRunL, n, k, d
  <2>2. /\ k \in Memory /\ k.w.iState = m.w.iState /\ k.w.active = m.w.active
        /\ k.prop = m.prop /\ Raised(m, k) /\ k.h.active = d.h.active
        /\ k.h.plugin = d.h.plugin
        /\ k.w.iStatus = IF m.h.iRequestStatus THEN ret ELSE m.w.iStatus
    BY <1>2, <1>6, <1>8
  <2> HIDE DEF k
  <2>3. /\ n.w = k.w /\ n.prop = m.prop /\ n.fault = k.fault /\ ~n.h.active
        /\ n.h.iState = "Started" /\ n.h.plugin = m.h.plugin
    BY <1>2, <2>2 DEF Memory, Handler
  <2> HIDE DEF n
  <2>4. CASE ~m.w.active
    BY <1>3, <1>4, <2>1, <2>2, <2>3, <2>4 DEF Raised
  <2>5. CASE m.w.active
    <3>1. Serving(m.w, m.h) /\ m.w.iState \in Busy /\ m.w.iStatus = Pending
      BY <1>1, <2>5 DEF Service
    <3>2. m.w.iState = "Starting" /\ n.w.iStatus = ret /\ m.h.plugin # None
      BY <1>12, <2>2, <2>3, <3>1 DEF Serving, Busy
    <3>3. m.prop = m.h.plugin
      BY <1>1, <3>1, <3>2 DEF Service
    <3>4. Service(n.w, n.h, n.prop)
      BY <1>1, <2>2, <2>3, <2>5, <3>2, <3>3 DEF Service, Loaded, Busy
    <3> QED BY <2>1, <2>2, <2>3, <3>4, FaultsDiffer DEF InStep, Raised
  <2> QED BY <2>4, <2>5
<1>13. CASE m.h.iState = "PrepareStop"
  <2>1. HandlerRunL(m) = to("StopUsb", Pending)
    BY <1>13 DEF HandlerRunL, d
  <2>2. "StopUsb" \in HandlerStates /\ Pending \in Statuses
    BY DEF HandlerStates, Statuses
  <2> HIDE DEF to
  <2> QED BY <1>5, <1>7, <1>13, <2>1, <2>2
<1>14. CASE m.h.iState = "StopUsb"
  <2>1. HandlerRunL(m) = to("FinishStop", PluginStatus("FinishStop"))
    BY <1>14 DEF HandlerRunL, d
  <2>2. "FinishStop" \in HandlerStates /\ PluginStatus("FinishStop") \in Statuses
    BY PluginStatusType DEF HandlerStates
  <2> HIDE DEF to
  <2> QED BY <1>5, <1>7, <1>14, <2>1, <2>2
<1>15. CASE m.h.iState = "FinishStop"
  <2> DEFINE note == d.h.cableNote /\ ~m.h.undefined
             k == [d EXCEPT !.h.plugin = None, !.h.usb = None, !.h.iState = "Idle",
                            !.h.cableNote = note]
             n == IF m.h.isFailureCleanup THEN k ELSE done(k)
  <2>1. HandlerRunL(m) = n
    BY <1>15 DEF HandlerRunL, n, k, d, note
  <2>2. /\ k \in Memory /\ k.w = m.w /\ k.prop = m.prop /\ k.fault = m.fault
        /\ k.h.iRequestStatus = m.h.iRequestStatus
    <3>1. note \in BOOLEAN
      OBVIOUS
    <3> HIDE DEF note
    <3>2. [d.h EXCEPT !.plugin = None, !.usb = None, !.iState = "Idle", !.cableNote = note]
            \in Handler
      BY <1>2, <3>1 DEF Memory, Handler, HandlerStates
    <3> QED BY <1>2, <3>2 DEF Memory, Handler
  <2> HIDE DEF k
  <2>3. Raised(m, k)
    BY <2>2 DEF Raised
  <2>4. LET q == done(k) IN
        /\ q.w.iState = m.w.iState /\ q.w.active = m.w.active /\ Raised(m, q)
        /\ q.w.iStatus = IF m.h.iRequestStatus THEN ret ELSE m.w.iStatus
    BY <1>6, <2>2, <2>3
  <2>5. CASE ~m.w.active
    <3>1. n.w.iState = m.w.iState /\ n.w.active = m.w.active /\ Raised(m, n)
      BY <2>2, <2>3, <2>4
    <3> HIDE DEF n
    <3> QED BY <1>3, <1>4, <2>1, <2>5, <3>1
  <2>6. CASE m.w.active
    <3>1. Serving(m.w, m.h) /\ m.w.iState \in Busy
      BY <1>1, <2>6 DEF Service
    <3>2. m.w.iState = "Stopping" /\ n = done(k) /\ m.h.iRequestStatus
      BY <1>15, <3>1 DEF Serving, Busy
    <3> HIDE DEF n
    <3>3. Service(n.w, n.h, n.prop)
      BY <1>1, <2>4, <2>6, <3>2 DEF Service, Busy
    <3> QED BY <2>1, <2>4, <3>2, <3>3, FaultsDiffer DEF InStep, Raised
  <2> QED BY <2>5, <2>6
<1>16. CASE m.h.iState = "Started"
  <2> DEFINE n == done(d)
  <2>1. HandlerRunL(m) = n
    BY <1>16 DEF HandlerRunL, n, d
  <2>2. /\ n.w.iState = m.w.iState /\ n.w.active = m.w.active
        /\ n.prop = m.prop /\ Raised(m, n) /\ n.h.active = d.h.active
        /\ n.h.plugin = d.h.plugin /\ n.h.iState = d.h.iState
        /\ n.w.iStatus = IF m.h.iRequestStatus THEN ret ELSE m.w.iStatus
    BY <1>2, <1>6, <1>8
  <2> HIDE DEF n
  <2>3. CASE ~m.w.active
    BY <1>3, <1>4, <2>1, <2>2, <2>3
  <2>4. CASE m.w.active
    <3>1. Serving(m.w, m.h) /\ m.w.iState \in Busy
      BY <1>1, <2>4 DEF Service
    <3>2. m.w.iState = "ConfirmStop" /\ n.w.iStatus = ret
      BY <1>16, <2>2, <3>1 DEF Serving, Busy
    <3>3. Service(n.w, n.h, n.prop)
      BY <1>1, <1>2, <2>2, <2>4, <3>2 DEF Service, Loaded, Busy
    <3> QED BY <2>1, <2>2, <3>3, FaultsDiffer DEF InStep, Raised
  <2> QED BY <2>3, <2>4
<1>17. CASE m.h.iState = "Idle"
  <2>1. HandlerRunL(m) = d
    BY <1>17 DEF HandlerRunL, d
  <2>2. ~m.w.active
    BY <1>1, <1>17 DEF Service, Serving, Busy
  <2> QED BY <1>2, <1>3, <1>4, <1>8, <2>1, <2>2
<1>18. m.h.iState \in HandlerStates
  BY DEF Memory, Handler
<1> QED BY <1>9, <1>10, <1>11, <1>12, <1>13, <1>14, <1>15, <1>16, <1>17, <1>18
        DEF HandlerStates

-----------------------------------------------------------------------------
\* The requests of clients and the events of device, lock and global state.

\* SetPersonality keeps the process in step.
LEMMA SetPersonalityInStep ==
  ASSUME NEW m \in Memory, InStep(m), NEW id \in Personalities \cup {Unsupported},
         NEW nonBlocking \in BOOLEAN
  PROVE  InStep(SetPersonality(m, id, nonBlocking))
<1> DEFINE temporary == m.w.iSetPreviousPersonalityOnDisconnect
           d == [m EXCEPT !.w.iSetPersonalityOngoing = TRUE,
                          !.w.iPersonalityChangeOngoing = TRUE,
                          !.w.iSetPreviousPersonalityOnDisconnect = FALSE,
                          !.w.iOldPrevPersonalityId =
                             IF temporary THEN @ ELSE m.w.iPrevPersonalityId,
                          !.w.iPrevPersonalityId =
                             IF temporary THEN @ ELSE m.w.iPersonalityId]
<1>1. d \in Memory
  <2>1. /\ m.w.iPersonalityId \in Personalities
        /\ m.w.iPrevPersonalityId \in Personalities
        /\ m.w.iOldPrevPersonalityId \in Personalities
    BY DEF Memory, Watcher
  <2>2. d.w \in Watcher
    BY <2>1 DEF Memory, Watcher
  <2> QED BY <2>2 DEF Memory
<1>2. Quiet(m, d)
  BY DEF Quiet, Raised, Memory, Watcher
<1> HIDE DEF d
<1>3. InStep(d)
  BY <1>2, QuietKeeps
<1>4. InStep(Notify(m, KErrNotFound)) /\ InStep(Notify(d, KErrNone))
  BY <1>1, <1>3, NotifyQuiet, QuietKeeps DEF Codes
<1>5. ASSUME id \in Personalities
      PROVE  InStep(SwitchPersonality([d EXCEPT !.w.iPersonalityId = id], nonBlocking))
  <2> DEFINE n == [d EXCEPT !.w.iPersonalityId = id]
  <2>1. n \in Memory
    BY <1>1, <1>5, WatcherIds
  <2>2. InStep(n)
    <3>1. Quiet(d, n)
      BY <1>1, FieldsQuiet
    <3> QED BY <1>3, <3>1, QuietKeeps
  <2> HIDE DEF n
  <2>3. InStep(SwitchPersonality(n, nonBlocking))
    BY <2>1, <2>2, SwitchPersonalityInStep
  <2> QED BY <2>3 DEF n
<1> QED BY <1>4, <1>5 DEF SetPersonality, d

\* CancelChange keeps the process in step.
LEMMA CancelChangeInStep ==
  ASSUME NEW m \in Memory, InStep(m)
  PROVE  InStep(CancelChange(m))
<1> DEFINE n == Notify(m, KErrCancel)
           k == [n EXCEPT !.w.iPersonalityChangeOngoing = TRUE, !.w.iStopStartScenario = FALSE]
<1>1. n \in Memory /\ InStep(n)
  BY NotifyType, NotifyQuiet, QuietKeeps DEF Codes
<1> HIDE DEF n
<1>2. k \in Memory
  <2>1. k.w \in Watcher
    BY <1>1 DEF Memory, Watcher
  <2> QED BY <1>1, <2>1 DEF Memory
<1>3. InStep(k)
  <2>1. Quiet(n, k)
    BY <1>1, FieldsQuiet
  <2> QED BY <1>1, <2>1, QuietKeeps
<1> HIDE DEF k
<1>4. InStep(SwitchPersonality(k, FALSE))
  BY <1>2, <1>3, SwitchPersonalityInStep
<1> QED BY <1>4 DEF CancelChange, k, n

\* SetPreviousPersonality keeps the process in step.
LEMMA SetPreviousPersonalityInStep ==
  ASSUME NEW m \in Memory, InStep(m)
  PROVE  InStep(SetPreviousPersonality(m))
<1> DEFINE n == SwapPersonalities(m)
           d == [n EXCEPT !.w.iSetPreviousPersonalityOnDisconnect = FALSE,
                          !.w.iSetPreviousPersonalityOngoing = TRUE,
                          !.w.iPersonalityChangeOngoing = TRUE]
<1>1. n \in Memory /\ InStep(n)
  <2>1. n \in Memory
    BY UndoType
  <2>2. Quiet(m, n)
    BY DEF SwapPersonalities, Quiet, Raised, Memory, Watcher
  <2> QED BY <2>1, <2>2, QuietKeeps
<1> HIDE DEF n
<1>2. d \in Memory
  <2>1. d.w \in Watcher
    BY <1>1 DEF Memory, Watcher
  <2> QED BY <1>1, <2>1 DEF Memory
<1>3. InStep(d)
  <2>1. Quiet(n, d)
    BY <1>1, FieldsQuiet
  <2> QED BY <1>1, <2>1, QuietKeeps
<1> HIDE DEF d
<1>4. /\ InStep(Notify(m, KErrAccessDenied)) /\ InStep(Notify(d, KErrNone))
      /\ InStep(SwitchPersonality(d, FALSE))
  BY <1>2, <1>3, NotifyQuiet, QuietKeeps, SwitchPersonalityInStep DEF Codes
<1> QED BY <1>4 DEF SetPreviousPersonality, d, n

\* OnDisconnect keeps the process in step.
LEMMA OnDisconnectInStep ==
  ASSUME NEW m \in Memory, InStep(m)
  PROVE  InStep(SetPreviousPersonalityOnDisconnect(m))
<1>1. InStep(Notify(m, KErrAccessDenied))
  BY NotifyQuiet, QuietKeeps DEF Codes
<1>2. InStep([m EXCEPT !.w.iSetPreviousPersonalityOnDisconnect = TRUE])
  <2>1. Quiet(m, [m EXCEPT !.w.iSetPreviousPersonalityOnDisconnect = TRUE])
    BY FieldsQuiet
  <2> QED BY <2>1, QuietKeeps
<1> QED BY <1>1, <1>2 DEF SetPreviousPersonalityOnDisconnect

\* StartDevCon keeps the process in step.
LEMMA StartDevConInStep ==
  ASSUME NEW m \in Memory, InStep(m)
  PROVE  InStep(StartDevCon(m))
BY StarterQuiet, QuietKeeps

\* DeviceAttached keeps the process in step.
LEMMA DeviceAttachedInStep ==
  ASSUME NEW m \in Memory, InStep(m), NEW old, NEW new
  PROVE  InStep(DeviceAttached(m, old, new))
<1> DEFINE n == HandlerStateChange(m, old, new)
<1>1. n \in Memory /\ InStep(n)
  BY HandlerStateChangeType, NotesQuiet, QuietKeeps
<1> HIDE DEF n
<1>2. /\ Cancel(n) \in Memory /\ InStep(Cancel(n))
      /\ Start(n) \in Memory /\ InStep(Start(n))
  BY <1>1, CancelType, CancelInStep, StartType, StartInStep
<1>3. Start(Cancel(n)) \in Memory /\ InStep(Start(Cancel(n)))
  BY <1>2, StartType, StartInStep
<1> QED BY <1>1, <1>2, <1>3, StartDevConInStep DEF DeviceAttached, n

\* DeviceDetached keeps the process in step.
LEMMA DeviceDetachedInStep ==
  ASSUME NEW m \in Memory, InStep(m), NEW old
  PROVE  InStep(DeviceDetached(m, old))
<1> DEFINE o == CancelObserver(m)
           h == HandlerStateChange(o, old, "Undefined")
           n == StopRestarting(h)
           r == SwapPersonalities(n)
           v == WritePersonalityId(r, r.w.iPersonalityId)
           x == [v EXCEPT !.w.iSetPreviousPersonalityOnDisconnect = FALSE]
           restored == IF n.w.iSetPreviousPersonalityOnDisconnect THEN x ELSE n
           t == Notify(restored, KErrCancel)
<1>1. o \in Memory /\ InStep(o)
  BY ObserverType, ObserverQuiet, QuietKeeps
<1> HIDE DEF o
<1>2. h \in Memory /\ InStep(h)
  BY <1>1, HandlerStateChangeType, NotesQuiet, QuietKeeps
<1> HIDE DEF h
<1>3. n \in Memory /\ InStep(n)
  BY <1>2, StopRestartingType, StarterQuiet, QuietKeeps
<1> HIDE DEF n
<1>4. r \in Memory /\ InStep(r)
  <2>1. r \in Memory
    BY <1>3, UndoType
  <2>2. Quiet(n, r)
    BY <1>3 DEF SwapPersonalities, Quiet, Raised, Memory, Watcher
  <2> QED BY <1>3, <2>1, <2>2, QuietKeeps
<1> HIDE DEF r
<1>5. v \in Memory /\ InStep(v)
  <2>1. r.w.iPersonalityId \in Personalities
    BY <1>4 DEF Memory, Watcher
  <2>2. v \in Memory
    BY <1>4, <2>1, WriteType
  <2>3. Quiet(r, v)
    BY <1>4 DEF WritePersonalityId, Quiet, Raised, Memory
  <2> QED BY <1>4, <2>2, <2>3, QuietKeeps
<1> HIDE DEF v
<1>6. x \in Memory /\ InStep(x)
  <2>1. x \in Memory
    BY <1>5, WatcherFlags
  <2>2. Quiet(v, x)
    BY <1>5, FieldsQuiet
  <2> QED BY <1>5, <2>1, <2>2, QuietKeeps
<1> HIDE DEF x
<1>7. t \in Memory /\ InStep(t)
  <2>1. restored \in Memory /\ InStep(restored)
    BY <1>3, <1>6
  <2> HIDE DEF restored
  <2> QED BY <2>1, NotifyType, NotifyQuiet, QuietKeeps DEF Codes
<1> HIDE DEF t
<1>8. Cancel(t) \in Memory /\ InStep(Cancel(t))
  BY <1>7, CancelType, CancelInStep
<1>9. InStep(Stop(Cancel(t))) /\ InStep(Stop(t))
  BY <1>7, <1>8, StopInStep
<1> QED BY <1>8, <1>9 DEF DeviceDetached, t, restored, x, v, r, n, h, o

\* StateChangeNotify keeps the process in step.
LEMMA StateChangeNotifyInStep ==
  ASSUME NEW m \in Memory, InStep(m), NEW old \in DeviceStates, NEW new \in DeviceStates
  PROVE  InStep(StateChangeNotify(m, old, new))
<1> DEFINE n == IF m.w.iNormalStart
                  THEN [m EXCEPT !.ind = IndicatorChange(@, old, new)] ELSE m
<1>1. n \in Memory
  <2>1. IndicatorChange(m.ind, old, new) \in Indicator
    BY IndicatorChangeType DEF Memory
  <2> QED BY <2>1 DEF Memory
<1>2. InStep(n)
  <2>1. Quiet(m, n)
    BY DEF Quiet, Raised, Memory
  <2> QED BY <2>1, QuietKeeps
<1> HIDE DEF n
<1>3. InStep(HandlerStateChange(n, old, new))
  BY <1>1, <1>2, NotesQuiet, QuietKeeps
<1>4. InStep(DeviceAttached(n, old, new)) /\ InStep(DeviceDetached(n, old))
  BY <1>1, <1>2, DeviceAttachedInStep, DeviceDetachedInStep
<1> QED BY <1>2, <1>3, <1>4 DEF StateChangeNotify, n

\* Lock keeps the process in step.
LEMMA LockInStep ==
  ASSUME NEW m \in Memory, InStep(m)
  PROVE  InStep(Lock(m)) /\ InStep(Unlock(m))
<1> DEFINE n == CancelCableConnectedNotifier(m)
<1>1. n \in Memory
  BY CancelAllNotesType DEF CancelAllNotes, CancelCableConnectedNotifier
<1>2. InStep(n)
  BY NotesQuiet, QuietKeeps
<1> HIDE DEF n
<1>3. InStep(Cancel(n)) /\ InStep(Stop(n)) /\ InStep(Start(m))
  BY <1>1, <1>2, CancelInStep, StopInStep, StartInStep
<1> QED BY <1>2, <1>3 DEF Lock, Unlock, n

\* GlobalState keeps the process in step.
LEMMA GlobalStateInStep ==
  ASSUME NEW m \in Memory, InStep(m)
  PROVE  InStep(StopPersonality(m)) /\ InStep(StartPersonality(m))
<1> DEFINE n == [m EXCEPT !.w.iPersonalityId = m.w.iPrevPersonalityId]
<1>1. n \in Memory
  <2>1. m.w.iPrevPersonalityId \in Personalities
    BY DEF Memory, Watcher
  <2> QED BY <2>1, WatcherIds
<1>2. InStep(n)
  <2>1. Quiet(m, n)
    BY FieldsQuiet
  <2> QED BY <2>1, QuietKeeps
<1> HIDE DEF n
<1>3. Stop(n) \in Memory /\ InStep(Stop(n))
  BY <1>1, <1>2, StopType, StopInStep
<1>4. InStep([Stop(n) EXCEPT !.w.iStarted = FALSE])
  BY <1>3, FieldsQuiet, QuietKeeps
<1>5. InStep(StartPersonality(m))
  <2>1. Start(m) \in Memory /\ InStep(Start(m))
    BY StartType, StartInStep
  <2> QED BY <2>1, StartDevConInStep DEF StartPersonality
<1> QED BY <1>4, <1>5 DEF StopPersonality, n

-----------------------------------------------------------------------------
\* The actions and the theorems.

\* The inductive invariant: types, and the process in step or ended by a fault.
ServiceInv == /\ TypeOK
              /\ Service(watcher, handler, property)
              /\ fault # CancelHangs

\* Mem keeps the process in step.
LEMMA MemInStep ==
  ASSUME ServiceInv, NEW in \in Outside
  PROVE  /\ Mem(in) \in Memory /\ InStep(Mem(in)) /\ Mem(in).fault = NoFault
         /\ Mem(in).w = watcher /\ Mem(in).h = handler /\ Mem(in).prop = property
BY MemType, FaultsDiffer DEF ServiceInv, Mem, InStep

\* Commit keeps the process in step.
LEMMA CommitInStep ==
  ASSUME ServiceInv, NEW m \in Memory, InStep(m), Commit(m)
  PROVE  ServiceInv'
<1>1. TypeOK'
  BY CommitType DEF ServiceInv
<1>2. Service(watcher, handler, property)'
  BY DEF ServiceInv, Commit, InStep
<1> QED BY <1>1, <1>2 DEF ServiceInv, Commit, InStep

\* The process starts in step.
LEMMA ServiceInit == Init => ServiceInv
<1> SUFFICES ASSUME Init PROVE ServiceInv
  OBVIOUS
<1>1. TypeOK
  BY InitType
<1>2. watcher.iState = "Idle" /\ ~watcher.active
  BY DEF Init, InitWatcher
<1>3. Service(watcher, handler, property)
  BY <1>2 DEF Service, Busy
<1> QED BY <1>1, <1>3, FaultsDiffer DEF ServiceInv, Init

\* Every RunL keeps the watcher and its handler in step.
LEMMA ServiceScheduler == ServiceInv /\ Scheduler => ServiceInv'
<1> SUFFICES ASSUME ServiceInv, Scheduler PROVE ServiceInv'
  OBVIOUS
<1> USE MemInStep
<1>0. TypeOK
  BY DEF ServiceInv
<1>1. CASE RunWatcher
  <2>1. PICK in \in Outside : Commit(WatcherRunL(Mem(in)))
    BY <1>1 DEF RunWatcher
  <2>2. watcher.active /\ watcher.iStatus \in Codes
    BY <1>0, <1>1, ReadyType DEF RunWatcher, WatcherReady, Ready
  <2>3. WatcherRunL(Mem(in)) \in Memory /\ InStep(WatcherRunL(Mem(in)))
    BY <2>2, WatcherRunLType, WatcherRunLInStep
  <2> QED BY <2>1, <2>3, CommitInStep
<1>2. CASE RunHandler
  <2>1. PICK in \in Outside : Commit(HandlerRunL(Mem(in)))
    BY <1>2 DEF RunHandler
  <2>2. /\ handler.active /\ handler.iStatus \in Codes
        /\ watcher.active => watcher.iStatus = Pending
    BY <1>0, <1>2, ReadyType DEF RunHandler, HandlerReady, WatcherReady, Ready
  <2>3. HandlerRunL(Mem(in)) \in Memory /\ InStep(HandlerRunL(Mem(in)))
    BY <2>2, HandlerRunLType, HandlerRunLInStep
  <2> QED BY <2>1, <2>3, CommitInStep
<1>3. CASE RunLock
  <2> DEFINE n(in) == [Mem(in) EXCEPT !.lock.ready = FALSE]
  <2>1. PICK in \in Outside :
          Commit(CASE lock.value = "Off" -> Unlock(n(in))
                   [] lock.value = "RemoteLocked" -> Lock(n(in))
                   [] OTHER -> n(in))
    BY <1>3 DEF RunLock
  <2>2. n(in) \in Memory /\ InStep(n(in))
    <3>1. n(in) \in Memory
      BY DEF Memory, Lock_
    <3>2. Quiet(Mem(in), n(in))
      BY DEF Quiet, Raised, Memory
    <3> QED BY <3>1, <3>2, QuietKeeps
  <2> HIDE DEF n
  <2>3. /\ Unlock(n(in)) \in Memory /\ Lock(n(in)) \in Memory
        /\ InStep(Unlock(n(in))) /\ InStep(Lock(n(in)))
    BY <2>2, UnlockType, LockType, LockInStep
  <2> QED BY <2>1, <2>2, <2>3, CommitInStep
<1>4. CASE RunObserver
  <2> DEFINE n(in) == [Mem(in) EXCEPT !.obs.iStatus = Pending]
  <2>1. PICK in \in Outside :
          Commit(CASE global = "ChargingToNormal" -> StopPersonality(n(in))
                   [] global = "Charging" -> StartPersonality(n(in))
                   [] global = "Normal" -> StartPersonality(CancelObserver(n(in)))
                   [] OTHER -> n(in))
    BY <1>4 DEF RunObserver
  <2>2. n(in) \in Memory /\ InStep(n(in))
    <3>1. n(in) \in Memory
      BY DEF Memory, Request, Statuses
    <3>2. Quiet(Mem(in), n(in))
      BY DEF Quiet, Raised, Memory
    <3> QED BY <3>1, <3>2, QuietKeeps
  <2> HIDE DEF n
  <2>3. CancelObserver(n(in)) \in Memory /\ InStep(CancelObserver(n(in)))
    BY <2>2, ObserverType, ObserverQuiet, QuietKeeps
  <2>4. /\ StopPersonality(n(in)) \in Memory /\ StartPersonality(n(in)) \in Memory
        /\ StartPersonality(CancelObserver(n(in))) \in Memory
    BY <2>2, <2>3, GlobalStateType
  <2>5. /\ InStep(StopPersonality(n(in))) /\ InStep(StartPersonality(n(in)))
        /\ InStep(StartPersonality(CancelObserver(n(in))))
    BY <2>2, <2>3, GlobalStateInStep
  <2> QED BY <2>1, <2>2, <2>4, <2>5, CommitInStep
<1>5. CASE RunStarter
  <2>1. PICK in \in Outside : Commit(StarterRunL(Mem(in)))
    BY <1>5 DEF RunStarter
  <2>2. StarterRunL(Mem(in)) \in Memory /\ InStep(StarterRunL(Mem(in)))
    BY StarterRunLType, StarterQuiet, QuietKeeps
  <2> QED BY <2>1, <2>2, CommitInStep
<1>6. CASE RunDevice
  <2> DEFINE new == device.current
             old == device.iPreviousState
             n(in) == [Mem(in) EXCEPT !.dev.ready = FALSE]
             k(in) == StateChangeNotify(n(in), old, new)
             r(in) == [k(in) EXCEPT !.dev.iPreviousState = new]
  <2>1. PICK in \in Outside : Commit(IF new = old THEN n(in) ELSE r(in))
    BY <1>6 DEF RunDevice
  <2>2. new \in BusStates /\ old \in BusStates /\ new \in DeviceStates /\ old \in DeviceStates
    BY <1>0, SystemAssumption DEF TypeOK, Device
  <2>3. n(in) \in Memory /\ InStep(n(in))
    <3>1. n(in) \in Memory
      BY DEF Memory, Device
    <3>2. Quiet(Mem(in), n(in))
      BY DEF Quiet, Raised, Memory
    <3> QED BY <3>1, <3>2, QuietKeeps
  <2> HIDE DEF n, new, old
  <2>4. k(in) \in Memory /\ InStep(k(in))
    BY <2>2, <2>3, StateChangeNotifyType, StateChangeNotifyInStep
  <2> HIDE DEF k
  <2>5. r(in) \in Memory /\ InStep(r(in))
    <3>1. r(in) \in Memory
      BY <2>2, <2>4 DEF Memory, Device
    <3>2. Quiet(k(in), r(in))
      BY <2>4 DEF Quiet, Raised, Memory
    <3> QED BY <2>4, <3>1, <3>2, QuietKeeps
  <2> HIDE DEF r
  <2>6. Commit(n(in)) => ServiceInv'
    BY <2>3, CommitInStep
  <2>7. Commit(r(in)) => ServiceInv'
    BY <2>5, CommitInStep
  <2> QED BY <2>1, <2>6, <2>7
<1> QED BY <1>1, <1>2, <1>3, <1>4, <1>5, <1>6 DEF Scheduler

\* Registering or completing a message of a session is quiet.
LEMMA MessageInStep ==
  ASSUME NEW m \in Memory, InStep(m), NEW s \in Sessions, NEW b \in BOOLEAN,
         NEW id \in Personalities \cup {Unsupported, None}
  PROVE  /\ InStep([m EXCEPT !.ss[s].set = id])
         /\ InStep([m EXCEPT !.ss[s].setPrevious = b])
         /\ InStep([m EXCEPT !.ss[s].cancelSet = b])
         /\ InStep([m EXCEPT !.ss[s].cancelSetPrevious = b])
         /\ InStep([m EXCEPT !.ss[s] = NoMessages])
<1>1. ASSUME NEW f
      PROVE  Quiet(m, [m EXCEPT !.ss = f])
  BY DEF Quiet, Raised, Memory
<1>2. \A f : InStep([m EXCEPT !.ss = f])
  BY <1>1, QuietKeeps
<1> QED BY <1>2

\* Every message of a client keeps them in step.
LEMMA ServiceClient ==
  ASSUME ServiceInv, NEW s \in Sessions, Client(s)
  PROVE  ServiceInv'
<1> USE MemInStep
<1>1. ASSUME NEW id \in Personalities \cup {Unsupported}, NEW nb \in NonBlocking,
             SessionSetPersonality(s, id, nb)
      PROVE  ServiceInv'
  <2> DEFINE p(in) == SupersedeSet(Mem(in), s)
             n(in) == Notify(p(in), KErrCancel)
  <2>1. PICK in \in Outside : Commit(SetPersonality([n(in) EXCEPT !.ss[s].set = id], id, nb))
    BY <1>1 DEF SessionSetPersonality
  <2>2. p(in) \in Memory /\ InStep(p(in))
    <3>1. p(in) \in Memory
      BY SupersedeType
    <3>2. Quiet(Mem(in), p(in))
      BY DEF SupersedeSet, Quiet, Raised, Memory
    <3> QED BY <3>1, <3>2, QuietKeeps
  <2> HIDE DEF p
  <2>3. n(in) \in Memory /\ InStep(n(in))
    BY <2>2, NotifyType, NotifyQuiet, QuietKeeps DEF Codes
  <2> HIDE DEF n
  <2>4. /\ [n(in) EXCEPT !.ss[s].set = id] \in Memory
        /\ InStep([n(in) EXCEPT !.ss[s].set = id])
    BY <2>3, SetMessageType, MessageInStep
  <2>5. nb \in BOOLEAN
    BY SystemAssumption
  <2>6. /\ SetPersonality([n(in) EXCEPT !.ss[s].set = id], id, nb) \in Memory
        /\ InStep(SetPersonality([n(in) EXCEPT !.ss[s].set = id], id, nb))
    BY <2>4, <2>5, SetPersonalityType, SetPersonalityInStep
  <2> QED BY <2>1, <2>6, CommitInStep
<1>2. CASE SessionCancelSetPersonality(s)
  <2> DEFINE n(in) == [Mem(in) EXCEPT !.ss[s].cancelSet = TRUE]
  <2>1. PICK in \in Outside : Commit(CancelChange(n(in)))
    BY <1>2 DEF SessionCancelSetPersonality
  <2>2. n(in) \in Memory /\ InStep(n(in))
    BY SetMessageType, MessageInStep
  <2> HIDE DEF n
  <2> QED BY <2>1, <2>2, CancelChangeType, CancelChangeInStep, CommitInStep
<1>3. ASSUME NEW sync \in BOOLEAN, SessionSetPrevious(s, sync)
      PROVE  ServiceInv'
  <2> DEFINE k(in) == [Mem(in) EXCEPT !.ss[s].setPrevious = FALSE]
             n(in) == Notify(k(in), KErrCancel)
             r(in) == [n(in) EXCEPT !.ss[s].setPrevious = ~sync]
  <2>1. PICK in \in Outside : Commit(SetPreviousPersonality(r(in)))
    BY <1>3 DEF SessionSetPrevious
  <2>2. k(in) \in Memory /\ InStep(k(in))
    BY SetMessageType, MessageInStep
  <2> HIDE DEF k
  <2>3. n(in) \in Memory /\ InStep(n(in))
    BY <2>2, NotifyType, NotifyQuiet, QuietKeeps DEF Codes
  <2> HIDE DEF n
  <2>4. r(in) \in Memory /\ InStep(r(in))
    BY <2>3, SetMessageType, MessageInStep
  <2> HIDE DEF r
  <2> QED BY <2>1, <2>4, SetPreviousPersonalityType, SetPreviousPersonalityInStep, CommitInStep
<1>4. CASE SessionCancelSetPrevious(s)
  <2> DEFINE n(in) == [Mem(in) EXCEPT !.ss[s].cancelSetPrevious = TRUE]
  <2>1. PICK in \in Outside : Commit(CancelChange(n(in)))
    BY <1>4 DEF SessionCancelSetPrevious
  <2>2. n(in) \in Memory /\ InStep(n(in))
    BY SetMessageType, MessageInStep
  <2> HIDE DEF n
  <2> QED BY <2>1, <2>2, CancelChangeType, CancelChangeInStep, CommitInStep
<1>5. CASE SessionOnDisconnect(s)
  <2>1. PICK in \in Outside : Commit(SetPreviousPersonalityOnDisconnect(Mem(in)))
    BY <1>5 DEF SessionOnDisconnect
  <2>2. /\ SetPreviousPersonalityOnDisconnect(Mem(in)) \in Memory
        /\ InStep(SetPreviousPersonalityOnDisconnect(Mem(in)))
    BY OnDisconnectType, OnDisconnectInStep
  <2> QED BY <2>1, <2>2, CommitInStep
<1>6. CASE SessionClose(s)
  <2>1. PICK in \in Outside : Commit([Mem(in) EXCEPT !.ss[s] = NoMessages])
    BY <1>6 DEF SessionClose
  <2>2. /\ [Mem(in) EXCEPT !.ss[s] = NoMessages] \in Memory
        /\ InStep([Mem(in) EXCEPT !.ss[s] = NoMessages])
    BY SetMessageType, MessageInStep
  <2> QED BY <2>1, <2>2, CommitInStep
<1> QED BY <1>1, <1>2, <1>3, <1>4, <1>5, <1>6 DEF Client

\* The outside writes only request statuses the watcher does not rely on.
LEMMA ServiceWorld == ServiceInv /\ World => ServiceInv'
<1> SUFFICES ASSUME ServiceInv, World PROVE ServiceInv'
  OBVIOUS
<1>1. TypeOK'
  BY WorldType DEF ServiceInv
<1>2. TypeOK
  BY DEF ServiceInv
<1>3. /\ watcher' = watcher /\ property' = property /\ fault' = fault
      /\ handler'.iState = handler.iState /\ handler'.active = handler.active
      /\ handler'.plugin = handler.plugin
      /\ handler'.iRequestStatus = handler.iRequestStatus
      /\ handler'.isFailureCleanup = handler.isFailureCleanup
  <2>1. CASE PluginAnswers \/ UsbManagerAnswers \/ UserClosesNote
    BY <1>2, <2>1 DEF TypeOK, Handler, PluginAnswers, UsbManagerAnswers, UserClosesNote
  <2>2. CASE \/ DevConProcess \/ DeviceStateReported \/ LockChanges
             \/ GlobalStateChanges \/ IdPinChanges
    BY <2>2 DEF DevConProcess, DeviceStateReported, LockChanges, GlobalStateChanges,
                IdPinChanges
  <2> QED BY <2>1, <2>2 DEF World
<1> QED BY <1>1, <1>3 DEF ServiceInv, Service, Serving, Loaded

\* The watcher and its handler stay in step: the inductive invariant the
\* four properties below follow from.
THEOREM ServiceInvariant == Spec => []ServiceInv
<1>1. ServiceInv /\ UNCHANGED vars => ServiceInv'
  BY DEF ServiceInv, TypeOK, Service, Serving, Loaded, vars
<1>2. ServiceInv /\ [Next]_vars => ServiceInv'
  BY <1>1, ServiceScheduler, ServiceWorld, ServiceClient DEF Next
<1> QED BY <1>2, ServiceInit, PTL DEF Spec

\* A waiting watcher is served: the handler is at work on its very request and
\* holds the pointer to complete it, so no completion is lost.
THEOREM Served == Spec => []HandlerServesWatcher
<1>1. ServiceInv => HandlerServesWatcher
  BY DEF ServiceInv, Service, Serving, Busy, HandlerServesWatcher
<1> QED BY <1>1, ServiceInvariant, PTL

\* The watcher is active exactly while it waits for the handler.
THEOREM ActiveWhenBusy == Spec => []ActiveInBusyStates
<1>1. ServiceInv => ActiveInBusyStates
  BY DEF ServiceInv, Service, Busy, ActiveInBusyStates
<1> QED BY <1>1, ServiceInvariant, PTL

\* No Cancel() of the watcher blocks the process, whichever client, cable, lock
\* or global-state event calls it and whatever the handler is doing then.
THEOREM NoCancelHangs == Spec => []CancelNeverHangs
<1>1. ServiceInv => CancelNeverHangs
  BY DEF ServiceInv, CancelNeverHangs
<1> QED BY <1>1, ServiceInvariant, PTL

\* The published personality is the loaded one while a personality is started.
THEOREM Published == Spec => []PublishedIsRunning
<1>1. ServiceInv => PublishedIsRunning
  BY DEF ServiceInv, Service, Loaded, PublishedIsRunning
<1> QED BY <1>1, ServiceInvariant, PTL

-----------------------------------------------------------------------------
(***************************************************************************)
(* Clients and indicators of a phone that is not switched on by a charger: *)
(* AckedIsSaved and IndicatorTracksDevice.  Both are about what a change   *)
(* or a start leaves alone, so the lemmas below say of every operation     *)
(* which of the sessions, ids, settings, indicators and device it keeps.   *)
(***************************************************************************)

\* No personality is configured for charging, or the phone is never found charging.
Uncharged == ChargingPersonality = None \/ "Charging" \notin GlobalStates

\* The end of charging is never met: it takes back the id a client has chosen.
NeverCharged == "ChargingToNormal" \notin GlobalStates

\* An operation that leaves alone the clients, their choice and what is saved.
Keeping(m, n) ==
  /\ n.ss = m.ss /\ n.answers = m.answers /\ n.cenrep = m.cenrep /\ n.in = m.in
  /\ n.w.iPersonalityId = m.w.iPersonalityId
  /\ n.w.iSetPersonalityOngoing = m.w.iSetPersonalityOngoing

\* The watcher has started in the normal state, or it has started nothing at all.
Lit(m) == m.w.iNormalStart /\ m.global = "Normal"
Unlit(w, h) == ~w.iNormalStart /\ w.iState = "Idle" /\ ~w.active /\ ~h.active /\ h.usb = None
Begun(m) == Lit(m) \/ Unlit(m.w, m.h)

\* An operation that leaves alone the indicators, the device and the global state.
Outer(m, n) == /\ n.ind = m.ind /\ n.dev = m.dev /\ n.global = m.global
               /\ n.idPin = m.idPin /\ n.lock = m.lock

\* One that, besides, starts nothing but in the normal state.
Showing(m, n) == /\ Outer(m, n)
                 /\ Lit(m) => Lit(n)
                 /\ Begun(m) => Begun(n)

\* An operation of the handler, or one on flags neither half speaks of.
Frame(m, n) == Keeping(m, n) /\ Outer(m, n) /\ n.w.iNormalStart = m.w.iNormalStart

\* Two operations of the same kind are one.
LEMMA FrameTwice ==
  ASSUME NEW m, NEW n, NEW o
  PROVE  /\ Keeping(m, n) /\ Keeping(n, o) => Keeping(m, o)
         /\ Showing(m, n) /\ Showing(n, o) => Showing(m, o)
         /\ Frame(m, n) /\ Frame(n, o) => Frame(m, o)
BY DEF Keeping, Showing, Outer, Frame

\* In the normal state a framed operation shows nothing new.
LEMMA FrameShows ==
  ASSUME NEW m, NEW n, Frame(m, n), Lit(m) \/ (Unlit(m.w, m.h) => Unlit(n.w, n.h))
  PROVE  Keeping(m, n) /\ Showing(m, n)
BY DEF Frame, Showing, Outer, Lit, Begun, Unlit

\* The small operations of the handler.
LEMMA HandlerPartsFrame ==
  ASSUME NEW m \in Memory, NEW st, NEW code, NEW old, NEW new
  PROVE  /\ Frame(m, HandlerActive(m, st)) /\ Frame(m, CompleteRequest(m, code))
         /\ Frame(m, TakeRequest(m)) /\ Frame(m, CancelAllNotes(m))
         /\ Frame(m, CancelCableConnectedNotifier(m))
         /\ Frame(m, HandlerStateChange(m, old, new))
<1>1. Frame(m, HandlerActive(m, st)) /\ Frame(m, CancelAllNotes(m))
  BY DEF HandlerActive, CancelAllNotes, Frame, Keeping, Outer, Memory
<1>2. Frame(m, CompleteRequest(m, code)) /\ Frame(m, TakeRequest(m))
  BY DEF CompleteRequest, TakeRequest, Frame, Keeping, Outer, Memory, Watcher
<1>3. /\ Frame(m, CancelCableConnectedNotifier(m))
      /\ Frame(m, HandlerStateChange(m, old, new))
  BY DEF CancelCableConnectedNotifier, HandlerStateChange, Frame, Keeping, Outer, Memory
<1> QED BY <1>1, <1>2, <1>3

\* The starter, the observer and publishing are framed.
LEMMA OthersFrame ==
  ASSUME NEW m \in Memory, NEW p
  PROVE  /\ Frame(m, m) /\ Frame(m, Publish(m, p))
         /\ Frame(m, ObserveGlobalState(m)) /\ Frame(m, CancelObserver(m))
         /\ Frame(m, StopRestarting(m)) /\ Frame(m, StarterStart(m))
         /\ Frame(m, StarterRunL(m)) /\ Frame(m, StartDevCon(m))
<1>1. /\ Frame(m, m) /\ Frame(m, Publish(m, p))
      /\ Frame(m, ObserveGlobalState(m)) /\ Frame(m, CancelObserver(m))
      /\ Frame(m, StopRestarting(m))
  BY DEF Publish, ObserveGlobalState, CancelObserver, StopRestarting, Frame, Keeping, Outer, Memory
<1>2. ASSUME NEW k, Frame(m, k), k \in Memory, NEW s
      PROVE  Frame(m, StarterWaits(k, s))
  BY <1>2 DEF StarterWaits, Frame, Keeping, Outer, Memory
<1>3. ASSUME NEW k, Frame(m, k), k \in Memory
      PROVE  Frame(m, StarterStart(k))
  <2> DEFINE t == [k EXCEPT !.starter.iStarted = TRUE]
             f == [k EXCEPT !.starter.iStarted = FALSE]
  <2>1. t \in Memory /\ Frame(m, t) /\ Frame(m, f)
    BY <1>3, StarterFlagType DEF Frame, Keeping, Outer, Memory
  <2> HIDE DEF t, f
  <2>2. Frame(m, StarterWaits(t, "WaitingRendezvous"))
    BY <1>2, <2>1
  <2> QED BY <2>1, <2>2 DEF StarterStart, t, f
<1>4. Frame(m, StarterRunL(m))
  <2> DEFINE d == [m EXCEPT !.starter.active = FALSE]
             i == [d EXCEPT !.starter.iState = "Idle"]
  <2>1. d \in Memory /\ Frame(m, d)
    <3>1. [m.starter EXCEPT !.active = FALSE] \in Starter
      BY DEF Memory, Starter
    <3> QED BY <3>1 DEF Memory, Frame, Keeping, Outer
  <2>2. i \in Memory /\ Frame(d, i)
    <3>1. [d.starter EXCEPT !.iState = "Idle"] \in Starter
      BY <2>1 DEF Memory, Starter, StarterStates
    <3> QED BY <2>1, <3>1 DEF Memory, Frame, Keeping, Outer
  <2> HIDE DEF d, i
  <2>3. /\ Frame(m, StarterWaits(d, "Running")) /\ Frame(m, i)
        /\ Frame(m, StarterStart(i))
    BY <1>2, <1>3, <2>1, <2>2, FrameTwice
  <2>4. m.starter.iState \in StarterStates
    BY DEF Memory, Starter
  <2> QED BY <2>1, <2>3, <2>4 DEF StarterRunL, StarterStates, d, i
<1> QED BY <1>1, <1>3, <1>4 DEF StartDevCon

\* Assignments to the flags of the watcher but the two that matter here.
LEMMA FlagsFrame ==
  ASSUME NEW m \in Memory, NEW b, NEW s, NEW st, NEW p
  PROVE  /\ Frame(m, [m EXCEPT !.w.active = b]) /\ Frame(m, [m EXCEPT !.w.iState = s])
         /\ Frame(m, [m EXCEPT !.w.iStatus = st]) /\ Frame(m, [m EXCEPT !.w.iStarted = b])
         /\ Frame(m, [m EXCEPT !.w.iStopStartScenario = b])
         /\ Frame(m, [m EXCEPT !.w.iSetPreviousPersonalityOnDisconnect = b])
         /\ Frame(m, [m EXCEPT !.w.iPrevPersonalityId = p])
         /\ Frame(m, WatcherActive(m, s))
<1>1. m.w \in Watcher
  BY DEF Memory
<1>2. /\ Frame(m, [m EXCEPT !.w.active = b]) /\ Frame(m, [m EXCEPT !.w.iState = s])
      /\ Frame(m, [m EXCEPT !.w.iStatus = st]) /\ Frame(m, [m EXCEPT !.w.iStarted = b])
  BY <1>1 DEF Frame, Keeping, Outer, Memory, Watcher
<1>3. /\ Frame(m, [m EXCEPT !.w.iStopStartScenario = b])
      /\ Frame(m, [m EXCEPT !.w.iSetPreviousPersonalityOnDisconnect = b])
      /\ Frame(m, [m EXCEPT !.w.iPrevPersonalityId = p])
      /\ Frame(m, WatcherActive(m, s))
  BY <1>1 DEF WatcherActive, Frame, Keeping, Outer, Memory, Watcher
<1> QED BY <1>2, <1>3

\* A start, a stop and the question whether to stop.
LEMMA HandlerCallsFrame ==
  ASSUME NEW m \in Memory, NEW cleanup \in BOOLEAN
  PROVE  /\ Frame(m, HandlerStart(m)) /\ Frame(m, PrepareStop(m, cleanup))
         /\ Frame(m, HandlerStop(m)) /\ Frame(m, ConfirmPersonalityUnload(m))
<1> DEFINE t == TakeRequest(m)
           c == CancelAllNotes(t)
<1>1. t \in Memory /\ c \in Memory /\ Frame(m, t) /\ Frame(m, c)
  BY TakeRequestType, CancelAllNotesType, HandlerPartsFrame, FrameTwice
<1> HIDE DEF t, c
<1>2. Frame(m, HandlerStart(m))
  <2> DEFINE id == m.w.iPersonalityId
             u == [c EXCEPT !.h.plugin = id, !.h.iState = "PrepareStart",
                            !.h.isFailureCleanup = FALSE]
  <2>1. CASE HandlerStart(m) = CompleteRequest(c, KErrGeneral)
    BY <1>1, <2>1, HandlerPartsFrame, FrameTwice
  <2>2. CASE /\ id \in Personalities
             /\ HandlerStart(m) = HandlerActive(u, PluginStatus("PrepareStart"))
    <3>1. [c.h EXCEPT !.plugin = id, !.iState = "PrepareStart", !.isFailureCleanup = FALSE]
            \in Handler
      BY <1>1, <2>2 DEF Memory, Handler, HandlerStates
    <3>2. u \in Memory /\ Frame(c, u)
      BY <1>1, <3>1 DEF Memory, Frame, Keeping, Outer
    <3> HIDE DEF u
    <3> QED BY <1>1, <2>2, <3>2, HandlerPartsFrame, FrameTwice
  <2> QED BY <2>1, <2>2 DEF HandlerStart, t, c
<1>3. ASSUME NEW k \in Memory, NEW b \in BOOLEAN
      PROVE  Frame(k, PrepareStop(k, b))
  <2> DEFINE u == [k EXCEPT !.h.iState = "PrepareStop", !.h.isFailureCleanup = b]
  <2>1. [k.h EXCEPT !.iState = "PrepareStop", !.isFailureCleanup = b] \in Handler
    BY DEF Memory, Handler, HandlerStates
  <2>2. u \in Memory /\ Frame(k, u)
    BY <2>1 DEF Memory, Frame, Keeping, Outer
  <2> HIDE DEF u
  <2>3. Frame(k, HandlerActive(u, KErrNone)) /\ Frame(k, HandlerActive(u, PluginStatus("PrepareStop")))
    BY <2>2, HandlerPartsFrame, FrameTwice
  <2> QED BY <2>2, <2>3 DEF PrepareStop, u
<1>4. Frame(m, HandlerStop(m))
  BY <1>1, <1>3, FrameTwice DEF HandlerStop, t
<1>5. Frame(m, ConfirmPersonalityUnload(m))
  <2>1. /\ Frame(m, HandlerActive(t, KErrGeneral)) /\ Frame(m, HandlerActive(c, Pending))
        /\ Frame(m, HandlerActive(c, KErrNone))
    BY <1>1, HandlerPartsFrame, FrameTwice
  <2>2. \/ ConfirmPersonalityUnload(m) = HandlerActive(t, KErrGeneral)
        \/ ConfirmPersonalityUnload(m) = HandlerActive(c, Pending)
        \/ ConfirmPersonalityUnload(m) = HandlerActive(c, KErrNone)
    BY Zenon DEF ConfirmPersonalityUnload, t, c
  <2> QED BY <2>1, <2>2
<1> QED BY <1>2, <1>3, <1>4, <1>5

\* Cancelling the handler.
LEMMA HandlerCancelFrame ==
  ASSUME NEW m \in Memory
  PROVE  Frame(m, HandlerCancel(m))
<1> DEFINE f == IF m.h.iState = "FinishStart" THEN Raise(m.fault, SetActiveTwice) ELSE m.fault
           d == [m EXCEPT !.h = Cancelled(m.h), !.fault = f]
           c == CancelAllNotes(d)
<1>1. d \in Memory
  <2>1. m.h \in Handler /\ f \in Faults
    BY DEF Memory, Faults, Raise
  <2> QED BY <2>1, CancelledType DEF Memory
<1>2. Frame(m, d)
  BY DEF Frame, Keeping, Outer, Memory
<1> HIDE DEF d
<1>3. c \in Memory /\ Frame(m, c)
  BY <1>1, <1>2, CancelAllNotesType, HandlerPartsFrame, FrameTwice
<1> HIDE DEF c
<1>4. Frame(m, CompleteRequest(c, KErrCancel)) /\ Frame(m, m)
  BY <1>3, HandlerPartsFrame, OthersFrame, FrameTwice
<1> QED BY <1>4 DEF HandlerCancel, c, d

\* The RunL of the handler.
LEMMA HandlerRunLFrame ==
  ASSUME NEW m \in Memory
  PROVE  Frame(m, HandlerRunL(m))
<1> DEFINE ret == m.h.iStatus
           d == [m EXCEPT !.h.active = FALSE]
           to(s, st) == HandlerActive([d EXCEPT !.h.iState = s], st)
           done(n) == CompleteRequest(n, ret)
           v == [d EXCEPT !.h.usb = None]
           f == [d EXCEPT !.h.plugin = None, !.h.usb = None, !.h.iState = "Idle",
                          !.h.cableNote = @ /\ ~m.h.undefined]
<1>1. d \in Memory /\ Frame(m, d)
  <2>1. [m.h EXCEPT !.active = FALSE] \in Handler
    BY DEF Memory, Handler
  <2> QED BY <2>1 DEF Memory, Frame, Keeping, Outer
<1>2. v \in Memory /\ Frame(m, v)
  <2>1. [m.h EXCEPT !.active = FALSE, !.usb = None] \in Handler
    BY DEF Memory, Handler
  <2> QED BY <2>1 DEF Memory, Frame, Keeping, Outer
<1>3. ASSUME NEW s \in HandlerStates, NEW st
      PROVE  Frame(m, to(s, st))
  <2> DEFINE u == [d EXCEPT !.h.iState = s]
  <2>1. [d.h EXCEPT !.iState = s] \in Handler
    BY <1>1 DEF Memory, Handler
  <2>2. u \in Memory /\ Frame(m, u)
    BY <1>1, <2>1 DEF Memory, Frame, Keeping, Outer
  <2> HIDE DEF u
  <2>3. Frame(m, HandlerActive(u, st))
    BY <2>2, HandlerPartsFrame, FrameTwice
  <2> QED BY <2>3 DEF u
<1>4. Frame(m, done(d)) /\ Frame(m, d)
  <2> HIDE DEF d
  <2> QED BY <1>1, HandlerPartsFrame, FrameTwice
<1>5. Frame(m, f) /\ Frame(m, done(f))
  <2> DEFINE note == d.h.cableNote /\ ~m.h.undefined
  <2>1. note \in BOOLEAN
    OBVIOUS
  <2> HIDE DEF note
  <2>2. [d.h EXCEPT !.plugin = None, !.usb = None, !.iState = "Idle", !.cableNote = note]
          \in Handler
    BY <1>1, <2>1 DEF Memory, Handler, HandlerStates
  <2> DEFINE g == [d EXCEPT !.h.plugin = None, !.h.usb = None, !.h.iState = "Idle",
                            !.h.cableNote = note]
  <2>3. g \in Memory /\ Frame(m, g)
    BY <1>1, <2>2 DEF Memory, Frame, Keeping, Outer
  <2>4. f = g
    BY DEF note
  <2> HIDE DEF f, g
  <2> QED BY <2>3, <2>4, HandlerPartsFrame, FrameTwice
<1>6. Frame(m, HandlerRunError(v, ret))
  <2> HIDE DEF v
  <2> DEFINE p == PrepareStop(v, TRUE)
  <2>1. p \in Memory /\ Frame(m, p)
    BY <1>2, PrepareStopType, HandlerCallsFrame, FrameTwice
  <2> HIDE DEF p
  <2>2. Frame(m, CompleteRequest(p, ret))
    BY <2>1, HandlerPartsFrame, FrameTwice
  <2> QED BY <2>2 DEF HandlerRunError, p
<1>7. ASSUME NEW n, Frame(m, n)
      PROVE  /\ Frame(m, [n EXCEPT !.h.usb = m.w.iPersonalityId])
             /\ Frame(m, [n EXCEPT !.h.iState = "Started"])
  BY <1>7 DEF Frame, Keeping, Outer
<1>8. CASE m.h.iState = "PrepareStart"
  <2>1. Frame(m, to("StartUsb", Pending))
    BY <1>3 DEF HandlerStates
  <2> HIDE DEF to
  <2> QED BY <1>7, <1>8, <2>1 DEF HandlerRunL, to, d
<1>9. CASE m.h.iState = "StartUsb"
  <2>1. Frame(m, to("FinishStart", PluginStatus("FinishStart")))
    BY <1>3 DEF HandlerStates
  <2> QED BY <1>6, <1>9, <2>1 DEF HandlerRunL
<1>10. CASE m.h.iState = "FinishStart"
  <2> HIDE DEF done
  <2> QED BY <1>4, <1>7, <1>10 DEF HandlerRunL, done
<1>11. CASE m.h.iState \in {"PrepareStop", "StopUsb"}
  <2>1. Frame(m, to("StopUsb", Pending)) /\ Frame(m, to("FinishStop", PluginStatus("FinishStop")))
    BY <1>3 DEF HandlerStates
  <2> QED BY <1>11, <2>1 DEF HandlerRunL
<1>12. CASE m.h.iState = "FinishStop"
  BY <1>5, <1>12 DEF HandlerRunL
<1>13. CASE m.h.iState \in {"Idle", "Started"}
  BY <1>4, <1>13 DEF HandlerRunL
<1>14. m.h.iState \in HandlerStates
  BY DEF Memory, Handler
<1> QED BY <1>8, <1>9, <1>10, <1>11, <1>12, <1>13, <1>14 DEF HandlerStates

-----------------------------------------------------------------------------
\* Starting, cancelling and stopping keep the clients' choice, and start nothing
\* but in the normal state.

\* Launching the personality.
LEMMA LaunchFrame ==
  ASSUME NEW m \in Memory
  PROVE  Frame(m, Launch(m))
<1> DEFINE p == Publish(m, m.w.iPersonalityId)
           n == [p EXCEPT !.w.iStarted = TRUE]
           h == HandlerStart(n)
<1>1. p \in Memory /\ Frame(m, p)
  <2>1. m.w.iPersonalityId \in Personalities
    BY DEF Memory, Watcher
  <2> QED BY <2>1, PublishType, OthersFrame
<1> HIDE DEF p
<1>2. n \in Memory /\ Frame(m, n)
  BY <1>1, WatcherFlags, FlagsFrame, FrameTwice
<1> HIDE DEF n
<1>3. h \in Memory /\ Frame(m, h)
  BY <1>2, HandlerStartType, HandlerCallsFrame, FrameTwice
<1> HIDE DEF h
<1>4. Frame(m, WatcherActive(h, "Starting"))
  BY <1>3, FlagsFrame, FrameTwice
<1> QED BY <1>4 DEF Launch, h, n, p

\* Start.
LEMMA StartShows ==
  ASSUME Uncharged, NEW m \in Memory
  PROVE  Keeping(m, Start(m)) /\ Showing(m, Start(m))
<1> DEFINE d == [m EXCEPT !.w.iStarted = FALSE, !.w.iNormalStart = FALSE]
           o == ObserveGlobalState(d)
           c == [o EXCEPT !.w.iPrevPersonalityId = d.w.iPersonalityId]
           n == [d EXCEPT !.w.iNormalStart = TRUE]
           q == CancelObserver(n)
           l == Launch(q)
<1>1. d \in Memory /\ n \in Memory
  <2>1. /\ [m.w EXCEPT !.iStarted = FALSE, !.iNormalStart = FALSE] \in Watcher
        /\ [m.w EXCEPT !.iStarted = FALSE, !.iNormalStart = TRUE] \in Watcher
    BY DEF Memory, Watcher
  <2> QED BY <2>1 DEF Memory
<1>2. /\ Keeping(m, d) /\ Outer(m, d) /\ ~d.w.iNormalStart
      /\ d.w.iState = m.w.iState /\ d.w.active = m.w.active /\ d.h = m.h
      /\ Keeping(m, n) /\ Outer(m, n) /\ n.w.iNormalStart
  BY DEF Keeping, Outer, Memory, Watcher
<1> HIDE DEF d, n
<1>3. CASE m.w.iState # "Idle"
  BY <1>3, OthersFrame, FrameShows DEF Start
<1>4. CASE m.w.iState = "Idle" /\ m.global = "Normal"
  <2>1. q \in Memory /\ Frame(n, q)
    BY <1>1, ObserverType, OthersFrame
  <2> HIDE DEF q
  <2>2. Frame(n, l)
    BY <2>1, LaunchFrame, FrameTwice
  <2> HIDE DEF l
  <2>3. ASSUME NEW x, Frame(n, x)
        PROVE  Keeping(m, x) /\ Showing(m, x)
    BY <1>2, <1>4, <2>3 DEF Frame, Keeping, Outer, Showing, Lit, Begun
  <2>4. Frame(n, n)
    BY <1>1, OthersFrame
  <2>5. Start(m) = n \/ Start(m) = l
    BY <1>4 DEF Start, StartNormal, d, n, q, l
  <2> QED BY <2>2, <2>3, <2>4, <2>5
<1>5. CASE m.w.iState = "Idle" /\ m.global # "Normal"
  <2>1. o \in Memory /\ Frame(d, o) /\ o.w = d.w /\ o.h = d.h
    BY <1>1, ObserverType, OthersFrame DEF ObserveGlobalState, Memory
  <2> HIDE DEF o
  <2>2. /\ Frame(d, c) /\ c.w.iState = d.w.iState /\ c.w.active = d.w.active /\ c.h = d.h
    <3>1. Frame(o, c) /\ c.w.iState = o.w.iState /\ c.w.active = o.w.active /\ c.h = o.h
      BY <2>1, FlagsFrame DEF Memory, Watcher
    <3> QED BY <2>1, <3>1, FrameTwice
  <2> HIDE DEF c
  <2>3. ASSUME NEW x, Frame(d, x), x.w.iState = d.w.iState, x.w.active = d.w.active, x.h = d.h
        PROVE  Keeping(m, x) /\ Showing(m, x)
    BY <1>2, <1>5, <2>3 DEF Frame, Keeping, Outer, Showing, Lit, Unlit, Begun
  <2>4. m.global = "Charging" => ChargingPersonality = None
    BY DEF Uncharged, Memory
  <2>5. Start(m) = c \/ Start(m) = o
    BY <1>5, <2>4 DEF Start, StartCharging, c, o, d
  <2> QED BY <2>1, <2>2, <2>3, <2>5
<1> QED BY <1>3, <1>4, <1>5

\* Cancel and Stop.
LEMMA StopShows ==
  ASSUME NEW m \in Memory
  PROVE  /\ Keeping(m, Cancel(m)) /\ Showing(m, Cancel(m))
         /\ Keeping(m, Stop(m)) /\ Showing(m, Stop(m))
<1> DEFINE h == HandlerCancel(m)
           p == Publish(h, None)
           i == [p EXCEPT !.w.iState = "Idle"]
           s == [h EXCEPT !.w.iState = "Started"]
<1>1. h \in Memory /\ p \in Memory /\ Frame(m, h) /\ Frame(m, p)
  <2>1. h \in Memory /\ Frame(m, h)
    BY HandlerCancelType, HandlerCancelFrame
  <2> HIDE DEF h
  <2> QED BY <2>1, PublishType, OthersFrame, FrameTwice
<1> HIDE DEF h, p
<1>2. i \in Memory /\ s \in Memory /\ Frame(m, i) /\ Frame(m, s) /\ Frame(m, m)
  BY <1>1, WatcherStateType, FlagsFrame, OthersFrame, FrameTwice DEF WatcherStates
<1> HIDE DEF i, s
<1>3. ASSUME NEW k \in Memory, Frame(m, k)
      PROVE  Frame(m, [k EXCEPT !.w.active = FALSE,
                          !.fault = IF k.w.iStatus = Pending THEN Raise(@, CancelHangs) ELSE @])
  BY <1>3 DEF Frame, Keeping, Outer, Memory, Watcher
<1>4. Frame(m, Cancel(m)) /\ (~m.w.active => Cancel(m) = m)
  <2> DEFINE n == CASE m.w.iState \in {"Starting", "Stopping"} -> i
                    [] m.w.iState = "ConfirmStop" -> s
                    [] OTHER -> m
  <2>1. n \in Memory /\ Frame(m, n)
    BY <1>2
  <2>2. m.w.active => Cancel(m) = [n EXCEPT !.w.active = FALSE,
                          !.fault = IF n.w.iStatus = Pending THEN Raise(@, CancelHangs) ELSE @]
    BY DEF Cancel, i, s, p, h
  <2> HIDE DEF n
  <2>3. ~m.w.active => Cancel(m) = m
    BY DEF Cancel
  <2> QED BY <1>2, <1>3, <2>1, <2>2, <2>3
<1>5. Keeping(m, Cancel(m)) /\ Showing(m, Cancel(m))
  BY <1>4, FrameShows DEF Unlit, Frame, Keeping, Outer, Showing, Begun, Lit
<1>6. CASE m.w.iState = "Started"
  <2> DEFINE z == HandlerStop(m)
  <2>1. z \in Memory /\ Frame(m, z)
    BY HandlerStopType, HandlerCallsFrame
  <2> HIDE DEF z
  <2>2. Frame(m, WatcherActive(z, "Stopping"))
    BY <2>1, FlagsFrame, FrameTwice
  <2> QED BY <1>5, <1>6, <2>2, FrameShows DEF Stop, z, Unlit
<1>7. CASE m.w.iState # "Started"
  BY <1>2, <1>5, <1>7, FrameShows DEF Stop
<1> QED BY <1>5, <1>6, <1>7

\* StopStart.
LEMMA StopStartShows ==
  ASSUME NEW m \in Memory, NEW nonBlocking
  PROVE  /\ Keeping(m, StopStart(m, nonBlocking)) /\ Showing(m, StopStart(m, nonBlocking))
<1> DEFINE c == ConfirmPersonalityUnload(m)
           k == [m EXCEPT !.w.iStatus = KErrNone]
<1>1. /\ c \in Memory /\ Frame(m, c) /\ k \in Memory /\ Frame(m, k) /\ Frame(m, m)
  BY ConfirmType, HandlerCallsFrame, WatcherStatusType, FlagsFrame, OthersFrame DEF Codes, Statuses
<1> HIDE DEF c, k
<1>2. Frame(m, WatcherActive(c, "ConfirmStop")) /\ Frame(m, WatcherActive(k, "ConfirmStop"))
  BY <1>1, FlagsFrame, FrameTwice
<1>3. CASE m.w.iState = "Started"
  <2>1. \/ StopStart(m, nonBlocking) = WatcherActive(c, "ConfirmStop")
        \/ StopStart(m, nonBlocking) = WatcherActive(k, "ConfirmStop")
    BY <1>3 DEF StopStart, c, k
  <2> QED BY <1>2, <1>3, <2>1, FrameShows DEF Unlit
<1>4. CASE m.w.iState # "Started"
  BY <1>1, <1>4, FrameShows DEF StopStart
<1> QED BY <1>3, <1>4

-----------------------------------------------------------------------------
\* The clients: nobody is told yes unless the choice is in force and saved.

\* Every pending SetPersonality is for the choice under way.
Waiting(m) == \A s \in Sessions : m.ss[s].set # None =>
                /\ m.w.iSetPersonalityOngoing
                /\ m.ss[s].set = m.w.iPersonalityId

\* Who has been told yes in this step got it; none has been told yes.
Saved(m) == \A a \in m.answers : a.code = KErrNone /\ ~a.superseded
              => m.w.iPersonalityId = a.id /\ (a.id \in Hidden \/ m.cenrep = a.id)
Refused(m) == \A a \in m.answers : a.code # KErrNone \/ a.superseded
Silent(m) == \A s \in Sessions : m.ss[s].set = None

Honest(m) == Waiting(m) /\ Saved(m)

\* Nothing is promised by a step that tells nobody yes, and kept by one that keeps all.
LEMMA HonestKept ==
  ASSUME NEW m, NEW n
  PROVE  /\ Refused(m) /\ Waiting(m) => Honest(m)
         /\ Refused(m) /\ Silent(m) => Honest(m) /\ Waiting(m)
         /\ Keeping(m, n) /\ Honest(m) => Honest(n)
         /\ Keeping(m, n) /\ Waiting(m) => Waiting(n)
         /\ Keeping(m, n) /\ Refused(m) => Refused(n)
         /\ Keeping(m, n) /\ Silent(m) => Silent(n)
BY DEF Honest, Waiting, Saved, Refused, Silent, Keeping

\* Undoing a change, and writing the choice, touch no client and no indicator.
LEMMA UndoShows ==
  ASSUME NEW m \in Memory, NEW id
  PROVE  /\ Showing(m, UndoSetPersonality(m)) /\ Showing(m, SwapPersonalities(m))
         /\ Showing(m, WritePersonalityId(m, id))
         /\ \A n \in {UndoSetPersonality(m), SwapPersonalities(m), WritePersonalityId(m, id)} :
              n.ss = m.ss /\ n.answers = m.answers /\ n.in = m.in
         /\ WritePersonalityId(m, id).w = m.w
         /\ WriteResult(m, id) = KErrNone => id \in Hidden \/ WritePersonalityId(m, id).cenrep = id
<1>1. /\ Showing(m, UndoSetPersonality(m)) /\ Showing(m, SwapPersonalities(m))
      /\ UndoSetPersonality(m).ss = m.ss /\ UndoSetPersonality(m).answers = m.answers
      /\ SwapPersonalities(m).ss = m.ss /\ SwapPersonalities(m).answers = m.answers
      /\ UndoSetPersonality(m).in = m.in /\ SwapPersonalities(m).in = m.in
  BY DEF UndoSetPersonality, SwapPersonalities, Showing, Outer, Lit, Unlit, Begun, Memory, Watcher
<1>2. /\ Showing(m, WritePersonalityId(m, id)) /\ WritePersonalityId(m, id).w = m.w
      /\ WritePersonalityId(m, id).ss = m.ss /\ WritePersonalityId(m, id).answers = m.answers
      /\ WritePersonalityId(m, id).in = m.in
  BY DEF WritePersonalityId, Showing, Outer, Lit, Unlit, Begun, Memory, Watcher
<1>3. WriteResult(m, id) = KErrNone => id \in Hidden \/ WritePersonalityId(m, id).cenrep = id
  BY DEF WriteResult, WritePersonalityId, Memory
<1> QED BY <1>1, <1>2, <1>3

\* The end of a SetPersonality: a success leaves the choice in force.
LEMMA EndSetDoes ==
  ASSUME NEW m \in Memory, NEW code \in Codes
  PROVE  LET n == EndSetPersonality(m, code) IN
         /\ Showing(m, n) /\ n.ss = m.ss /\ n.answers = m.answers /\ n.in = m.in
         /\ code = KErrNone => n.w.iPersonalityId = m.w.iPersonalityId
         /\ code = KErrNone /\ m.w.iSetPersonalityOngoing
              /\ WriteResult(m, m.w.iPersonalityId) = KErrNone
              => m.w.iPersonalityId \in Hidden \/ n.cenrep = m.w.iPersonalityId
<1> DEFINE d == [m EXCEPT !.w.iSetPersonalityOngoing = FALSE]
           v == WritePersonalityId(d, d.w.iPersonalityId)
           u == UndoSetPersonality(d)
<1>1. /\ d \in Memory /\ Showing(m, d) /\ d.ss = m.ss /\ d.answers = m.answers /\ d.in = m.in
      /\ d.w.iPersonalityId = m.w.iPersonalityId
  <2>1. d \in Memory
    BY WatcherFlags
  <2>2. /\ Showing(m, d) /\ d.ss = m.ss /\ d.answers = m.answers /\ d.in = m.in
        /\ d.w.iPersonalityId = m.w.iPersonalityId
    BY DEF Showing, Outer, Lit, Unlit, Begun, Memory, Watcher
  <2> QED BY <2>1, <2>2
<1> HIDE DEF d
<1>2. /\ Showing(m, v) /\ v.ss = m.ss /\ v.answers = m.answers /\ v.in = m.in
      /\ v.w.iPersonalityId = m.w.iPersonalityId
      /\ WriteResult(d, d.w.iPersonalityId) = KErrNone
           => d.w.iPersonalityId \in Hidden \/ v.cenrep = d.w.iPersonalityId
      /\ Showing(m, u) /\ u.ss = m.ss /\ u.answers = m.answers /\ u.in = m.in
  BY <1>1, UndoShows, FrameTwice
<1>3. WriteResult(d, d.w.iPersonalityId) = WriteResult(m, m.w.iPersonalityId)
  BY <1>1 DEF WriteResult
<1> HIDE DEF v, u
<1>4. Showing(m, m)
  BY DEF Showing, Outer
<1>5. CASE ~m.w.iSetPersonalityOngoing
  BY <1>4, <1>5 DEF EndSetPersonality
<1>6. CASE m.w.iSetPersonalityOngoing /\ code = KErrNone
  <2>1. EndSetPersonality(m, code) = v
    BY <1>6 DEF EndSetPersonality, v, d
  <2> QED BY <1>1, <1>2, <1>3, <1>6, <2>1
<1>7. CASE m.w.iSetPersonalityOngoing /\ code # KErrNone
  <2>1. EndSetPersonality(m, code) = u
    BY <1>7 DEF EndSetPersonality, u, d
  <2> QED BY <1>2, <1>7, <2>1
<1> QED BY <1>5, <1>6, <1>7

\* The end of a SetPreviousPersonality, likewise.
LEMMA EndSetPreviousDoes ==
  ASSUME NEW m \in Memory, NEW code \in Codes
  PROVE  LET n == EndSetPreviousPersonality(m, code) IN
         /\ Showing(m, n) /\ n.ss = m.ss /\ n.answers = m.answers /\ n.in = m.in
         /\ code = KErrNone =>
              /\ n.w.iPersonalityId = m.w.iPersonalityId
              /\ m.cenrep = m.w.iPersonalityId => n.cenrep = m.w.iPersonalityId
<1> DEFINE d == [m EXCEPT !.w.iSetPreviousPersonalityOngoing = FALSE]
           v == WritePersonalityId(d, d.w.iPersonalityId)
           u == SwapPersonalities(d)
<1>1. /\ d \in Memory /\ Showing(m, d) /\ d.ss = m.ss /\ d.answers = m.answers /\ d.in = m.in
      /\ d.w.iPersonalityId = m.w.iPersonalityId /\ d.cenrep = m.cenrep
  <2>1. d \in Memory
    BY WatcherFlags
  <2>2. /\ Showing(m, d) /\ d.ss = m.ss /\ d.answers = m.answers /\ d.in = m.in
        /\ d.w.iPersonalityId = m.w.iPersonalityId /\ d.cenrep = m.cenrep
    BY DEF Showing, Outer, Lit, Unlit, Begun, Memory, Watcher
  <2> QED BY <2>1, <2>2
<1> HIDE DEF d
<1>2. /\ Showing(m, v) /\ v.ss = m.ss /\ v.answers = m.answers /\ v.in = m.in
      /\ v.w.iPersonalityId = m.w.iPersonalityId
      /\ Showing(m, u) /\ u.ss = m.ss /\ u.answers = m.answers /\ u.in = m.in
  BY <1>1, UndoShows, FrameTwice
<1>3. m.cenrep = m.w.iPersonalityId => v.cenrep = m.w.iPersonalityId
  BY <1>1 DEF WritePersonalityId, Memory
<1> HIDE DEF v, u
<1>4. Showing(m, m)
  BY DEF Showing, Outer
<1>5. CASE ~m.w.iSetPreviousPersonalityOngoing
  BY <1>4, <1>5 DEF EndSetPreviousPersonality
<1>6. CASE m.w.iSetPreviousPersonalityOngoing /\ code = KErrNone
  <2>1. EndSetPreviousPersonality(m, code) = v
    BY <1>6 DEF EndSetPreviousPersonality, v, d
  <2> QED BY <1>2, <1>3, <2>1
<1>7. CASE m.w.iSetPreviousPersonalityOngoing /\ code # KErrNone
  <2>1. EndSetPreviousPersonality(m, code) = u
    BY <1>7 DEF EndSetPreviousPersonality, u, d
  <2> QED BY <1>2, <1>7, <2>1
<1> QED BY <1>5, <1>6, <1>7

\* Answering everybody.
LEMMA NotifySessionsDoes ==
  ASSUME NEW m \in Memory, NEW code
  PROVE  LET n == NotifySessions(m, code) IN
         /\ Showing(m, n) /\ n.w = m.w /\ n.cenrep = m.cenrep /\ Silent(n)
         /\ \A a \in n.answers : a \in m.answers
              \/ \E s \in Sessions : /\ m.ss[s].set # None /\ a.id = m.ss[s].set
                                     /\ a.code = code
<1> DEFINE told == { [session |-> s, id |-> m.ss[s].set, code |-> code, superseded |-> FALSE] :
                     s \in { t \in Sessions : m.ss[t].set # None } }
           n == [m EXCEPT !.ss = [s \in Sessions |-> NoMessages], !.answers = @ \cup told]
<1>1. \A a \in told : \E s \in Sessions :
        m.ss[s].set # None /\ a.id = m.ss[s].set /\ a.code = code
  OBVIOUS
<1> HIDE DEF told
<1>2. /\ Showing(m, n) /\ n.w = m.w /\ n.cenrep = m.cenrep
      /\ n.answers = m.answers \cup told /\ n.ss = [s \in Sessions |-> NoMessages]
  BY DEF Showing, Outer, Lit, Unlit, Begun, Memory
<1>3. NotifySessions(m, code) = n
  BY DEF NotifySessions, told
<1> HIDE DEF n
<1>4. Silent(n)
  BY <1>2 DEF Silent, NoMessages
<1> QED BY <1>1, <1>2, <1>3, <1>4

\* Notify answers everybody: with an error, or with yes when the choice is saved.
LEMMA NotifyDoes ==
  ASSUME NEW m \in Memory, NEW code \in Codes
  PROVE  LET n == Notify(m, code) IN
         /\ Showing(m, n) /\ Silent(n)
         /\ Refused(m) /\ code # KErrNone => Refused(n)
         /\ Refused(m) /\ Waiting(m) => Honest(n)
<1> DEFINE id == m.w.iPersonalityId
           status == IF m.w.iSetPersonalityOngoing /\ code = KErrNone
                       THEN WriteResult(m, m.w.iPersonalityId) ELSE code
           c == [m EXCEPT !.w.iPersonalityChangeOngoing = FALSE]
           d == EndSetPersonality(c, code)
           e == EndSetPreviousPersonality(d, status)
           n == NotifySessions(e, status)
<1>1. status \in Codes
  <2>1. id \in Personalities
    BY DEF Memory, Watcher
  <2> QED BY <2>1, WriteType
<1>2. /\ c \in Memory /\ Showing(m, c) /\ c.ss = m.ss /\ c.answers = m.answers /\ c.in = m.in
      /\ c.w.iPersonalityId = id /\ c.w.iSetPersonalityOngoing = m.w.iSetPersonalityOngoing
  <2>1. c \in Memory
    BY WatcherFlags
  <2>2. /\ Showing(m, c) /\ c.ss = m.ss /\ c.answers = m.answers /\ c.in = m.in
        /\ c.w.iPersonalityId = id /\ c.w.iSetPersonalityOngoing = m.w.iSetPersonalityOngoing
    BY DEF Showing, Outer, Lit, Unlit, Begun, Memory, Watcher
  <2> QED BY <2>1, <2>2
<1> HIDE DEF c
<1>3. /\ d \in Memory /\ Showing(c, d) /\ d.ss = m.ss /\ d.answers = m.answers
      /\ code = KErrNone => d.w.iPersonalityId = id
      /\ code = KErrNone /\ m.w.iSetPersonalityOngoing /\ WriteResult(c, id) = KErrNone
           => id \in Hidden \/ d.cenrep = id
  BY <1>2, EndSetPersonalityType, EndSetDoes
<1> HIDE DEF d, status
<1>4. /\ e \in Memory /\ Showing(d, e) /\ e.ss = m.ss /\ e.answers = m.answers
      /\ status = KErrNone => /\ e.w.iPersonalityId = d.w.iPersonalityId
                              /\ d.cenrep = d.w.iPersonalityId => e.cenrep = d.w.iPersonalityId
  BY <1>1, <1>3, EndSetPreviousPersonalityType, EndSetPreviousDoes
<1> HIDE DEF e
<1>5. /\ Showing(e, n) /\ n.w = e.w /\ n.cenrep = e.cenrep /\ Silent(n)
      /\ \A a \in n.answers : a \in m.answers
           \/ \E s \in Sessions : m.ss[s].set # None /\ a.id = m.ss[s].set /\ a.code = status
  BY <1>4, NotifySessionsDoes
<1> HIDE DEF n
<1>6. Showing(m, n)
  BY <1>2, <1>3, <1>4, <1>5, FrameTwice
<1>7. ASSUME Refused(m), code # KErrNone
      PROVE  Refused(n)
  <2>1. status = code
    BY <1>7 DEF status
  <2> QED BY <1>5, <1>7, <2>1 DEF Refused
<1>8. ASSUME Refused(m), Waiting(m)
      PROVE  Honest(n)
  <2>1. ASSUME NEW a \in n.answers, a.code = KErrNone, ~a.superseded
        PROVE  n.w.iPersonalityId = a.id /\ (a.id \in Hidden \/ n.cenrep = a.id)
    <3>1. PICK s \in Sessions : m.ss[s].set # None /\ a.id = m.ss[s].set /\ a.code = status
      BY <1>5, <1>8, <2>1 DEF Refused
    <3>2. status = KErrNone /\ m.w.iSetPersonalityOngoing /\ a.id = id
      BY <1>8, <2>1, <3>1 DEF Waiting
    <3>3. code = KErrNone /\ WriteResult(m, id) = KErrNone
      BY <3>2 DEF status
    <3>4. WriteResult(c, id) = WriteResult(m, id)
      BY <1>2 DEF WriteResult
    <3> HIDE DEF id
    <3>5. d.w.iPersonalityId = id /\ (id \in Hidden \/ d.cenrep = id)
      BY <1>3, <3>2, <3>3, <3>4
    <3> QED BY <1>4, <1>5, <3>2, <3>5
  <2>2. Saved(n)
    BY <2>1 DEF Saved
  <2> QED BY <1>5, <2>2 DEF Honest, Waiting, Silent
<1>9. Notify(m, code) = n
  BY DEF Notify, n, e, d, c, status
<1> QED BY <1>5, <1>6, <1>7, <1>8, <1>9

-----------------------------------------------------------------------------
\* The methods of the watcher: what they answer is honest, and they show nothing new.

\* A step that, if nobody has been told yes before it, tells it only to who got it.
Answering(m, n) == /\ Showing(m, n)
                   /\ Refused(m) /\ Waiting(m) => Honest(n)

\* How answering steps compose with steps that keep everything.
LEMMA AnsweringTwice ==
  ASSUME NEW m, NEW n, NEW o
  PROVE  /\ Keeping(m, n) /\ Showing(m, n) => Answering(m, n)
         /\ Keeping(m, n) /\ Showing(m, n) /\ Answering(n, o) => Answering(m, o)
         /\ Answering(m, n) /\ Keeping(n, o) /\ Showing(n, o) => Answering(m, o)
BY HonestKept, FrameTwice DEF Answering

\* An active watcher has started in the normal state: nothing new is shown by its flags.
LEMMA ActiveShows ==
  ASSUME NEW m, NEW x, NEW y, m.w.active, Showing(m, x), Frame(x, y)
  PROVE  Showing(m, y)
BY DEF Showing, Frame, Outer, Lit, Unlit, Begun

\* Flags that neither say that something is started nor that it is active.
LEMMA FlagsShow ==
  ASSUME NEW m \in Memory, NEW b, NEW p
  PROVE  LET Quietly(n) == Keeping(m, n) /\ Showing(m, n) IN
         /\ Quietly([m EXCEPT !.w.iStarted = b])
         /\ Quietly([m EXCEPT !.w.iStopStartScenario = b])
         /\ Quietly([m EXCEPT !.w.iSetPreviousPersonalityOnDisconnect = b])
         /\ Quietly([m EXCEPT !.w.iPrevPersonalityId = p])
         /\ Quietly(Publish(m, p)) /\ Quietly(m)
<1> DEFINE c == [m EXCEPT !.w.iStarted = b]
           e == [m EXCEPT !.w.iStopStartScenario = b]
           f == [m EXCEPT !.w.iSetPreviousPersonalityOnDisconnect = b]
           g == [m EXCEPT !.w.iPrevPersonalityId = p]
           u == Publish(m, p)
<1>1. m.w \in Watcher
  BY DEF Memory
<1>2. Frame(m, c) /\ Frame(m, e) /\ Frame(m, f) /\ Frame(m, g)
  BY FlagsFrame
<1>3. Frame(m, u) /\ Frame(m, m)
  BY OthersFrame
<1>4. /\ Unlit(m.w, m.h) => Unlit(c.w, c.h)
      /\ Unlit(m.w, m.h) => Unlit(e.w, e.h)
  BY <1>1 DEF Unlit, Watcher, Memory
<1>5. /\ Unlit(m.w, m.h) => Unlit(f.w, f.h)
      /\ Unlit(m.w, m.h) => Unlit(g.w, g.h)
  BY <1>1 DEF Unlit, Watcher, Memory
<1>6. Unlit(m.w, m.h) => Unlit(u.w, u.h)
  BY DEF Publish, Unlit, Memory
<1> HIDE DEF c, e, f, g, u
<1>7. /\ Keeping(m, c) /\ Showing(m, c)
      /\ Keeping(m, e) /\ Showing(m, e)
      /\ Keeping(m, f) /\ Showing(m, f)
  BY <1>2, <1>4, <1>5, FrameShows
<1>8. /\ Keeping(m, g) /\ Showing(m, g)
      /\ Keeping(m, u) /\ Showing(m, u)
      /\ Keeping(m, m) /\ Showing(m, m)
  BY <1>2, <1>3, <1>5, <1>6, FrameShows
<1> QED BY <1>7, <1>8 DEF c, e, f, g, u

\* The notes, the observer and the starter.
LEMMA OthersShow ==
  ASSUME NEW m \in Memory, NEW old, NEW new
  PROVE  LET Quietly(n) == Keeping(m, n) /\ Showing(m, n) IN
         /\ Quietly(CancelObserver(m)) /\ Quietly(HandlerStateChange(m, old, new))
         /\ Quietly(CancelCableConnectedNotifier(m))
         /\ Quietly(StopRestarting(m)) /\ Quietly(StarterRunL(m)) /\ Quietly(StartDevCon(m))
<1>1. \A n : Frame(m, n) /\ (Unlit(m.w, m.h) => Unlit(n.w, n.h)) => Keeping(m, n) /\ Showing(m, n)
  BY FrameShows
<1>2. /\ CancelObserver(m).w = m.w /\ CancelObserver(m).h = m.h
      /\ StopRestarting(m).w = m.w /\ StopRestarting(m).h = m.h
  BY DEF CancelObserver, StopRestarting, Memory
<1>3. /\ HandlerStateChange(m, old, new).w = m.w
      /\ HandlerStateChange(m, old, new).h.active = m.h.active
      /\ HandlerStateChange(m, old, new).h.usb = m.h.usb
      /\ CancelCableConnectedNotifier(m).w = m.w
      /\ CancelCableConnectedNotifier(m).h.active = m.h.active
      /\ CancelCableConnectedNotifier(m).h.usb = m.h.usb
  BY DEF HandlerStateChange, CancelCableConnectedNotifier, Memory, Handler
<1>4. ASSUME NEW k, k.w = m.w, k.h = m.h, NEW s
      PROVE  /\ StarterWaits(k, s).w = m.w /\ StarterWaits(k, s).h = m.h
             /\ StarterStart(k).w = m.w /\ StarterStart(k).h = m.h
  BY <1>4 DEF StarterStart, StarterWaits
<1>5. /\ StarterRunL(m).w = m.w /\ StarterRunL(m).h = m.h
      /\ StartDevCon(m).w = m.w /\ StartDevCon(m).h = m.h
  <2> DEFINE d == [m EXCEPT !.starter.active = FALSE]
             i == [d EXCEPT !.starter.iState = "Idle"]
  <2>1. d.w = m.w /\ d.h = m.h /\ i.w = m.w /\ i.h = m.h
    OBVIOUS
  <2> HIDE DEF d, i
  <2>2. /\ StarterStart(i).w = m.w /\ StarterStart(i).h = m.h
        /\ StarterWaits(d, "Running").w = m.w /\ StarterWaits(d, "Running").h = m.h
        /\ StarterStart(m).w = m.w /\ StarterStart(m).h = m.h
    BY <1>4, <2>1
  <2>3. m.starter.iState \in {"WaitingRendezvous", "Running", "Idle"}
    BY DEF Memory, Starter, StarterStates
  <2> QED BY <2>1, <2>2, <2>3 DEF StarterRunL, StartDevCon, d, i
<1> QED BY <1>1, <1>2, <1>3, <1>5, HandlerPartsFrame, OthersFrame DEF Unlit

\* SwitchPersonality.
LEMMA SwitchAnswers ==
  ASSUME Uncharged, NEW m \in Memory, NEW nb \in BOOLEAN
  PROVE  Answering(m, SwitchPersonality(m, nb))
<1> DEFINE c == Cancel(m)
           s == [c EXCEPT !.w.iState = "Started"]
<1>1. c \in Memory /\ Keeping(m, c) /\ Showing(m, c)
  BY CancelType, StopShows
<1>2. Answering(m, Notify(m, KErrNone))
  BY NotifyDoes DEF Answering, Codes
<1>3. Answering(m, Start(m)) /\ Answering(m, StopStart(m, nb))
  BY StartShows, StopStartShows, AnsweringTwice
<1> HIDE DEF c
<1>4. Answering(m, Start(c))
  BY <1>1, StartShows, AnsweringTwice
<1>5. ASSUME m.w.iState = "ConfirmStop"
      PROVE  Answering(m, StopStart(s, nb))
  <2>1. s \in Memory /\ Frame(c, s)
    BY <1>1, WatcherStateType, FlagsFrame DEF WatcherStates
  <2> HIDE DEF s
  <2>2. Keeping(m, s) /\ Showing(m, s)
    BY <1>1, <1>5, <2>1, FrameTwice DEF Frame, Showing, Outer, Lit, Begun, Unlit
  <2> QED BY <2>1, <2>2, StopStartShows, AnsweringTwice
<1> QED BY <1>2, <1>3, <1>4, <1>5 DEF SwitchPersonality, s, c

\* The RunL of the watcher.
LEMMA WatcherRunLAnswers ==
  ASSUME Uncharged, NEW m \in Memory, m.w.active, m.w.iStatus \in Codes
  PROVE  Answering(m, WatcherRunL(m))
<1> DEFINE ret == m.w.iStatus
           d   == [m EXCEPT !.w.active = FALSE]
           n   == Notify(d, ret)
           started == [n EXCEPT !.w.iStopStartScenario = FALSE]
           stopped == [d EXCEPT !.w.iState = "Idle"]
           confirmed == [d EXCEPT !.w.iStopStartScenario = TRUE]
<1>1. d \in Memory /\ Keeping(m, d) /\ Showing(m, d)
  <2>1. d \in Memory /\ Frame(m, d)
    BY WatcherFlags, FlagsFrame
  <2> QED BY <2>1, FrameShows DEF Unlit
<1> HIDE DEF d
<1>2. n \in Memory /\ Answering(m, n)
  <2>1. n \in Memory /\ Answering(d, n)
    BY <1>1, NotifyType, NotifyDoes DEF Answering
  <2> QED BY <1>1, <2>1, AnsweringTwice
<1> HIDE DEF n, ret
<1>3. ASSUME NEW x, NEW y, Answering(m, x), Frame(x, y)
      PROVE  Answering(m, y)
  <2>1. Showing(m, x) /\ Keeping(x, y)
    BY <1>3 DEF Answering, Frame
  <2>2. Showing(m, y)
    BY <1>3, <2>1, ActiveShows
  <2> QED BY <1>3, <2>1, <2>2, HonestKept DEF Answering
<1>4. Answering(m, d)
  BY <1>1, AnsweringTwice
<1>5. CASE m.w.iState = "Starting"
  <2>1. started \in Memory /\ Frame(n, started)
    BY <1>2, WatcherFlags, FlagsFrame
  <2> DEFINE p == Publish(started, None)
  <2> HIDE DEF started
  <2>2. p \in Memory /\ Frame(started, p)
    BY <2>1, PublishType, OthersFrame
  <2> HIDE DEF p
  <2>3. Answering(m, started) /\ Answering(m, p)
    BY <1>2, <1>3, <2>1, <2>2
  <2>4. /\ Answering(m, [started EXCEPT !.w.iState = "Started"])
        /\ Answering(m, [p EXCEPT !.w.iState = "Idle"])
    <3>1. Frame(started, [started EXCEPT !.w.iState = "Started"])
      BY <2>1, FlagsFrame
    <3>2. Frame(p, [p EXCEPT !.w.iState = "Idle"])
      BY <2>2, FlagsFrame
    <3> QED BY <1>3, <2>3, <3>1, <3>2
  <2> QED BY <1>5, <2>4 DEF WatcherRunL, p, started, n, d, ret
<1>6. CASE m.w.iState = "Stopping"
  <2>1. stopped \in Memory /\ Frame(d, stopped)
    BY <1>1, WatcherStateType, FlagsFrame DEF WatcherStates
  <2> HIDE DEF stopped
  <2>2. Answering(m, stopped)
    BY <1>3, <1>4, <2>1
  <2>3. Answering(m, Start(stopped)) /\ Answering(m, Publish(stopped, None))
    BY <2>1, <2>2, StartShows, FlagsShow, AnsweringTwice
  <2> QED BY <1>6, <2>3 DEF WatcherRunL, stopped, d
<1>7. CASE m.w.iState \in {"Started", "Idle"}
  <2> DEFINE h == HandlerStop(d)
  <2>1. h \in Memory /\ Frame(d, h)
    BY <1>1, HandlerStopType, HandlerCallsFrame
  <2> HIDE DEF h
  <2>2. Answering(m, h)
    BY <1>3, <1>4, <2>1
  <2>3. Answering(m, WatcherActive(h, "Stopping"))
    BY <1>3, <2>1, <2>2, FlagsFrame
  <2>4. Answering(m, Start(d))
    BY <1>1, StartShows, AnsweringTwice
  <2> QED BY <1>4, <1>7, <2>3, <2>4 DEF WatcherRunL, h, d
<1>8. CASE m.w.iState = "ConfirmStop"
  <2>1. confirmed \in Memory /\ Frame(d, confirmed)
    BY <1>1, WatcherFlags, FlagsFrame
  <2> DEFINE h == HandlerStop(confirmed)
  <2> HIDE DEF confirmed
  <2>2. h \in Memory /\ Frame(confirmed, h)
    BY <2>1, HandlerStopType, HandlerCallsFrame
  <2> HIDE DEF h
  <2>3. Answering(m, confirmed) /\ Answering(m, h)
    BY <1>3, <1>4, <2>1, <2>2
  <2>4. Answering(m, WatcherActive(h, "Stopping"))
    BY <1>3, <2>2, <2>3, FlagsFrame
  <2>5. Answering(m, [n EXCEPT !.w.iState = "Started"])
    <3>1. Frame(n, [n EXCEPT !.w.iState = "Started"])
      BY <1>2, FlagsFrame
    <3> QED BY <1>2, <1>3, <3>1
  <2> QED BY <1>8, <2>4, <2>5 DEF WatcherRunL, h, confirmed, n, d, ret
<1>9. m.w.iState \in WatcherStates
  BY DEF Memory, Watcher
<1> QED BY <1>5, <1>6, <1>7, <1>8, <1>9 DEF WatcherStates

\* SetPersonality, of a session that alone waits, for this id.
LEMMA SetPersonalityAnswers ==
  ASSUME Uncharged, NEW m \in Memory, NEW id \in Personalities \cup {Unsupported}, NEW nb \in BOOLEAN,
         Refused(m), \A s \in Sessions : m.ss[s].set \in {None, id}
  PROVE  Showing(m, SetPersonality(m, id, nb)) /\ Honest(SetPersonality(m, id, nb))
<1> DEFINE temporary == m.w.iSetPreviousPersonalityOnDisconnect
           d == [m EXCEPT !.w.iSetPersonalityOngoing = TRUE,
                          !.w.iPersonalityChangeOngoing = TRUE,
                          !.w.iSetPreviousPersonalityOnDisconnect = FALSE,
                          !.w.iOldPrevPersonalityId =
                             IF temporary THEN @ ELSE m.w.iPrevPersonalityId,
                          !.w.iPrevPersonalityId =
                             IF temporary THEN @ ELSE m.w.iPersonalityId]
           e == [d EXCEPT !.w.iPersonalityId = id]
<1>1. /\ Showing(m, d) /\ d.w.iSetPersonalityOngoing /\ d.ss = m.ss
      /\ d.answers = m.answers /\ d.w.iPersonalityId = m.w.iPersonalityId
  BY DEF Showing, Outer, Lit, Unlit, Begun, Memory, Watcher
<1>2. d \in Memory
  <2>1. ASSUME NEW p \in Personalities, NEW q \in Personalities
        PROVE  [m EXCEPT !.w.iSetPersonalityOngoing = TRUE,
                         !.w.iPersonalityChangeOngoing = TRUE,
                         !.w.iSetPreviousPersonalityOnDisconnect = FALSE,
                         !.w.iOldPrevPersonalityId = p,
                         !.w.iPrevPersonalityId = q] \in Memory
    <3>1. [m.w EXCEPT !.iSetPersonalityOngoing = TRUE,
                      !.iPersonalityChangeOngoing = TRUE,
                      !.iSetPreviousPersonalityOnDisconnect = FALSE,
                      !.iOldPrevPersonalityId = p,
                      !.iPrevPersonalityId = q] \in Watcher
      BY DEF Memory, Watcher
    <3> QED BY <3>1 DEF Memory
  <2>2. /\ m.w.iPersonalityId \in Personalities
        /\ m.w.iPrevPersonalityId \in Personalities
        /\ m.w.iOldPrevPersonalityId \in Personalities
    BY DEF Memory, Watcher
  <2>3. CASE temporary BY <2>1, <2>2, <2>3
  <2>4. CASE ~temporary BY <2>1, <2>2, <2>4
  <2> QED BY <2>3, <2>4
<1> HIDE DEF d
<1>3. CASE id \notin Personalities
  <2>1. SetPersonality(m, id, nb) = Notify(m, KErrNotFound)
    BY <1>3 DEF SetPersonality
  <2>2. /\ Showing(m, Notify(m, KErrNotFound)) /\ Silent(Notify(m, KErrNotFound))
        /\ Refused(Notify(m, KErrNotFound))
    <3>1. KErrNotFound \in Codes /\ KErrNotFound # KErrNone
      BY DEF Codes, KErrNotFound, KErrNone
    <3> QED BY <3>1, NotifyDoes
  <2> QED BY <2>1, <2>2, HonestKept
<1>4. CASE id \in Personalities /\ id = m.w.iPersonalityId
  <2>1. SetPersonality(m, id, nb) = Notify(d, KErrNone)
    BY <1>4 DEF SetPersonality, d
  <2>2. Refused(d) /\ Waiting(d)
    BY <1>1, <1>4 DEF Refused, Waiting
  <2>3. Showing(d, Notify(d, KErrNone)) /\ Honest(Notify(d, KErrNone))
    BY <1>2, <2>2, NotifyDoes DEF Codes
  <2> QED BY <1>1, <2>1, <2>3, FrameTwice
<1>5. CASE id \in Personalities /\ id # m.w.iPersonalityId
  <2>1. SetPersonality(m, id, nb) = SwitchPersonality(e, nb)
    BY <1>5 DEF SetPersonality, e, d
  <2>2. e \in Memory
    BY <1>2, <1>5, WatcherIds
  <2>3. /\ Showing(d, e) /\ e.w.iSetPersonalityOngoing /\ e.ss = m.ss
        /\ e.answers = m.answers /\ e.w.iPersonalityId = id
    BY <1>1, <1>2 DEF Showing, Outer, Lit, Unlit, Begun, Memory, Watcher
  <2> HIDE DEF e
  <2>4. Refused(e) /\ Waiting(e)
    BY <2>3 DEF Refused, Waiting
  <2>5. Answering(e, SwitchPersonality(e, nb))
    BY <2>2, SwitchAnswers
  <2> QED BY <1>1, <2>1, <2>3, <2>4, <2>5, FrameTwice DEF Answering
<1> QED BY <1>3, <1>4, <1>5

\* Cancelling a change answers everybody with KErrCancel first.
LEMMA CancelChangeAnswers ==
  ASSUME Uncharged, NEW m \in Memory, Refused(m)
  PROVE  Showing(m, CancelChange(m)) /\ Honest(CancelChange(m))
<1> DEFINE n == Notify(m, KErrCancel)
           c == [n EXCEPT !.w.iPersonalityChangeOngoing = TRUE, !.w.iStopStartScenario = FALSE]
<1>1. n \in Memory /\ Showing(m, n) /\ Silent(n) /\ Refused(n)
  BY NotifyType, NotifyDoes, CodesDiffer DEF Codes
<1> HIDE DEF n
<1>2. c \in Memory
  <2>1. [n.w EXCEPT !.iPersonalityChangeOngoing = TRUE, !.iStopStartScenario = FALSE] \in Watcher
    BY <1>1 DEF Memory, Watcher
  <2> QED BY <1>1, <2>1 DEF Memory
<1>3. Showing(n, c) /\ c.ss = n.ss /\ c.answers = n.answers
  BY <1>1 DEF Showing, Outer, Lit, Unlit, Begun, Memory, Watcher
<1> HIDE DEF c
<1>4. Refused(c) /\ Silent(c) /\ Waiting(c)
  BY <1>1, <1>3 DEF Refused, Silent, Waiting
<1>5. Answering(c, SwitchPersonality(c, FALSE))
  BY <1>2, SwitchAnswers
<1>6. CancelChange(m) = SwitchPersonality(c, FALSE)
  BY DEF CancelChange, c, n
<1> QED BY <1>1, <1>3, <1>4, <1>5, <1>6, FrameTwice DEF Answering

\* SetPreviousPersonality, once everybody has been answered.
LEMMA SetPreviousAnswers ==
  ASSUME Uncharged, NEW m \in Memory, Refused(m), Silent(m)
  PROVE  Showing(m, SetPreviousPersonality(m)) /\ Honest(SetPreviousPersonality(m))
<1> DEFINE n == SwapPersonalities(m)
           d == [n EXCEPT !.w.iSetPreviousPersonalityOnDisconnect = FALSE,
                          !.w.iSetPreviousPersonalityOngoing = TRUE,
                          !.w.iPersonalityChangeOngoing = TRUE]
<1>1. n \in Memory /\ Showing(m, n) /\ n.ss = m.ss /\ n.answers = m.answers
  BY UndoType, UndoShows
<1> HIDE DEF n
<1>2. d \in Memory
  <2>1. [n.w EXCEPT !.iSetPreviousPersonalityOnDisconnect = FALSE,
                    !.iSetPreviousPersonalityOngoing = TRUE,
                    !.iPersonalityChangeOngoing = TRUE] \in Watcher
    BY <1>1 DEF Memory, Watcher
  <2> QED BY <1>1, <2>1 DEF Memory
<1>3. Showing(n, d) /\ d.ss = n.ss /\ d.answers = n.answers
  BY <1>1 DEF Showing, Outer, Lit, Unlit, Begun, Memory, Watcher
<1> HIDE DEF d
<1>4. Showing(m, d) /\ Refused(d) /\ Waiting(d) /\ Waiting(m)
  BY <1>1, <1>3, FrameTwice DEF Refused, Silent, Waiting
<1>5. Answering(d, Notify(d, KErrNone)) /\ Answering(d, SwitchPersonality(d, FALSE))
  BY <1>2, SwitchAnswers, NotifyDoes DEF Answering, Codes
<1>6. Answering(m, Notify(m, KErrAccessDenied))
  BY NotifyDoes DEF Answering, Codes
<1>7. \/ SetPreviousPersonality(m) = Notify(m, KErrAccessDenied)
      \/ SetPreviousPersonality(m) = Notify(d, KErrNone)
      \/ SetPreviousPersonality(m) = SwitchPersonality(d, FALSE)
  <2>1. CASE m.idPin
    BY <2>1 DEF SetPreviousPersonality
  <2>2. CASE ~m.idPin /\ m.w.iPersonalityId = m.w.iPrevPersonalityId
    BY <2>2 DEF SetPreviousPersonality, d, n
  <2>3. CASE ~m.idPin /\ m.w.iPersonalityId # m.w.iPrevPersonalityId
    BY <2>3 DEF SetPreviousPersonality, d, n
  <2> QED BY <2>1, <2>2, <2>3
<1>8. /\ Showing(d, Notify(d, KErrNone)) /\ Honest(Notify(d, KErrNone))
      /\ Showing(d, SwitchPersonality(d, FALSE)) /\ Honest(SwitchPersonality(d, FALSE))
      /\ Showing(m, Notify(m, KErrAccessDenied)) /\ Honest(Notify(m, KErrAccessDenied))
  BY <1>4, <1>5, <1>6 DEF Answering
<1>9. Showing(m, Notify(d, KErrNone)) /\ Showing(m, SwitchPersonality(d, FALSE))
  BY <1>4, <1>8, FrameTwice
<1> QED BY <1>7, <1>8, <1>9

\* SetPreviousPersonalityOnDisconnect.
LEMMA OnDisconnectAnswers ==
  ASSUME NEW m \in Memory
  PROVE  Answering(m, SetPreviousPersonalityOnDisconnect(m))
<1>1. Answering(m, Notify(m, KErrAccessDenied))
  BY NotifyDoes DEF Answering, Codes
<1>2. /\ Answering(m, [m EXCEPT !.w.iSetPreviousPersonalityOnDisconnect = TRUE])
      /\ Answering(m, m)
  <2>1. /\ Keeping(m, [m EXCEPT !.w.iSetPreviousPersonalityOnDisconnect = TRUE])
        /\ Showing(m, [m EXCEPT !.w.iSetPreviousPersonalityOnDisconnect = TRUE])
    BY FlagsShow
  <2>2. Keeping(m, m) /\ Showing(m, m)
    BY FlagsShow
  <2> QED BY <2>1, <2>2, AnsweringTwice
<1> QED BY <1>1, <1>2 DEF SetPreviousPersonalityOnDisconnect

\* A device attached starts, or starts anew, and answers nobody.
LEMMA AttachedAnswers ==
  ASSUME Uncharged, NEW m \in Memory, NEW old, NEW new
  PROVE  Answering(m, DeviceAttached(m, old, new))
<1> DEFINE n == HandlerStateChange(m, old, new)
           c == Cancel(n)
<1>1. n \in Memory /\ Keeping(m, n) /\ Showing(m, n)
  BY HandlerStateChangeType, OthersShow
<1> HIDE DEF n
<1>2. c \in Memory /\ Keeping(m, c) /\ Showing(m, c)
  <2>1. c \in Memory /\ Keeping(n, c) /\ Showing(n, c)
    BY <1>1, CancelType, StopShows
  <2> QED BY <1>1, <2>1, FrameTwice
<1> HIDE DEF c
<1>3. ASSUME NEW k \in Memory, Keeping(m, k), Showing(m, k)
      PROVE  /\ Answering(m, StartDevCon(k)) /\ Answering(m, StartDevCon(Start(k)))
  <2> DEFINE s == Start(k)
  <2>1. s \in Memory /\ Keeping(k, s) /\ Showing(k, s)
    BY <1>3, StartType, StartShows
  <2> HIDE DEF s
  <2>2. /\ Keeping(s, StartDevCon(s)) /\ Showing(s, StartDevCon(s))
        /\ Keeping(k, StartDevCon(k)) /\ Showing(k, StartDevCon(k))
    BY <1>3, <2>1, OthersShow
  <2>3. Keeping(m, s) /\ Showing(m, s)
    BY <1>3, <2>1, FrameTwice
  <2>4. /\ Keeping(m, StartDevCon(s)) /\ Showing(m, StartDevCon(s))
        /\ Keeping(m, StartDevCon(k)) /\ Showing(m, StartDevCon(k))
    BY <1>3, <2>2, <2>3, FrameTwice
  <2> QED BY <2>4, AnsweringTwice DEF s
<1>4. /\ Answering(m, StartDevCon(n)) /\ Answering(m, StartDevCon(Start(n)))
      /\ Answering(m, StartDevCon(Start(c)))
  BY <1>1, <1>2, <1>3
<1> QED BY <1>4 DEF DeviceAttached, n, c

\* A device detached answers everybody with KErrCancel before it stops.
LEMMA DetachedAnswers ==
  ASSUME NEW m \in Memory, NEW old
  PROVE  Answering(m, DeviceDetached(m, old))
<1> DEFINE o == CancelObserver(m)
           h == HandlerStateChange(o, old, "Undefined")
           n == StopRestarting(h)
           r == SwapPersonalities(n)
           v == WritePersonalityId(r, r.w.iPersonalityId)
           x == [v EXCEPT !.w.iSetPreviousPersonalityOnDisconnect = FALSE]
           restored == IF n.w.iSetPreviousPersonalityOnDisconnect THEN x ELSE n
           t == Notify(restored, KErrCancel)
           c == Cancel(t)
<1>1. o \in Memory /\ Keeping(m, o) /\ Showing(m, o)
  BY ObserverType, OthersShow
<1> HIDE DEF o
<1>2. h \in Memory /\ Keeping(o, h) /\ Showing(o, h)
  BY <1>1, HandlerStateChangeType, OthersShow
<1> HIDE DEF h
<1>3. n \in Memory /\ Keeping(h, n) /\ Showing(h, n)
  BY <1>2, StopRestartingType, OthersShow
<1> HIDE DEF n
<1>4. n \in Memory /\ Showing(m, n) /\ n.answers = m.answers
  <2>1. Showing(m, n)
    BY <1>1, <1>2, <1>3, FrameTwice
  <2> QED BY <1>1, <1>2, <1>3, <2>1 DEF Keeping
<1>5. r \in Memory /\ Showing(n, r) /\ r.answers = n.answers
  BY <1>4, UndoType, UndoShows
<1> HIDE DEF r
<1>6. v \in Memory /\ Showing(r, v) /\ v.answers = r.answers
  <2>1. r.w.iPersonalityId \in Personalities
    BY <1>5 DEF Memory, Watcher
  <2> QED BY <1>5, <2>1, WriteType, UndoShows
<1> HIDE DEF v
<1>7. x \in Memory /\ Showing(v, x) /\ x.answers = v.answers
  <2>1. x \in Memory
    BY <1>6, WatcherFlags
  <2>2. Keeping(v, x) /\ Showing(v, x)
    BY <1>6, FlagsShow
  <2> QED BY <2>1, <2>2 DEF Keeping
<1> HIDE DEF x
<1>8. restored \in Memory /\ Showing(m, restored) /\ restored.answers = m.answers
  <2>1. Showing(m, r)
    BY <1>4, <1>5, FrameTwice
  <2>2. Showing(m, v)
    BY <1>6, <2>1, FrameTwice
  <2>3. Showing(m, x)
    BY <1>7, <2>2, FrameTwice
  <2> QED BY <1>4, <1>5, <1>6, <1>7, <2>3
<1> HIDE DEF restored
<1>9. t \in Memory /\ Showing(m, t) /\ Silent(t) /\ (Refused(m) => Refused(t))
  <2>1. t \in Memory /\ Showing(restored, t) /\ Silent(t)
    BY <1>8, NotifyType, NotifyDoes DEF Codes
  <2>2. Refused(m) => Refused(t)
    <3>1. Refused(m) => Refused(restored)
      BY <1>8 DEF Refused
    <3>2. KErrCancel \in Codes /\ KErrCancel # KErrNone
      BY CodesDiffer DEF Codes
    <3> QED BY <1>8, <3>1, <3>2, NotifyDoes
  <2> QED BY <1>8, <2>1, <2>2, FrameTwice
<1> HIDE DEF t
<1>10. Answering(m, t)
  BY <1>9, HonestKept DEF Answering
<1>11. c \in Memory /\ Keeping(t, c) /\ Showing(t, c)
  BY <1>9, CancelType, StopShows
<1> HIDE DEF c
<1>12. /\ Keeping(c, Stop(c)) /\ Showing(c, Stop(c))
       /\ Keeping(t, Stop(t)) /\ Showing(t, Stop(t))
  BY <1>9, <1>11, StopShows
<1>13. /\ Answering(m, c) /\ Answering(m, Stop(t))
  BY <1>10, <1>11, <1>12, AnsweringTwice
<1>14. Answering(m, Stop(c))
  BY <1>12, <1>13, AnsweringTwice
<1> QED BY <1>13, <1>14 DEF DeviceDetached, c, t, restored, x, v, r, n, h, o

\* StateChangeNotify, but for the indicators it changes first.
LEMMA ChangeAnswers ==
  ASSUME Uncharged, NEW m \in Memory, NEW old \in DeviceStates, NEW new \in DeviceStates
  PROVE  LET n == IF m.w.iNormalStart
                    THEN [m EXCEPT !.ind = IndicatorChange(@, old, new)] ELSE m
         IN Answering(n, StateChangeNotify(m, old, new))
<1> DEFINE n == IF m.w.iNormalStart
                  THEN [m EXCEPT !.ind = IndicatorChange(@, old, new)] ELSE m
<1>1. n \in Memory
  <2>1. IndicatorChange(m.ind, old, new) \in Indicator
    BY IndicatorChangeType DEF Memory
  <2> QED BY <2>1 DEF Memory
<1>2. \/ StateChangeNotify(m, old, new) = n
      \/ StateChangeNotify(m, old, new) = DeviceAttached(n, old, new)
      \/ StateChangeNotify(m, old, new) = DeviceDetached(n, old)
      \/ StateChangeNotify(m, old, new) = HandlerStateChange(n, old, new)
  <2> HIDE DEF n
  <2>1. StateChangeNotify(m, old, new) =
          CASE n.idPin -> n
            [] ~n.idPin /\ new \in {"Attached", "Powered"} ->
                 IF old = "Undefined" THEN DeviceAttached(n, old, new) ELSE n
            [] ~n.idPin /\ new = "Undefined" -> DeviceDetached(n, old)
            [] OTHER -> IF n.w.iState = "Started" THEN HandlerStateChange(n, old, new) ELSE n
    BY DEF StateChangeNotify, n
  <2> QED BY <2>1
<1> HIDE DEF n
<1>3. Answering(n, n) /\ Answering(n, HandlerStateChange(n, old, new))
  BY <1>1, FlagsShow, OthersShow, AnsweringTwice
<1>4. Answering(n, DeviceAttached(n, old, new)) /\ Answering(n, DeviceDetached(n, old))
  BY <1>1, AttachedAnswers, DetachedAnswers
<1> QED BY <1>2, <1>3, <1>4 DEF n

\* Lock and Unlock answer nobody.
LEMMA LockAnswers ==
  ASSUME Uncharged, NEW m \in Memory
  PROVE  Answering(m, Lock(m)) /\ Answering(m, Unlock(m))
<1> DEFINE n == CancelCableConnectedNotifier(m)
<1>1. n \in Memory
  BY CancelAllNotesType DEF CancelAllNotes, CancelCableConnectedNotifier
<1>2. Keeping(m, n) /\ Showing(m, n)
  BY OthersShow
<1> HIDE DEF n
<1>3. Answering(n, Cancel(n)) /\ Answering(n, Stop(n))
  BY <1>1, StopShows, AnsweringTwice
<1>4. Answering(m, Cancel(n)) /\ Answering(m, Stop(n))
  BY <1>2, <1>3, AnsweringTwice
<1>5. Answering(m, m) /\ Answering(m, Start(m))
  BY FlagsShow, StartShows, AnsweringTwice
<1> QED BY <1>4, <1>5 DEF Lock, Unlock, n

\* StartPersonality answers nobody, and StopPersonality shows nothing.
LEMMA GlobalAnswers ==
  ASSUME Uncharged, NEW m \in Memory
  PROVE  Answering(m, StartPersonality(m)) /\ Showing(m, StopPersonality(m))
<1> DEFINE n == [m EXCEPT !.w.iPersonalityId = m.w.iPrevPersonalityId]
           z == Stop(n)
<1>1. n \in Memory
  <2>1. m.w.iPrevPersonalityId \in Personalities
    BY DEF Memory, Watcher
  <2> QED BY <2>1, WatcherIds
<1>2. Showing(m, n)
  BY DEF Showing, Outer, Lit, Unlit, Begun, Memory, Watcher
<1> HIDE DEF n
<1>3. z \in Memory /\ Showing(n, z)
  BY <1>1, StopType, StopShows
<1> HIDE DEF z
<1>4. Showing(z, [z EXCEPT !.w.iStarted = FALSE])
  BY <1>3, FlagsShow
<1>5. Showing(m, StopPersonality(m))
  <2>1. Showing(m, z)
    BY <1>2, <1>3, FrameTwice
  <2>2. Showing(m, [z EXCEPT !.w.iStarted = FALSE])
    BY <1>4, <2>1, FrameTwice
  <2> QED BY <2>2 DEF StopPersonality, z, n
<1>6. Answering(m, StartPersonality(m))
  <2> DEFINE s == Start(m)
  <2>1. s \in Memory /\ Keeping(m, s) /\ Showing(m, s)
    BY StartType, StartShows
  <2> HIDE DEF s
  <2>2. Answering(s, StartDevCon(s)) /\ Answering(m, StartDevCon(m))
    BY <2>1, OthersShow, AnsweringTwice
  <2>3. Answering(m, StartDevCon(s))
    BY <2>1, <2>2, AnsweringTwice
  <2> QED BY <2>2, <2>3 DEF StartPersonality, s
<1> QED BY <1>5, <1>6

-----------------------------------------------------------------------------
\* The steps of the process.

\* The memory a handler works on differs from the state in nothing that matters here.
From(m) == /\ m \in Memory /\ m.answers = {}
           /\ m.w = watcher /\ m.h = handler /\ m.ss = sessions /\ m.cenrep = cenrep
           /\ m.ind = indicator /\ m.dev.current = device.current
           /\ m.dev.iPreviousState = device.iPreviousState /\ m.global = global

\* A step that ends in r answers honestly and shows what n does.
Step(n, r) == /\ From(n) /\ r \in Memory /\ Commit(r) /\ Showing(n, r)
              /\ NeverCharged /\ Waiting(n) => Honest(r)

\* Assigning to the requests of the observers is such a start.
LEMMA FromMem ==
  ASSUME TypeOK, NEW in \in Outside
  PROVE  /\ From(Mem(in)) /\ Refused(Mem(in))
         /\ From([Mem(in) EXCEPT !.lock.ready = FALSE])
         /\ From([Mem(in) EXCEPT !.obs.iStatus = Pending])
         /\ From([Mem(in) EXCEPT !.dev.ready = FALSE])
<1>1. Mem(in) \in Memory
  BY MemType
<1>2. From(Mem(in)) /\ Refused(Mem(in))
  BY <1>1 DEF From, Mem, Refused
<1>3. ASSUME NEW m \in Memory
      PROVE  /\ [m EXCEPT !.lock.ready = FALSE] \in Memory
             /\ [m EXCEPT !.obs.iStatus = Pending] \in Memory
             /\ [m EXCEPT !.dev.ready = FALSE] \in Memory
  <2>1. /\ [m.lock EXCEPT !.ready = FALSE] \in Lock_
        /\ [m.obs EXCEPT !.iStatus = Pending] \in Request
        /\ [m.dev EXCEPT !.ready = FALSE] \in Device
    <3>1. m.lock \in Lock_ /\ m.obs \in Request /\ m.dev \in Device
      BY DEF Memory
    <3>2. [m.lock EXCEPT !.ready = FALSE] \in Lock_
      BY <3>1 DEF Lock_
    <3>3. [m.obs EXCEPT !.iStatus = Pending] \in Request
      BY <3>1 DEF Request, Statuses
    <3>4. [m.dev EXCEPT !.ready = FALSE] \in Device
      BY <3>1 DEF Device
    <3> QED BY <3>2, <3>3, <3>4
  <2> QED BY <2>1 DEF Memory
<1>4. ASSUME NEW m, From(m)
      PROVE  /\ From([m EXCEPT !.lock.ready = FALSE])
             /\ From([m EXCEPT !.obs.iStatus = Pending])
             /\ From([m EXCEPT !.dev.ready = FALSE])
  <2>1. m \in Memory /\ m.dev \in Device
    BY <1>4 DEF From, Memory
  <2>2. /\ [m EXCEPT !.lock.ready = FALSE].dev = m.dev
        /\ [m EXCEPT !.obs.iStatus = Pending].dev = m.dev
        /\ [m EXCEPT !.dev.ready = FALSE].dev = [m.dev EXCEPT !.ready = FALSE]
    BY <2>1 DEF Memory
  <2>3. /\ [m.dev EXCEPT !.ready = FALSE].current = m.dev.current
        /\ [m.dev EXCEPT !.ready = FALSE].iPreviousState = m.dev.iPreviousState
    BY <2>1 DEF Device
  <2>4. /\ [m EXCEPT !.lock.ready = FALSE] \in Memory
        /\ [m EXCEPT !.obs.iStatus = Pending] \in Memory
        /\ [m EXCEPT !.dev.ready = FALSE] \in Memory
    BY <1>3, <2>1
  <2>5. From([m EXCEPT !.lock.ready = FALSE])
    BY <1>4, <2>2, <2>4 DEF From
  <2>6. From([m EXCEPT !.obs.iStatus = Pending])
    BY <1>4, <2>2, <2>4 DEF From
  <2>7. From([m EXCEPT !.dev.ready = FALSE])
    <3> DEFINE n == [m EXCEPT !.dev.ready = FALSE]
    <3>1. /\ n.answers = m.answers /\ n.w = m.w /\ n.h = m.h /\ n.ss = m.ss
          /\ n.cenrep = m.cenrep /\ n.ind = m.ind /\ n.global = m.global
      BY <2>1 DEF Memory
    <3>2. /\ n.dev.current = m.dev.current
          /\ n.dev.iPreviousState = m.dev.iPreviousState
      BY <2>2, <2>3
    <3>3. n \in Memory
      BY <2>4
    <3> HIDE DEF n
    <3>4. From(n)
      BY <1>4, <3>1, <3>2, <3>3 DEF From
    <3> QED BY <3>4 DEF n
  <2> QED BY <2>5, <2>6, <2>7
<1> QED BY <1>2, <1>4

\* An answering operation makes a step.
LEMMA AnsweringStep ==
  ASSUME NEW n, NEW r \in Memory, From(n), Answering(n, r), Commit(r)
  PROVE  Step(n, r)
BY DEF Step, From, Refused, Answering

\* Every RunL but that of the device observer makes a step.
LEMMA SchedulerSteps ==
  ASSUME Uncharged, TypeOK,
         RunWatcher \/ RunHandler \/ RunLock \/ RunObserver \/ RunStarter
  PROVE  \E n, r : Step(n, r)
<1> USE FromMem
<1>1. CASE RunWatcher
  <2>1. PICK in \in Outside : Commit(WatcherRunL(Mem(in)))
    BY <1>1 DEF RunWatcher
  <2>2. Mem(in) \in Memory /\ Mem(in).w = watcher
    BY DEF From
  <2>3. watcher.active /\ watcher.iStatus \in Codes
    BY <1>1, ReadyType DEF RunWatcher, WatcherReady, Ready
  <2>4. WatcherRunL(Mem(in)) \in Memory /\ Answering(Mem(in), WatcherRunL(Mem(in)))
    BY <2>2, <2>3, WatcherRunLType, WatcherRunLAnswers
  <2> QED BY <2>1, <2>4, AnsweringStep
<1>2. CASE RunHandler
  <2>1. PICK in \in Outside : Commit(HandlerRunL(Mem(in)))
    BY <1>2 DEF RunHandler
  <2>2. Mem(in) \in Memory /\ Mem(in).h = handler
    BY DEF From
  <2>3. handler.active /\ handler.iStatus \in Codes
    BY <1>2, ReadyType DEF RunHandler, HandlerReady, Ready
  <2>4. HandlerRunL(Mem(in)) \in Memory /\ Frame(Mem(in), HandlerRunL(Mem(in)))
    BY <2>2, <2>3, HandlerRunLType, HandlerRunLFrame
  <2>5. ~Unlit(Mem(in).w, Mem(in).h)
    BY <2>2, <2>3 DEF Unlit
  <2>6. Answering(Mem(in), HandlerRunL(Mem(in)))
    BY <2>4, <2>5, FrameShows, AnsweringTwice
  <2> QED BY <2>1, <2>4, <2>6, AnsweringStep
<1>3. CASE RunLock
  <2> DEFINE n(in) == [Mem(in) EXCEPT !.lock.ready = FALSE]
  <2>1. PICK in \in Outside :
          Commit(CASE lock.value = "Off" -> Unlock(n(in))
                   [] lock.value = "RemoteLocked" -> Lock(n(in))
                   [] OTHER -> n(in))
    BY <1>3 DEF RunLock
  <2>2. From(n(in)) /\ n(in) \in Memory
    BY FromMem DEF From
  <2> HIDE DEF n
  <2>3. /\ Unlock(n(in)) \in Memory /\ Lock(n(in)) \in Memory
        /\ Answering(n(in), Unlock(n(in))) /\ Answering(n(in), Lock(n(in)))
    BY <2>2, UnlockType, LockType, LockAnswers
  <2>4. Answering(n(in), n(in))
    BY <2>2, FlagsShow, AnsweringTwice
  <2>5. /\ Commit(Unlock(n(in))) => Step(n(in), Unlock(n(in)))
        /\ Commit(Lock(n(in))) => Step(n(in), Lock(n(in)))
        /\ Commit(n(in)) => Step(n(in), n(in))
    BY <2>2, <2>3, <2>4, AnsweringStep
  <2> QED BY <2>1, <2>5
<1>4. CASE RunObserver
  <2> DEFINE n(in) == [Mem(in) EXCEPT !.obs.iStatus = Pending]
             c(in) == CancelObserver(n(in))
  <2>1. PICK in \in Outside :
          Commit(CASE global = "ChargingToNormal" -> StopPersonality(n(in))
                   [] global = "Charging" -> StartPersonality(n(in))
                   [] global = "Normal" -> StartPersonality(c(in))
                   [] OTHER -> n(in))
    BY <1>4 DEF RunObserver
  <2>2. From(n(in)) /\ n(in) \in Memory
    BY FromMem DEF From
  <2> HIDE DEF n
  <2>3. c(in) \in Memory /\ Keeping(n(in), c(in)) /\ Showing(n(in), c(in))
    BY <2>2, ObserverType, OthersShow
  <2> HIDE DEF c
  <2>4. /\ StopPersonality(n(in)) \in Memory /\ StartPersonality(n(in)) \in Memory
        /\ StartPersonality(c(in)) \in Memory
    BY <2>2, <2>3, GlobalStateType
  <2>5. /\ Showing(n(in), StopPersonality(n(in)))
        /\ Answering(n(in), StartPersonality(n(in)))
        /\ Answering(c(in), StartPersonality(c(in)))
    BY <2>2, <2>3, GlobalAnswers
  <2>6. Answering(n(in), StartPersonality(c(in)))
    BY <2>3, <2>5, AnsweringTwice
  <2>7. Answering(n(in), n(in))
    BY <2>2, FlagsShow, AnsweringTwice
  <2>8. global = "ChargingToNormal" => ~NeverCharged
    BY DEF NeverCharged, TypeOK
  <2>9. global = "ChargingToNormal" /\ Commit(StopPersonality(n(in)))
          => Step(n(in), StopPersonality(n(in)))
    BY <2>2, <2>4, <2>5, <2>8 DEF Step
  <2>10. /\ Commit(StartPersonality(n(in))) => Step(n(in), StartPersonality(n(in)))
         /\ Commit(StartPersonality(c(in))) => Step(n(in), StartPersonality(c(in)))
         /\ Commit(n(in)) => Step(n(in), n(in))
    BY <2>2, <2>4, <2>5, <2>6, <2>7, AnsweringStep
  <2> QED BY <2>1, <2>9, <2>10
<1>5. CASE RunStarter
  <2>1. PICK in \in Outside : Commit(StarterRunL(Mem(in)))
    BY <1>5 DEF RunStarter
  <2>2. Mem(in) \in Memory
    BY DEF From
  <2>3. StarterRunL(Mem(in)) \in Memory /\ Answering(Mem(in), StarterRunL(Mem(in)))
    BY <2>2, StarterRunLType, OthersShow, AnsweringTwice
  <2> QED BY <2>1, <2>3, AnsweringStep
<1> QED BY <1>1, <1>2, <1>3, <1>4, <1>5

\* A message of a session replaced or added: it neither answers nor shows.
LEMMA MessageKeeps ==
  ASSUME NEW m \in Memory, NEW f
  PROVE  LET n == [m EXCEPT !.ss = f] IN
         Showing(m, n) /\ n.answers = m.answers /\ n.w = m.w /\ n.ss = f
BY DEF Showing, Outer, Lit, Begun, Memory

\* A session closed or a message that is not a SetPersonality: no new one waits.
LEMMA MessageWaits ==
  ASSUME NEW m \in Memory, NEW s \in Sessions, NEW b
  PROVE  /\ \A n \in {[m EXCEPT !.ss[s].setPrevious = b], [m EXCEPT !.ss[s].cancelSet = b],
                      [m EXCEPT !.ss[s].cancelSetPrevious = b], [m EXCEPT !.ss[s] = NoMessages]} :
              /\ Showing(m, n)
              /\ Refused(m) => Refused(n)
              /\ Waiting(m) => Waiting(n)
              /\ Silent(m) => Silent(n)
<1>1. m.ss \in [Sessions -> Session]
  BY DEF Memory
<1>2. ASSUME NEW f, \A t \in Sessions : f[t].set = m.ss[t].set \/ f[t].set = None
      PROVE  LET n == [m EXCEPT !.ss = f] IN
             /\ Showing(m, n)
             /\ Refused(m) => Refused(n)
             /\ Waiting(m) => Waiting(n)
             /\ Silent(m) => Silent(n)
  BY <1>2, MessageKeeps DEF Refused, Waiting, Silent
<1>3. ASSUME NEW t \in Sessions
      PROVE  /\ [m.ss EXCEPT ![s].setPrevious = b][t].set = m.ss[t].set
             /\ [m.ss EXCEPT ![s].cancelSet = b][t].set = m.ss[t].set
             /\ [m.ss EXCEPT ![s].cancelSetPrevious = b][t].set = m.ss[t].set
             /\ \/ [m.ss EXCEPT ![s] = NoMessages][t].set = m.ss[t].set
                \/ [m.ss EXCEPT ![s] = NoMessages][t].set = None
  BY <1>1 DEF Session, NoMessages
<1> DEFINE f1 == [m.ss EXCEPT ![s].setPrevious = b]
           f2 == [m.ss EXCEPT ![s].cancelSet = b]
           f3 == [m.ss EXCEPT ![s].cancelSetPrevious = b]
           f4 == [m.ss EXCEPT ![s] = NoMessages]
<1>4. /\ [m EXCEPT !.ss[s].setPrevious = b] = [m EXCEPT !.ss = f1]
      /\ [m EXCEPT !.ss[s].cancelSet = b] = [m EXCEPT !.ss = f2]
      /\ [m EXCEPT !.ss[s].cancelSetPrevious = b] = [m EXCEPT !.ss = f3]
      /\ [m EXCEPT !.ss[s] = NoMessages] = [m EXCEPT !.ss = f4]
  OBVIOUS
<1>5. \A t \in Sessions : /\ f1[t].set = m.ss[t].set /\ f2[t].set = m.ss[t].set
                          /\ f3[t].set = m.ss[t].set
                          /\ f4[t].set = m.ss[t].set \/ f4[t].set = None
  BY <1>3
<1> HIDE DEF f1, f2, f3, f4
<1>6. ASSUME NEW f, f = f1 \/ f = f2 \/ f = f3 \/ f = f4
      PROVE  LET n == [m EXCEPT !.ss = f] IN
             /\ Showing(m, n)
             /\ Refused(m) => Refused(n)
             /\ Waiting(m) => Waiting(n)
             /\ Silent(m) => Silent(n)
  BY <1>2, <1>5, <1>6
<1> QED BY <1>4, <1>6

\* Every message of a client makes a step.
LEMMA ClientSteps ==
  ASSUME Uncharged, TypeOK, NEW s \in Sessions, Client(s)
  PROVE  \E n, r : Step(n, r)
<1>0. ASSUME NEW in \in Outside
      PROVE  From(Mem(in)) /\ Mem(in) \in Memory /\ Refused(Mem(in))
  BY FromMem DEF From
<1>1. ASSUME NEW id \in Personalities \cup {Unsupported}, NEW nb \in NonBlocking,
             SessionSetPersonality(s, id, nb)
      PROVE  \E n, r : Step(n, r)
  <2> DEFINE p(in) == SupersedeSet(Mem(in), s)
             n(in) == Notify(p(in), KErrCancel)
             k(in) == [n(in) EXCEPT !.ss[s].set = id]
             r(in) == SetPersonality(k(in), id, nb)
  <2>1. PICK in \in Outside : Commit(r(in))
    BY <1>1 DEF SessionSetPersonality
  <2>2. p(in) \in Memory /\ Showing(Mem(in), p(in)) /\ Refused(p(in))
    <3>1. p(in) \in Memory
      BY <1>0, SupersedeType
    <3>2. Showing(Mem(in), p(in))
      BY <1>0 DEF SupersedeSet, Showing, Outer, Lit, Begun, Memory
    <3>3. Refused(p(in))
      BY <1>0 DEF SupersedeSet, Refused, Memory, From
    <3> QED BY <3>1, <3>2, <3>3
  <2> HIDE DEF p
  <2>3. n(in) \in Memory /\ Showing(p(in), n(in)) /\ Silent(n(in)) /\ Refused(n(in))
    BY <2>2, NotifyType, NotifyDoes, CodesDiffer DEF Codes
  <2> HIDE DEF n
  <2>4. /\ k(in) \in Memory /\ Showing(n(in), k(in)) /\ Refused(k(in))
        /\ \A t \in Sessions : k(in).ss[t].set \in {None, id}
    <3>1. k(in) \in Memory
      BY <2>3, SetMessageType
    <3>2. /\ Showing(n(in), k(in)) /\ k(in).answers = n(in).answers
          /\ k(in).ss = [n(in).ss EXCEPT ![s].set = id]
      BY <2>3, MessageKeeps DEF Memory
    <3>3. \A t \in Sessions : [n(in).ss EXCEPT ![s].set = id][t].set \in {None, id}
      BY <2>3 DEF Memory, Session, Silent
    <3> HIDE DEF k
    <3> QED BY <2>3, <3>1, <3>2, <3>3 DEF Refused
  <2> HIDE DEF k
  <2>5. nb \in BOOLEAN
    BY SystemAssumption
  <2>6. r(in) \in Memory /\ Showing(k(in), r(in)) /\ Honest(r(in))
    BY <2>4, <2>5, SetPersonalityType, SetPersonalityAnswers
  <2> HIDE DEF r
  <2>7. Showing(Mem(in), r(in))
    BY <2>2, <2>3, <2>4, <2>6, FrameTwice
  <2> QED BY <1>0, <2>1, <2>6, <2>7 DEF Step
<1>2. CASE SessionCancelSetPersonality(s)
  <2> DEFINE k(in) == [Mem(in) EXCEPT !.ss[s].cancelSet = TRUE]
  <2>1. PICK in \in Outside : Commit(CancelChange(k(in)))
    BY <1>2 DEF SessionCancelSetPersonality
  <2>2. k(in) \in Memory /\ Showing(Mem(in), k(in)) /\ Refused(k(in))
    BY <1>0, SetMessageType, MessageWaits
  <2> HIDE DEF k
  <2>3. CancelChange(k(in)) \in Memory
    BY <2>2, CancelChangeType
  <2>4. Showing(k(in), CancelChange(k(in))) /\ Honest(CancelChange(k(in)))
    BY <2>2, CancelChangeAnswers
  <2>5. Showing(Mem(in), CancelChange(k(in)))
    BY <2>2, <2>4, FrameTwice
  <2> QED BY <1>0, <2>1, <2>3, <2>4, <2>5 DEF Step
<1>3. CASE SessionCancelSetPrevious(s)
  <2> DEFINE k(in) == [Mem(in) EXCEPT !.ss[s].cancelSetPrevious = TRUE]
  <2>1. PICK in \in Outside : Commit(CancelChange(k(in)))
    BY <1>3 DEF SessionCancelSetPrevious
  <2>2. k(in) \in Memory /\ Showing(Mem(in), k(in)) /\ Refused(k(in))
    BY <1>0, SetMessageType, MessageWaits
  <2> HIDE DEF k
  <2>3. CancelChange(k(in)) \in Memory
    BY <2>2, CancelChangeType
  <2>4. Showing(k(in), CancelChange(k(in))) /\ Honest(CancelChange(k(in)))
    BY <2>2, CancelChangeAnswers
  <2>5. Showing(Mem(in), CancelChange(k(in)))
    BY <2>2, <2>4, FrameTwice
  <2> QED BY <1>0, <2>1, <2>3, <2>4, <2>5 DEF Step
<1>4. ASSUME NEW sync \in BOOLEAN, SessionSetPrevious(s, sync)
      PROVE  \E n, r : Step(n, r)
  <2> DEFINE k(in) == [Mem(in) EXCEPT !.ss[s].setPrevious = FALSE]
             n(in) == Notify(k(in), KErrCancel)
             q(in) == [n(in) EXCEPT !.ss[s].setPrevious = ~sync]
             r(in) == SetPreviousPersonality(q(in))
  <2>1. PICK in \in Outside : Commit(r(in))
    BY <1>4 DEF SessionSetPrevious
  <2>2. k(in) \in Memory /\ Showing(Mem(in), k(in)) /\ Refused(k(in))
    BY <1>0, SetMessageType, MessageWaits
  <2> HIDE DEF k
  <2>3. n(in) \in Memory /\ Showing(k(in), n(in)) /\ Silent(n(in)) /\ Refused(n(in))
    BY <2>2, NotifyType, NotifyDoes, CodesDiffer DEF Codes
  <2> HIDE DEF n
  <2>4. q(in) \in Memory /\ Showing(n(in), q(in)) /\ Silent(q(in)) /\ Refused(q(in))
    BY <2>3, SetMessageType, MessageWaits
  <2> HIDE DEF q
  <2>5. r(in) \in Memory /\ Showing(q(in), r(in)) /\ Honest(r(in))
    BY <2>4, SetPreviousPersonalityType, SetPreviousAnswers
  <2> HIDE DEF r
  <2>6. Showing(Mem(in), r(in))
    BY <2>2, <2>3, <2>4, <2>5, FrameTwice
  <2> QED BY <1>0, <2>1, <2>5, <2>6 DEF Step
<1>5. CASE SessionOnDisconnect(s)
  <2>1. PICK in \in Outside : Commit(SetPreviousPersonalityOnDisconnect(Mem(in)))
    BY <1>5 DEF SessionOnDisconnect
  <2>2. SetPreviousPersonalityOnDisconnect(Mem(in)) \in Memory
    BY <1>0, OnDisconnectType
  <2>3. Answering(Mem(in), SetPreviousPersonalityOnDisconnect(Mem(in)))
    BY <1>0, OnDisconnectAnswers
  <2> QED BY <1>0, <2>1, <2>2, <2>3, AnsweringStep
<1>6. CASE SessionClose(s)
  <2> DEFINE k(in) == [Mem(in) EXCEPT !.ss[s] = NoMessages]
  <2>1. PICK in \in Outside : Commit(k(in))
    BY <1>6 DEF SessionClose
  <2>2. k(in) \in Memory
    BY <1>0, SetMessageType
  <2>3. Showing(Mem(in), k(in)) /\ Refused(k(in)) /\ (Waiting(Mem(in)) => Waiting(k(in)))
    BY <1>0, MessageWaits
  <2> HIDE DEF k
  <2>4. Answering(Mem(in), k(in))
    BY <2>3, HonestKept DEF Answering
  <2> QED BY <1>0, <2>1, <2>2, <2>4, AnsweringStep
<1> QED BY <1>1, <1>2, <1>3, <1>4, <1>5, <1>6 DEF Client

\* The RunL of the device observer shows the change, once the watcher has started.
Changes(n, r) ==
  /\ From(n) /\ r \in Memory /\ Commit(r)
  /\ Waiting(n) => Honest(r)
  /\ r.dev.current = device.current /\ r.dev.iPreviousState = device.current
  /\ r.global = global
  /\ Lit(n) => Lit(r)
  /\ Begun(n) => Begun(r)
  /\ r.ind = IF watcher.iNormalStart
               THEN IndicatorChange(indicator, device.iPreviousState, device.current)
               ELSE indicator

\* It makes a step, or changes.
LEMMA DeviceSteps ==
  ASSUME Uncharged, TypeOK, RunDevice
  PROVE  \/ \E n, r : Step(n, r)
         \/ device.current # device.iPreviousState /\ \E n, r : Changes(n, r)
<1> DEFINE new == device.current
           old == device.iPreviousState
           n(in) == [Mem(in) EXCEPT !.dev.ready = FALSE]
           z(in) == IF n(in).w.iNormalStart
                      THEN [n(in) EXCEPT !.ind = IndicatorChange(@, old, new)] ELSE n(in)
           k(in) == StateChangeNotify(n(in), old, new)
           r(in) == [k(in) EXCEPT !.dev.iPreviousState = new]
<1>1. PICK in \in Outside : Commit(IF new = old THEN n(in) ELSE r(in))
  BY DEF RunDevice
<1>2. new \in BusStates /\ old \in BusStates /\ new \in DeviceStates /\ old \in DeviceStates
  BY SystemAssumption DEF TypeOK, Device
<1>3. From(n(in)) /\ n(in) \in Memory
  BY FromMem DEF From
<1> HIDE DEF n
<1>4. CASE new = old
  <2>1. Answering(n(in), n(in))
    BY <1>3, FlagsShow, AnsweringTwice
  <2> QED BY <1>1, <1>3, <1>4, <2>1, AnsweringStep
<1>5. CASE new # old
  <2>1. k(in) \in Memory
    BY <1>2, <1>3, StateChangeNotifyType
  <2>2. Answering(z(in), k(in))
    BY <1>2, <1>3, ChangeAnswers
  <2> HIDE DEF k
  <2>3. /\ z(in).answers = {} /\ z(in).dev = n(in).dev /\ z(in).global = global
        /\ z(in).w = n(in).w /\ z(in).h = n(in).h /\ z(in).ss = n(in).ss
        /\ z(in).ind = IF watcher.iNormalStart THEN IndicatorChange(indicator, old, new)
                       ELSE indicator
    BY <1>3 DEF From, Memory
  <2> HIDE DEF z
  <2>4. /\ Waiting(n(in)) => Waiting(z(in))
        /\ Refused(z(in))
        /\ Lit(n(in)) => Lit(z(in))
        /\ Begun(n(in)) => Begun(z(in))
    BY <1>3, <2>3 DEF Waiting, Refused, Lit, Begun, From
  <2>5. /\ Waiting(n(in)) => Honest(k(in))
        /\ Lit(n(in)) => Lit(k(in))
        /\ Begun(n(in)) => Begun(k(in))
        /\ k(in).ind = z(in).ind /\ k(in).dev = n(in).dev /\ k(in).global = global
    BY <2>2, <2>3, <2>4 DEF Answering, Showing, Outer
  <2>6. /\ r(in) \in Memory
        /\ r(in).dev.current = k(in).dev.current /\ r(in).dev.iPreviousState = new
    <3>1. /\ [k(in).dev EXCEPT !.iPreviousState = new] \in Device
          /\ [k(in).dev EXCEPT !.iPreviousState = new].current = k(in).dev.current
          /\ [k(in).dev EXCEPT !.iPreviousState = new].iPreviousState = new
      BY <1>2, <2>1 DEF Memory, Device
    <3> QED BY <2>1, <3>1 DEF Memory
  <2>7. /\ r(in).ind = k(in).ind /\ r(in).global = k(in).global /\ r(in).w = k(in).w
        /\ r(in).h = k(in).h /\ r(in).ss = k(in).ss /\ r(in).answers = k(in).answers
        /\ r(in).cenrep = k(in).cenrep
    BY <2>1 DEF Memory
  <2> HIDE DEF r
  <2>8. /\ Waiting(n(in)) => Honest(r(in))
        /\ Lit(n(in)) => Lit(r(in))
        /\ Begun(n(in)) => Begun(r(in))
    BY <2>5, <2>7 DEF Honest, Waiting, Saved, Lit, Begun
  <2>9. Commit(r(in))
    BY <1>1, <1>5
  <2>10. n(in).dev.current = new
    BY <1>3 DEF From
  <2>11. Changes(n(in), r(in))
    BY <1>3, <2>3, <2>5, <2>6, <2>7, <2>8, <2>9, <2>10 DEF Changes
  <2> QED BY <1>5, <2>11
<1> QED BY <1>4, <1>5

-----------------------------------------------------------------------------
\* The clients are told the truth.

\* The inductive invariant: who waits, waits for the choice under way.
PromiseInv ==
  /\ TypeOK
  /\ \A s \in Sessions : sessions[s].set # None =>
       watcher.iSetPersonalityOngoing /\ sessions[s].set = watcher.iPersonalityId
  /\ AckedIsSaved

\* A step that ends honest, or in a fault, keeps it.
LEMMA PromiseCommitted ==
  ASSUME PromiseInv, NEW r \in Memory, Commit(r), Honest(r)
  PROVE  PromiseInv'
<1>1. TypeOK'
  BY CommitType DEF PromiseInv
<1>2. CASE r.fault # NoFault
  BY <1>1, <1>2 DEF PromiseInv, Commit, AckedIsSaved
<1>3. CASE r.fault = NoFault
  BY <1>1, <1>3 DEF PromiseInv, Commit, AckedIsSaved, Honest, Waiting, Saved
<1> QED BY <1>2, <1>3

\* Every step keeps the promise.
LEMMA PromiseKept ==
  ASSUME Uncharged, NeverCharged, PromiseInv, Next
  PROVE  PromiseInv'
<1>0. TypeOK
  BY DEF PromiseInv
<1>1. ASSUME NEW n, From(n)
      PROVE  Waiting(n)
  BY <1>1 DEF From, Waiting, PromiseInv
<1>2. (\E n, r : Step(n, r)) => PromiseInv'
  <2> SUFFICES ASSUME NEW n, NEW r, Step(n, r) PROVE PromiseInv'
    OBVIOUS
  <2> QED BY <1>1, PromiseCommitted DEF Step
<1>3. (\E n, r : Changes(n, r)) => PromiseInv'
  <2> SUFFICES ASSUME NEW n, NEW r, Changes(n, r) PROVE PromiseInv'
    OBVIOUS
  <2> QED BY <1>1, PromiseCommitted DEF Changes
<1>4. CASE World
  <2>1. TypeOK'
    BY <1>0, <1>4, WorldType
  <2>2. watcher' = watcher /\ sessions' = sessions /\ cenrep' = cenrep /\ answers' = {}
    BY <1>4 DEF World, PluginAnswers, UsbManagerAnswers, UserClosesNote, DevConProcess,
                DeviceStateReported, LockChanges, GlobalStateChanges, IdPinChanges
  <2> QED BY <2>1, <2>2 DEF PromiseInv, AckedIsSaved
<1>5. CASE Scheduler
  BY <1>0, <1>2, <1>3, <1>5, SchedulerSteps, DeviceSteps DEF Scheduler
<1>6. CASE \E s \in Sessions : Client(s)
  BY <1>0, <1>2, <1>6, ClientSteps
<1> QED BY <1>4, <1>5, <1>6 DEF Next

\* Who is told yes got what was asked for: a SetPersonality completed with KErrNone has
\* its id selected and saved, in a phone that no charger switches on and whatever the
\* plugins, USB Manager, the disk and the other clients do.
THEOREM ToldIsSaved ==
  ASSUME Uncharged, NeverCharged
  PROVE  Spec => []AckedIsSaved
<1>1. Init => PromiseInv
  <2> SUFFICES ASSUME Init PROVE PromiseInv
    OBVIOUS
  <2>1. TypeOK
    BY InitType
  <2>2. \A s \in Sessions : sessions[s].set = None
    BY DEF Init, NoMessages
  <2> QED BY <2>1, <2>2 DEF PromiseInv, Init, AckedIsSaved
<1>2. PromiseInv /\ UNCHANGED vars => PromiseInv'
  BY DEF PromiseInv, TypeOK, AckedIsSaved, vars
<1>3. PromiseInv /\ [Next]_vars => PromiseInv'
  BY <1>2, PromiseKept
<1>4. PromiseInv => AckedIsSaved
  BY DEF PromiseInv
<1> QED BY <1>1, <1>3, <1>4, PTL DEF Spec

-----------------------------------------------------------------------------
\* The indicators follow the device.

\* What is shown, when the state of the device was st.
Shown(i, st) ==
  /\ i.connected <=> st = "Configured" \/ (st = "Suspended" /\ i.iDevStateB4Suspend = "Configured")
  /\ i.connected => ~i.addressed
  /\ st = "Undefined" => ~i.addressed

\* A change of the device state is shown.
LEMMA ChangeIsShown ==
  ASSUME NEW i \in Indicator, NEW old \in DeviceStates, NEW new \in DeviceStates,
         old # new, Shown(i, old)
  PROVE  Shown(IndicatorChange(i, old, new), new)
<1>1. CASE new = "Address"
  BY <1>1 DEF Shown, IndicatorChange, ResumesTo, ShowConnected, ShowAddressed, Indicator
<1>2. CASE new = "Configured"
  BY <1>2 DEF Shown, IndicatorChange, ResumesTo, ShowConnected, ShowAddressed, Indicator
<1>3. CASE new \in {"Undefined", "Attached", "Powered", "Default"}
  BY <1>3 DEF Shown, IndicatorChange, ShowConnected, ShowAddressed, Indicator
<1>4. CASE new = "Suspended"
  BY <1>4 DEF Shown, IndicatorChange, Indicator
<1> QED BY <1>1, <1>2, <1>3, <1>4 DEF DeviceStates

\* The inductive invariant: the indicators show the last state handled, and before the
\* first start in the normal state nothing is shown and the host has enumerated nothing.
ShownInv ==
  /\ TypeOK
  /\ watcher.iNormalStart => global = "Normal"
  /\ ~watcher.iNormalStart =>
       /\ Unlit(watcher, handler)
       /\ indicator = InitIndicator /\ device.current \notin Enumerated
  /\ Shown(indicator, device.iPreviousState)

\* What a step leaves lit, or still dark, keeps the invariant.
LEMMA ShownCommitted ==
  ASSUME ShownInv, NEW n, NEW r \in Memory, From(n), Commit(r),
         Lit(n) => Lit(r), Begun(n) => Begun(r), r.global = global,
         r.dev.current = device.current, Shown(r.ind, r.dev.iPreviousState),
         ~watcher.iNormalStart => r.ind = indicator
  PROVE  ShownInv'
<1>1. TypeOK'
  BY CommitType DEF ShownInv
<1>2. CASE r.fault # NoFault
  BY <1>1, <1>2 DEF ShownInv, Commit
<1>3. CASE r.fault = NoFault
  <2>1. /\ watcher' = r.w /\ handler' = r.h /\ indicator' = r.ind /\ device' = r.dev
        /\ global' = global
    BY <1>3 DEF Commit
  <2>2. CASE watcher.iNormalStart
    <3>1. Lit(n)
      BY <2>2 DEF ShownInv, Lit, From
    <3> QED BY <1>1, <2>1, <3>1 DEF ShownInv, Lit
  <2>3. CASE ~watcher.iNormalStart
    <3>1. Begun(n)
      BY <2>3 DEF ShownInv, Begun, From
    <3>2. Lit(r) \/ Unlit(r.w, r.h)
      BY <3>1 DEF Begun
    <3> QED BY <1>1, <2>1, <2>3, <3>2 DEF ShownInv, Lit, Unlit
  <2> QED BY <2>2, <2>3
<1> QED BY <1>2, <1>3

\* The outside enumerates nothing before a start, and the phone stays in the normal state.
LEMMA ShownWorld ==
  ASSUME ShownInv, World
  PROVE  ShownInv'
<1>1. TypeOK /\ TypeOK'
  BY WorldType DEF ShownInv
<1>2. watcher' = watcher /\ indicator' = indicator
  BY DEF World, PluginAnswers, UsbManagerAnswers, UserClosesNote, DevConProcess,
         DeviceStateReported, LockChanges, GlobalStateChanges, IdPinChanges
<1>3. handler'.active = handler.active /\ handler'.usb = handler.usb
  <2>1. handler \in Handler
    BY <1>1 DEF TypeOK
  <2> QED BY <2>1 DEF World, PluginAnswers, UsbManagerAnswers, UserClosesNote, DevConProcess,
                DeviceStateReported, LockChanges, GlobalStateChanges, IdPinChanges, Handler
<1>4. Unlit(watcher, handler) => Unlit(watcher, handler)'
  BY <1>2, <1>3 DEF Unlit
<1>5. CASE DeviceStateReported
  <2>1. PICK st \in BusNext(device.current) :
          device' = [device EXCEPT !.current = st, !.ready = TRUE]
    BY <1>5 DEF DeviceStateReported
  <2>2. device'.iPreviousState = device.iPreviousState /\ device'.current = st
    BY <1>1, <2>1 DEF TypeOK, Device
  <2>3. ~watcher.iNormalStart => st \notin Enumerated
    BY <2>1 DEF ShownInv, Unlit, BusNext, Enumerated
  <2>4. global' = global
    BY <1>5 DEF DeviceStateReported
  <2> QED BY <1>1, <1>2, <1>4, <2>2, <2>3, <2>4 DEF ShownInv
<1>6. CASE GlobalStateChanges
  <2>1. device' = device /\ (global = "Normal" => global' = "Normal")
    BY <1>6 DEF GlobalStateChanges, GlobalSteps
  <2> QED BY <1>1, <1>2, <1>4, <2>1 DEF ShownInv
<1>7. CASE ~DeviceStateReported /\ ~GlobalStateChanges
  <2>1. device' = device /\ global' = global
    BY <1>7 DEF World, PluginAnswers, UsbManagerAnswers, UserClosesNote, DevConProcess,
                LockChanges, IdPinChanges
  <2> QED BY <1>1, <1>2, <1>4, <2>1 DEF ShownInv
<1> QED BY <1>5, <1>6, <1>7

\* Every step keeps the indicators.
LEMMA ShownKept ==
  ASSUME Uncharged, ShownInv, Next
  PROVE  ShownInv'
<1>0. TypeOK
  BY DEF ShownInv
<1>1. (\E n, r : Step(n, r)) => ShownInv'
  <2> SUFFICES ASSUME NEW n, NEW r, Step(n, r) PROVE ShownInv'
    OBVIOUS
  <2>1. /\ r \in Memory /\ From(n) /\ Commit(r) /\ (Lit(n) => Lit(r)) /\ (Begun(n) => Begun(r))
        /\ r.ind = n.ind /\ r.dev = n.dev /\ r.global = n.global
    BY DEF Step, Showing, Outer
  <2>2. /\ n.ind = indicator /\ n.dev.current = device.current
        /\ n.dev.iPreviousState = device.iPreviousState /\ n.global = global
    BY <2>1 DEF From
  <2>3. /\ r.global = global /\ r.dev.current = device.current /\ r.ind = indicator
        /\ Shown(r.ind, r.dev.iPreviousState)
    BY <2>1, <2>2 DEF ShownInv
  <2> QED BY <2>1, <2>3, ShownCommitted
<1>2. device.current # device.iPreviousState /\ (\E n, r : Changes(n, r)) => ShownInv'
  <2> SUFFICES ASSUME device.current # device.iPreviousState, NEW n, NEW r, Changes(n, r)
               PROVE  ShownInv'
    OBVIOUS
  <2>1. /\ r \in Memory /\ From(n) /\ Commit(r) /\ (Lit(n) => Lit(r)) /\ (Begun(n) => Begun(r))
        /\ r.global = global /\ r.dev.current = device.current
        /\ r.dev.iPreviousState = device.current
        /\ ~watcher.iNormalStart => r.ind = indicator
    BY DEF Changes
  <2>2. Shown(r.ind, device.current)
    <3>1. CASE watcher.iNormalStart
      <4>1. /\ indicator \in Indicator /\ device.current \in DeviceStates
            /\ device.iPreviousState \in DeviceStates
        BY <1>0, SystemAssumption DEF TypeOK, Device
      <4>2. Shown(indicator, device.iPreviousState)
        BY DEF ShownInv
      <4>3. r.ind = IndicatorChange(indicator, device.iPreviousState, device.current)
        BY <3>1 DEF Changes
      <4> QED BY <4>1, <4>2, <4>3, ChangeIsShown
    <3>2. CASE ~watcher.iNormalStart
      BY <2>1, <3>2 DEF ShownInv, Shown, InitIndicator, Enumerated
    <3> QED BY <3>1, <3>2
  <2> QED BY <2>1, <2>2, ShownCommitted
<1>3. CASE World
  BY <1>3, ShownWorld
<1>4. CASE Scheduler
  BY <1>0, <1>1, <1>2, <1>4, SchedulerSteps, DeviceSteps DEF Scheduler
<1>5. CASE \E s \in Sessions : Client(s)
  BY <1>0, <1>1, <1>5, ClientSteps
<1> QED BY <1>3, <1>4, <1>5 DEF Next

\* The indicators follow the device state last handled, whatever the order in which USB
\* Manager reports the states, the clients change personalities and the phone is locked.
THEOREM IndicatorsFollow ==
  ASSUME Uncharged
  PROVE  Spec => []IndicatorTracksDevice
<1>1. Init => ShownInv
  <2> SUFFICES ASSUME Init PROVE ShownInv
    OBVIOUS
  <2>1. TypeOK
    BY InitType
  <2>2. /\ ~watcher.iNormalStart /\ watcher.iState = "Idle" /\ ~watcher.active
        /\ ~handler.active /\ handler.usb = None
    BY DEF Init, InitWatcher, InitHandler
  <2>3. /\ indicator = InitIndicator /\ device.current = "Undefined"
        /\ device.iPreviousState = "Undefined"
    BY DEF Init
  <2> QED BY <2>1, <2>2, <2>3 DEF ShownInv, Unlit, Shown, InitIndicator, Enumerated
<1>2. ShownInv /\ UNCHANGED vars => ShownInv'
  BY DEF ShownInv, TypeOK, vars, Unlit, Shown
<1>3. ShownInv /\ [Next]_vars => ShownInv'
  BY <1>2, ShownKept
<1>4. ShownInv => IndicatorTracksDevice
  BY DEF ShownInv, Shown, IndicatorTracksDevice, TypeOK
<1> QED BY <1>1, <1>3, <1>4, PTL DEF Spec

=============================================================================
