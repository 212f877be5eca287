------------------------ MODULE UsbWatcherLifecycle -------------------------
(***************************************************************************)
(* What usbwatcher keeps while no client changes the personality: for any  *)
(* personalities, cables, locks, global states and answers, and clients    *)
(* that do no more than ask for the previous personality on disconnect,    *)
(*                                                                         *)
(*   - the handler implements PersonalityLifecycle;                        *)
(*   - the handler follows the watcher (PluginFollowsWatcher);             *)
(*   - no active object is misused (NeverFaults);                          *)
(*   - a remote lock stops what runs and cancels what is under way         *)
(*     (LockStops says what it may leave up);                              *)
(*   - no personality is started without a cable (StartsOnlyWithCable),    *)
(*     if no A-plug is ever connected;                                     *)
(*                                                                         *)
(* provided the plugin answers its last step of a start in the call.       *)
(* With clients none of them holds (see the runs start_cancelled,          *)
(* cancel_unserved and switch_without_cable).  The reason they do without  *)
(* is order: the handler runs before the lock, the observer and the        *)
(* device, and the watcher before the handler, so none of these cancels a  *)
(* step that has been answered.  Together below says what each has         *)
(* reached then.                                                           *)
(***************************************************************************)
EXTENDS UsbWatcherSafety

Answered == "FinishStart" \notin DeferredCalls
Unchanging == ClientOps \subseteq {"OnDisconnect", "Close"}

\* The steps of a start and of a stop of the handler.
StartSteps == {"PrepareStart", "StartUsb", "FinishStart"}
StopSteps  == {"PrepareStop", "StopUsb", "FinishStop"}

\* The handler has nothing, or has the personality up, and is at no work.
Gone(h) == h.iState = "Idle" /\ ~h.active /\ h.plugin = None
IsUp(h) == h.iState = "Started" /\ ~h.active /\ h.plugin # None

\* The handler cleans up a start that failed, of which the watcher knows already.
CleaningUp(h) == /\ h.iState \in StopSteps /\ h.active
                 /\ h.plugin # None /\ h.isFailureCleanup
AtRest(h) == Gone(h) \/ CleaningUp(h)

\* The handler works for the watcher; the last step of a start is answered in the call.
Starting(h) == /\ h.iState \in StartSteps /\ h.active /\ h.iRequestStatus /\ h.plugin # None
               /\ h.iState = "FinishStart" => h.iStatus = KErrNone
Stopping(h) == /\ h.iState \in StopSteps /\ h.active /\ h.iRequestStatus
               /\ h.plugin # None /\ ~h.isFailureCleanup

\* How the handler h stands in each state of the watcher w, before and after it has
\* completed the request.  A change of personality would lead to more.
Together(w, h) ==
  \/ w.iState = "Idle" /\ ~w.active /\ AtRest(h)
  \/ w.iState = "Started" /\ ~w.active /\ IsUp(h)
  \/ w.iState = "Starting" /\ w.active /\ w.iStatus = Pending /\ Starting(h)
  \/ w.iState = "Starting" /\ w.active /\ w.iStatus = KErrNone /\ IsUp(h)
  \/ w.iState = "Starting" /\ w.active /\ w.iStatus \notin {Pending, KErrNone} /\ AtRest(h)
  \/ w.iState = "Stopping" /\ w.active /\ w.iStatus = Pending /\ Stopping(h)
  \/ w.iState = "Stopping" /\ w.active /\ w.iStatus # Pending /\ Gone(h)

\* The plugin prepares a start or a stop: USB Manager has not been told of it.
Preparing(h) == h.iState \in {"PrepareStart", "PrepareStop"}

\* No client has a change under way.
NoChange(w) == /\ ~w.iSetPersonalityOngoing /\ ~w.iSetPreviousPersonalityOngoing
               /\ ~w.iStopStartScenario

\* The plugin that is being prepared is that of the personality USB will be asked for.
Agreed(w, h) == h.iState = "PrepareStart" => h.plugin = w.iPersonalityId

\* The starter waits only for a process.
StarterWaiting(s) == s.active => s.iState # "Idle"

Loose(m) == /\ m.fault = NoFault /\ Together(m.w, m.h)
            /\ NoChange(m.w) /\ StarterWaiting(m.starter)
Calm(m)  == Loose(m) /\ Agreed(m.w, m.h)

\* Neither the watcher nor the last step of a start has been answered.
Waits(m) == /\ m.w.active => m.w.iStatus = Pending
            /\ m.h.iState # "FinishStart"

\* USB goes down, or stays with its plugin, or without one if what the plugin prepared is
\* cancelled or nothing was loaded; a plugin that is loaded is asked to prepare a start.
Down(g, h) ==
  /\ \/ h.usb = None
     \/ h.usb = g.usb /\ (h.plugin = g.plugin \/ g.plugin = None \/ Preparing(g))
  /\ h.plugin \in {g.plugin, None} \/ h.iState = "PrepareStart"

SameWatcher(v, w) ==
  /\ w.iState = v.iState /\ w.active = v.active
  /\ w.iSetPersonalityOngoing = v.iSetPersonalityOngoing
  /\ w.iSetPreviousPersonalityOngoing = v.iSetPreviousPersonalityOngoing
  /\ w.iStopStartScenario = v.iStopStartScenario
SameHandler(g, h) ==
  /\ h.iState = g.iState /\ h.active = g.active /\ h.plugin = g.plugin /\ h.usb = g.usb
  /\ h.isFailureCleanup = g.isFailureCleanup

\* The handler is left alone, or has come to rest with nothing loaded.
Settled(g, h) == SameHandler(g, h) \/ (Gone(h) /\ Down(g, h))

\* An operation that touches nothing of this.
Aside(m, n) ==
  /\ n \in Memory /\ n.fault = m.fault
  /\ SameWatcher(m.w, n.w) /\ n.w.iStatus = m.w.iStatus
  /\ SameHandler(m.h, n.h) /\ n.h.iStatus = m.h.iStatus
  /\ n.h.iRequestStatus = m.h.iRequestStatus
  /\ StarterWaiting(m.starter) => StarterWaiting(n.starter)

\* An operation that keeps all of it, with USB at most going down.
Kept(m, n) == n \in Memory /\ Calm(n) /\ Down(m.h, n.h)

\* An operation that touches nothing keeps what is not about ids.
LEMMA AsideKeepsLoose ==
  ASSUME NEW m, NEW n, Aside(m, n)
  PROVE  /\ Loose(m) => Loose(n)
         /\ Waits(m) => Waits(n)
         /\ Down(m.h, n.h)
BY DEF Aside, Loose, Waits, Down, SameWatcher, SameHandler, Together, NoChange,
       AtRest, Gone, IsUp, CleaningUp, Starting, Stopping

\* One that leaves the id alone keeps everything.
LEMMA AsideKeeps ==
  ASSUME NEW m, NEW n, Aside(m, n), Calm(m), n.w.iPersonalityId = m.w.iPersonalityId
  PROVE  Kept(m, n)
BY AsideKeepsLoose DEF Aside, Calm, Agreed, Kept, SameHandler

\* Two operations that touch nothing touch nothing.
LEMMA AsideTwice ==
  ASSUME NEW m, NEW n, NEW o, Aside(m, n), Aside(n, o)
  PROVE  Aside(m, o)
BY DEF Aside, SameWatcher, SameHandler

\* What goes down stays down, and what had a plugin to prepare is dropped but once.
LEMMA KeptTwice ==
  ASSUME NEW m, NEW n, NEW o, Settled(m.h, n.h), Kept(n, o)
  PROVE  Kept(m, o)
BY DEF Kept, Down, Settled, SameHandler, Gone, Preparing

\* So it does after an operation that touches nothing, and before one.
LEMMA AsideThenKept ==
  ASSUME NEW m, NEW n, NEW o, Aside(m, n), Kept(n, o)
  PROVE  Kept(m, o)
BY KeptTwice DEF Aside, Settled

\* A handler that is not idle has a plugin.
LEMMA BusyHasPlugin ==
  ASSUME NEW w, NEW h, Together(w, h), h.iState # "Idle"
  PROVE  h.plugin # None
BY DEF Together, AtRest, Gone, IsUp, CleaningUp, Starting, Stopping

\* Nothing is prepared unless the watcher is starting.
LEMMA NotPreparing ==
  ASSUME NEW m, Loose(m), m.w.iState # "Starting"
  PROVE  Calm(m)
BY DEF Loose, Calm, Agreed, Together, AtRest, Gone, IsUp, CleaningUp, Stopping, StopSteps

-----------------------------------------------------------------------------
\* Operations that touch nothing.

\* An operation that touches no more than flags and ids of the watcher.
AsideInWatcher(m, n) ==
  /\ n \in Memory /\ Aside(m, n) /\ n.w.iPersonalityId = m.w.iPersonalityId

\* Flags.
LEMMA FlagsAside ==
  ASSUME NEW m \in Memory, NEW b \in BOOLEAN
  PROVE  /\ AsideInWatcher(m, [m EXCEPT !.w.iStarted = b])
         /\ AsideInWatcher(m, [m EXCEPT !.w.iNormalStart = b])
         /\ AsideInWatcher(m, [m EXCEPT !.w.iSetPreviousPersonalityOnDisconnect = b])
         /\ AsideInWatcher(m, [m EXCEPT !.w.iPersonalityChangeOngoing = b])
<1>1. /\ [m EXCEPT !.w.iStarted = b] \in Memory
      /\ [m EXCEPT !.w.iNormalStart = b] \in Memory
      /\ [m EXCEPT !.w.iSetPreviousPersonalityOnDisconnect = b] \in Memory
      /\ [m EXCEPT !.w.iPersonalityChangeOngoing = b] \in Memory
  BY WatcherFlags
<1> QED BY <1>1 DEF AsideInWatcher, Aside, SameWatcher, SameHandler, Memory, Watcher

\* Ids.
LEMMA IdsAside ==
  ASSUME NEW m \in Memory, NEW p \in Personalities
  PROVE  /\ AsideInWatcher(m, [m EXCEPT !.w.iPrevPersonalityId = p])
         /\ Aside(m, [m EXCEPT !.w.iPersonalityId = p])
         /\ [m EXCEPT !.w.iPersonalityId = p] \in Memory
<1>1. /\ [m EXCEPT !.w.iPersonalityId = p] \in Memory
      /\ [m EXCEPT !.w.iPrevPersonalityId = p] \in Memory
  BY WatcherIds
<1> QED BY <1>1 DEF AsideInWatcher, Aside, SameWatcher, SameHandler, Memory, Watcher

\* The published personality.
LEMMA PublishAside ==
  ASSUME NEW m \in Memory, NEW q \in Personalities \cup {None}
  PROVE  AsideInWatcher(m, Publish(m, q))
<1>1. Publish(m, q) \in Memory
  BY PublishType
<1> QED BY <1>1 DEF AsideInWatcher, Aside, SameWatcher, SameHandler, Memory, Publish

\* Subscribing to and cancelling the observer of the global state.
LEMMA ObserverAside ==
  ASSUME NEW m \in Memory
  PROVE  /\ Aside(m, ObserveGlobalState(m)) /\ Aside(m, CancelObserver(m))
         /\ ObserveGlobalState(m).w = m.w /\ CancelObserver(m).w = m.w
BY ObserverType DEF ObserveGlobalState, CancelObserver, Aside, SameWatcher, SameHandler, Memory

\* Taking down the notes, hearing of a state, and telling the starter not to restart.
LEMMA NotesAside ==
  ASSUME NEW m \in Memory, NEW old, NEW new
  PROVE  /\ Aside(m, CancelAllNotes(m)) /\ CancelAllNotes(m).w = m.w
         /\ Aside(m, CancelCableConnectedNotifier(m))
         /\ CancelCableConnectedNotifier(m).w = m.w
         /\ Aside(m, HandlerStateChange(m, old, new)) /\ HandlerStateChange(m, old, new).w = m.w
         /\ Aside(m, StopRestarting(m)) /\ StopRestarting(m).w = m.w
<1>1. /\ CancelAllNotes(m) \in Memory /\ CancelCableConnectedNotifier(m) \in Memory
      /\ HandlerStateChange(m, old, new) \in Memory /\ StopRestarting(m) \in Memory
  BY CancelAllNotesType, HandlerStateChangeType, StopRestartingType
     DEF CancelAllNotes, CancelCableConnectedNotifier
<1>2. Aside(m, CancelAllNotes(m)) /\ CancelAllNotes(m).w = m.w
  <2>1. /\ CancelAllNotes(m).w = m.w /\ CancelAllNotes(m).fault = m.fault
        /\ CancelAllNotes(m).starter = m.starter
    BY DEF CancelAllNotes, Memory
  <2>2. /\ SameHandler(m.h, CancelAllNotes(m).h)
        /\ CancelAllNotes(m).h.iStatus = m.h.iStatus
        /\ CancelAllNotes(m).h.iRequestStatus = m.h.iRequestStatus
    BY DEF CancelAllNotes, SameHandler, Memory, Handler
  <2> QED BY <1>1, <2>1, <2>2 DEF Aside, SameWatcher
<1>4. Aside(m, CancelCableConnectedNotifier(m)) /\ CancelCableConnectedNotifier(m).w = m.w
  <2>1. /\ CancelCableConnectedNotifier(m).w = m.w
        /\ CancelCableConnectedNotifier(m).fault = m.fault
        /\ CancelCableConnectedNotifier(m).starter = m.starter
    BY DEF CancelCableConnectedNotifier, Memory
  <2>2. /\ SameHandler(m.h, CancelCableConnectedNotifier(m).h)
        /\ CancelCableConnectedNotifier(m).h.iStatus = m.h.iStatus
        /\ CancelCableConnectedNotifier(m).h.iRequestStatus = m.h.iRequestStatus
    BY DEF CancelCableConnectedNotifier, SameHandler, Memory, Handler
  <2> QED BY <1>1, <2>1, <2>2 DEF Aside, SameWatcher
<1>5. Aside(m, HandlerStateChange(m, old, new)) /\ HandlerStateChange(m, old, new).w = m.w
  <2>1. /\ HandlerStateChange(m, old, new).w = m.w
        /\ HandlerStateChange(m, old, new).fault = m.fault
        /\ HandlerStateChange(m, old, new).starter = m.starter
    BY DEF HandlerStateChange, Memory
  <2>2. /\ SameHandler(m.h, HandlerStateChange(m, old, new).h)
        /\ HandlerStateChange(m, old, new).h.iStatus = m.h.iStatus
        /\ HandlerStateChange(m, old, new).h.iRequestStatus = m.h.iRequestStatus
    BY DEF HandlerStateChange, SameHandler, Memory, Handler
  <2> QED BY <1>1, <2>1, <2>2 DEF Aside, SameWatcher
<1>3. Aside(m, StopRestarting(m)) /\ StopRestarting(m).w = m.w
  BY <1>1 DEF StopRestarting, Aside, SameWatcher, SameHandler, Memory, Starter, StarterWaiting
<1> QED BY <1>2, <1>3, <1>4, <1>5

\* Without a change under way Notify completes messages and no more.
LEMMA NotifyAside ==
  ASSUME NEW m \in Memory, NEW code \in Codes, NoChange(m.w)
  PROVE  /\ Aside(m, Notify(m, code))
         /\ Notify(m, code).w.iPersonalityId = m.w.iPersonalityId
<1> DEFINE c == [m EXCEPT !.w.iPersonalityChangeOngoing = FALSE]
<1>1. /\ c \in Memory /\ Aside(m, c) /\ c.w.iPersonalityId = m.w.iPersonalityId
      /\ ~c.w.iSetPersonalityOngoing /\ ~c.w.iSetPreviousPersonalityOngoing
  <2>1. c \in Memory
    BY WatcherFlags
  <2> QED BY <2>1 DEF Aside, SameWatcher, SameHandler, Memory, Watcher, NoChange
<1> HIDE DEF c
<1>2. Notify(m, code) = NotifySessions(c, code)
  BY <1>1 DEF Notify, EndSetPersonality, EndSetPreviousPersonality, c, NoChange
<1>3. NotifySessions(c, code) \in Memory
  BY <1>1, NotifySessionsType
<1>4. /\ Aside(c, NotifySessions(c, code))
      /\ NotifySessions(c, code).w.iPersonalityId = c.w.iPersonalityId
  BY <1>1, <1>3 DEF NotifySessions, Aside, SameWatcher, SameHandler, Memory
<1> QED BY <1>1, <1>2, <1>4, AsideTwice

-----------------------------------------------------------------------------
\* The starter of usbdevcon.

\* The starter's operations touch nothing else and never wait twice.
LEMMA StarterAside ==
  ASSUME NEW m \in Memory, StarterWaiting(m.starter)
  PROVE  /\ Aside(m, StarterStart(m)) /\ StarterStart(m).w = m.w
         /\ Aside(m, StartDevCon(m)) /\ StartDevCon(m).w = m.w
         /\ m.starter.active => Aside(m, StarterRunL(m)) /\ StarterRunL(m).w = m.w
<1>1. ASSUME NEW k \in Memory, StarterWaiting(k.starter)
      PROVE  Aside(k, StarterStart(k)) /\ StarterStart(k).w = k.w
  <2>1. StarterStart(k) \in Memory
    BY <1>1, StarterStartType
  <2>2. /\ StarterStart(k).w = k.w /\ StarterStart(k).h = k.h
        /\ StarterStart(k).fault = k.fault
    BY <1>1 DEF StarterStart, StarterWaits, StarterWaiting, Memory, Starter
  <2>3. StarterWaiting(StarterStart(k).starter)
    BY <1>1 DEF StarterStart, StarterWaits, StarterWaiting, Memory, Starter
  <2> HIDE DEF Memory
  <2> QED BY <2>1, <2>2, <2>3 DEF Aside, SameWatcher, SameHandler
<1>2. Aside(m, m)
  BY DEF Aside, SameWatcher, SameHandler
<1>3. Aside(m, StartDevCon(m)) /\ StartDevCon(m).w = m.w
  BY <1>1, <1>2 DEF StartDevCon
<1>4. ASSUME m.starter.active
      PROVE  Aside(m, StarterRunL(m)) /\ StarterRunL(m).w = m.w
  <2> DEFINE d == [m EXCEPT !.starter.active = FALSE]
             i == [d EXCEPT !.starter.iState = "Idle"]
  <2>1. StarterRunL(m) \in Memory
    BY StarterRunLType
  <2>2. /\ d.w = m.w /\ d.h = m.h /\ d.fault = m.fault /\ ~d.starter.active
    BY DEF Memory, Starter
  <2>3. i \in Memory /\ i.w = m.w /\ i.h = m.h /\ i.fault = m.fault /\ ~i.starter.active
    <3>1. [m.starter EXCEPT !.active = FALSE, !.iState = "Idle"] \in Starter
      BY DEF Memory, Starter, StarterStates
    <3>2. i = [m EXCEPT !.starter = [m.starter EXCEPT !.active = FALSE, !.iState = "Idle"]]
      BY DEF Memory, Starter
    <3> QED BY <3>1, <3>2 DEF Memory, Starter
  <2>4. Aside(i, StarterStart(i)) /\ StarterStart(i).w = i.w
    BY <1>1, <2>3 DEF StarterWaiting
  <2>5. Aside(m, i)
    BY <2>3 DEF Aside, SameWatcher, SameHandler, StarterWaiting
  <2>6. LET n == StarterWaits(d, "Running") IN
         n.w = m.w /\ n.h = m.h /\ n.fault = m.fault /\ StarterWaiting(n.starter)
    BY <2>2 DEF StarterWaits, StarterWaiting, Memory, Starter
  <2>7. CASE m.starter.iState = "WaitingRendezvous"
    <3>1. StarterRunL(m) = StarterWaits(d, "Running")
      BY <2>7 DEF StarterRunL
    <3> HIDE DEF d
    <3> QED BY <2>1, <2>6, <3>1 DEF Aside, SameWatcher, SameHandler
  <2>8. CASE m.starter.iState = "Running"
    <3>1. StarterRunL(m) \in {StarterStart(i), i}
      BY <2>8 DEF StarterRunL
    <3> HIDE DEF i
    <3> QED BY <2>3, <2>4, <2>5, <3>1, AsideTwice
  <2>9. m.starter.iState # "Idle"
    BY <1>4 DEF StarterWaiting
  <2> QED BY <2>7, <2>8, <2>9 DEF Memory, Starter, StarterStates
<1> QED BY <1>1, <1>3, <1>4

-----------------------------------------------------------------------------
\* The operations of the handler, when nothing is misused.

\* SetActive() of a handler that is not active.
LEMMA HandlerActiveDoes ==
  ASSUME NEW m \in Memory, NEW st \in Statuses, ~m.h.active
  PROVE  LET n == HandlerActive(m, st) IN
         /\ n \in Memory /\ n.w = m.w /\ n.fault = m.fault /\ n.starter = m.starter
         /\ n.h.active /\ n.h.iStatus = st /\ n.h.iState = m.h.iState
         /\ n.h.plugin = m.h.plugin /\ n.h.usb = m.h.usb
         /\ n.h.iRequestStatus = m.h.iRequestStatus
         /\ n.h.isFailureCleanup = m.h.isFailureCleanup
<1>1. HandlerActive(m, st) \in Memory
  BY HandlerActiveType
<1> QED BY <1>1 DEF HandlerActive, Memory, Handler

\* Completing a request that is held.
LEMMA CompleteRequestDoes ==
  ASSUME NEW m \in Memory, NEW code \in Codes, m.h.iRequestStatus
  PROVE  LET n == CompleteRequest(m, code) IN
         /\ n \in Memory /\ n.fault = m.fault /\ n.starter = m.starter
         /\ SameWatcher(m.w, n.w) /\ n.w.iPersonalityId = m.w.iPersonalityId
         /\ n.w.iStatus = code
         /\ SameHandler(m.h, n.h) /\ n.h.iStatus = m.h.iStatus
<1>1. CompleteRequest(m, code) \in Memory
  BY CompleteRequestType
<1>2. CompleteRequest(m, code) = [m EXCEPT !.w.iStatus = code, !.h.iRequestStatus = FALSE]
  BY DEF CompleteRequest
<1> QED BY <1>1, <1>2 DEF SameWatcher, SameHandler, Memory, Handler, Watcher

\* Taking the request of the watcher.
LEMMA TakeRequestDoes ==
  ASSUME NEW m \in Memory
  PROVE  LET n == TakeRequest(m) IN
         /\ n \in Memory /\ n.fault = m.fault /\ n.starter = m.starter
         /\ SameWatcher(m.w, n.w) /\ n.w.iPersonalityId = m.w.iPersonalityId
         /\ n.w.iStatus = Pending
         /\ SameHandler(m.h, n.h) /\ n.h.iStatus = m.h.iStatus /\ n.h.iRequestStatus
<1>1. TakeRequest(m) \in Memory
  BY TakeRequestType
<1> QED BY <1>1 DEF TakeRequest, SameWatcher, SameHandler, Memory, Handler, Watcher

\* A start is refused, or the plugin is asked to prepare it.
LEMMA HandlerStartDoes ==
  ASSUME NEW m \in Memory, Loose(m), m.w.iState = "Idle"
  PROVE  LET n == HandlerStart(m) IN
         /\ n \in Memory /\ n.fault = NoFault /\ n.starter = m.starter
         /\ SameWatcher(m.w, n.w) /\ n.w.iPersonalityId = m.w.iPersonalityId
         /\ Down(m.h, n.h)
         /\ \/ n.w.iStatus = KErrGeneral /\ AtRest(n.h)
            \/ /\ n.w.iStatus = Pending /\ Starting(n.h)
               /\ n.h.plugin = m.w.iPersonalityId
<1> DEFINE r == TakeRequest(m)
           t == CancelAllNotes(r)
           id == m.w.iPersonalityId
           u == [t EXCEPT !.h.plugin = id, !.h.iState = "PrepareStart",
                          !.h.isFailureCleanup = FALSE]
           st == PluginStatus("PrepareStart")
           n == HandlerStart(m)
<1>1. /\ r \in Memory /\ t \in Memory /\ t.fault = NoFault /\ t.starter = m.starter
      /\ SameWatcher(m.w, t.w) /\ t.w.iPersonalityId = id /\ t.w.iStatus = Pending
      /\ SameHandler(m.h, t.h) /\ t.h.iRequestStatus
  <2>1. r \in Memory
    BY TakeRequestDoes
  <2>2. Aside(r, t) /\ t.w = r.w /\ t \in Memory
    BY <2>1, NotesAside DEF Aside
  <2>3. t.starter = r.starter
    BY DEF CancelAllNotes
  <2> HIDE DEF t
  <2>4. /\ r.fault = m.fault /\ r.starter = m.starter
        /\ SameWatcher(m.w, r.w) /\ r.w.iPersonalityId = id /\ r.w.iStatus = Pending
        /\ SameHandler(m.h, r.h) /\ r.h.iRequestStatus
    BY TakeRequestDoes
  <2> HIDE DEF r, id
  <2> QED BY <2>1, <2>2, <2>3, <2>4 DEF Aside, SameHandler, SameWatcher, Loose
<1>2. AtRest(m.h)
  BY CodesDiffer DEF Loose, Together
<1> HIDE DEF r, t
<1>3. CASE n = CompleteRequest(t, KErrGeneral)
  <2>1. /\ n \in Memory /\ n.fault = t.fault /\ n.starter = t.starter
        /\ SameWatcher(t.w, n.w) /\ n.w.iPersonalityId = t.w.iPersonalityId
        /\ n.w.iStatus = KErrGeneral
        /\ SameHandler(t.h, n.h)
    BY <1>1, <1>3, CompleteRequestDoes DEF Codes
  <2> HIDE DEF n, id
  <2>2. SameHandler(m.h, n.h) /\ SameWatcher(m.w, n.w)
    BY <1>1, <2>1 DEF SameHandler, SameWatcher
  <2>3. AtRest(n.h) /\ Down(m.h, n.h)
    BY <1>2, <2>2 DEF SameHandler, AtRest, Gone, CleaningUp, Down
  <2> QED BY <1>1, <2>1, <2>2, <2>3 DEF n, id
<1>4. CASE /\ id \in Personalities /\ m.h.plugin = None
           /\ n = HandlerActive(u, st)
  <2>1. Gone(m.h)
    BY <1>2, <1>4 DEF AtRest, CleaningUp
  <2>2. [t.h EXCEPT !.plugin = id, !.iState = "PrepareStart", !.isFailureCleanup = FALSE]
          \in Handler
    BY <1>1, <1>4 DEF Memory, Handler, HandlerStates
  <2>3. /\ u \in Memory /\ u.w = t.w /\ u.starter = t.starter /\ u.fault = t.fault
        /\ u.h.iState = "PrepareStart" /\ u.h.plugin = id /\ u.h.usb = t.h.usb
        /\ u.h.iRequestStatus = t.h.iRequestStatus /\ u.h.active = t.h.active
    BY <1>1, <2>2 DEF Memory, Handler
  <2>4. st \in Statuses /\ id # None
    BY <1>4, PluginStatusType, HandlerAssumption
  <2>5. ~u.h.active /\ u.h.usb = m.h.usb
    BY <1>1, <2>1, <2>3 DEF SameHandler, Gone
  <2> HIDE DEF u, st, id, n
  <2>6. /\ n \in Memory /\ n.w = u.w /\ n.fault = u.fault /\ n.starter = u.starter
        /\ n.h.active /\ n.h.iState = u.h.iState
        /\ n.h.plugin = u.h.plugin /\ n.h.usb = u.h.usb
        /\ n.h.iRequestStatus = u.h.iRequestStatus
    BY <1>4, <2>3, <2>4, <2>5, HandlerActiveDoes
  <2>7. Starting(n.h) /\ Down(m.h, n.h)
    BY <1>1, <1>4, <2>3, <2>4, <2>5, <2>6 DEF Starting, StartSteps, Down
  <2> QED BY <1>1, <2>3, <2>6, <2>7 DEF n, id
<1>5. n = CompleteRequest(t, KErrGeneral)
      \/ (id \in Personalities /\ m.h.plugin = None /\ n = HandlerActive(u, st))
  BY DEF HandlerStart, t, r
<1> QED BY <1>3, <1>4, <1>5

\* A personality that is up is asked to prepare its stop.
LEMMA HandlerStopDoes ==
  ASSUME NEW m \in Memory, Loose(m), m.w.iState = "Started"
  PROVE  LET n == HandlerStop(m) IN
         /\ n \in Memory /\ n.fault = NoFault /\ n.starter = m.starter
         /\ SameWatcher(m.w, n.w) /\ n.w.iStatus = Pending
         /\ Stopping(n.h) /\ n.h.plugin = m.h.plugin /\ n.h.usb = m.h.usb
         /\ n.h.plugin # None
<1> DEFINE r == TakeRequest(m)
           t == [r EXCEPT !.h.iState = "PrepareStop", !.h.isFailureCleanup = FALSE]
           st == PluginStatus("PrepareStop")
           n == HandlerStop(m)
<1>1. IsUp(m.h)
  BY DEF Loose, Together
<1>2. /\ r \in Memory /\ r.fault = NoFault /\ r.starter = m.starter
      /\ SameWatcher(m.w, r.w) /\ r.w.iStatus = Pending
      /\ SameHandler(m.h, r.h) /\ r.h.iRequestStatus
  BY TakeRequestDoes DEF Loose
<1> HIDE DEF r
<1>3. r.h.plugin # None /\ ~r.h.active
  BY <1>1, <1>2 DEF SameHandler, IsUp
<1>4. [r.h EXCEPT !.iState = "PrepareStop", !.isFailureCleanup = FALSE] \in Handler
  BY <1>2 DEF Memory, Handler, HandlerStates
<1>5. /\ t \in Memory /\ t.w = r.w /\ t.starter = r.starter /\ t.fault = r.fault
      /\ t.h.iState = "PrepareStop" /\ t.h.plugin = r.h.plugin /\ t.h.usb = r.h.usb
      /\ t.h.iRequestStatus = r.h.iRequestStatus /\ t.h.active = r.h.active
      /\ ~t.h.isFailureCleanup
  BY <1>2, <1>4 DEF Memory, Handler
<1>6. n = HandlerActive(t, st)
  BY <1>3 DEF HandlerStop, PrepareStop, r
<1>7. st \in Statuses
  BY PluginStatusType
<1> HIDE DEF t, n, st
<1>8. /\ n \in Memory /\ n.w = t.w /\ n.fault = t.fault /\ n.starter = t.starter
      /\ n.h.active /\ n.h.iState = t.h.iState
      /\ n.h.plugin = t.h.plugin /\ n.h.usb = t.h.usb
      /\ n.h.iRequestStatus = t.h.iRequestStatus
      /\ n.h.isFailureCleanup = t.h.isFailureCleanup
  BY <1>3, <1>5, <1>6, <1>7, HandlerActiveDoes
<1>9. Stopping(n.h)
  BY <1>2, <1>3, <1>5, <1>8 DEF Stopping, StopSteps
<1> QED BY <1>1, <1>2, <1>3, <1>5, <1>8, <1>9 DEF n, SameHandler

\* Cancelling a handler at work for the watcher, before the last step of a start, leaves
\* it idle; USB stays up if only the plugin had been told.
LEMMA HandlerCancelDoes ==
  ASSUME NEW m \in Memory, m.h.active, m.h.iRequestStatus,
         m.h.iState \notin {"Started", "FinishStart"}
  PROVE  LET n == HandlerCancel(m) IN
         /\ n \in Memory /\ n.fault = m.fault /\ n.starter = m.starter
         /\ SameWatcher(m.w, n.w) /\ n.w.iPersonalityId = m.w.iPersonalityId
         /\ n.w.iStatus = KErrCancel
         /\ Gone(n.h) /\ n.h.usb \in {None, m.h.usb}
         /\ m.h.iState \in UsbEnds => n.h.usb = None
<1> DEFINE g == Cancelled(m.h)
           d == [m EXCEPT !.h = g, !.fault = m.fault]
           t == CancelAllNotes(d)
           n == HandlerCancel(m)
<1>1. g \in Handler
  BY CancelledType DEF Memory
<1>2. /\ g.iState = "Idle" /\ ~g.active /\ g.plugin = None
      /\ g.iRequestStatus /\ g.usb \in {None, m.h.usb}
      /\ m.h.iState \in UsbEnds => g.usb = None
  BY DEF Cancelled, Memory, Handler
<1>3. n = CompleteRequest(t, KErrCancel)
  BY DEF HandlerCancel
<1> HIDE DEF g
<1>4. d \in Memory /\ d.w = m.w /\ d.fault = m.fault /\ d.starter = m.starter /\ d.h = g
  BY <1>1 DEF Memory
<1> HIDE DEF d
<1>5. Aside(d, t) /\ t.w = d.w /\ t \in Memory
  BY <1>4, NotesAside DEF Aside
<1>6. t.starter = d.starter
  BY DEF CancelAllNotes
<1> HIDE DEF t, n
<1>7. t.h.iRequestStatus
  BY <1>2, <1>4, <1>5 DEF Aside
<1>8. /\ n \in Memory /\ n.fault = t.fault /\ n.starter = t.starter
      /\ SameWatcher(t.w, n.w) /\ n.w.iPersonalityId = t.w.iPersonalityId
      /\ n.w.iStatus = KErrCancel /\ SameHandler(t.h, n.h)
  BY <1>3, <1>5, <1>7, CompleteRequestDoes DEF Codes
<1>9. /\ Gone(n.h) /\ n.h.usb \in {None, m.h.usb}
      /\ m.h.iState \in UsbEnds => n.h.usb = None
  BY <1>2, <1>4, <1>5, <1>8 DEF Gone, Aside, SameHandler
<1> QED BY <1>4, <1>5, <1>6, <1>8, <1>9 DEF n, Aside

-----------------------------------------------------------------------------
\* The operations of the watcher.

\* SetActive() of a watcher that is not active.
LEMMA WatcherActiveDoes ==
  ASSUME NEW m \in Memory, NEW s \in WatcherStates, ~m.w.active
  PROVE  LET n == WatcherActive(m, s) IN
         /\ n \in Memory /\ n.h = m.h /\ n.fault = m.fault /\ n.starter = m.starter
         /\ n.w.active /\ n.w.iState = s /\ n.w.iStatus = m.w.iStatus
         /\ n.w.iPersonalityId = m.w.iPersonalityId
         /\ NoChange(m.w) => NoChange(n.w)
<1>1. WatcherActive(m, s) \in Memory
  BY WatcherActiveType
<1> QED BY <1>1 DEF WatcherActive, NoChange, Memory, Watcher

\* A launch from Idle, with the watcher's id whatever it is.
LEMMA LaunchKeeps ==
  ASSUME NEW m \in Memory, Loose(m), m.w.iState = "Idle"
  PROVE  Kept(m, Launch(m))
<1> DEFINE id == m.w.iPersonalityId
           p == Publish(m, id)
           q == [p EXCEPT !.w.iStarted = TRUE]
           k == HandlerStart(q)
           n == WatcherActive(k, "Starting")
<1>1. id \in Personalities
  BY DEF Memory, Watcher
<1>2. Aside(m, p) /\ p \in Memory
  BY <1>1, PublishAside DEF AsideInWatcher
<1> HIDE DEF p
<1>3. Aside(p, q) /\ q \in Memory
  BY <1>1, <1>2, FlagsAside DEF AsideInWatcher
<1>4. Loose(q) /\ q.w.iState = "Idle" /\ SameHandler(m.h, q.h)
  <2> HIDE DEF q
  <2>1. Aside(m, q)
    BY <1>2, <1>3, AsideTwice
  <2> QED BY <2>1, AsideKeepsLoose DEF Aside, SameWatcher
<1> HIDE DEF q, id
<1>5. /\ k \in Memory /\ k.fault = NoFault /\ k.starter = q.starter
      /\ SameWatcher(q.w, k.w) /\ k.w.iPersonalityId = q.w.iPersonalityId
      /\ Down(q.h, k.h)
      /\ \/ k.w.iStatus = KErrGeneral /\ AtRest(k.h)
         \/ /\ k.w.iStatus = Pending /\ Starting(k.h)
            /\ k.h.plugin = q.w.iPersonalityId
  BY <1>3, <1>4, HandlerStartDoes
<1> HIDE DEF k
<1>6. ~k.w.active /\ NoChange(k.w) /\ StarterWaiting(k.starter)
  BY <1>4, <1>5 DEF Loose, Together, SameWatcher, NoChange
<1>7. /\ n \in Memory /\ n.h = k.h /\ n.fault = k.fault /\ n.starter = k.starter
      /\ n.w.active /\ n.w.iState = "Starting" /\ n.w.iStatus = k.w.iStatus
      /\ n.w.iPersonalityId = k.w.iPersonalityId /\ NoChange(n.w)
  BY <1>5, <1>6, WatcherActiveDoes DEF WatcherStates
<1>8. Launch(m) = n
  BY DEF Launch, n, k, q, p, id
<1> HIDE DEF n
<1>9. Loose(n)
  BY <1>5, <1>6, <1>7, CodesDiffer DEF Loose, Together
<1>10. Agreed(n.w, n.h)
  BY <1>5, <1>7 DEF Agreed, AtRest, Gone, CleaningUp, StopSteps
<1>11. Down(m.h, n.h)
  BY <1>4, <1>5, <1>7 DEF Down, SameHandler, Preparing
<1> QED BY <1>7, <1>8, <1>9, <1>10, <1>11 DEF Kept, Calm

\* A start, which launches from Idle only.
LEMMA StartKeeps ==
  ASSUME NEW m \in Memory, Calm(m)
  PROVE  Kept(m, Start(m))
<1>1. CASE m.w.iState # "Idle"
  BY <1>1 DEF Start, Kept, Down
<1>2. CASE m.w.iState = "Idle"
  <2> DEFINE c == [m EXCEPT !.w.iStarted = FALSE]
             d == [c EXCEPT !.w.iNormalStart = FALSE]
             e == [d EXCEPT !.w.iNormalStart = TRUE]
             id == m.w.iPersonalityId
  <2>1. id \in Personalities
    BY DEF Memory, Watcher
  <2>2. Aside(m, c) /\ c \in Memory /\ c.w.iPersonalityId = id
    BY FlagsAside DEF AsideInWatcher
  <2> HIDE DEF c, id
  <2>3. Aside(c, d) /\ d \in Memory /\ d.w.iPersonalityId = c.w.iPersonalityId
    BY <2>2, FlagsAside DEF AsideInWatcher
  <2> HIDE DEF d
  <2>4. Aside(d, e) /\ e \in Memory /\ e.w.iPersonalityId = d.w.iPersonalityId
    BY <2>3, FlagsAside DEF AsideInWatcher
  <2> HIDE DEF e
  <2>5. ASSUME NEW k \in Memory, Aside(m, k)
        PROVE  /\ Kept(m, Launch(k))
               /\ k.w.iPersonalityId = id => Kept(m, k)
    <3>1. Loose(k) /\ k.w.iState = "Idle"
      BY <1>2, <2>5, AsideKeepsLoose DEF Calm, Aside, SameWatcher
    <3>2. Kept(k, Launch(k))
      BY <3>1, LaunchKeeps
    <3> QED BY <2>5, <3>2, AsideThenKept, AsideKeeps DEF id
  <2>6. Aside(m, d) /\ Aside(m, e)
    BY <2>2, <2>3, <2>4, AsideTwice
  <2>7. Kept(m, StartCharging(d))
    <3> DEFINE o == ObserveGlobalState(d)
               n == [o EXCEPT !.w.iPrevPersonalityId = d.w.iPersonalityId]
               u == [n EXCEPT !.w.iPersonalityId = ChargingPersonality]
               x == [u EXCEPT !.w.iSetPreviousPersonalityOnDisconnect = TRUE]
    <3>1. Aside(d, o) /\ o \in Memory /\ o.w = d.w
      BY <2>3, ObserverAside DEF Aside
    <3> HIDE DEF o
    <3>2. d.w.iPersonalityId \in Personalities
      BY <2>1, <2>2, <2>3
    <3>3. Aside(o, n) /\ n \in Memory /\ n.w.iPersonalityId = o.w.iPersonalityId
      BY <3>1, <3>2, IdsAside DEF AsideInWatcher
    <3> HIDE DEF n
    <3>4. Aside(m, n)
      BY <2>6, <3>1, <3>3, AsideTwice
    <3>5. CASE ChargingPersonality = None
      BY <2>2, <2>3, <2>5, <3>1, <3>3, <3>4, <3>5 DEF StartCharging, n, o
    <3>6. CASE ChargingPersonality # None
      <4>1. ChargingPersonality \in Personalities
        BY <3>6, WatcherAssumption
      <4>2. Aside(n, u) /\ u \in Memory
        BY <3>3, <4>1, IdsAside
      <4> HIDE DEF u
      <4>3. Aside(u, x) /\ x \in Memory
        BY <4>2, FlagsAside DEF AsideInWatcher
      <4> HIDE DEF x
      <4>4. Aside(m, x)
        BY <3>4, <4>2, <4>3, AsideTwice
      <4>5. StartCharging(d) = Launch(x)
        BY <3>6 DEF StartCharging, x, u, n, o
      <4> QED BY <2>5, <4>3, <4>4, <4>5
    <3> QED BY <3>5, <3>6
  <2>8. Kept(m, StartNormal(d))
    <3> DEFINE o == CancelObserver(e)
    <3>1. Aside(e, o) /\ o \in Memory
      BY <2>4, ObserverAside DEF Aside
    <3>2. StartNormal(d) \in {e, Launch(o)}
      BY DEF StartNormal, e
    <3> HIDE DEF o
    <3>3. Aside(m, o)
      BY <2>6, <3>1, AsideTwice
    <3> QED BY <2>2, <2>3, <2>4, <2>5, <2>6, <3>1, <3>2, <3>3
  <2>9. Kept(m, ObserveGlobalState(d))
    <3>1. Aside(d, ObserveGlobalState(d)) /\ ObserveGlobalState(d).w = d.w
      BY <2>3, ObserverAside
    <3>2. Aside(m, ObserveGlobalState(d)) /\ ObserveGlobalState(d) \in Memory
      BY <2>6, <3>1, AsideTwice DEF Aside
    <3> QED BY <2>2, <2>3, <2>5, <3>1, <3>2
  <2>10. Start(m) \in {StartCharging(d), StartNormal(d), ObserveGlobalState(d)}
    <3>1. d = [m EXCEPT !.w.iStarted = FALSE, !.w.iNormalStart = FALSE]
      BY DEF d, c
    <3> QED BY <1>2, <3>1 DEF Start
  <2> QED BY <2>7, <2>8, <2>9, <2>10
<1> QED BY <1>1, <1>2

\* A cancellation, when nothing has been answered, leaves nothing loaded of what was
\* under way.
LEMMA CancelKeeps ==
  ASSUME NEW m \in Memory, Loose(m), Waits(m)
  PROVE  /\ Kept(m, Cancel(m)) /\ Settled(m.h, Cancel(m).h)
         /\ m.w.active => Gone(Cancel(m).h)
         /\ ~m.w.active => Cancel(m) = m
<1>1. CASE ~m.w.active
  BY <1>1, NotPreparing DEF Cancel, Kept, Down, Loose, Together, Settled, SameHandler
<1>2. CASE m.w.active
  <2> DEFINE k == HandlerCancel(m)
             p == Publish(k, None)
             n == [p EXCEPT !.w.iState = "Idle"]
             o == [n EXCEPT !.w.active = FALSE]
  <2>1. /\ m.w.iState \in {"Starting", "Stopping"}
        /\ m.h.active /\ m.h.iRequestStatus
        /\ m.h.iState \notin {"Started", "FinishStart"}
        /\ m.h.iState \in UsbEnds \/ Preparing(m.h)
    BY <1>2, CodesDiffer DEF Loose, Waits, Together, Starting, Stopping, StartSteps, StopSteps,
                             UsbEnds, Preparing
  <2>2. /\ k \in Memory /\ k.fault = NoFault /\ k.starter = m.starter
        /\ SameWatcher(m.w, k.w) /\ k.w.iStatus = KErrCancel
        /\ Gone(k.h) /\ k.h.usb \in {None, m.h.usb}
        /\ m.h.iState \in UsbEnds => k.h.usb = None
    BY <2>1, HandlerCancelDoes DEF Loose
  <2> HIDE DEF k
  <2>3. /\ p \in Memory /\ p.w = k.w /\ p.h = k.h /\ p.fault = k.fault
        /\ p.starter = k.starter
    BY <2>2, PublishType DEF Publish, Memory
  <2> HIDE DEF p
  <2>4. /\ n \in Memory /\ n.h = p.h /\ n.fault = p.fault /\ n.starter = p.starter
        /\ n.w.iState = "Idle" /\ n.w.iStatus = p.w.iStatus
        /\ NoChange(p.w) => NoChange(n.w)
    <3>1. n \in Memory
      BY <2>3, WatcherStateType DEF WatcherStates
    <3> QED BY <2>3, <3>1 DEF NoChange, Memory, Watcher
  <2>5. Cancel(m) = [n EXCEPT !.w.active = FALSE]
    <3>1. Cancel(m) = [n EXCEPT !.w.active = FALSE, !.fault = @]
      <4>1. n.w.iStatus # Pending
        BY <2>2, <2>3, <2>4, CodesDiffer
      <4> QED BY <1>2, <2>1, <4>1 DEF Cancel, n, p, k
    <3> QED BY <2>4, <3>1 DEF Memory
  <2> HIDE DEF n
  <2>6. /\ o \in Memory /\ o.h = n.h /\ o.fault = n.fault /\ o.starter = n.starter
        /\ o.w.iState = n.w.iState /\ ~o.w.active
        /\ NoChange(n.w) => NoChange(o.w)
    <3>1. o \in Memory
      BY <2>4, WatcherFlags
    <3> QED BY <2>4, <3>1 DEF NoChange, Memory, Watcher
  <2> HIDE DEF o
  <2>7. NoChange(o.w)
    BY <2>2, <2>3, <2>4, <2>6 DEF NoChange, SameWatcher, Loose
  <2>8. Loose(o)
    BY <2>2, <2>3, <2>4, <2>6, <2>7
       DEF Loose, Together, AtRest, Gone
  <2>9. Calm(o) /\ Gone(o.h)
    BY <2>2, <2>3, <2>4, <2>6, <2>8, NotPreparing DEF Gone
  <2>10. Down(m.h, o.h)
    BY <2>1, <2>2, <2>3, <2>4, <2>6, <2>9 DEF Down, Gone
  <2> QED BY <1>2, <2>5, <2>6, <2>9, <2>10 DEF Kept, Settled, o
<1> QED BY <1>1, <1>2

\* The stop of a personality that is up.
LEMMA StopStartedKeeps ==
  ASSUME NEW m \in Memory, Loose(m), m.w.iState = "Started"
  PROVE  Kept(m, WatcherActive(HandlerStop(m), "Stopping"))
<1> DEFINE k == HandlerStop(m)
           n == WatcherActive(k, "Stopping")
<1>1. /\ k \in Memory /\ k.fault = NoFault /\ k.starter = m.starter
      /\ SameWatcher(m.w, k.w) /\ k.w.iStatus = Pending
      /\ Stopping(k.h) /\ k.h.plugin = m.h.plugin /\ k.h.usb = m.h.usb /\ k.h.plugin # None
  BY HandlerStopDoes
<1> HIDE DEF k
<1>2. ~k.w.active /\ NoChange(k.w)
  BY <1>1 DEF Loose, Together, SameWatcher, NoChange
<1>3. /\ n \in Memory /\ n.h = k.h /\ n.fault = k.fault /\ n.starter = k.starter
      /\ n.w.active /\ n.w.iState = "Stopping" /\ n.w.iStatus = k.w.iStatus
      /\ NoChange(n.w)
  BY <1>1, <1>2, WatcherActiveDoes DEF WatcherStates
<1> HIDE DEF n
<1>4. Loose(n)
  BY <1>1, <1>3 DEF Loose, Together
<1>5. Calm(n) /\ Down(m.h, n.h)
  BY <1>1, <1>3, <1>4, NotPreparing DEF Down
<1> QED BY <1>3, <1>5 DEF Kept, n, k

\* A stop, which cancels a start under way.
LEMMA StopKeeps ==
  ASSUME NEW m \in Memory, Loose(m), Waits(m)
  PROVE  Kept(m, Stop(m))
BY StopStartedKeeps, CancelKeeps, NotPreparing DEF Stop, Kept, Down

-----------------------------------------------------------------------------
\* RunL of the watcher and of the handler.

\* The watcher comes to the state its answer leads to.
LEMMA WatcherRunLKeeps ==
  ASSUME NEW m \in Memory, Calm(m), m.w.active, m.w.iStatus \in Codes
  PROVE  Kept(m, WatcherRunL(m))
<1> DEFINE ret == m.w.iStatus
           d == [m EXCEPT !.w.active = FALSE]
           k == Notify(d, ret)
           g == [k EXCEPT !.w.iStopStartScenario = FALSE]
           p == Publish(g, None)
           stopped == [d EXCEPT !.w.iState = "Idle"]
<1>1. /\ d \in Memory /\ d.h = m.h /\ d.fault = NoFault /\ d.starter = m.starter
      /\ ~d.w.active /\ d.w.iState = m.w.iState /\ NoChange(d.w)
  <2>1. d \in Memory
    BY WatcherFlags
  <2> QED BY <2>1 DEF Memory, Watcher, Calm, Loose, NoChange
<1>2. StarterWaiting(m.starter)
  BY DEF Calm, Loose
\* What is left to show of a state that does not wait.
<1>3. ASSUME NEW n \in Memory, n.fault = NoFault, SameHandler(m.h, n.h), ~n.w.active,
             NoChange(n.w), StarterWaiting(n.starter),
             \/ n.w.iState = "Idle" /\ AtRest(m.h)
             \/ n.w.iState = "Started" /\ IsUp(m.h)
      PROVE  Kept(m, n)
  <2>1. Loose(n)
    BY <1>3 DEF Calm, Loose, Together, SameHandler, AtRest, Gone, IsUp, CleaningUp
  <2> QED BY <1>3, <2>1, NotPreparing DEF Kept, Down, SameHandler
<1>4. CASE m.w.iState = "Starting"
  <2>1. Aside(d, k) /\ k \in Memory
    BY <1>1, NotifyAside DEF Aside
  <2> HIDE DEF k
  <2>2. /\ g \in Memory /\ g.h = k.h /\ g.fault = k.fault /\ g.starter = k.starter
        /\ ~g.w.active /\ NoChange(g.w)
    <3>1. g \in Memory
      BY <2>1, WatcherFlags
    <3>2. ~k.w.active /\ NoChange(k.w)
      BY <1>1, <2>1 DEF Aside, SameWatcher, NoChange
    <3> QED BY <2>1, <3>1, <3>2 DEF NoChange, Memory, Watcher
  <2> HIDE DEF g
  <2>3. /\ p \in Memory /\ p.h = g.h /\ p.fault = g.fault /\ p.starter = g.starter
        /\ p.w = g.w
    BY <2>2, PublishType DEF Publish, Memory
  <2> HIDE DEF p
  <2>4. /\ SameHandler(m.h, g.h) /\ g.fault = NoFault /\ StarterWaiting(g.starter)
    BY <1>1, <1>2, <2>1, <2>2 DEF Aside
  <2>5. CASE ret = KErrNone
    <3> DEFINE n == [g EXCEPT !.w.iState = "Started"]
    <3>1. IsUp(m.h)
      BY <1>4, <2>5, CodesDiffer DEF Calm, Loose, Together
    <3>2. n \in Memory
      BY <2>2, WatcherStateType DEF WatcherStates
    <3>3. /\ n.h = g.h /\ n.fault = g.fault /\ n.starter = g.starter
          /\ n.w.iState = "Started" /\ ~n.w.active /\ NoChange(n.w)
      BY <2>2, <3>2 DEF NoChange, Memory, Watcher
    <3>4. WatcherRunL(m) = n
      BY <1>4, <2>5 DEF WatcherRunL, g, k, d
    <3> HIDE DEF n
    <3> QED BY <1>3, <2>4, <3>1, <3>2, <3>3, <3>4
  <2>6. CASE ret # KErrNone
    <3> DEFINE n == [p EXCEPT !.w.iState = "Idle"]
    <3>1. AtRest(m.h)
      BY <1>4, <2>6, CodesDiffer DEF Calm, Loose, Together
    <3>2. n \in Memory
      BY <2>3, WatcherStateType DEF WatcherStates
    <3>3. /\ n.h = p.h /\ n.fault = p.fault /\ n.starter = p.starter
          /\ n.w.iState = "Idle" /\ ~n.w.active /\ NoChange(n.w)
      BY <2>2, <2>3, <3>2 DEF NoChange, Memory, Watcher
    <3>4. WatcherRunL(m) = n
      BY <1>4, <2>6 DEF WatcherRunL, p, g, k, d
    <3> HIDE DEF n
    <3> QED BY <1>3, <2>3, <2>4, <3>1, <3>2, <3>3, <3>4
  <2> QED BY <2>5, <2>6
<1>5. CASE m.w.iState = "Stopping"
  <2> DEFINE n == Publish(stopped, None)
  <2>1. Gone(m.h)
    BY <1>5, CodesDiffer DEF Calm, Loose, Together
  <2>2. /\ stopped \in Memory /\ stopped.h = d.h /\ stopped.fault = d.fault
        /\ stopped.starter = d.starter
        /\ stopped.w.iState = "Idle" /\ ~stopped.w.active /\ NoChange(stopped.w)
    <3>1. stopped \in Memory
      BY <1>1, WatcherStateType DEF WatcherStates
    <3> QED BY <1>1, <3>1 DEF NoChange, Memory, Watcher
  <2>3. WatcherRunL(m) = n
    BY <1>1, <1>5 DEF WatcherRunL, NoChange, Calm, Loose
  <2> HIDE DEF stopped
  <2>4. /\ n \in Memory /\ n.h = stopped.h /\ n.fault = stopped.fault
        /\ n.starter = stopped.starter /\ n.w = stopped.w
    BY <2>2, PublishType DEF Publish, Memory
  <2> HIDE DEF n
  <2>5. SameHandler(m.h, n.h)
    BY <1>1, <2>2, <2>4 DEF SameHandler
  <2> QED BY <1>1, <1>2, <1>3, <2>1, <2>2, <2>3, <2>4, <2>5 DEF AtRest
<1>6. m.w.iState \in {"Starting", "Stopping"}
  BY DEF Calm, Loose, Together
<1> QED BY <1>4, <1>5, <1>6

\* The handler goes on to its next step.
GoesOn(m, s, st) == HandlerActive([[m EXCEPT !.h.active = FALSE] EXCEPT !.h.iState = s], st)

LEMMA HandlerGoesOn ==
  ASSUME NEW m \in Memory, NEW s \in HandlerStates, NEW st \in Statuses
  PROVE  LET n == GoesOn(m, s, st) IN
         /\ n \in Memory /\ n.w = m.w /\ n.fault = m.fault /\ n.starter = m.starter
         /\ n.h.active /\ n.h.iStatus = st /\ n.h.iState = s
         /\ n.h.plugin = m.h.plugin /\ n.h.usb = m.h.usb
         /\ n.h.iRequestStatus = m.h.iRequestStatus
         /\ n.h.isFailureCleanup = m.h.isFailureCleanup
<1> DEFINE d == [[m EXCEPT !.h.active = FALSE] EXCEPT !.h.iState = s]
           n == HandlerActive(d, st)
<1>1. [m.h EXCEPT !.active = FALSE, !.iState = s] \in Handler
  BY DEF Memory, Handler
<1>2. /\ d \in Memory /\ d.w = m.w /\ d.fault = m.fault /\ d.starter = m.starter
      /\ ~d.h.active /\ d.h.iState = s
      /\ d.h.plugin = m.h.plugin /\ d.h.usb = m.h.usb
      /\ d.h.iRequestStatus = m.h.iRequestStatus
      /\ d.h.isFailureCleanup = m.h.isFailureCleanup
  BY <1>1 DEF Memory, Handler
<1> HIDE DEF d
<1>3. /\ n \in Memory /\ n.w = d.w /\ n.fault = d.fault /\ n.starter = d.starter
      /\ n.h.active /\ n.h.iStatus = st /\ n.h.iState = d.h.iState
      /\ n.h.plugin = d.h.plugin /\ n.h.usb = d.h.usb
      /\ n.h.iRequestStatus = d.h.iRequestStatus
      /\ n.h.isFailureCleanup = d.h.isFailureCleanup
  BY <1>2, HandlerActiveDoes
<1>4. GoesOn(m, s, st) = n
  BY DEF GoesOn, d
<1> HIDE DEF n
<1> QED BY <1>2, <1>3, <1>4

\* USB is brought up for the plugin that has been prepared.
BroughtUp(g, h) == /\ g.plugin # None /\ Preparing(g) /\ ~Preparing(h)
                   /\ h.plugin = g.plugin /\ h.usb = g.plugin

\* The steps of a start: a failure is told to the watcher while the handler cleans up.
LEMMA StartStepKeeps ==
  ASSUME NEW m \in Memory, Calm(m), m.h.active, m.h.iStatus \in Codes, Answered,
         m.w.iState = "Starting", m.w.iStatus = Pending
  PROVE  LET n == HandlerRunL(m) IN
         n \in Memory /\ Calm(n) /\ (Down(m.h, n.h) \/ BroughtUp(m.h, n.h))
<1> DEFINE ret == m.h.iStatus
           d == [m EXCEPT !.h.active = FALSE]
           n == HandlerRunL(m)
<1>1. /\ Starting(m.h) /\ NoChange(m.w) /\ StarterWaiting(m.starter)
      /\ m.fault = NoFault /\ Agreed(m.w, m.h) /\ m.w.active
  BY CodesDiffer DEF Calm, Loose, Together
<1>2. CASE m.h.iState = "PrepareStart"
  <2> DEFINE k == GoesOn(m, "StartUsb", Pending)
             id == m.w.iPersonalityId
             x == [k EXCEPT !.h.usb = id]
  <2>1. /\ k \in Memory /\ k.w = m.w /\ k.fault = m.fault /\ k.starter = m.starter
        /\ k.h.active /\ k.h.iState = "StartUsb"
        /\ k.h.plugin = m.h.plugin /\ k.h.iRequestStatus = m.h.iRequestStatus
    <3>1. "StartUsb" \in HandlerStates /\ Pending \in Statuses
      BY DEF HandlerStates, Statuses
    <3> HIDE DEF n
    <3> QED BY <3>1, HandlerGoesOn
  <2>2. n = x
    BY <1>2 DEF HandlerRunL, GoesOn
  <2>3. id \in Personalities
    BY DEF Memory, Watcher
  <2> HIDE DEF k, id
  <2>4. [k.h EXCEPT !.usb = id] \in Handler
    BY <2>1, <2>3 DEF Memory, Handler
  <2>5. /\ x \in Memory /\ x.w = k.w /\ x.fault = k.fault /\ x.starter = k.starter
        /\ x.h.active /\ x.h.iState = "StartUsb" /\ x.h.usb = id
        /\ x.h.plugin = k.h.plugin /\ x.h.iRequestStatus = k.h.iRequestStatus
    BY <2>1, <2>4 DEF Memory, Handler
  <2> HIDE DEF n, x
  <2>6. Starting(x.h) /\ m.h.plugin # None
    BY <1>1, <2>1, <2>5 DEF Starting, StartSteps
  <2>7. Calm(x)
    BY <1>1, <2>1, <2>5, <2>6 DEF Calm, Loose, Together, Agreed
  <2>8. BroughtUp(m.h, x.h)
    BY <1>1, <1>2, <2>1, <2>5, <2>6 DEF BroughtUp, Agreed, Preparing, id
  <2> QED BY <2>2, <2>5, <2>7, <2>8 DEF n
<1>3. CASE m.h.iState = "StartUsb" /\ ret = KErrNone
  <2> DEFINE st == PluginStatus("FinishStart")
             k == GoesOn(m, "FinishStart", st)
  <2>1. st = KErrNone /\ st \in Statuses
    BY DEF PluginStatus, Answered, Statuses, Codes
  <2>2. n = k
    BY <1>3 DEF HandlerRunL, GoesOn
  <2> HIDE DEF st
  <2>3. /\ k \in Memory /\ k.w = m.w /\ k.fault = m.fault /\ k.starter = m.starter
        /\ k.h.active /\ k.h.iState = "FinishStart" /\ k.h.iStatus = st
        /\ k.h.plugin = m.h.plugin /\ k.h.usb = m.h.usb
        /\ k.h.iRequestStatus = m.h.iRequestStatus
    BY <2>1, HandlerGoesOn DEF HandlerStates
  <2> HIDE DEF n, k
  <2>4. Calm(k)
    BY <1>1, <2>1, <2>3 DEF Calm, Loose, Together, Agreed, Starting, StartSteps
  <2> QED BY <2>2, <2>3, <2>4 DEF Down, n
<1>4. CASE m.h.iState = "StartUsb" /\ ret # KErrNone
  <2> DEFINE x == [d EXCEPT !.h.usb = None]
             t == [x EXCEPT !.h.iState = "PrepareStop", !.h.isFailureCleanup = TRUE]
             st == PluginStatus("PrepareStop")
             k == HandlerActive(t, st)
  <2>1. [m.h EXCEPT !.active = FALSE, !.usb = None, !.iState = "PrepareStop",
                    !.isFailureCleanup = TRUE] \in Handler
    BY DEF Memory, Handler, HandlerStates
  <2>2. /\ t \in Memory /\ t.w = m.w /\ t.fault = m.fault /\ t.starter = m.starter
        /\ ~t.h.active /\ t.h.iState = "PrepareStop" /\ t.h.plugin = m.h.plugin
        /\ t.h.usb = None /\ t.h.isFailureCleanup
        /\ t.h.iRequestStatus = m.h.iRequestStatus
    BY <2>1 DEF Memory, Handler
  <2>3. st \in Statuses
    BY PluginStatusType
  <2>4. m.h.plugin # None /\ m.h.iRequestStatus
    BY <1>1 DEF Starting
  <2>5. n = CompleteRequest(k, ret)
    <3>1. x.h.plugin = m.h.plugin
      BY DEF Memory, Handler
    <3>2. PrepareStop(x, TRUE) = k
      BY <2>4, <3>1 DEF PrepareStop
    <3>3. n = CompleteRequest(PrepareStop(x, TRUE), ret)
      BY <1>4 DEF HandlerRunL, HandlerRunError
    <3> QED BY <3>2, <3>3
  <2> HIDE DEF t, st
  <2>6. /\ k \in Memory /\ k.w = t.w /\ k.fault = t.fault /\ k.starter = t.starter
        /\ k.h.active /\ k.h.iState = t.h.iState /\ k.h.plugin = t.h.plugin
        /\ k.h.usb = t.h.usb /\ k.h.isFailureCleanup = t.h.isFailureCleanup
        /\ k.h.iRequestStatus = t.h.iRequestStatus
    BY <2>2, <2>3, HandlerActiveDoes
  <2> HIDE DEF k
  <2>7. /\ n \in Memory /\ n.fault = k.fault /\ n.starter = k.starter
        /\ SameWatcher(k.w, n.w) /\ n.w.iStatus = ret /\ SameHandler(k.h, n.h)
    <3>1. k \in Memory /\ ret \in Codes /\ k.h.iRequestStatus
      BY <2>2, <2>4, <2>6
    <3> HIDE DEF n
    <3> QED BY <2>5, <3>1, CompleteRequestDoes
  <2> HIDE DEF n
  <2>8. CleaningUp(n.h) /\ n.h.usb = None /\ n.h.plugin = m.h.plugin
    BY <2>2, <2>4, <2>6, <2>7 DEF CleaningUp, SameHandler, StopSteps
  <2>9. Calm(n)
    BY <1>1, <1>4, <2>2, <2>6, <2>7, <2>8, CodesDiffer
       DEF Calm, Loose, Together, Agreed, AtRest, SameWatcher, NoChange,
           CleaningUp, StopSteps
  <2> QED BY <2>7, <2>8, <2>9 DEF Down, n
<1>5. CASE m.h.iState = "FinishStart"
  <2> DEFINE k == CompleteRequest(d, ret)
             x == [k EXCEPT !.h.iState = "Started"]
  <2>1. ret = KErrNone /\ m.h.plugin # None /\ m.h.iRequestStatus
    BY <1>1, <1>5 DEF Starting
  <2>2. [m.h EXCEPT !.active = FALSE] \in Handler
    BY DEF Memory, Handler
  <2>3. /\ d \in Memory /\ d.w = m.w /\ d.fault = m.fault /\ d.starter = m.starter
        /\ ~d.h.active /\ d.h.plugin = m.h.plugin /\ d.h.usb = m.h.usb
        /\ d.h.iRequestStatus
    BY <2>1, <2>2 DEF Memory, Handler
  <2>4. n = x
    BY <1>5 DEF HandlerRunL
  <2> HIDE DEF d
  <2>5. /\ k \in Memory /\ k.fault = d.fault /\ k.starter = d.starter
        /\ SameWatcher(d.w, k.w) /\ k.w.iStatus = ret /\ SameHandler(d.h, k.h)
    BY <2>3, CompleteRequestDoes
  <2> HIDE DEF k
  <2>6. [k.h EXCEPT !.iState = "Started"] \in Handler
    BY <2>5 DEF Memory, Handler, HandlerStates
  <2>7. /\ x \in Memory /\ x.w = k.w /\ x.fault = k.fault /\ x.starter = k.starter
        /\ x.h.iState = "Started" /\ x.h.active = k.h.active
        /\ x.h.plugin = k.h.plugin /\ x.h.usb = k.h.usb
    BY <2>5, <2>6 DEF Memory, Handler
  <2> HIDE DEF n, x
  <2>8. IsUp(x.h) /\ x.h.plugin = m.h.plugin /\ x.h.usb = m.h.usb
    BY <2>1, <2>3, <2>5, <2>7 DEF IsUp, SameHandler
  <2>9. Calm(x)
    BY <1>1, <2>1, <2>3, <2>5, <2>7, <2>8
       DEF Calm, Loose, Together, Agreed, SameWatcher, NoChange, IsUp
  <2> QED BY <2>4, <2>7, <2>8, <2>9 DEF Down, n
<1>6. m.h.iState \in StartSteps
  BY <1>1 DEF Starting
<1> QED BY <1>2, <1>3, <1>4, <1>5, <1>6 DEF StartSteps

\* The steps of a stop, for the watcher or of a start that failed.
LEMMA StopStepKeeps ==
  ASSUME NEW m \in Memory, Calm(m), m.h.active, m.h.iStatus \in Codes,
         \/ m.w.iState = "Stopping" /\ m.w.active /\ m.w.iStatus = Pending /\ Stopping(m.h)
         \/ m.w.iState = "Idle" /\ ~m.w.active /\ CleaningUp(m.h)
  PROVE  Kept(m, HandlerRunL(m)) /\ SameWatcher(m.w, HandlerRunL(m).w)
<1> DEFINE ret == m.h.iStatus
           d == [m EXCEPT !.h.active = FALSE]
           n == HandlerRunL(m)
<1>1. /\ NoChange(m.w) /\ StarterWaiting(m.starter) /\ m.fault = NoFault
  BY DEF Calm, Loose
<1>2. ASSUME NEW s \in {"StopUsb", "FinishStop"}, NEW st \in Statuses, n = GoesOn(m, s, st)
      PROVE  Kept(m, n) /\ SameWatcher(m.w, n.w)
  <2>1. /\ n \in Memory /\ n.w = m.w /\ n.fault = m.fault /\ n.starter = m.starter
        /\ n.h.active /\ n.h.iState = s
        /\ n.h.plugin = m.h.plugin /\ n.h.usb = m.h.usb
        /\ n.h.iRequestStatus = m.h.iRequestStatus
        /\ n.h.isFailureCleanup = m.h.isFailureCleanup
    <3>1. s \in HandlerStates
      BY DEF HandlerStates
    <3> HIDE DEF n
    <3> QED BY <1>2, <3>1, HandlerGoesOn
  <2> HIDE DEF n
  <2>2. /\ Stopping(m.h) => Stopping(n.h)
        /\ CleaningUp(m.h) => CleaningUp(n.h)
    BY <2>1 DEF Stopping, CleaningUp, StopSteps
  <2>3. Loose(n)
    BY <1>1, <2>1, <2>2 DEF Loose, Together, AtRest
  <2> QED BY <2>1, <2>3, NotPreparing DEF Kept, Down, SameWatcher
<1>3. CASE m.h.iState \in {"PrepareStop", "StopUsb"}
  <2>1. Pending \in Statuses /\ PluginStatus("FinishStop") \in Statuses
    BY PluginStatusType DEF Statuses
  <2>2. n \in {GoesOn(m, "StopUsb", Pending), GoesOn(m, "FinishStop", PluginStatus("FinishStop"))}
    BY <1>3 DEF HandlerRunL, GoesOn
  <2> HIDE DEF n
  <2> QED BY <1>2, <2>1, <2>2 DEF n
<1>4. CASE m.h.iState = "FinishStop"
  <2> DEFINE f == [d EXCEPT !.h.plugin = None, !.h.usb = None, !.h.iState = "Idle",
                            !.h.cableNote = @ /\ ~m.h.undefined]
  <2>1. [m.h EXCEPT !.active = FALSE, !.plugin = None, !.usb = None, !.iState = "Idle",
                    !.cableNote = @ /\ ~m.h.undefined] \in Handler
    BY DEF Memory, Handler, HandlerStates
  <2>2. /\ f \in Memory /\ f.w = m.w /\ f.fault = m.fault /\ f.starter = m.starter
        /\ f.h.iState = "Idle" /\ ~f.h.active /\ f.h.plugin = None /\ f.h.usb = None
        /\ f.h.iRequestStatus = m.h.iRequestStatus
    BY <2>1 DEF Memory, Handler
  <2>3. n = IF m.h.isFailureCleanup THEN f ELSE CompleteRequest(f, ret)
    BY <1>4 DEF HandlerRunL
  <2> HIDE DEF f, n
  <2>4. ASSUME n \in Memory, n.fault = m.fault, n.starter = m.starter, SameWatcher(m.w, n.w),
               SameHandler(f.h, n.h),
               m.w.iState = "Stopping" => n.w.iStatus # Pending
        PROVE  Kept(m, n) /\ SameWatcher(m.w, n.w)
    <3>1. Gone(n.h) /\ n.h.usb = None
      BY <2>2, <2>4 DEF Gone, SameHandler
    <3>2. Loose(n)
      BY <1>1, <2>4, <3>1 DEF Loose, Together, AtRest, Gone, SameWatcher, NoChange
    <3>3. n.w.iState # "Starting"
      BY <2>4 DEF SameWatcher
    <3> QED BY <2>4, <3>1, <3>2, <3>3, NotPreparing DEF Kept, Down, Gone
  <2>5. CASE m.h.isFailureCleanup
    <3>1. m.w.iState = "Idle" /\ n = f
      BY <2>3, <2>5 DEF Stopping
    <3> QED BY <2>2, <2>4, <3>1 DEF SameWatcher, SameHandler, n
  <2>6. CASE ~m.h.isFailureCleanup
    <3>1. m.h.iRequestStatus /\ n = CompleteRequest(f, ret)
      BY <2>3, <2>6 DEF Stopping, CleaningUp
    <3>2. /\ n \in Memory /\ n.fault = f.fault /\ n.starter = f.starter
          /\ SameWatcher(f.w, n.w) /\ n.w.iStatus = ret /\ SameHandler(f.h, n.h)
      BY <2>2, <3>1, CompleteRequestDoes
    <3> QED BY <2>2, <2>4, <3>2, CodesDiffer DEF SameWatcher, SameHandler, n
  <2> QED BY <2>5, <2>6 DEF n
<1>5. m.h.iState \in StopSteps
  BY DEF Stopping, CleaningUp
<1> QED BY <1>3, <1>4, <1>5 DEF StopSteps

\* Whatever the handler does next, it brings up USB only for the plugin it has prepared.
LEMMA HandlerRunLKeeps ==
  ASSUME NEW m \in Memory, Calm(m), m.h.active, m.h.iStatus \in Codes, Answered,
         m.w.active => m.w.iStatus = Pending
  PROVE  LET n == HandlerRunL(m) IN
         n \in Memory /\ Calm(n) /\ (Down(m.h, n.h) \/ BroughtUp(m.h, n.h))
<1>1. \/ m.w.iState = "Starting" /\ m.w.iStatus = Pending
      \/ m.w.iState = "Stopping" /\ m.w.active /\ m.w.iStatus = Pending /\ Stopping(m.h)
      \/ m.w.iState = "Idle" /\ ~m.w.active /\ CleaningUp(m.h)
  BY DEF Calm, Loose, Together, AtRest, Gone, IsUp
<1> QED BY <1>1, StartStepKeeps, StopStepKeeps DEF Kept

-----------------------------------------------------------------------------
\* The events of the device, the lock and the global state.

\* An operation on other parts of the process.
Beside(m, n) == /\ n \in Memory /\ n.w = m.w /\ n.h = m.h
                /\ n.starter = m.starter /\ n.fault = m.fault

LEMMA BesideAside ==
  ASSUME NEW m, NEW n, Beside(m, n)
  PROVE  AsideInWatcher(m, n)
BY DEF Beside, AsideInWatcher, Aside, SameWatcher, SameHandler

\* What is kept stays kept under an operation that touches nothing.
LEMMA KeptThenAside ==
  ASSUME NEW m, NEW n, NEW o, Kept(m, n), AsideInWatcher(n, o)
  PROVE  Kept(m, o)
<1>1. Kept(n, o)
  BY AsideKeeps DEF Kept, AsideInWatcher
<1> QED BY <1>1 DEF Kept, Down, AsideInWatcher, Aside, SameHandler

\* The starter may be called last.
LEMMA StartDevConKeeps ==
  ASSUME NEW m, NEW n, Kept(m, n)
  PROVE  Kept(m, StartDevCon(n))
<1>1. n \in Memory /\ StarterWaiting(n.starter)
  BY DEF Kept, Calm, Loose
<1>2. Aside(n, StartDevCon(n)) /\ StartDevCon(n).w = n.w
  BY <1>1, StarterAside
<1>3. AsideInWatcher(n, StartDevCon(n))
  BY <1>2 DEF AsideInWatcher, Aside
<1> QED BY <1>3, KeptThenAside

\* A device attached starts a personality, over one that is under way.
LEMMA DeviceAttachedKeeps ==
  ASSUME NEW m \in Memory, Calm(m), Waits(m), NEW old, NEW new
  PROVE  Kept(m, DeviceAttached(m, old, new))
<1> DEFINE n == HandlerStateChange(m, old, new)
           c == Cancel(n)
           r == CASE n.w.iState = "Idle" /\ ~n.w.iPersonalityChangeOngoing -> Start(n)
                  [] n.w.iState \notin {"Idle", "Started"}
                       /\ ~n.w.iPersonalityChangeOngoing -> Start(c)
                  [] OTHER -> n
<1>1. Aside(m, n) /\ n.w = m.w
  BY NotesAside
<1>2. DeviceAttached(m, old, new) = StartDevCon(r)
  BY DEF DeviceAttached
<1> HIDE DEF n
<1>3. Kept(m, n) /\ Waits(n)
  BY <1>1, AsideKeeps, AsideKeepsLoose
<1>4. n \in Memory /\ Calm(n) /\ Loose(n)
  BY <1>3 DEF Kept, Calm
<1>5. Kept(n, Start(n)) /\ Kept(n, c) /\ Settled(n.h, c.h)
  BY <1>3, <1>4, StartKeeps, CancelKeeps
<1> HIDE DEF c
<1>6. Kept(c, Start(c))
  BY <1>5, StartKeeps DEF Kept
<1>7. Kept(m, Start(n)) /\ Kept(m, Start(c))
  BY <1>1, <1>5, <1>6, AsideThenKept, KeptTwice DEF Kept
<1>8. r = Start(n) \/ r = Start(c) \/ r = n
  OBVIOUS
<1> HIDE DEF r
<1>9. Kept(m, r)
  BY <1>3, <1>7, <1>8
<1> QED BY <1>2, <1>9, StartDevConKeeps

\* Swapping ids, and saving one, touches no more.
LEMMA SwapAside ==
  ASSUME NEW m \in Memory, NEW id \in Personalities
  PROVE  Aside(m, SwapPersonalities(m)) /\ Aside(m, WritePersonalityId(m, id))
<1>1. /\ SwapPersonalities(m) \in Memory /\ WritePersonalityId(m, id) \in Memory
  BY UndoType, WriteType
<1>2. Aside(m, SwapPersonalities(m))
  BY <1>1 DEF SwapPersonalities, Aside, SameWatcher, SameHandler, Memory, Watcher
<1>3. Aside(m, WritePersonalityId(m, id))
  BY <1>1 DEF WritePersonalityId, Aside, SameWatcher, SameHandler, Memory
<1> QED BY <1>2, <1>3

\* A device detached takes everything down: the watcher is left in no start, so that
\* the ids it may have swapped are those of no plugin being prepared.
LEMMA DeviceDetachedKeeps ==
  ASSUME NEW m \in Memory, Calm(m), Waits(m), NEW old
  PROVE  Kept(m, DeviceDetached(m, old))
<1> DEFINE c == CancelObserver(m)
           h == HandlerStateChange(c, old, "Undefined")
           n == StopRestarting(h)
           r == SwapPersonalities(n)
           p == WritePersonalityId(r, r.w.iPersonalityId)
           x == [p EXCEPT !.w.iSetPreviousPersonalityOnDisconnect = FALSE]
           restored == IF n.w.iSetPreviousPersonalityOnDisconnect THEN x ELSE n
           t == Notify(restored, KErrCancel)
<1>1. Aside(m, c) /\ c \in Memory
  BY ObserverAside DEF Aside
<1>2. DeviceDetached(m, old) = CASE t.w.iState = "Starting" -> Cancel(t)
                                 [] t.w.iState = "ConfirmStop" -> Stop(Cancel(t))
                                 [] OTHER -> Stop(t)
  BY DEF DeviceDetached
<1> HIDE DEF c
<1>3. Aside(c, h) /\ h \in Memory
  BY <1>1, NotesAside DEF Aside
<1> HIDE DEF h
<1>4. Aside(h, n) /\ n \in Memory
  BY <1>3, NotesAside DEF Aside
<1> HIDE DEF n
<1>5. Aside(m, n)
  BY <1>1, <1>3, <1>4, AsideTwice
<1>6. n.w.iPersonalityId \in Personalities
  BY <1>4 DEF Memory, Watcher
<1>7. Aside(n, r) /\ r \in Memory /\ r.w.iPersonalityId \in Personalities
  <2>1. Aside(n, r) /\ r \in Memory
    BY <1>4, <1>6, SwapAside DEF Aside
  <2> HIDE DEF r
  <2> QED BY <2>1 DEF Memory, Watcher
<1> HIDE DEF r
<1>8. Aside(r, p) /\ p \in Memory
  BY <1>7, SwapAside DEF Aside
<1> HIDE DEF p
<1>9. Aside(p, x) /\ x \in Memory
  BY <1>8, FlagsAside DEF AsideInWatcher
<1> HIDE DEF x
<1>10. Aside(m, x)
  BY <1>5, <1>7, <1>8, <1>9, AsideTwice
<1>11. Aside(m, restored) /\ restored \in Memory
  BY <1>4, <1>5, <1>9, <1>10
<1> HIDE DEF restored
<1>12. Loose(restored)
  BY <1>11, AsideKeepsLoose DEF Calm
<1>13. Aside(restored, t)
  BY <1>11, <1>12, NotifyAside DEF Codes, Loose
<1> HIDE DEF t
<1>14. Aside(m, t)
  BY <1>11, <1>13, AsideTwice
<1>15. t \in Memory /\ Loose(t) /\ Waits(t)
  BY <1>14, AsideKeepsLoose DEF Aside, Calm
<1>16. Kept(m, Cancel(t)) /\ Kept(m, Stop(t))
  BY <1>14, <1>15, CancelKeeps, StopKeeps, AsideThenKept
<1>17. t.w.iState # "ConfirmStop"
  BY <1>15 DEF Loose, Together
<1> QED BY <1>2, <1>16, <1>17

\* A change of the device state.
LEMMA StateChangeNotifyKeeps ==
  ASSUME NEW m \in Memory, Calm(m), Waits(m), NEW old \in DeviceStates, NEW new \in DeviceStates
  PROVE  Kept(m, StateChangeNotify(m, old, new))
<1> DEFINE i == [m EXCEPT !.ind = IndicatorChange(@, old, new)]
           n == IF m.w.iNormalStart THEN i ELSE m
<1>1. Beside(m, n)
  <2>1. IndicatorChange(m.ind, old, new) \in Indicator
    BY IndicatorChangeType DEF Memory
  <2> QED BY <2>1 DEF Beside, Memory
<1>2. StateChangeNotify(m, old, new) \in
        {n, DeviceAttached(n, old, new), DeviceDetached(n, old), HandlerStateChange(n, old, new)}
  BY DEF StateChangeNotify
<1> HIDE DEF n
<1>3. Aside(m, n) /\ n.w.iPersonalityId = m.w.iPersonalityId /\ n \in Memory
  BY <1>1, BesideAside DEF AsideInWatcher
<1>4. Kept(m, n) /\ Waits(n)
  BY <1>3, AsideKeeps, AsideKeepsLoose
<1>5. Calm(n)
  BY <1>4 DEF Kept
<1>6. Kept(m, DeviceAttached(n, old, new)) /\ Kept(m, DeviceDetached(n, old))
  BY <1>3, <1>4, <1>5, DeviceAttachedKeeps, DeviceDetachedKeeps, AsideThenKept
<1>7. AsideInWatcher(n, HandlerStateChange(n, old, new))
  BY <1>3, NotesAside DEF AsideInWatcher, Aside
<1>8. Kept(m, HandlerStateChange(n, old, new))
  BY <1>4, <1>7, KeptThenAside
<1> QED BY <1>2, <1>4, <1>6, <1>8

\* The lock stops a personality, or what is under way; the unlock starts one.
LEMMA LockKeeps ==
  ASSUME NEW m \in Memory, Calm(m), Waits(m)
  PROVE  Kept(m, Lock(m)) /\ Kept(m, Unlock(m))
<1> DEFINE n == CancelCableConnectedNotifier(m)
<1>1. Kept(m, m)
  BY DEF Kept, Down
<1>2. Lock(m) \in {m, Cancel(n), Stop(n)}
  BY DEF Lock
<1>3. Aside(m, n) /\ n \in Memory
  BY NotesAside DEF Aside
<1> HIDE DEF n
<1>4. Loose(n) /\ Waits(n)
  BY <1>3, AsideKeepsLoose DEF Calm
<1>5. Kept(m, Cancel(n)) /\ Kept(m, Stop(n))
  BY <1>3, <1>4, CancelKeeps, StopKeeps, AsideThenKept
<1>6. Kept(m, Unlock(m))
  BY <1>1, StartKeeps DEF Unlock
<1> QED BY <1>1, <1>2, <1>5, <1>6

\* The global state: its observer stops a personality and starts one.
LEMMA GlobalStateKeeps ==
  ASSUME NEW m \in Memory, Calm(m), Waits(m)
  PROVE  Kept(m, StopPersonality(m)) /\ Kept(m, StartPersonality(m))
<1> DEFINE n == [m EXCEPT !.w.iPersonalityId = m.w.iPrevPersonalityId]
           s == Stop(n)
           x == [s EXCEPT !.w.iStarted = FALSE]
           g == IF m.w.iStarted THEN m ELSE Start(m)
<1>1. m.w.iPrevPersonalityId \in Personalities
  BY DEF Memory, Watcher
<1>2. Aside(m, n) /\ n \in Memory
  BY <1>1, IdsAside
<1>3. StopPersonality(m) = x
  BY DEF StopPersonality
<1> HIDE DEF n
<1>4. Loose(n) /\ Waits(n)
  BY <1>2, AsideKeepsLoose DEF Calm
<1>5. Kept(m, s)
  BY <1>2, <1>4, StopKeeps, AsideThenKept
<1> HIDE DEF s
<1>6. AsideInWatcher(s, x)
  BY <1>5, FlagsAside DEF Kept
<1> HIDE DEF x
<1>7. Kept(m, x)
  BY <1>5, <1>6, KeptThenAside
<1>8. Kept(m, g)
  BY StartKeeps DEF Kept, Down
<1>9. StartPersonality(m) = StartDevCon(g)
  BY DEF StartPersonality
<1> HIDE DEF g
<1> QED BY <1>3, <1>7, <1>8, <1>9, StartDevConKeeps

\* A client that asks for the previous personality on disconnect.
LEMMA OnDisconnectKeeps ==
  ASSUME NEW m \in Memory, Calm(m)
  PROVE  Kept(m, SetPreviousPersonalityOnDisconnect(m))
<1> DEFINE x == [m EXCEPT !.w.iSetPreviousPersonalityOnDisconnect = TRUE]
           k == Notify(m, KErrAccessDenied)
<1>1. SetPreviousPersonalityOnDisconnect(m) \in {m, x, k}
  BY DEF SetPreviousPersonalityOnDisconnect
<1>2. AsideInWatcher(m, x)
  BY FlagsAside
<1>3. Aside(m, k) /\ k.w.iPersonalityId = m.w.iPersonalityId
  BY NotifyAside DEF Codes, Calm, Loose
<1> HIDE DEF x, k
<1>4. Kept(m, m) /\ Kept(m, x) /\ Kept(m, k)
  BY <1>2, <1>3, AsideKeeps DEF Kept, Down, AsideInWatcher
<1> QED BY <1>1, <1>4

-----------------------------------------------------------------------------
\* The steps of the process.

\* The inductive invariant.
AloneInv == /\ TypeOK /\ fault = NoFault
            /\ Together(watcher, handler)
            /\ NoChange(watcher) /\ Agreed(watcher, handler) /\ StarterWaiting(starter)

\* A step that keeps it and does no more to the plugin and to USB than is promised.
Orderly == AloneInv' /\ (Down(handler, handler') \/ BroughtUp(handler, handler'))

\* What a handler starts with.
LEMMA MemCalm ==
  ASSUME AloneInv, NEW in \in Outside
  PROVE  /\ Mem(in) \in Memory /\ Calm(Mem(in))
         /\ Mem(in).w = watcher /\ Mem(in).h = handler
<1>1. Mem(in) \in Memory
  BY MemType DEF AloneInv
<1>2. /\ Mem(in).w = watcher /\ Mem(in).h = handler /\ Mem(in).starter = starter
      /\ Mem(in).fault = NoFault
  BY DEF Mem
<1> QED BY <1>1, <1>2 DEF AloneInv, Calm, Loose

\* What a handler ends with.
LEMMA CommitCalm ==
  ASSUME AloneInv, NEW n \in Memory, Calm(n), Commit(n),
         Down(handler, n.h) \/ BroughtUp(handler, n.h)
  PROVE  Orderly
<1>1. TypeOK'
  BY CommitType DEF AloneInv
<1>2. n.fault = NoFault
  BY DEF Calm, Loose
<1>3. watcher' = n.w /\ handler' = n.h /\ starter' = n.starter /\ fault' = NoFault
  BY <1>2 DEF Commit
<1>4. AloneInv'
  BY <1>1, <1>3 DEF AloneInv, Calm, Loose
<1> QED BY <1>3, <1>4 DEF Orderly

\* The two together, for a handler that keeps everything.
LEMMA CommitKept ==
  ASSUME AloneInv, NEW in \in Outside, NEW n, Kept(Mem(in), n), Commit(n)
  PROVE  Orderly
BY MemCalm, CommitCalm DEF Kept

\* Neither the watcher nor the handler is ready when another object runs.
LEMMA OthersWait ==
  ASSUME AloneInv, NEW in \in Outside, ~Ready(watcher), ~Ready(handler)
  PROVE  Waits(Mem(in))
<1>1. watcher.active => watcher.iStatus = Pending
  BY DEF Ready
<1>2. ASSUME handler.iState = "FinishStart" PROVE FALSE
  <2>1. Starting(handler)
    BY <1>2 DEF AloneInv, Together, AtRest, Gone, IsUp, CleaningUp, Stopping, StopSteps
  <2>2. handler.active /\ handler.iStatus = KErrNone
    BY <1>2, <2>1 DEF Starting
  <2> QED BY <2>2, CodesDiffer DEF Ready
<1> QED BY <1>1, <1>2, MemCalm DEF Waits

\* The process starts with nothing.
LEMMA AloneInit == Init => AloneInv
<1> SUFFICES ASSUME Init PROVE AloneInv
  OBVIOUS
<1>1. TypeOK
  BY InitType
<1>2. /\ watcher.iState = "Idle" /\ ~watcher.active
      /\ ~watcher.iSetPersonalityOngoing /\ ~watcher.iSetPreviousPersonalityOngoing
      /\ ~watcher.iStopStartScenario
  BY DEF Init, InitWatcher
<1>3. handler.iState = "Idle" /\ ~handler.active /\ handler.plugin = None /\ handler.usb = None
  BY DEF Init, InitHandler
<1>4. ~starter.active /\ fault = NoFault
  BY DEF Init, InitStarter
<1> QED BY <1>1, <1>2, <1>3, <1>4
        DEF AloneInv, Together, AtRest, Gone, NoChange, Agreed, StarterWaiting

\* Every RunL.
LEMMA SchedulerOrderly ==
  ASSUME AloneInv, Answered, Scheduler
  PROVE  Orderly
<1>0. TypeOK
  BY DEF AloneInv
<1>1. CASE RunWatcher
  <2>1. PICK in \in Outside : Commit(WatcherRunL(Mem(in)))
    BY <1>1 DEF RunWatcher
  <2>2. watcher.active /\ watcher.iStatus \in Codes
    BY <1>0, <1>1, ReadyType DEF RunWatcher, WatcherReady, Ready
  <2>3. Kept(Mem(in), WatcherRunL(Mem(in)))
    BY <2>2, MemCalm, WatcherRunLKeeps
  <2> QED BY <2>1, <2>3, CommitKept
<1>2. CASE RunHandler
  <2>1. PICK in \in Outside : Commit(HandlerRunL(Mem(in)))
    BY <1>2 DEF RunHandler
  <2>2. /\ handler.active /\ handler.iStatus \in Codes
        /\ watcher.active => watcher.iStatus = Pending
    BY <1>0, <1>2, ReadyType DEF RunHandler, HandlerReady, WatcherReady, Ready
  <2> DEFINE n == HandlerRunL(Mem(in))
  <2>3. n \in Memory /\ Calm(n) /\ (Down(Mem(in).h, n.h) \/ BroughtUp(Mem(in).h, n.h))
    BY <2>2, MemCalm, HandlerRunLKeeps
  <2> HIDE DEF n
  <2> QED BY <2>1, <2>3, MemCalm, CommitCalm DEF n
<1>3. CASE RunLock
  <2> DEFINE n(in) == [Mem(in) EXCEPT !.lock.ready = FALSE]
  <2>1. PICK in \in Outside :
          Commit(CASE lock.value = "Off" -> Unlock(n(in))
                   [] lock.value = "RemoteLocked" -> Lock(n(in))
                   [] OTHER -> n(in))
    BY <1>3 DEF RunLock
  <2>2. Beside(Mem(in), n(in))
    <3>1. n(in) \in Memory
      BY MemCalm DEF Memory, Lock_
    <3> QED BY <3>1, MemCalm DEF Beside, Memory
  <2>3. Waits(Mem(in))
    BY <1>3, OthersWait DEF RunLock, LockReady, WatcherReady
  <2> HIDE DEF n
  <2>4. Aside(Mem(in), n(in)) /\ Kept(Mem(in), n(in)) /\ Waits(n(in))
    BY <2>2, <2>3, MemCalm, BesideAside, AsideKeeps, AsideKeepsLoose DEF AsideInWatcher
  <2>5. Kept(Mem(in), Lock(n(in))) /\ Kept(Mem(in), Unlock(n(in)))
    BY <2>4, LockKeeps, AsideThenKept DEF Kept
  <2> QED BY <2>1, <2>4, <2>5, CommitKept
<1>4. CASE RunObserver
  <2> DEFINE n(in) == [Mem(in) EXCEPT !.obs.iStatus = Pending]
  <2>1. PICK in \in Outside :
          Commit(CASE global = "ChargingToNormal" -> StopPersonality(n(in))
                   [] global = "Charging" -> StartPersonality(n(in))
                   [] global = "Normal" -> StartPersonality(CancelObserver(n(in)))
                   [] OTHER -> n(in))
    BY <1>4 DEF RunObserver
  <2>2. Beside(Mem(in), n(in))
    <3>1. n(in) \in Memory
      BY MemCalm DEF Memory, Request, Statuses
    <3> QED BY <3>1, MemCalm DEF Beside, Memory
  <2>3. Waits(Mem(in))
    BY <1>4, OthersWait DEF RunObserver, ObserverReady, WatcherReady
  <2> HIDE DEF n
  <2>4. Aside(Mem(in), n(in)) /\ Kept(Mem(in), n(in)) /\ Waits(n(in))
    BY <2>2, <2>3, MemCalm, BesideAside, AsideKeeps, AsideKeepsLoose DEF AsideInWatcher
  <2> DEFINE c == CancelObserver(n(in))
  <2>5. AsideInWatcher(n(in), c)
    BY <2>4, ObserverAside DEF AsideInWatcher, Aside
  <2> HIDE DEF c
  <2>6. Kept(Mem(in), c) /\ Waits(c)
    BY <2>4, <2>5, KeptThenAside, AsideKeepsLoose DEF AsideInWatcher
  <2>7. Kept(n(in), StopPersonality(n(in))) /\ Kept(n(in), StartPersonality(n(in)))
    BY <2>4, GlobalStateKeeps DEF Kept
  <2>8. Kept(c, StartPersonality(c))
    BY <2>6, GlobalStateKeeps DEF Kept
  <2>9. /\ Kept(Mem(in), StopPersonality(n(in))) /\ Kept(Mem(in), StartPersonality(n(in)))
        /\ Kept(Mem(in), StartPersonality(c))
    BY <2>4, <2>5, <2>7, <2>8, AsideTwice, AsideThenKept DEF AsideInWatcher
  <2> QED BY <2>1, <2>4, <2>9, CommitKept DEF c
<1>5. CASE RunStarter
  <2>1. PICK in \in Outside : Commit(StarterRunL(Mem(in)))
    BY <1>5 DEF RunStarter
  <2> DEFINE n == StarterRunL(Mem(in))
  <2>2. Mem(in).starter.active /\ StarterWaiting(Mem(in).starter)
    BY <1>5, MemCalm DEF RunStarter, StarterReady, Ready, Mem, Calm, Loose
  <2>3. Aside(Mem(in), n) /\ n.w = Mem(in).w
    BY <2>2, MemCalm, StarterAside
  <2> HIDE DEF n
  <2>4. Kept(Mem(in), n)
    BY <2>3, MemCalm, AsideKeeps
  <2> QED BY <2>1, <2>4, CommitKept DEF n
<1>6. CASE RunDevice
  <2> DEFINE new == device.current
             old == device.iPreviousState
             n(in) == [Mem(in) EXCEPT !.dev.ready = FALSE]
             k(in) == StateChangeNotify(n(in), old, new)
             r(in) == [k(in) EXCEPT !.dev.iPreviousState = new]
  <2>1. PICK in \in Outside : Commit(IF new = old THEN n(in) ELSE r(in))
    BY <1>6 DEF RunDevice
  <2>2. new \in BusStates /\ old \in BusStates /\ new \in DeviceStates /\ old \in DeviceStates
    BY <1>0, SystemAssumption DEF TypeOK, Device
  <2>3. Beside(Mem(in), n(in))
    <3>1. n(in) \in Memory
      BY MemCalm DEF Memory, Device
    <3> QED BY <3>1, MemCalm DEF Beside, Memory
  <2>4. Waits(Mem(in))
    BY <1>6, OthersWait DEF RunDevice, DeviceReady, WatcherReady
  <2> HIDE DEF n, new, old
  <2>5. Aside(Mem(in), n(in)) /\ Kept(Mem(in), n(in)) /\ Waits(n(in))
    BY <2>3, <2>4, MemCalm, BesideAside, AsideKeeps, AsideKeepsLoose DEF AsideInWatcher
  <2>6. Kept(Mem(in), k(in))
    BY <2>2, <2>5, StateChangeNotifyKeeps, AsideThenKept DEF Kept
  <2> HIDE DEF k
  <2>7. Beside(k(in), r(in))
    <3>1. r(in) \in Memory
      BY <2>2, <2>6 DEF Kept, Memory, Device
    <3> QED BY <2>6, <3>1 DEF Beside, Kept, Memory
  <2> HIDE DEF r
  <2>8. Kept(Mem(in), r(in))
    BY <2>6, <2>7, BesideAside, KeptThenAside
  <2> QED BY <2>1, <2>5, <2>8, CommitKept
<1> QED BY <1>1, <1>2, <1>3, <1>4, <1>5, <1>6 DEF Scheduler

\* Clients that change no personality.
LEMMA ClientOrderly ==
  ASSUME AloneInv, Unchanging, NEW s \in Sessions, Client(s)
  PROVE  Orderly
<1>1. SessionOnDisconnect(s) \/ SessionClose(s)
  BY DEF Client, Unchanging
<1>2. CASE SessionOnDisconnect(s)
  <2>1. PICK in \in Outside : Commit(SetPreviousPersonalityOnDisconnect(Mem(in)))
    BY <1>2 DEF SessionOnDisconnect
  <2> QED BY <2>1, MemCalm, OnDisconnectKeeps, CommitKept
<1>3. CASE SessionClose(s)
  <2> DEFINE n(in) == [Mem(in) EXCEPT !.ss[s] = NoMessages]
  <2>1. PICK in \in Outside : Commit(n(in))
    BY <1>3 DEF SessionClose
  <2>2. Beside(Mem(in), n(in))
    <3>1. n(in) \in Memory
      BY MemCalm, SetMessageType
    <3> QED BY <3>1, MemCalm DEF Beside, Memory
  <2> HIDE DEF n
  <2>3. Kept(Mem(in), n(in))
    BY <2>2, MemCalm, BesideAside, AsideKeeps DEF AsideInWatcher
  <2> QED BY <2>1, <2>3, CommitKept
<1> QED BY <1>1, <1>2, <1>3

\* The outside only answers, and answers nothing twice.
LEMMA WorldOrderly ==
  ASSUME AloneInv, World
  PROVE  Orderly
<1>1. TypeOK /\ TypeOK'
  BY WorldType DEF AloneInv
<1>2. CASE PluginAnswers \/ UsbManagerAnswers \/ UserClosesNote
  <2>1. /\ watcher' = watcher /\ starter' = starter /\ fault' = fault
        /\ SameHandler(handler, handler')
        /\ handler'.iRequestStatus = handler.iRequestStatus
    BY <1>1, <1>2 DEF TypeOK, Handler, SameHandler, PluginAnswers, UsbManagerAnswers,
                      UserClosesNote
  <2>2. handler'.iStatus = handler.iStatus \/ handler.iStatus = Pending
    BY <1>1, <1>2 DEF TypeOK, Handler, PluginAnswers, UsbManagerAnswers, UserClosesNote
  <2>3. Starting(handler) => Starting(handler')
    BY <2>1, <2>2, CodesDiffer DEF Starting, SameHandler
  <2>4. Together(watcher', handler') /\ Agreed(watcher', handler')
    BY <2>1, <2>3 DEF AloneInv, Together, Agreed, SameHandler, AtRest, Gone, IsUp,
                      CleaningUp, Stopping
  <2> QED BY <1>1, <2>1, <2>4 DEF Orderly, AloneInv, Down, SameHandler
<1>3. CASE DevConProcess
  <2>1. /\ watcher' = watcher /\ handler' = handler /\ fault' = fault
        /\ starter'.active = starter.active /\ starter'.iState = starter.iState
    BY <1>1, <1>3 DEF TypeOK, Starter, DevConProcess
  <2> QED BY <1>1, <2>1 DEF Orderly, AloneInv, Down, StarterWaiting
<1>4. CASE DeviceStateReported \/ LockChanges \/ GlobalStateChanges \/ IdPinChanges
  <2>1. /\ watcher' = watcher /\ handler' = handler /\ fault' = fault /\ starter' = starter
    BY <1>4 DEF DeviceStateReported, LockChanges, GlobalStateChanges, IdPinChanges
  <2> QED BY <1>1, <2>1 DEF Orderly, AloneInv, Down
<1> QED BY <1>2, <1>3, <1>4 DEF World

\* Every step of the process.
LEMMA NextOrderly ==
  ASSUME AloneInv, Answered, Unchanging, [Next]_vars
  PROVE  Orderly
<1>1. CASE Next
  BY <1>1, SchedulerOrderly, WorldOrderly, ClientOrderly DEF Next
<1>2. CASE UNCHANGED vars
  BY <1>2 DEF vars, Orderly, AloneInv, TypeOK, Down
<1> QED BY <1>1, <1>2

\* An orderly step is a step, or none, of the life cycle.
LEMMA OrderlyIsLifecycle ==
  ASSUME AloneInv, Orderly
  PROVE  [Lifecycle!LifecycleNext]_(Lifecycle!lifecycleVars)
<1>1. /\ handler'.plugin \in Personalities \cup {None}
      /\ handler'.plugin = None => ~Preparing(handler')
      /\ handler.plugin = None => ~Preparing(handler)
  BY BusyHasPlugin DEF Orderly, AloneInv, TypeOK, Handler, Preparing
<1>2. CASE BroughtUp(handler, handler')
  <2>1. Lifecycle!BringUp
    BY <1>2 DEF BroughtUp, Preparing, Lifecycle!BringUp
  <2> QED BY <2>1 DEF Lifecycle!LifecycleNext
<1>3. CASE handler'.plugin = handler.plugin /\ handler'.usb = handler.usb
  <2>1. CASE Preparing(handler') = Preparing(handler)
    BY <1>3, <2>1 DEF Lifecycle!lifecycleVars, Preparing
  <2>2. CASE Preparing(handler) /\ ~Preparing(handler')
    <3>1. Lifecycle!Proceed
      BY <1>1, <1>3, <2>2 DEF Lifecycle!Proceed, Preparing
    <3> QED BY <3>1 DEF Lifecycle!LifecycleNext
  <2>3. CASE ~Preparing(handler) /\ Preparing(handler')
    <3>1. Lifecycle!Prepare
      BY <1>1, <1>3, <2>3 DEF Lifecycle!Prepare, Preparing
    <3> QED BY <3>1 DEF Lifecycle!LifecycleNext
  <2> QED BY <2>1, <2>2, <2>3 DEF Preparing
<1>4. CASE handler'.plugin = handler.plugin /\ handler'.usb = None /\ handler.usb # None
  <2>1. Lifecycle!TakeDown
    BY <1>4 DEF Lifecycle!TakeDown
  <2> QED BY <2>1 DEF Lifecycle!LifecycleNext
<1>5. CASE handler'.plugin # handler.plugin /\ Down(handler, handler')
  <2>1. Lifecycle!LeaveOrTakeDown
    BY <1>5 DEF Down, Preparing, Lifecycle!LeaveOrTakeDown
  <2>2. CASE handler'.plugin = None
    <3>1. Lifecycle!Unload
      BY <1>1, <1>5, <2>1, <2>2 DEF Lifecycle!Unload, Preparing
    <3> QED BY <3>1 DEF Lifecycle!LifecycleNext
  <2>3. CASE handler'.plugin \in Personalities
    <3>1. handler'.iState = "PrepareStart"
      BY <1>5, <2>3, HandlerAssumption DEF Down
    <3>2. Lifecycle!Load(handler'.plugin)
      BY <1>5, <2>1, <3>1 DEF Lifecycle!Load
    <3> QED BY <2>3, <3>2 DEF Lifecycle!LifecycleNext
  <2> QED BY <1>1, <2>2, <2>3
<1> QED BY <1>2, <1>3, <1>4, <1>5 DEF Orderly, Down

-----------------------------------------------------------------------------
\* What is kept, when the plugin answers its last step of a start in the call and no
\* client changes the personality.

\* The inductive invariant: how far the watcher and its handler have come together.
THEOREM TogetherAlways ==
  ASSUME Answered, Unchanging
  PROVE  Spec => []AloneInv
<1>1. AloneInv /\ [Next]_vars => AloneInv'
  BY NextOrderly DEF Orderly
<1> QED BY <1>1, AloneInit, PTL DEF Spec

\* The handler implements the life cycle of a personality: whatever the cable, the lock,
\* the global state and the answers are, USB is brought up only for the plugin that is
\* loaded and prepared, and no plugin is replaced or dropped under a running USB but one
\* that was preparing a start or a stop when it was cancelled.
THEOREM HandlerImplementsLifecycle ==
  ASSUME Answered, Unchanging
  PROVE  Spec => LifecycleSpec
<1>1. AloneInv /\ [Next]_vars => [Lifecycle!LifecycleNext]_(Lifecycle!lifecycleVars)
  BY NextOrderly, OrderlyIsLifecycle
<1>2. Init => Lifecycle!LifecycleInit
  BY DEF Init, InitHandler, Lifecycle!LifecycleInit
<1> QED BY <1>1, <1>2, TogetherAlways, PTL DEF Spec, LifecycleSpec, Lifecycle!LifecycleSpec

\* A started personality has its plugin, and an idle watcher none but the one whose
\* failed start is being cleaned up.
THEOREM PluginAlwaysFollows ==
  ASSUME Answered, Unchanging
  PROVE  Spec => []PluginFollowsWatcher
<1>1. AloneInv => PluginFollowsWatcher
  BY DEF AloneInv, Together, PluginFollowsWatcher, AtRest, Gone, IsUp, CleaningUp, StopSteps
<1> QED BY <1>1, TogetherAlways, PTL

\* The process never misuses an active object: no SetActive() of an active one, no
\* completion of a request twice, no Cancel() that waits forever.
THEOREM NothingMisused ==
  ASSUME Answered, Unchanging
  PROVE  Spec => []NeverFaults
<1>1. AloneInv => NeverFaults
  BY DEF AloneInv, NeverFaults
<1> QED BY <1>1, TogetherAlways, PTL

\* A lock cancels what is under way and stops what is up.
LEMMA LockEnds ==
  ASSUME NEW m \in Memory, Loose(m), Waits(m)
  PROVE  /\ m.w.iState # "Started" => Cancel(m).w.iState = "Idle"
         /\ m.w.iState = "Started" => /\ Stop(m).w.iState = "Stopping"
                                      /\ Stop(m).h.iState \in StopSteps
<1>1. CASE m.w.iState \notin {"Started", "Idle"}
  <2> DEFINE k == HandlerCancel(m)
             n == [Publish(k, None) EXCEPT !.w.iState = "Idle"]
             o == [n EXCEPT !.w.active = FALSE]
  <2>1. m.w.active /\ m.w.iState \in {"Starting", "Stopping"}
    BY <1>1 DEF Loose, Together
  <2>2. Publish(k, None) \in Memory
    BY HandlerCancelType, PublishType
  <2>3. Cancel(m).w = o.w
    <3>1. n \in Memory
      BY <2>2, WatcherStateType DEF WatcherStates
    <3>2. Cancel(m) = [n EXCEPT !.w.active = FALSE,
                         !.fault = IF n.w.iStatus = Pending THEN Raise(@, CancelHangs) ELSE @]
      BY <2>1 DEF Cancel, n, k
    <3> HIDE DEF n
    <3> QED BY <3>1, <3>2 DEF Memory
  <2>4. o.w.iState = "Idle"
    BY <2>2 DEF Memory, Watcher
  <2> QED BY <1>1, <2>3, <2>4
<1>2. CASE m.w.iState = "Idle"
  BY <1>2 DEF Cancel, Loose, Together
<1>3. CASE m.w.iState = "Started"
  <2> DEFINE k == HandlerStop(m)
  <2>1. k \in Memory /\ Stopping(k.h)
    BY <1>3, HandlerStopDoes
  <2>2. Stop(m) = WatcherActive(k, "Stopping")
    BY <1>3 DEF Stop
  <2> HIDE DEF k
  <2>3. WatcherActive(k, "Stopping").w.iState = "Stopping"
    BY <2>1 DEF WatcherActive, Memory, Watcher
  <2>4. WatcherActive(k, "Stopping").h = k.h
    BY <2>1 DEF WatcherActive, Memory
  <2> QED BY <1>3, <2>1, <2>2, <2>3, <2>4 DEF Stopping
<1> QED BY <1>1, <1>2, <1>3

\* What is up after a lock: what is being stopped, or what USB Manager was not told of.
LeftUp(g, h) == h.usb # None => \/ h.iState \in StopSteps
                               \/ /\ g.iState \in {"Idle", "PrepareStart", "PrepareStop"}
                                  /\ h.usb = g.usb

\* A cancellation leaves up no more than that.
LEMMA CancelLeaves ==
  ASSUME NEW m \in Memory, Loose(m), Waits(m), m.w.iState # "Started"
  PROVE  LeftUp(m.h, Cancel(m).h)
<1>1. CASE m.w.active
  <2>1. Gone(Cancel(m).h) /\ Down(m.h, Cancel(m).h)
    BY <1>1, CancelKeeps DEF Kept
  <2>2. m.h.plugin = None => m.h.iState = "Idle"
    BY BusyHasPlugin DEF Loose
  <2> QED BY <2>1, <2>2 DEF LeftUp, Gone, Down, Preparing
<1>2. CASE ~m.w.active
  <2>1. AtRest(m.h) /\ Cancel(m) = m
    BY <1>2, CancelKeeps DEF Loose, Together
  <2> QED BY <2>1 DEF LeftUp, AtRest, Gone, CleaningUp
<1> QED BY <1>1, <1>2

\* A remote lock of a connected device stops the personality that is up, and cancels what
\* is under way, whatever that is.  USB stays up only where nothing had been told to USB
\* Manager: the personality of a stop, or of the stop before a start, that the plugin was
\* still preparing.
THEOREM LockAlwaysStops ==
  ASSUME Answered, Unchanging
  PROVE  Spec => LockStops
<1> DEFINE Locking == /\ RunLock /\ lock.value = "RemoteLocked"
                      /\ device.current # "Undefined" /\ ~idPin
                      /\ watcher.iState # "ConfirmStop"
           Stopped == /\ watcher'.iState \in {"Idle", "Stopping"}
                      /\ handler'.usb # None =>
                           BeingStopped' \/ (UntoldToStop /\ handler'.usb = handler.usb)
<1>1. ASSUME AloneInv, Locking PROVE Stopped
  <2> DEFINE n(in) == [Mem(in) EXCEPT !.lock.ready = FALSE]
             c(in) == CancelCableConnectedNotifier(n(in))
  <2>1. PICK in \in Outside : Commit(Lock(n(in)))
    BY <1>1 DEF RunLock
  <2>2. Beside(Mem(in), n(in)) /\ n(in).dev = device /\ n(in).idPin = idPin
    <3>1. n(in) \in Memory
      BY <1>1, MemCalm DEF Memory, Lock_
    <3> QED BY <1>1, <3>1, MemCalm DEF Beside, Memory, Mem
  <2>3. Waits(Mem(in))
    BY <1>1, OthersWait DEF RunLock, LockReady, WatcherReady
  <2>4. Lock(n(in)) = IF c(in).w.iState # "Started" THEN Cancel(c(in)) ELSE Stop(c(in))
    BY <1>1, <2>2 DEF Lock
  <2>5. Mem(in).h = handler
    BY <1>1, MemCalm
  <2> HIDE DEF n
  <2>6. Calm(n(in)) /\ Waits(n(in)) /\ n(in) \in Memory /\ n(in).h = handler
    BY <1>1, <2>2, <2>3, <2>5, MemCalm, BesideAside, AsideKeeps, AsideKeepsLoose
       DEF AsideInWatcher, Kept, Beside
  <2>7. Aside(n(in), c(in)) /\ c(in) \in Memory
    BY <2>6, NotesAside DEF Aside
  <2> HIDE DEF c
  <2>8. Loose(c(in)) /\ Waits(c(in)) /\ SameHandler(handler, c(in).h)
    BY <2>6, <2>7, AsideKeepsLoose DEF Calm, Aside
  <2>9. Lock(n(in)).w.iState \in {"Idle", "Stopping"}
    BY <2>4, <2>7, <2>8, LockEnds
  <2>10. LeftUp(c(in).h, Lock(n(in)).h)
    BY <2>4, <2>7, <2>8, LockEnds, CancelLeaves DEF LeftUp
  <2>11. LeftUp(handler, Lock(n(in)).h)
    BY <2>8, <2>10 DEF LeftUp, SameHandler
  <2>12. Lock(n(in)).fault = NoFault
    BY <2>6, LockKeeps DEF Kept, Calm, Loose
  <2>13. watcher'.iState \in {"Idle", "Stopping"} /\ LeftUp(handler, handler')
    BY <2>1, <2>9, <2>11, <2>12 DEF Commit
  <2> QED BY <2>13 DEF LeftUp, BeingStopped, UntoldToStop, StopSteps
<1>2. AloneInv /\ [Next]_vars => [Locking => Stopped]_vars
  BY <1>1
<1> QED BY <1>2, TogetherAlways, PTL DEF Spec, LockStops

-----------------------------------------------------------------------------
\* A start needs a cable.

\* The device is only a B-device: no A-plug is ever connected.
NoAPlug == IdPins = {FALSE}

\* A cable is connected, or the report of its removal has not been handled.
Reported == device.current # "Undefined" \/ device.ready

\* The global state is observed only while there is a cable, and every change of the
\* device is reported.
CableInv == /\ observer.active => Reported
            /\ ~device.ready => device.current = device.iPreviousState
            /\ device.ready /\ device.current = "Undefined"
                 => device.iPreviousState # "Undefined"

\* A step that keeps this and starts no personality without a cable.
CableStep == /\ CableInv'
             /\ watcher.iState # "Starting" /\ watcher'.iState = "Starting" => Reported

\* An operation that leaves alone the device and the observer of the global state.
Apart(m, n) == n.dev = m.dev /\ n.obs = m.obs

\* The operations of the handler and of the starter.
LEMMA HandlerApart ==
  ASSUME NEW m
  PROVE  /\ Apart(m, HandlerStart(m)) /\ Apart(m, HandlerStop(m))
         /\ Apart(m, HandlerCancel(m)) /\ Apart(m, StarterStart(m)) /\ Apart(m, StopRestarting(m))
<1>1. Apart(m, HandlerStart(m))
  BY DEF HandlerActive, CompleteRequest, TakeRequest, CancelAllNotes, HandlerStart, Apart
<1>2. Apart(m, HandlerStop(m))
  BY DEF HandlerActive, PrepareStop, TakeRequest, HandlerStop, Apart
<1>3. Apart(m, HandlerCancel(m))
  BY DEF HandlerCancel, CompleteRequest, CancelAllNotes, Apart
<1>4. Apart(m, StarterStart(m)) /\ Apart(m, StopRestarting(m))
  BY DEF StarterStart, StarterWaits, StopRestarting, Apart
<1> QED BY <1>1, <1>2, <1>3, <1>4

\* The RunL of the handler and that of the starter.
LEMMA OthersRunApart ==
  ASSUME NEW m \in Memory
  PROVE  Apart(m, HandlerRunL(m)) /\ Apart(m, StarterRunL(m))
<1>1. m.h.iState \in HandlerStates /\ m.starter.iState \in StarterStates
  BY DEF Memory, Handler, Starter
<1>2. Apart(m, HandlerRunL(m))
  BY <1>1 DEF HandlerActive, CompleteRequest, PrepareStop, HandlerRunError, HandlerRunL,
              Apart, HandlerStates
<1>3. Apart(m, StarterRunL(m))
  BY <1>1 DEF StarterRunL, StarterStart, StarterWaits, Apart, StarterStates
<1> QED BY <1>2, <1>3

\* Saving a personality, swapping it and completing messages.
LEMMA NotifyApart ==
  ASSUME NEW m, NEW code, NEW id
  PROVE  /\ Apart(m, Notify(m, code)) /\ Apart(m, WritePersonalityId(m, id))
         /\ Apart(m, SwapPersonalities(m))
<1>1. ASSUME NEW k, NEW c PROVE Apart(k, NotifySessions(k, c))
  BY DEF NotifySessions, Apart
<1>2. ASSUME NEW k, NEW p
      PROVE  /\ Apart(k, WritePersonalityId(k, p)) /\ Apart(k, UndoSetPersonality(k))
             /\ Apart(k, SwapPersonalities(k))
  BY DEF WritePersonalityId, UndoSetPersonality, SwapPersonalities, Apart
<1>3. ASSUME NEW k, NEW c
      PROVE  Apart(k, EndSetPersonality(k, c)) /\ Apart(k, EndSetPreviousPersonality(k, c))
  <2>1. /\ Apart(k, [k EXCEPT !.w.iSetPersonalityOngoing = FALSE])
        /\ Apart(k, [k EXCEPT !.w.iSetPreviousPersonalityOngoing = FALSE])
    BY DEF Apart
  <2> QED BY <1>2, <2>1 DEF EndSetPersonality, EndSetPreviousPersonality, Apart
<1> DEFINE c == [m EXCEPT !.w.iPersonalityChangeOngoing = FALSE]
           d == EndSetPersonality(c, code)
<1>4. Apart(m, c)
  BY DEF Apart
<1> HIDE DEF c
<1>5. Apart(m, d)
  BY <1>3, <1>4 DEF Apart
<1>6. \E s : Notify(m, code) = NotifySessions(EndSetPreviousPersonality(d, s), s)
  BY DEF Notify, d, c
<1> HIDE DEF d
<1>7. Apart(m, Notify(m, code))
  BY <1>1, <1>3, <1>5, <1>6 DEF Apart
<1> QED BY <1>2, <1>7

\* Cancelling and stopping.
LEMMA StopApart ==
  ASSUME NEW m
  PROVE  Apart(m, Cancel(m)) /\ Apart(m, Stop(m))
<1>1. ASSUME NEW k, NEW s PROVE Apart(k, WatcherActive(k, s))
  BY DEF WatcherActive, Apart
<1>2. Apart(m, HandlerCancel(m)) /\ Apart(m, HandlerStop(m))
  BY HandlerApart
<1>3. Apart(m, Cancel(m))
  <2> DEFINE n == CASE m.w.iState \in {"Starting", "Stopping"} ->
                         [Publish(HandlerCancel(m), None) EXCEPT !.w.iState = "Idle"]
                    [] m.w.iState = "ConfirmStop" ->
                         [HandlerCancel(m) EXCEPT !.w.iState = "Started"]
                    [] OTHER -> m
  <2>1. Apart(m, n)
    <3>1. ASSUME NEW k, NEW s, NEW p
          PROVE  Apart(k, [k EXCEPT !.w.iState = s]) /\ Apart(k, Publish(k, p))
      BY DEF Apart, Publish
    <3> QED BY <1>2, <3>1 DEF Apart
  <2>2. Cancel(m) = IF ~m.w.active THEN m
                    ELSE [n EXCEPT !.w.active = FALSE,
                            !.fault = IF n.w.iStatus = Pending THEN Raise(@, CancelHangs) ELSE @]
    BY DEF Cancel
  <2> HIDE DEF n
  <2> QED BY <2>1, <2>2 DEF Apart
<1> QED BY <1>1, <1>2, <1>3 DEF Stop, Apart

\* A start leaves the device alone.
LEMMA StartDevice ==
  ASSUME NEW m
  PROVE  Start(m).dev = m.dev
<1>1. ASSUME NEW k PROVE Launch(k).dev = k.dev
  <2> DEFINE n == [Publish(k, k.w.iPersonalityId) EXCEPT !.w.iStarted = TRUE]
  <2>1. n.dev = k.dev
    BY DEF Publish
  <2>2. Launch(k) = WatcherActive(HandlerStart(n), "Starting")
    BY DEF Launch
  <2> HIDE DEF n
  <2>3. HandlerStart(n).dev = n.dev
    BY HandlerApart DEF Apart
  <2> QED BY <2>1, <2>2, <2>3 DEF WatcherActive
<1>2. ASSUME NEW k PROVE ObserveGlobalState(k).dev = k.dev /\ CancelObserver(k).dev = k.dev
  BY DEF ObserveGlobalState, CancelObserver
<1>3. ASSUME NEW k PROVE StartCharging(k).dev = k.dev
  <2> DEFINE n == [ObserveGlobalState(k) EXCEPT !.w.iPrevPersonalityId = k.w.iPersonalityId]
             x == [n EXCEPT !.w.iPersonalityId = ChargingPersonality,
                            !.w.iSetPreviousPersonalityOnDisconnect = TRUE]
  <2>1. n.dev = k.dev /\ x.dev = k.dev
    BY <1>2
  <2>2. StartCharging(k) \in {n, Launch(x)}
    BY DEF StartCharging
  <2> HIDE DEF n, x
  <2> QED BY <1>1, <2>1, <2>2
<1>4. ASSUME NEW k PROVE StartNormal(k).dev = k.dev
  <2> DEFINE n == [k EXCEPT !.w.iNormalStart = TRUE]
  <2>1. n.dev = k.dev /\ StartNormal(k) \in {n, Launch(CancelObserver(n))}
    BY DEF StartNormal
  <2> HIDE DEF n
  <2> QED BY <1>1, <1>2, <2>1
<1> DEFINE d == [m EXCEPT !.w.iStarted = FALSE, !.w.iNormalStart = FALSE]
<1>5. d.dev = m.dev /\ Start(m) \in {m, StartCharging(d), StartNormal(d), ObserveGlobalState(d)}
  BY DEF Start
<1> HIDE DEF d
<1> QED BY <1>2, <1>3, <1>4, <1>5

\* With no change under way the answer of the handler starts nothing.
LEMMA WatcherRunLApart ==
  ASSUME NEW m \in Memory, Calm(m), m.w.active, m.w.iStatus \in Codes
  PROVE  Apart(m, WatcherRunL(m)) /\ WatcherRunL(m).w.iState # "Starting"
<1> DEFINE ret == m.w.iStatus
           d == [m EXCEPT !.w.active = FALSE]
           k == Notify(d, ret)
           g == [k EXCEPT !.w.iStopStartScenario = FALSE]
           q == [d EXCEPT !.w.iState = "Idle"]
           up == [g EXCEPT !.w.iState = "Started"]
           p == Publish(g, None)
           down == [p EXCEPT !.w.iState = "Idle"]
<1>1. m.w.iState \in {"Starting", "Stopping"} /\ ~m.w.iStopStartScenario
  BY DEF Calm, Loose, Together, NoChange
<1>2. WatcherRunL(m) \in {up, down, Publish(q, None)}
  BY <1>1 DEF WatcherRunL
<1>3. d \in Memory /\ Apart(m, d)
  <2>1. Apart(m, d)
    BY DEF Apart
  <2> QED BY <2>1, WatcherFlags
<1> HIDE DEF d, ret
<1>4. k \in Memory /\ Apart(m, k)
  BY <1>3, NotifyType, NotifyApart DEF ret, Apart
<1> HIDE DEF k
<1>5. g \in Memory /\ Apart(m, g)
  <2>1. Apart(k, g)
    BY DEF Apart
  <2> QED BY <1>4, <2>1, WatcherFlags DEF Apart
<1> HIDE DEF g
<1>6. p \in Memory /\ Apart(m, p)
  BY <1>5, PublishType DEF Publish, Apart
<1> HIDE DEF p
<1>7. Apart(m, up) /\ up.w.iState = "Started" /\ Apart(m, down) /\ down.w.iState = "Idle"
  BY <1>5, <1>6 DEF Apart, Memory, Watcher
<1>8. Apart(m, Publish(q, None)) /\ Publish(q, None).w.iState = "Idle"
  BY <1>3 DEF Apart, Publish, Memory, Watcher
<1> HIDE DEF up, down, q
<1> QED BY <1>2, <1>7, <1>8

\* The events of the device: a device attached is left alone, and of one detached the
\* global state is observed no more.
LEMMA StateChangeCable ==
  ASSUME NEW m \in Memory, NEW old, NEW new
  PROVE  LET n == StateChangeNotify(m, old, new) IN
         /\ n.dev = m.dev
         /\ new = "Undefined" /\ ~m.idPin => ~n.obs.active
<1> DEFINE n == IF m.w.iNormalStart
                  THEN [m EXCEPT !.ind = IndicatorChange(@, old, new)] ELSE m
<1>1. n.dev = m.dev /\ n.idPin = m.idPin
  BY DEF Memory
<1>2. StateChangeNotify(m, old, new) =
        CASE n.idPin -> n
          [] ~n.idPin /\ new \in {"Attached", "Powered"} ->
               IF old = "Undefined" THEN DeviceAttached(n, old, new) ELSE n
          [] ~n.idPin /\ new = "Undefined" -> DeviceDetached(n, old)
          [] OTHER -> IF n.w.iState = "Started" THEN HandlerStateChange(n, old, new) ELSE n
  BY DEF StateChangeNotify
<1> HIDE DEF n
<1>3. ASSUME NEW k PROVE Apart(k, HandlerStateChange(k, old, new))
  BY DEF HandlerStateChange, Apart
<1>4. DeviceAttached(n, old, new).dev = n.dev
  <2> DEFINE h == HandlerStateChange(n, old, new)
  <2>1. \E r \in {Start(h), Start(Cancel(h)), h} : DeviceAttached(n, old, new) = StartDevCon(r)
    BY DEF DeviceAttached
  <2>2. h.dev = n.dev
    BY <1>3 DEF Apart
  <2> HIDE DEF h
  <2>3. \A r \in {Start(h), Start(Cancel(h)), h} : r.dev = n.dev
    BY <2>2, StartDevice, StopApart DEF Apart
  <2> QED BY <2>1, <2>3, HandlerApart DEF StartDevCon, Apart
<1>5. DeviceDetached(n, old).dev = n.dev /\ ~DeviceDetached(n, old).obs.active
  <2> DEFINE c == CancelObserver(n)
             h == HandlerStateChange(c, old, "Undefined")
             s == StopRestarting(h)
             r == SwapPersonalities(s)
             p == WritePersonalityId(r, r.w.iPersonalityId)
             x == [p EXCEPT !.w.iSetPreviousPersonalityOnDisconnect = FALSE]
             restored == IF s.w.iSetPreviousPersonalityOnDisconnect THEN x ELSE s
             t == Notify(restored, KErrCancel)
  <2>1. DeviceDetached(n, old) \in {Cancel(t), Stop(Cancel(t)), Stop(t)}
    BY DEF DeviceDetached
  <2>2. c.dev = n.dev /\ c.obs = [active |-> FALSE, iStatus |-> KErrNone]
    BY <1>1 DEF CancelObserver, Memory
  <2>3. Apart(c, h)
    BY DEF HandlerStateChange, Apart
  <2>4. Apart(h, s) /\ Apart(s, r) /\ Apart(r, p)
    BY HandlerApart, NotifyApart
  <2>5. Apart(p, x)
    BY DEF Apart
  <2>6. Apart(restored, t) /\ Apart(t, Cancel(t)) /\ Apart(t, Stop(t))
        /\ Apart(Cancel(t), Stop(Cancel(t)))
    BY NotifyApart, StopApart
  <2> HIDE DEF c, h, s, r, p, x, t
  <2> QED BY <2>1, <2>2, <2>3, <2>4, <2>5, <2>6 DEF Apart
<1> QED BY <1>1, <1>2, <1>3, <1>4, <1>5 DEF Apart

\* A step that leaves the device alone, if it starts a personality, or the observer of
\* the global state, only with a cable.
LEMMA StepCable ==
  ASSUME CableInv, NEW n, Commit(n), n.fault = NoFault, n.dev = device,
         n.obs.active => observer.active \/ Reported,
         n.w.iState = "Starting" => watcher.iState = "Starting" \/ Reported
  PROVE  CableStep
<1>1. watcher' = n.w /\ device' = device /\ observer' = n.obs
  BY DEF Commit
<1> QED BY <1>1 DEF CableStep, CableInv, Reported

\* Every RunL but that of the device.
LEMMA SchedulerCable ==
  ASSUME AloneInv, CableInv, Orderly,
         RunWatcher \/ RunHandler \/ RunLock \/ RunObserver \/ RunStarter
  PROVE  CableStep
<1>0. TypeOK /\ fault' = NoFault
  BY DEF AloneInv, Orderly
<1>m. ASSUME NEW in \in Outside
      PROVE  /\ Mem(in) \in Memory /\ Calm(Mem(in)) /\ Mem(in).dev = device
             /\ Mem(in).obs = observer /\ Mem(in).w = watcher /\ Mem(in).h = handler
             /\ Mem(in).starter = starter
  BY MemCalm DEF Mem
<1>c. ASSUME NEW n, Commit(n) PROVE n.fault = NoFault
  BY <1>0, <1>c DEF Commit
<1>1. CASE RunWatcher
  <2>1. PICK in \in Outside : Commit(WatcherRunL(Mem(in)))
    BY <1>1 DEF RunWatcher
  <2>2. watcher.active /\ watcher.iStatus \in Codes
    BY <1>0, <1>1, ReadyType DEF RunWatcher, WatcherReady, Ready
  <2>3. Apart(Mem(in), WatcherRunL(Mem(in))) /\ WatcherRunL(Mem(in)).w.iState # "Starting"
    BY <1>m, <2>2, WatcherRunLApart
  <2> QED BY <1>c, <1>m, <2>1, <2>3, StepCable DEF Apart
<1>2. CASE RunHandler
  <2>1. PICK in \in Outside : Commit(HandlerRunL(Mem(in)))
    BY <1>2 DEF RunHandler
  <2> DEFINE m == Mem(in)
             n == HandlerRunL(m)
  <2>2. /\ handler.active /\ handler.iStatus \in Codes
        /\ watcher.active => watcher.iStatus = Pending
    BY <1>0, <1>2, ReadyType DEF RunHandler, HandlerReady, WatcherReady, Ready
  <2>3. Apart(m, n)
    BY <1>m, OthersRunApart
  <2>4. m \in Memory /\ Calm(m) /\ m.w = watcher /\ m.h = handler
    BY <1>m
  <2> HIDE DEF m
  <2>5. ASSUME watcher.iState # "Starting" PROVE SameWatcher(m.w, n.w)
    <3>1. \/ m.w.iState = "Stopping" /\ m.w.active /\ m.w.iStatus = Pending /\ Stopping(m.h)
          \/ m.w.iState = "Idle" /\ ~m.w.active /\ CleaningUp(m.h)
      BY <2>2, <2>4, <2>5 DEF Calm, Loose, Together, AtRest, Gone, IsUp
    <3> QED BY <2>2, <2>4, <3>1, StopStepKeeps
  <2> HIDE DEF n
  <2>6. n.w.iState = "Starting" => watcher.iState = "Starting"
    BY <2>4, <2>5 DEF SameWatcher
  <2>7. n.dev = device /\ n.obs = observer
    BY <1>m, <2>3 DEF Apart, m
  <2> QED BY <1>c, <2>1, <2>6, <2>7, StepCable DEF n, m
<1>3. CASE RunLock
  <2> DEFINE n(in) == [Mem(in) EXCEPT !.lock.ready = FALSE]
  <2>1. PICK in \in Outside :
          Commit(CASE lock.value = "Off" -> Unlock(n(in))
                   [] lock.value = "RemoteLocked" -> Lock(n(in))
                   [] OTHER -> n(in))
    BY <1>3 DEF RunLock
  <2>2. Beside(Mem(in), n(in)) /\ n(in).dev = device /\ n(in).obs = observer
    <3>1. n(in) \in Memory
      BY <1>m DEF Memory, Lock_
    <3> QED BY <1>m, <3>1 DEF Beside, Memory
  <2>3. Waits(Mem(in))
    BY <1>3, OthersWait DEF RunLock, LockReady, WatcherReady
  <2> DEFINE k == n(in)
             c == CancelCableConnectedNotifier(k)
  <2>4. k \in Memory /\ Loose(k) /\ Waits(k) /\ k.w = watcher
    <3> HIDE DEF n
    <3> QED BY <1>m, <2>2, <2>3, BesideAside, AsideKeepsLoose DEF AsideInWatcher, Beside, Calm
  <2>5. k.dev = device /\ k.obs = observer
    BY <2>2
  <2> HIDE DEF k
  <2>6. Apart(k, c)
    BY DEF CancelCableConnectedNotifier, Apart
  <2>7. c \in Memory /\ Loose(c) /\ Waits(c)
    BY <2>4, NotesAside, AsideKeepsLoose DEF Aside
  <2>8. Lock(k) = IF k.idPin \/ k.dev.current = "Undefined" THEN k
                  ELSE IF c.w.iState # "Started" THEN Cancel(c) ELSE Stop(c)
    BY DEF Lock
  <2> HIDE DEF c
  <2>9. /\ Apart(k, Lock(k))
        /\ Lock(k).w.iState = "Starting" => watcher.iState = "Starting"
    <3>1. Apart(k, Cancel(c)) /\ Apart(k, Stop(c)) /\ Apart(k, k)
      BY <2>6, StopApart DEF Apart
    <3> QED BY <2>4, <2>7, <2>8, <3>1, LockEnds
  <2>10. CASE Unlock(k) # k
    <3>1. Reported
      BY <2>5, <2>10 DEF Unlock, Reported
    <3>2. Unlock(k).dev = k.dev
      BY StartDevice DEF Unlock
    <3> QED BY <1>c, <2>1, <2>4, <2>5, <2>9, <3>1, <3>2, StepCable DEF Apart, k
  <2>11. CASE Unlock(k) = k
    BY <1>c, <2>1, <2>4, <2>5, <2>9, <2>11, StepCable DEF Apart, k
  <2> QED BY <2>10, <2>11
<1>4. CASE RunObserver
  <2> DEFINE n(in) == [Mem(in) EXCEPT !.obs.iStatus = Pending]
  <2>1. PICK in \in Outside :
          Commit(CASE global = "ChargingToNormal" -> StopPersonality(n(in))
                   [] global = "Charging" -> StartPersonality(n(in))
                   [] global = "Normal" -> StartPersonality(CancelObserver(n(in)))
                   [] OTHER -> n(in))
    BY <1>4 DEF RunObserver
  <2>2. Reported
    BY <1>4 DEF RunObserver, ObserverReady, Ready, CableInv
  <2>3. n(in).dev = device /\ CancelObserver(n(in)).dev = device
    BY <1>m DEF CancelObserver
  <2>4. ASSUME NEW k PROVE StopPersonality(k).dev = k.dev /\ StartPersonality(k).dev = k.dev
    <3> DEFINE u == [k EXCEPT !.w.iPersonalityId = k.w.iPrevPersonalityId]
    <3>1. u.dev = k.dev /\ StopPersonality(k).dev = Stop(u).dev
      BY DEF StopPersonality
    <3>2. \E r \in {k, Start(k)} : StartPersonality(k) = StartDevCon(r)
      BY DEF StartPersonality
    <3> HIDE DEF u
    <3>3. ASSUME NEW r PROVE StartDevCon(r).dev = r.dev
      BY HandlerApart DEF StartDevCon, Apart
    <3> QED BY <3>1, <3>2, <3>3, StopApart, StartDevice DEF Apart
  <2> HIDE DEF n
  <2> QED BY <1>c, <2>1, <2>2, <2>3, <2>4, StepCable
<1>5. CASE RunStarter
  <2>1. PICK in \in Outside : Commit(StarterRunL(Mem(in)))
    BY <1>5 DEF RunStarter
  <2>2. Mem(in).starter.active /\ StarterWaiting(Mem(in).starter)
    BY <1>5, <1>m DEF RunStarter, StarterReady, Ready, Calm, Loose
  <2>3. Apart(Mem(in), StarterRunL(Mem(in))) /\ StarterRunL(Mem(in)).w = Mem(in).w
    BY <1>m, <2>2, StarterAside, OthersRunApart
  <2> QED BY <1>c, <1>m, <2>1, <2>3, StepCable DEF Apart
<1> QED BY <1>1, <1>2, <1>3, <1>4, <1>5

\* The RunL of the device: without a cable it ends the observation.
LEMMA DeviceCable ==
  ASSUME AloneInv, CableInv, Orderly, NoAPlug, RunDevice
  PROVE  CableStep
<1>0. TypeOK /\ fault' = NoFault /\ ~idPin
  BY DEF AloneInv, Orderly, TypeOK, NoAPlug
<1> DEFINE new == device.current
           old == device.iPreviousState
           n(in) == [Mem(in) EXCEPT !.dev.ready = FALSE]
           k(in) == StateChangeNotify(n(in), old, new)
           r(in) == [k(in) EXCEPT !.dev.iPreviousState = new]
<1>1. PICK in \in Outside : Commit(IF new = old THEN n(in) ELSE r(in))
  BY DEF RunDevice
<1>2. device \in Device /\ Reported /\ device.ready
  BY <1>0 DEF TypeOK, RunDevice, DeviceReady, Reported
<1>3. /\ n(in) \in Memory /\ n(in).dev = [device EXCEPT !.ready = FALSE]
      /\ n(in).obs = observer /\ ~n(in).idPin
  <2>1. Mem(in) \in Memory
    BY MemCalm
  <2>2. n(in) \in Memory
    BY <2>1 DEF Memory, Device
  <2> QED BY <1>0, <2>2 DEF Mem
<1> HIDE DEF n
<1>4. k(in).dev = [device EXCEPT !.ready = FALSE] /\ (new = "Undefined" => ~k(in).obs.active)
  BY <1>3, StateChangeCable
<1> HIDE DEF k
<1>5. /\ r(in).dev = [device EXCEPT !.ready = FALSE, !.iPreviousState = new]
      /\ r(in).obs = k(in).obs
  BY <1>4
<1> HIDE DEF r
<1>6. CASE new = old
  <2>1. device' = [device EXCEPT !.ready = FALSE] /\ observer' = observer
    BY <1>0, <1>1, <1>3, <1>6 DEF Commit
  <2>2. ~device'.ready /\ device'.current = new /\ device'.iPreviousState = old
    BY <1>2, <2>1 DEF Device
  <2>3. new # "Undefined"
    BY <1>2, <1>6 DEF CableInv
  <2> QED BY <1>2, <1>6, <2>2, <2>3 DEF CableStep, CableInv, Reported
<1>7. CASE new # old
  <2>1. /\ device' = [device EXCEPT !.ready = FALSE, !.iPreviousState = new]
        /\ observer' = k(in).obs
    BY <1>0, <1>1, <1>5, <1>7 DEF Commit
  <2>2. ~device'.ready /\ device'.current = new /\ device'.iPreviousState = new
    BY <1>2, <2>1 DEF Device
  <2> QED BY <1>2, <1>4, <2>1, <2>2 DEF CableStep, CableInv, Reported
<1> QED BY <1>6, <1>7

\* Clients that change no personality.
LEMMA ClientCable ==
  ASSUME AloneInv, CableInv, Orderly, Unchanging, NEW s \in Sessions, Client(s)
  PROVE  CableStep
<1>0. fault' = NoFault
  BY DEF AloneInv, Orderly
<1>1. SessionOnDisconnect(s) \/ SessionClose(s)
  BY DEF Client, Unchanging
<1>2. CASE SessionOnDisconnect(s)
  <2>1. PICK in \in Outside : Commit(SetPreviousPersonalityOnDisconnect(Mem(in)))
    BY <1>2 DEF SessionOnDisconnect
  <2> DEFINE m == Mem(in)
             x == [m EXCEPT !.w.iSetPreviousPersonalityOnDisconnect = TRUE]
             k == Notify(m, KErrAccessDenied)
             n == SetPreviousPersonalityOnDisconnect(m)
  <2>2. n \in {m, x, k}
    BY DEF SetPreviousPersonalityOnDisconnect
  <2>3. m \in Memory /\ Calm(m) /\ m.dev = device /\ m.obs = observer /\ m.w = watcher
    BY MemCalm DEF Mem
  <2> HIDE DEF m, n
  <2>4. Apart(m, x) /\ x.w.iState = m.w.iState
    BY <2>3 DEF Apart, Memory, Watcher
  <2>5. Apart(m, k) /\ k.w.iState = m.w.iState
    BY <2>3, NotifyApart, NotifyAside DEF Aside, SameWatcher, Calm, Loose, Codes
  <2> HIDE DEF x, k
  <2>6. n.dev = device /\ n.obs = observer /\ n.w.iState = watcher.iState
    BY <2>2, <2>3, <2>4, <2>5 DEF Apart
  <2>7. Commit(n)
    BY <2>1 DEF n, m
  <2>8. n.fault = NoFault
    BY <1>0, <2>7 DEF Commit
  <2> QED BY <2>6, <2>7, <2>8, StepCable
<1>3. CASE SessionClose(s)
  <2>1. PICK in \in Outside : Commit([Mem(in) EXCEPT !.ss[s] = NoMessages])
    BY <1>3 DEF SessionClose
  <2> DEFINE n == [Mem(in) EXCEPT !.ss[s] = NoMessages]
  <2>2. n.dev = device /\ n.obs = observer /\ n.w = watcher /\ n.fault = NoFault
    BY DEF Mem
  <2> HIDE DEF n
  <2> QED BY <2>1, <2>2, StepCable DEF n
<1> QED BY <1>1, <1>2, <1>3

\* The outside: a change of the device is reported before the next.
LEMMA WorldCable ==
  ASSUME AloneInv, CableInv, World
  PROVE  CableStep
<1>1. device \in Device /\ observer \in Request
  BY DEF AloneInv, TypeOK
<1>2. watcher' = watcher
  BY DEF World, PluginAnswers, UsbManagerAnswers, UserClosesNote, DevConProcess,
         DeviceStateReported, LockChanges, GlobalStateChanges, IdPinChanges
<1>3. CASE DeviceStateReported
  <2>1. PICK st \in BusNext(device.current) :
          device' = [device EXCEPT !.current = st, !.ready = TRUE]
    BY <1>3 DEF DeviceStateReported
  <2>2. /\ device'.current = st /\ device'.ready
        /\ device'.iPreviousState = device.iPreviousState
    BY <1>1, <2>1 DEF Device
  <2>3. device.iPreviousState = device.current
    BY <1>3 DEF DeviceStateReported, CableInv
  <2>4. st = "Undefined" => device.current # "Undefined"
    BY DEF BusNext
  <2> QED BY <1>2, <2>2, <2>3, <2>4 DEF CableStep, CableInv, Reported
<1>4. CASE ~DeviceStateReported
  <2>1. device' = device /\ observer'.active = observer.active
    BY <1>1, <1>4 DEF World, PluginAnswers, UsbManagerAnswers, UserClosesNote, DevConProcess,
         LockChanges, GlobalStateChanges, IdPinChanges, Request
  <2> QED BY <1>2, <2>1 DEF CableStep, CableInv, Reported
<1> QED BY <1>3, <1>4

\* A personality is started only when a cable is connected, or before the report of its
\* removal has been handled: neither the end of a lock nor a change of the global state
\* starts one on a device that is not connected.
THEOREM StartsNeedACable ==
  ASSUME Answered, Unchanging, NoAPlug
  PROVE  Spec => StartsOnlyWithCable
<1>1. Init => CableInv
  BY DEF Init, CableInv
<1>2. ASSUME AloneInv, CableInv, Next PROVE CableStep
  <2>1. Orderly
    BY <1>2, NextOrderly
  <2> QED BY <1>2, <2>1, SchedulerCable, DeviceCable, ClientCable, WorldCable
          DEF Next, Scheduler
<1>3. AloneInv /\ CableInv /\ [Next]_vars => CableInv'
  <2>1. CASE Next
    BY <1>2, <2>1 DEF CableStep
  <2>2. CASE UNCHANGED vars
    BY <2>2 DEF vars, CableInv, Reported
  <2> QED BY <2>1, <2>2
<1>4. AloneInv /\ CableInv /\ [Next]_vars
        => [watcher.iState # "Starting" /\ watcher'.iState = "Starting"
              => device.current # "Undefined" \/ device.ready]_vars
  BY <1>2 DEF CableStep, Reported
<1> QED BY <1>1, <1>3, <1>4, TogetherAlways, PTL DEF Spec, StartsOnlyWithCable

=============================================================================
