----------------------------- MODULE OtgSafety ------------------------------
(***************************************************************************)
(* Theorems about usbotgwatcher, for all answers of the outside, all       *)
(* races, devices and messages: its types; TimersFollowState, no state     *)
(* that waits is without its timer and no timer outlives its state; and    *)
(* IndicatorTracksVBus.                                                    *)
(*                                                                         *)
(* The timers are started and cancelled in nine handlers that call each    *)
(* other, some of them from within a change of state.  What they have in   *)
(* common is Leavable: a state may be left when no other state's timer     *)
(* runs.  Every handler takes a sound memory to a sound one (Handled), and *)
(* every entry into a state takes a leavable memory to a sound one with    *)
(* the indicator set (Moved).                                              *)
(*                                                                         *)
(* The second part is about a session in which nothing fails               *)
(* (GoodSession): no event ever panics the process (NeverPanics), there is *)
(* no host without the plug (UnpluggedIsUndefined), and none but for a     *)
(* device reported attached (HostsOnlyAttached).  SessionInv is the        *)
(* inductive invariant.                                                    *)
(***************************************************************************)
EXTENDS OtgProperties, TLAPS

OtgMemory == [ host : Host, notes : Notes, connecting : BOOLEAN, published : BOOLEAN,
               ctl : Control, asked : {"None", "Start", "Stop"}, panic : Panics,
               service : Service, bus : Bus, idPin : BOOLEAN, in : Answers ]

\* TimersFollowState of a host record.
Timed(h) ==
  /\ "Attachment" \in h.timers <=> h.iHostState = "AInitiate" /\ ~h.iDeviceAttached
  /\ "DriversNotFound" \in h.timers <=> h.iHostState = "DelayAttached"
  /\ "TooMuchPower" \in h.timers <=> h.iHostState = "DelayNotAttached"

\* No timer but the state's own runs.
OnlyOwn(h) ==
  /\ "Attachment" \in h.timers => h.iHostState = "AInitiate"
  /\ "DriversNotFound" \in h.timers => h.iHostState = "DelayAttached"
  /\ "TooMuchPower" \in h.timers => h.iHostState = "DelayNotAttached"

\* The connecting indicator shows VBus without drivers, while the A-plug is in.
Lit(m) ==
  m.idPin /\ m.host.iHostState # "APeripheral"
    => (m.connecting <=> m.bus.up /\ m.host.iHostState # "AHost")

\* What no handler does: change the plug or VBus, or show the indicator without a plug.
Follows(m, n) ==
  /\ n.idPin = m.idPin /\ n.bus.up = m.bus.up
  /\ ~m.idPin /\ ~m.connecting => ~n.connecting

Sound(m) == m \in OtgMemory /\ Timed(m.host)
Leavable(m) == m \in OtgMemory /\ OnlyOwn(m.host)
Handled(m, n) == Sound(n) /\ Follows(m, n) /\ (Lit(m) => Lit(n))
Moved(m, n) == Sound(n) /\ Follows(m, n) /\ Lit(n)

\* A change of members that are neither the host's nor the indicator's.
Aside(m, n) ==
  /\ n \in OtgMemory /\ n.host = m.host /\ n.connecting = m.connecting
  /\ n.idPin = m.idPin /\ n.bus.up = m.bus.up

-----------------------------------------------------------------------------
\* How the relations combine.

\* A sound memory may be left.
LEMMA SoundIsLeavable == ASSUME NEW m, Sound(m) PROVE Leavable(m)
BY DEF Sound, Leavable, Timed, OnlyOwn

\* What is aside of a sound or leavable memory is as sound or leavable.
LEMMA AsideKeeps ==
  ASSUME NEW m, NEW n, Aside(m, n)
  PROVE  /\ Sound(m) => Handled(m, n)
         /\ Leavable(m) => Leavable(n)
         /\ Follows(m, n) /\ (Lit(m) => Lit(n))
BY DEF Aside, Sound, Leavable, Handled, Follows, Lit

\* Doing nothing, and moving, are ways to handle an event.
LEMMA Handling ==
  ASSUME NEW m
  PROVE  /\ Sound(m) => Handled(m, m)
         /\ \A n : Moved(m, n) => Handled(m, n)
BY DEF Handled, Moved, Follows

\* What is moved or handled after something aside is so from the start.
LEMMA AsideFirst ==
  ASSUME NEW m, NEW n, NEW k, Aside(m, n)
  PROVE  /\ Handled(n, k) => Handled(m, k)
         /\ Moved(n, k) => Moved(m, k)
BY DEF Aside, Handled, Moved, Follows, Lit

-----------------------------------------------------------------------------
\* Members that are neither the host's nor the indicator's.

\* Notes, the published state, what is asked of the bus and the panic are aside.
LEMMA AsideOperators ==
  ASSUME NEW m \in OtgMemory, NEW why \in Panics, NEW p \in BOOLEAN
  PROVE  /\ Aside(m, ShowWarning(m)) /\ Aside(m, ShowError(m))
         /\ Aside(m, BusRequest(m)) /\ Aside(m, BusDrop(m))
         /\ Aside(m, Panic(m, why)) /\ Aside(m, [m EXCEPT !.published = p])
<1>1. /\ [m.notes EXCEPT !.warning = "Shown"] \in Notes
      /\ [warning |-> "Hidden", error |-> "Shown"] \in Notes
  BY DEF OtgMemory, Notes, NoteStates
<1>2. Aside(m, ShowWarning(m)) /\ Aside(m, ShowError(m))
  BY <1>1 DEF ShowWarning, ShowError, Aside, OtgMemory
<1>3. \A w \in BOOLEAN : /\ [m.bus EXCEPT !.wanted = w] \in Bus
                         /\ [m.bus EXCEPT !.wanted = w].up = m.bus.up
  BY DEF OtgMemory, Bus
<1>4. Aside(m, BusRequest(m)) /\ Aside(m, BusDrop(m))
  BY <1>3 DEF BusRequest, BusDrop, Aside, OtgMemory
<1>5. Raise(m.panic, why) \in Panics
  BY DEF Raise, OtgMemory
<1>6. Aside(m, Panic(m, why))
  BY <1>5 DEF Panic, Aside, OtgMemory
<1>7. Aside(m, [m EXCEPT !.published = p])
  BY DEF Aside, OtgMemory
<1> QED BY <1>2, <1>4, <1>6, <1>7

\* Closing the notes hides the indicator and leaves the host alone.
LEMMA CloseAllNotifiersType ==
  ASSUME NEW m \in OtgMemory
  PROVE  /\ CloseAllNotifiers(m) \in OtgMemory /\ CloseAllNotifiers(m).host = m.host
         /\ ~CloseAllNotifiers(m).connecting /\ Follows(m, CloseAllNotifiers(m))
<1>1. [warning |-> "Hidden", error |-> "Hidden"] \in Notes
  BY DEF Notes, NoteStates
<1> QED BY <1>1 DEF CloseAllNotifiers, ToggleConnecting, OtgMemory, Follows

\* The indicator is set right.
LEMMA SetIndicatorType ==
  ASSUME NEW m \in OtgMemory
  PROVE  /\ SetIndicator(m) \in OtgMemory /\ SetIndicator(m).host = m.host
         /\ Lit(SetIndicator(m)) /\ Follows(m, SetIndicator(m))
<1>1. m.bus.up \in BOOLEAN /\ m.idPin \in BOOLEAN
  BY DEF OtgMemory, Bus
<1>2. CASE ~m.idPin \/ m.host.iHostState = "APeripheral"
  BY <1>2 DEF SetIndicator, Lit, Follows
<1>3. CASE ~(~m.idPin \/ m.host.iHostState = "APeripheral")
  <2> DEFINE on == m.bus.up /\ m.host.iHostState # "AHost"
  <2>1. SetIndicator(m) = [m EXCEPT !.connecting = on]
    BY <1>3 DEF SetIndicator, ToggleConnecting
  <2>2. on \in BOOLEAN
    OBVIOUS
  <2>3. /\ SetIndicator(m) \in OtgMemory /\ SetIndicator(m).host = m.host
        /\ SetIndicator(m).idPin = m.idPin /\ SetIndicator(m).bus = m.bus
        /\ SetIndicator(m).connecting = on
    <3> HIDE DEF on
    <3> QED BY <2>1, <2>2 DEF OtgMemory
  <2> QED BY <1>3, <2>3 DEF Lit, Follows
<1> QED BY <1>2, <1>3

-----------------------------------------------------------------------------
\* The timers.

\* A timer that is cancelled does not run, and nothing else changes.
LEMMA CancelTimerType ==
  ASSUME NEW m \in OtgMemory, NEW t \in Timers
  PROVE  /\ CancelTimer(m, t) \in OtgMemory
         /\ CancelTimer(m, t).host.timers = m.host.timers \ {t}
         /\ CancelTimer(m, t).host.iHostState = m.host.iHostState
         /\ CancelTimer(m, t).host.iDeviceAttached = m.host.iDeviceAttached
         /\ CancelTimer(m, t).host.iWhat = m.host.iWhat
         /\ Follows(m, CancelTimer(m, t)) /\ CancelTimer(m, t).connecting = m.connecting
<1>1. m.host \in Host
  BY DEF OtgMemory
<1>2. [m.host EXCEPT !.timers = m.host.timers \ {t}, !.elapsed = m.host.elapsed \ {t}] \in Host
  BY <1>1 DEF Host
<1> QED BY <1>1, <1>2 DEF CancelTimer, OtgMemory, Host, Follows

\* A timer that is started runs, and nothing else changes.
LEMMA AfterType ==
  ASSUME NEW m \in OtgMemory, NEW t \in Timers
  PROVE  /\ After(m, t) \in OtgMemory
         /\ After(m, t).host.timers = m.host.timers \cup {t}
         /\ After(m, t).host.iHostState = m.host.iHostState
         /\ After(m, t).host.iDeviceAttached = m.host.iDeviceAttached
         /\ Follows(m, After(m, t))
<1>1. m.host \in Host
  BY DEF OtgMemory
<1>2. [m.host EXCEPT !.timers = m.host.timers \cup {t}, !.elapsed = m.host.elapsed \ {t}] \in Host
  BY <1>1 DEF Host
<1> QED BY <1>1, <1>2 DEF After, OtgMemory, Host, Follows

-----------------------------------------------------------------------------
\* Leaving a state and entering another.

\* Whatever state is left, no timer runs on.
LEMMA Leaving ==
  ASSUME NEW m, Leavable(m)
  PROVE  /\ JustBeforeLeaving(m) \in OtgMemory
         /\ JustBeforeLeaving(m).host.timers = {}
         /\ Follows(m, JustBeforeLeaving(m))
<1>1. m \in OtgMemory /\ OnlyOwn(m.host) /\ m.host.timers \subseteq Timers
  BY DEF Leavable, OtgMemory, Host
<1>2. CASE m.host.iHostState = "AInitiate"
  <2>1. m.host.timers \subseteq {"Attachment"}
    BY <1>1, <1>2 DEF OnlyOwn, Timers
  <2>2. JustBeforeLeaving(m) = CancelTimer(m, "Attachment")
    BY <1>2 DEF JustBeforeLeaving
  <2> QED BY <1>1, <2>1, <2>2, CancelTimerType DEF Timers
<1>3. CASE m.host.iHostState = "DelayAttached"
  <2>1. m.host.timers \subseteq {"DriversNotFound"}
    BY <1>1, <1>3 DEF OnlyOwn, Timers
  <2>2. JustBeforeLeaving(m) = CancelTimer(m, "DriversNotFound")
    BY <1>3 DEF JustBeforeLeaving
  <2> QED BY <1>1, <2>1, <2>2, CancelTimerType DEF Timers
<1>4. CASE m.host.iHostState = "DelayNotAttached"
  <2>1. m.host.timers \subseteq {"TooMuchPower"}
    BY <1>1, <1>4 DEF OnlyOwn, Timers
  <2>2. JustBeforeLeaving(m) = CancelTimer(m, "TooMuchPower")
    BY <1>4 DEF JustBeforeLeaving
  <2> QED BY <1>1, <2>1, <2>2, CancelTimerType DEF Timers
<1>5. CASE m.host.iHostState \notin {"AInitiate", "DelayAttached", "DelayNotAttached"}
  <2>1. JustBeforeLeaving(m) \in {CloseAllNotifiers(m), [m EXCEPT !.published = FALSE], m}
    BY <1>5 DEF JustBeforeLeaving
  <2>2. Aside(m, [m EXCEPT !.published = FALSE])
    BY <1>1, AsideOperators DEF Panics
  <2>3. /\ JustBeforeLeaving(m) \in OtgMemory /\ JustBeforeLeaving(m).host = m.host
        /\ Follows(m, JustBeforeLeaving(m))
    BY <1>1, <2>1, <2>2, CloseAllNotifiersType DEF Aside, Follows
  <2>4. m.host.timers = {}
    BY <1>1, <1>5 DEF OnlyOwn, Timers
  <2> QED BY <2>3, <2>4
<1> QED BY <1>2, <1>3, <1>4, <1>5

\* A state is entered with no timer running.
LEMMA Entering ==
  ASSUME NEW m, Leavable(m), NEW st \in HostStates
  PROVE  /\ Enter(m, st) \in OtgMemory /\ Follows(m, Enter(m, st))
         /\ Enter(m, st).host.iHostState = st /\ Enter(m, st).host.timers = {}
<1> DEFINE j == JustBeforeLeaving(m)
<1>1. j \in OtgMemory /\ j.host.timers = {} /\ Follows(m, j)
  BY Leaving
<1>2. Enter(m, st) = [j EXCEPT !.host = [j.host EXCEPT !.iHostState = st]]
  BY DEF Enter
<1> HIDE DEF j
<1>3. j.host \in Host
  BY <1>1 DEF OtgMemory
<1>4. [j.host EXCEPT !.iHostState = st] \in Host
  BY <1>3 DEF Host
<1> QED BY <1>1, <1>2, <1>3, <1>4 DEF OtgMemory, Host, Follows

\* A memory in its state with its timer, and the indicator set: the end of every move.
LEMMA Settling ==
  ASSUME NEW m, NEW n \in OtgMemory, Follows(m, n), Timed(n.host)
  PROVE  Moved(m, SetIndicator(n))
<1>1. /\ SetIndicator(n) \in OtgMemory /\ SetIndicator(n).host = n.host
      /\ Lit(SetIndicator(n)) /\ Follows(n, SetIndicator(n))
  BY SetIndicatorType
<1> QED BY <1>1 DEF Moved, Sound, Follows

\* The states without a timer.
LEMMA ToStates ==
  ASSUME NEW m, Leavable(m)
  PROVE  /\ Moved(m, ToUndefined(m)) /\ Moved(m, ToPeripheral(m)) /\ Moved(m, ToHost(m))
<1>1. ASSUME NEW st \in {"Undefined", "APeripheral", "AHost"}
      PROVE  /\ Enter(m, st) \in OtgMemory /\ Follows(m, Enter(m, st))
             /\ Timed(Enter(m, st).host)
  <2>1. st \in HostStates
    BY DEF HostStates
  <2> QED BY <2>1, Entering DEF Timed
<1>2. Moved(m, ToUndefined(m)) /\ Moved(m, ToPeripheral(m))
  BY <1>1, Settling DEF ToUndefined, ToPeripheral
<1>3. Moved(m, ToHost(m))
  <2> DEFINE e == Enter(m, "AHost")
  <2>1. e \in OtgMemory /\ Follows(m, e) /\ Timed(e.host)
    BY <1>1
  <2> HIDE DEF e
  <2>2. Aside(e, [e EXCEPT !.published = TRUE])
    BY <2>1, AsideOperators DEF Panics
  <2>3. /\ [e EXCEPT !.published = TRUE] \in OtgMemory
        /\ Follows(m, [e EXCEPT !.published = TRUE]) /\ Timed([e EXCEPT !.published = TRUE].host)
    BY <2>1, <2>2 DEF Aside, Follows
  <2>4. Moved(m, SetIndicator([e EXCEPT !.published = TRUE]))
    BY <2>3, Settling
  <2> QED BY <2>4 DEF ToHost, e
<1> QED BY <1>2, <1>3

\* The two delays.
LEMMA DelayHandles ==
  ASSUME NEW m, Leavable(m)
  PROVE  /\ Moved(m, DelayAttachedHandle(m)) /\ Moved(m, DelayNotAttachedHandle(m))
<1>1. ASSUME NEW st, NEW t, <<st, t>> \in {<<"DelayAttached", "DriversNotFound">>,
                                          <<"DelayNotAttached", "TooMuchPower">>}
      PROVE  Moved(m, SetIndicator(After(Enter(m, st), t)))
  <2>1. st \in HostStates /\ t \in Timers
    BY <1>1 DEF HostStates, Timers
  <2>2. /\ Enter(m, st) \in OtgMemory /\ Follows(m, Enter(m, st))
        /\ Enter(m, st).host.iHostState = st /\ Enter(m, st).host.timers = {}
    BY <2>1, Entering
  <2> DEFINE a == After(Enter(m, st), t)
  <2>3. /\ a \in OtgMemory /\ Follows(Enter(m, st), a)
        /\ a.host.iHostState = st /\ a.host.timers = {t}
    BY <2>1, <2>2, AfterType
  <2> HIDE DEF a
  <2>4. Follows(m, a) /\ Timed(a.host)
    BY <1>1, <2>2, <2>3 DEF Follows, Timed
  <2>5. Moved(m, SetIndicator(a))
    BY <2>3, <2>4, Settling
  <2> QED BY <2>5 DEF a
<1> QED BY <1>1 DEF DelayAttachedHandle, DelayNotAttachedHandle

\* A problem is handled: VBus dropped and the user told.
LEMMA HandleDroppingMoves ==
  ASSUME NEW m, Leavable(m), NEW what \in Problems
  PROVE  Moved(m, HandleDropping(m, what))
<1> DEFINE e == Enter(m, "HandleDropping")
           w == [e EXCEPT !.host = [e.host EXCEPT !.iWhat = what]]
           b == BusDrop(w)
           s == ShowError(b)
<1>1. /\ e \in OtgMemory /\ Follows(m, e)
      /\ e.host.iHostState = "HandleDropping" /\ e.host.timers = {}
  BY Entering DEF HostStates
<1> HIDE DEF e
<1>2. e.host \in Host
  BY <1>1 DEF OtgMemory
<1>3. [e.host EXCEPT !.iWhat = what] \in Host
  BY <1>2 DEF Host
<1>4. /\ w \in OtgMemory /\ Follows(m, w)
      /\ w.host.iHostState = "HandleDropping" /\ w.host.timers = {}
  BY <1>1, <1>2, <1>3 DEF OtgMemory, Follows, Host
<1> HIDE DEF w
<1>5. Aside(w, b)
  BY <1>4, AsideOperators DEF Panics
<1>6. b \in OtgMemory
  BY <1>5 DEF Aside
<1> HIDE DEF b
<1>7. Aside(b, s)
  BY <1>6, AsideOperators DEF Panics
<1> HIDE DEF s
<1>8. s \in OtgMemory /\ Follows(m, s) /\ Timed(s.host)
  BY <1>4, <1>5, <1>7 DEF Aside, Follows, Timed
<1>9. Moved(m, SetIndicator(s))
  BY <1>8, Settling
<1> QED BY <1>9 DEF HandleDropping, s, b, w, e

\* The problems a host state names.
LEMMA ProblemNames ==
  {"CanNotClearBusError", "CanNotRaiseVBus", "CanNotEnableDriverLoading", "ErrorInConnection",
   "TooMuchPower", "ConnectedToOTG", "UnsupportedDevice", "HubsNotSupported", "DanglingCable",
   "NoMemory", "CanNotStartUsbServices", "IdPinError", "VBusObserverError", "OtgStateError",
   "HostEventNotificationError", "MessageNotificationError"} \subseteq Problems
BY DEF Problems, Recoverable, Fatal

\* In AInitiate without a device, raising VBus starts the timer or drops everything.
LEMMA RaiseVBusType ==
  ASSUME NEW m \in OtgMemory, m.host.iHostState = "AInitiate", ~m.host.iDeviceAttached,
         m.host.timers = {}
  PROVE  RaiseVBus(m) \in OtgMemory /\ Follows(m, RaiseVBus(m)) /\ Timed(RaiseVBus(m).host)
<1>1. Leavable(m)
  BY DEF Leavable, OnlyOwn
<1>2. ASSUME NEW n, n \in {m, BusRequest(m)}
      PROVE  /\ After(n, "Attachment") \in OtgMemory /\ Follows(m, After(n, "Attachment"))
             /\ Timed(After(n, "Attachment").host)
  <2>1. Aside(m, BusRequest(m)) /\ Aside(m, m)
    BY AsideOperators DEF Panics, Aside
  <2>2. n \in OtgMemory /\ n.host = m.host /\ Follows(m, n)
    BY <1>2, <2>1, AsideKeeps DEF Aside
  <2>3. /\ After(n, "Attachment") \in OtgMemory
        /\ After(n, "Attachment").host.timers = n.host.timers \cup {"Attachment"}
        /\ After(n, "Attachment").host.iHostState = n.host.iHostState
        /\ After(n, "Attachment").host.iDeviceAttached = n.host.iDeviceAttached
        /\ Follows(n, After(n, "Attachment"))
    BY <2>2, AfterType DEF Timers
  <2> QED BY <2>2, <2>3 DEF Follows, Timed
<1>3. ASSUME NEW what \in {"CanNotClearBusError", "CanNotRaiseVBus"}
      PROVE  /\ HandleDropping(m, what) \in OtgMemory /\ Follows(m, HandleDropping(m, what))
             /\ Timed(HandleDropping(m, what).host)
  <2>1. what \in Problems
    BY ProblemNames
  <2> QED BY <1>1, <2>1, HandleDroppingMoves DEF Moved, Sound
<1> QED BY <1>2, <1>3 DEF RaiseVBus

\* Trying again, from any state that may be left.
LEMMA AInitiateMoves ==
  ASSUME NEW m, Leavable(m)
  PROVE  Moved(m, AInitiate(m))
<1> DEFINE e == Enter(m, "AInitiate")
           n == [e EXCEPT !.host.iDeviceAttached = FALSE]
<1>1. /\ e \in OtgMemory /\ Follows(m, e)
      /\ e.host.iHostState = "AInitiate" /\ e.host.timers = {}
  BY Entering DEF HostStates
<1> HIDE DEF e
<1>2. e.host \in Host
  BY <1>1 DEF OtgMemory
<1>3. [e.host EXCEPT !.iDeviceAttached = FALSE] \in Host
  BY <1>2 DEF Host
<1>4. /\ n \in OtgMemory /\ Follows(m, n) /\ ~n.host.iDeviceAttached
      /\ n.host.iHostState = "AInitiate" /\ n.host.timers = {}
  BY <1>1, <1>2, <1>3 DEF OtgMemory, Follows, Host
<1> HIDE DEF n
<1>5. Leavable(n)
  BY <1>4 DEF Leavable, OnlyOwn
<1> DEFINE h == HandleDropping(n, "CanNotEnableDriverLoading")
           r == RaiseVBus(n)
<1>6. Moved(n, h)
  BY <1>5, HandleDroppingMoves, ProblemNames
<1>7. h \in OtgMemory /\ Follows(m, h) /\ Timed(h.host)
  BY <1>4, <1>6 DEF Moved, Sound, Follows
<1>8. r \in OtgMemory /\ Follows(n, r) /\ Timed(r.host)
  BY <1>4, RaiseVBusType
<1>9. Follows(m, r)
  BY <1>4, <1>8 DEF Follows
<1>10. Moved(m, SetIndicator(h)) /\ Moved(m, SetIndicator(r))
  <2> HIDE DEF h, r
  <2> QED BY <1>7, <1>8, <1>9, Settling
<1>11. CASE n.in.driverLoading # KErrNone
  BY <1>10, <1>11 DEF AInitiate, n, e
<1>12. CASE n.in.driverLoading = KErrNone
  BY <1>10, <1>12 DEF AInitiate, n, e
<1> QED BY <1>11, <1>12

-----------------------------------------------------------------------------
\* The events.

\* One handler after another.
LEMMA InTurn ==
  ASSUME NEW m, NEW n, NEW k, Handled(m, n), Handled(n, k)
  PROVE  Handled(m, k)
BY DEF Handled, Follows

\* What a state may do about an event.
LEMMA Replies ==
  ASSUME NEW m, Sound(m)
  PROVE  /\ Handled(m, m) /\ Handled(m, AInitiate(m)) /\ Handled(m, ToUndefined(m))
         /\ Handled(m, ToPeripheral(m)) /\ Handled(m, ToHost(m))
         /\ Handled(m, DelayAttachedHandle(m)) /\ Handled(m, DelayNotAttachedHandle(m))
         /\ Handled(m, BusRequest(m))
         /\ \A what \in Problems : Handled(m, HandleDropping(m, what))
         /\ \A why \in Panics : Handled(m, Panic(m, why))
<1>1. Leavable(m) /\ m \in OtgMemory
  BY SoundIsLeavable DEF Sound
<1>2. Handled(m, m) /\ Handled(m, AInitiate(m)) /\ Handled(m, ToUndefined(m))
  BY <1>1, Handling, AInitiateMoves, ToStates
<1>3. Handled(m, ToPeripheral(m)) /\ Handled(m, ToHost(m))
  BY <1>1, Handling, ToStates
<1>4. Handled(m, DelayAttachedHandle(m)) /\ Handled(m, DelayNotAttachedHandle(m))
  BY <1>1, Handling, DelayHandles
<1>5. ASSUME NEW what \in Problems
      PROVE  Handled(m, HandleDropping(m, what))
  BY <1>1, Handling, HandleDroppingMoves
<1>6. ASSUME NEW why \in Panics
      PROVE  Handled(m, Panic(m, why)) /\ Handled(m, BusRequest(m))
  BY <1>1, AsideOperators, AsideKeeps
<1> QED BY <1>2, <1>3, <1>4, <1>5, <1>6 DEF Panics

\* The reasons to panic that a host state names.
LEMMA PanicNames ==
  {"VBusUp", "BIdle", "DeviceAttached", "DeviceDetached", "DriverLoad", "BadHubPosition",
   "SituationToHandle", "UsbServiceState", "CanNotStopUsbServices"} \subseteq Panics
BY DEF Panics, NotExpected

\* VBus and the OTG state.
LEMMA BusEvents ==
  ASSUME NEW m, Sound(m)
  PROVE  /\ Handled(m, VBusUp(m)) /\ Handled(m, VBusDown(m)) /\ Handled(m, AIdle(m))
         /\ Handled(m, AHost(m)) /\ Handled(m, AVBusError(m)) /\ Handled(m, BDevice(m))
<1>1. Handled(m, VBusUp(m)) /\ Handled(m, BDevice(m))
  BY Replies, PanicNames DEF VBusUp, BDevice
<1>2. Handled(m, VBusDown(m)) /\ Handled(m, AVBusError(m))
  BY Replies, ProblemNames DEF VBusDown, AVBusError
<1>3. Handled(m, AIdle(m)) /\ Handled(m, AHost(m))
  BY Replies DEF AIdle, AHost
<1> QED BY <1>1, <1>2, <1>3

\* A device attached in AInitiate: the timer is cancelled and the attachment looked at.
LEMMA InitiateAttachedHandles ==
  ASSUME NEW m, Sound(m), HostState(m) = "AInitiate", NEW e \in [error : AttachErrors, otg : BOOLEAN]
  PROVE  Handled(m, InitiateAttached(m, e))
<1> DEFINE a == [m EXCEPT !.host.iDeviceAttached = TRUE]
           n == CancelTimer(a, "Attachment")
<1>1. m \in OtgMemory /\ Timed(m.host) /\ m.host \in Host
  BY DEF Sound, OtgMemory
<1>2. [m.host EXCEPT !.iDeviceAttached = TRUE] \in Host
  BY <1>1 DEF Host
<1>3. /\ a \in OtgMemory /\ a.host.iDeviceAttached /\ a.host.timers = m.host.timers
      /\ a.host.iHostState = m.host.iHostState /\ a.connecting = m.connecting
      /\ a.idPin = m.idPin /\ a.bus = m.bus
  BY <1>1, <1>2 DEF OtgMemory, Host
<1> HIDE DEF a
<1>4. /\ n \in OtgMemory /\ n.host.timers = a.host.timers \ {"Attachment"}
      /\ n.host.iHostState = a.host.iHostState /\ n.host.iDeviceAttached = a.host.iDeviceAttached
      /\ Follows(a, n) /\ n.connecting = a.connecting
  BY <1>3, CancelTimerType DEF Timers
<1> HIDE DEF n
<1>5. Sound(n)
  BY <1>1, <1>3, <1>4 DEF Sound, Timed, HostState
<1>6. Handled(m, n)
  BY <1>3, <1>4, <1>5 DEF Handled, Follows, Lit
<1>7. InitiateAttached(m, e) \in {n, AInitiate(n), DelayNotAttachedHandle(n)}
                                 \cup {HandleDropping(n, what) : what \in Problems}
  BY ProblemNames DEF InitiateAttached, n, a
<1>8. Handled(n, InitiateAttached(m, e))
  BY <1>5, <1>7, Replies
<1> QED BY <1>6, <1>8, InTurn

\* Host events.
LEMMA HostEvents ==
  ASSUME NEW m, Sound(m)
  PROVE  /\ \A e \in [error : AttachErrors, otg : BOOLEAN] : Handled(m, DeviceAttached(m, e))
         /\ Handled(m, DeviceDetached(m))
         /\ \A r \in AllLoadResults : Handled(m, DriverLoad(m, r))
<1>1. ASSUME NEW e \in [error : AttachErrors, otg : BOOLEAN]
      PROVE  Handled(m, DeviceAttached(m, e))
  <2> DEFINE Attach(n) == IF HostState(n) = "AInitiate" THEN InitiateAttached(n, e) ELSE n
  <2>1. \A n : Sound(n) => Handled(n, Attach(n))
    BY InitiateAttachedHandles, Handling
  <2>2. Handled(m, Attach(m))
    BY <2>1
  <2>3. Handled(m, AInitiate(m)) /\ Sound(AInitiate(m))
    BY Replies DEF Handled
  <2>4. Handled(m, Attach(AInitiate(m)))
    <3>1. Handled(AInitiate(m), Attach(AInitiate(m)))
      BY <2>1, <2>3
    <3> HIDE DEF Attach
    <3> QED BY <2>3, <3>1, InTurn
  <2>5. DeviceAttached(m, e) \in {Attach(m), Attach(AInitiate(m)), Panic(m, "DeviceAttached")}
    BY DEF DeviceAttached
  <2> HIDE DEF Attach
  <2> QED BY <2>2, <2>4, <2>5, Replies, PanicNames
<1>2. Handled(m, DeviceDetached(m))
  BY Replies, PanicNames DEF DeviceDetached
<1>3. Handled(m, ToHost(ShowWarning(m)))
  <2>1. Aside(m, ShowWarning(m)) /\ Sound(ShowWarning(m))
    BY AsideOperators, AsideKeeps DEF Sound, Handled, Panics
  <2> QED BY <2>1, Replies, AsideFirst
<1>4. ASSUME NEW r \in AllLoadResults
      PROVE  Handled(m, DriverLoad(m, r))
  BY <1>3, Replies, PanicNames DEF DriverLoad, AllLoadResults
<1> QED BY <1>1, <1>2, <1>4

\* Messages of the OTG stack.
LEMMA Messages ==
  ASSUME NEW m, Sound(m), NEW msg
  PROVE  /\ Handled(m, BadHubPosition(m)) /\ Handled(m, SrpReceived(m))
         /\ Handled(m, SessionRequested(m)) /\ Handled(m, MessageReceived(m, msg))
<1>1. Handled(m, BadHubPosition(m))
  BY Replies, PanicNames, ProblemNames DEF BadHubPosition
<1>2. Handled(m, AskForBus(m))
  BY Replies, ProblemNames DEF AskForBus
<1>3. Handled(m, SrpReceived(m)) /\ Handled(m, SessionRequested(m))
  BY <1>2, Replies DEF SrpReceived, SessionRequested
<1>4. Handled(m, MessageReceived(m, msg))
  BY Replies, ProblemNames DEF MessageReceived
<1> QED BY <1>1, <1>3, <1>4

\* The error note is answered.
LEMMA NoteAnswered ==
  ASSUME NEW m, Sound(m)
  PROVE  Handled(m, WaitNotifierCompleted(m))
BY Replies, PanicNames DEF WaitNotifierCompleted

\* A timer that has elapsed.
LEMMA TimerElapsedHandles ==
  ASSUME NEW m, Sound(m), NEW t \in Timers
  PROVE  Handled(m, TimerElapsed(m, t))
<1> DEFINE n == CancelTimer(m, t)
<1>1. /\ n \in OtgMemory /\ n.host.timers = m.host.timers \ {t}
      /\ n.host.iHostState = m.host.iHostState /\ Follows(m, n)
  BY CancelTimerType DEF Sound
<1>2. OnlyOwn(m.host)
  BY SoundIsLeavable DEF Leavable
<1> HIDE DEF n
<1>3. Leavable(n)
  BY <1>1, <1>2 DEF Leavable, OnlyOwn
<1>4. TimerElapsed(m, t) \in {HandleDropping(n, "DanglingCable"), HandleDropping(n, "UnsupportedDevice")}
  BY DEF TimerElapsed, n
<1>5. Moved(n, TimerElapsed(m, t))
  BY <1>3, <1>4, HandleDroppingMoves, ProblemNames
<1> QED BY <1>1, <1>5 DEF Moved, Handled, Follows

-----------------------------------------------------------------------------
\* CUsbServiceControl.

\* The requests of USB Manager, the queries and the wishes are aside of the host.
LEMMA ControlOperators ==
  ASSUME NEW m \in OtgMemory, NEW what \in {"TryStart", "TryStop", "StateNotification"},
         NEW id \in Personalities, NEW wish \in Personalities \cup {None}
  PROVE  /\ Aside(m, Wait(m, what)) /\ Aside(m, TryStart(m, id)) /\ Aside(m, TryStop(m))
         /\ Aside(m, ServiceStateNotification(m)) /\ Aside(m, ControlCancel(m))
         /\ Aside(m, Later(m)) /\ Aside(m, Want(m, wish))
<1>1. /\ m.ctl \in Control /\ m.service \in Service /\ m.in \in Answers
  BY DEF OtgMemory
<1>2. ASSUME NEW n \in OtgMemory, NEW w \in {"TryStart", "TryStop", "StateNotification"}
      PROVE  Aside(n, Wait(n, w))
  <2>1. n.ctl \in Control
    BY DEF OtgMemory
  <2>2. [n.ctl EXCEPT !.active = TRUE, !.iStatus = Pending, !.waits = w] \in Control
    BY <2>1 DEF Control
  <2> QED BY <2>1, <2>2 DEF Wait, OtgMemory, Aside, Control
<1>3. Aside(m, TryStart(m, id))
  <2> DEFINE n == [m EXCEPT !.service = [state |-> "Starting", id |-> id]]
  <2>1. [state |-> "Starting", id |-> id] \in Service
    BY DEF Service, ServiceStates
  <2>2. Aside(m, n)
    BY <2>1 DEF OtgMemory, Aside
  <2> HIDE DEF n
  <2>3. Aside(n, Wait(n, "TryStart"))
    BY <1>2, <2>2 DEF Aside
  <2>4. Aside(m, Wait(n, "TryStart"))
    BY <2>2, <2>3 DEF Aside
  <2> QED BY <2>4 DEF TryStart, n
<1>4. Aside(m, TryStop(m))
  <2> DEFINE n == [m EXCEPT !.service.state = "Stopping"]
  <2>1. [m.service EXCEPT !.state = "Stopping"] \in Service
    BY <1>1 DEF Service, ServiceStates
  <2>2. Aside(m, n)
    BY <2>1 DEF OtgMemory, Aside
  <2> HIDE DEF n
  <2>3. Aside(n, Wait(n, "TryStop"))
    BY <1>2, <2>2 DEF Aside
  <2>4. Aside(m, Wait(n, "TryStop"))
    BY <2>2, <2>3 DEF Aside
  <2> QED BY <2>4 DEF TryStop, n
<1>5. Aside(m, ControlCancel(m)) /\ Aside(m, Want(m, wish))
  <2>1. /\ [m.ctl EXCEPT !.active = FALSE] \in Control
        /\ [m.ctl EXCEPT !.iPersonalityId = wish] \in Control
    BY <1>1 DEF Control
  <2> QED BY <2>1 DEF ControlCancel, Want, OtgMemory, Aside
<1>6. Aside(m, Later(m))
  <2>1. m.in.queries \in 0..6
    BY <1>1 DEF Answers
  <2>2. (IF QueryFails(m) THEN 0 ELSE m.in.queries - 1) \in 0..6
    BY <2>1 DEF QueryFails
  <2>3. \A q \in 0..6 : [m.in EXCEPT !.queries = q] \in Answers
    BY <1>1 DEF Answers
  <2>4. Later(m) = [m EXCEPT !.in = [m.in EXCEPT !.queries =
                      IF QueryFails(m) THEN 0 ELSE m.in.queries - 1]]
    BY DEF Later
  <2> QED BY <2>2, <2>3, <2>4 DEF OtgMemory, Aside
<1> QED BY <1>2, <1>3, <1>4, <1>5, <1>6 DEF ServiceStateNotification

\* What asks USB Manager in a sound memory leaves a sound one.
LEMMA Controlling ==
  ASSUME NEW m, Sound(m)
  PROVE  /\ \A id \in Personalities : Handled(m, TryStart(m, id))
         /\ Handled(m, TryStop(m)) /\ Handled(m, ServiceStateNotification(m))
         /\ Handled(m, ControlCancel(m)) /\ Handled(m, Later(m))
         /\ \A id \in Personalities \cup {None} : Handled(m, Want(m, id))
<1>1. m \in OtgMemory /\ iPersonalityId \in Personalities
  BY DEF Sound, Personalities
<1>2. \A n : Aside(m, n) => Handled(m, n)
  BY AsideKeeps
<1>3. ASSUME NEW id \in Personalities
      PROVE  Handled(m, TryStart(m, id))
  BY <1>1, <1>2, ControlOperators
<1>4. /\ Handled(m, TryStop(m)) /\ Handled(m, ServiceStateNotification(m))
      /\ Handled(m, ControlCancel(m)) /\ Handled(m, Later(m))
  BY <1>1, <1>2, ControlOperators
<1>5. ASSUME NEW id \in Personalities \cup {None}
      PROVE  Handled(m, Want(m, id))
  BY <1>1, <1>2, ControlOperators
<1> QED BY <1>3, <1>4, <1>5

\* The end of a request is reported to the watcher.
LEMMA ReqCompletedHandles ==
  ASSUME NEW m, Sound(m), NEW aError
  PROVE  Handled(m, ReqCompleted(m, aError))
BY Replies, PanicNames, ProblemNames DEF ReqCompleted

\* StopL.
LEMMA StopLHandles ==
  ASSUME NEW m, Sound(m)
  PROVE  Handled(m, StopL(m))
<1>1. ASSUME NEW n, Sound(n)
      PROVE  Handled(n, WaitForChange(n))
  BY <1>1, Controlling, Handling DEF WaitForChange
<1>2. Handled(m, WaitForChange(Want(m, None)))
  <2>1. Handled(m, Want(m, None)) /\ Sound(Want(m, None))
    BY Controlling DEF Handled
  <2> QED BY <1>1, <2>1, InTurn
<1>3. Handled(m, TryStop(ControlCancel(m)))
  <2>1. Handled(m, ControlCancel(m)) /\ Sound(ControlCancel(m))
    BY Controlling DEF Handled
  <2> QED BY <2>1, Controlling, InTurn
<1>4. StopL(m) \in {m, TryStop(ControlCancel(m)), WaitForChange(Want(m, None))}
  BY DEF StopL
<1> QED BY <1>2, <1>3, <1>4, Handling

\* StartL.
LEMMA StartLHandles ==
  ASSUME NEW m, Sound(m), NEW id \in Personalities
  PROVE  Handled(m, StartL(m, id))
<1> DEFINE w == Want(m, id)
<1>1. Handled(m, w) /\ Sound(w)
  BY Controlling DEF Handled
<1> HIDE DEF w
<1>2. Handled(w, TryStart(ControlCancel(w), id))
  <2>1. Handled(w, ControlCancel(w)) /\ Sound(ControlCancel(w))
    BY <1>1, Controlling DEF Handled
  <2> QED BY <2>1, Controlling, InTurn
<1>3. Handled(w, StopL(Later(Later(w))))
  <2>1. Handled(w, Later(w)) /\ Sound(Later(w))
    BY <1>1, Controlling DEF Handled
  <2>2. Handled(Later(w), Later(Later(w))) /\ Sound(Later(Later(w)))
    BY <2>1, Controlling DEF Handled
  <2>3. Handled(Later(Later(w)), StopL(Later(Later(w))))
    BY <2>2, StopLHandles
  <2> QED BY <2>1, <2>2, <2>3, InTurn
<1>4. Handled(w, WaitForChange(w))
  BY <1>1, Controlling, Handling DEF WaitForChange
<1>5. /\ Handled(m, TryStart(ControlCancel(w), id)) /\ Handled(m, StopL(Later(Later(w))))
      /\ Handled(m, WaitForChange(w))
  BY <1>1, <1>2, <1>3, <1>4, InTurn
<1>6. Handled(m, m) /\ Handled(m, ReqCompleted(m, KErrInUse))
  BY Handling, ReqCompletedHandles
<1>7. StartL(m, id) \in {m, TryStart(ControlCancel(w), id), ReqCompleted(m, KErrInUse),
                         StopL(Later(Later(w))), WaitForChange(w)}
  BY DEF StartL, w
<1> QED BY <1>5, <1>6, <1>7

\* The wish is a personality or none.
LEMMA WishType ==
  ASSUME NEW m, Sound(m)
  PROVE  /\ m.ctl.iPersonalityId \in Personalities \cup {None}
         /\ None \in Personalities \cup {None}
BY DEF Sound, OtgMemory, Control

\* RunL starts the personality that is wanted.
LEMMA StartWantedHandles ==
  ASSUME NEW m, Sound(m), m.ctl.iPersonalityId # None
  PROVE  Handled(m, StartWanted(m))
<1> DEFINE n == Want(m, None)
<1>1. Handled(m, n) /\ Sound(n)
  BY Controlling DEF Handled
<1>2. m.ctl.iPersonalityId \in Personalities
  BY WishType
<1> HIDE DEF n
<1>3. /\ Handled(n, ReqCompleted(n, KErrGeneral))
      /\ Handled(n, StartL(n, m.ctl.iPersonalityId))
  BY <1>1, <1>2, ReqCompletedHandles, StartLHandles
<1>4. StartWanted(m) \in {ReqCompleted(n, KErrGeneral), StartL(n, m.ctl.iPersonalityId)}
  BY DEF StartWanted, n
<1> QED BY <1>1, <1>3, <1>4, InTurn

\* A query leaves the wish as it is.
LEMMA LaterKeepsWish ==
  ASSUME NEW m, Sound(m)
  PROVE  /\ Handled(m, Later(m)) /\ Sound(Later(m))
         /\ Later(m).ctl.iPersonalityId = m.ctl.iPersonalityId
<1>1. m \in OtgMemory
  BY DEF Sound
<1>2. Later(m).ctl = m.ctl
  BY <1>1 DEF Later, OtgMemory
<1> QED BY <1>2, Controlling DEF Handled

\* RunL.
LEMMA ServiceControlHandles ==
  ASSUME NEW mem, Sound(mem)
  PROVE  Handled(mem, ServiceControlRunL(mem))
<1> DEFINE m == ControlCancel(mem)
<1>1. Handled(mem, m) /\ Sound(m)
  BY Controlling DEF Handled
<1>2. m = [mem EXCEPT !.ctl.active = FALSE]
  BY DEF ControlCancel
<1> HIDE DEF m
<1> DEFINE l == Later(m)
<1>3. Handled(m, l) /\ Sound(l) /\ l.ctl.iPersonalityId = m.ctl.iPersonalityId
  BY <1>1, LaterKeepsWish
<1> HIDE DEF l
<1>4. Handled(l, ServiceIsIdle(l))
  BY <1>3, StartWantedHandles, ReqCompletedHandles DEF ServiceIsIdle
<1>5. Handled(l, ServiceIsStarted(l))
  <2>1. Handled(l, Later(l)) /\ Sound(Later(l)) /\ Later(l).ctl.iPersonalityId = l.ctl.iPersonalityId
    BY <1>3, LaterKeepsWish
  <2>2. Handled(l, ReqCompleted(l, KErrGeneral))
    BY <1>3, ReqCompletedHandles
  <2>3. Handled(l, ReqCompleted(Later(Want(l, None)), KErrNone))
    <3> DEFINE w == Want(l, None)
    <3>1. Handled(l, w) /\ Sound(w)
      BY <1>3, Controlling DEF Handled
    <3> HIDE DEF w
    <3>2. Handled(w, Later(w)) /\ Sound(Later(w))
      BY <3>1, LaterKeepsWish
    <3>3. Handled(Later(w), ReqCompleted(Later(w), KErrNone))
      BY <3>2, ReqCompletedHandles
    <3>4. Handled(l, ReqCompleted(Later(w), KErrNone))
      BY <3>1, <3>2, <3>3, InTurn
    <3> QED BY <3>4 DEF w
  <2>4. Handled(l, StopL(Later(l)))
    BY <2>1, StopLHandles, InTurn
  <2>5. l.ctl.iPersonalityId # None => Handled(l, StartWanted(Later(l)))
    BY <2>1, StartWantedHandles, InTurn
  <2> QED BY <2>2, <2>3, <2>4, <2>5 DEF ServiceIsStarted
<1>6. /\ Handled(m, ServiceIsIdle(l)) /\ Handled(m, ServiceIsStarted(l))
      /\ Handled(m, ServiceStateNotification(m))
      /\ \A code : Handled(m, ReqCompleted(m, code))
  BY <1>1, <1>3, <1>4, <1>5, InTurn, Controlling, ReqCompletedHandles
<1>7. Handled(m, ServiceControlRunL(mem))
  BY <1>2, <1>6 DEF ServiceControlRunL, l
<1> QED BY <1>1, <1>7, InTurn

\* The watcher starts a session for the plug.
LEMMA StartSessionHandles ==
  ASSUME NEW m, Sound(m)
  PROVE  Handled(m, StartSession(m))
<1> DEFINE n == [m EXCEPT !.asked = "Start"]
<1>1. Aside(m, n)
  BY DEF Sound, OtgMemory, Aside
<1>2. Handled(m, n) /\ Sound(n)
  BY <1>1, AsideKeeps DEF Handled
<1> HIDE DEF n
<1>3. StartSession(m) \in {HandleDropping(n, "CanNotStartUsbServices"), StartL(n, iPersonalityId)}
  BY DEF StartSession, n
<1>4. iPersonalityId \in Personalities
  BY DEF Personalities
<1>5. Handled(n, StartSession(m))
  BY <1>2, <1>3, <1>4, Replies, ProblemNames, StartLHandles
<1> QED BY <1>2, <1>5, InTurn

\* The plug is gone: so is everything, and the indicator is off.
LEMMA IdPinOffHandles ==
  ASSUME NEW m, Sound(m)
  PROVE  /\ Sound(IdPinOff(m)) /\ Follows(m, IdPinOff(m))
         /\ ~m.idPin => ~IdPinOff(m).connecting /\ Lit(IdPinOff(m))
<1> DEFINE a == [m EXCEPT !.asked = "Stop"]
           u == ToUndefined(a)
           n == CloseAllNotifiers(u)
<1>1. Aside(m, a)
  BY DEF Sound, OtgMemory, Aside
<1>2. Handled(m, a) /\ Sound(a)
  BY <1>1, AsideKeeps DEF Handled
<1> HIDE DEF a
<1>3. Sound(u) /\ Follows(m, u)
  BY <1>2, Replies DEF Handled, Follows
<1> HIDE DEF u
<1>4. Sound(n) /\ Follows(m, n) /\ ~n.connecting
  BY <1>3, CloseAllNotifiersType DEF Sound, Follows
<1> HIDE DEF n
<1>5. IdPinOff(m) \in {Panic(n, "CanNotStopUsbServices"), StopL(n)}
  BY DEF IdPinOff, n, u, a
<1>6. Handled(n, IdPinOff(m))
  BY <1>4, <1>5, Replies, PanicNames, StopLHandles
<1> QED BY <1>4, <1>6 DEF Handled, Follows, Lit

-----------------------------------------------------------------------------
\* The invariant.

\* The types of the watcher's objects.
WatcherTypes ==
  /\ host \in Host /\ notes \in Notes
  /\ connecting \in BOOLEAN /\ published \in BOOLEAN
  /\ ctl \in Control /\ asked \in {"None", "Start", "Stop"}
  /\ panic \in Panics /\ service \in Service /\ bus \in Bus

\* The types of what is outside; host events are queued, never just signalled.
OutsideTypes ==
  /\ obs \in [Observers -> {"Waiting", "Ready", "Failed", "Deaf"}]
  /\ obs["HostEvent"] # "Ready"
  /\ idPin \in BOOLEAN /\ otg \in OtgStates /\ dev \in Devices
  /\ events \in Seq(Events) /\ message \in AllMessages \cup {None}
  /\ left \in [plugs : 0..MaxPlugs, troubles : 0..MaxTroubles]

\* The indicator is right from the moment VBus was looked at, and off without a plug.
IndicatorHeld ==
  Running =>
    /\ obs["VBus"] = "Waiting" /\ obs["IdPin"] \in {"Waiting", "Ready"}
       /\ idPin /\ host.iHostState # "APeripheral"
         => (connecting <=> bus.up /\ host.iHostState # "AHost")
    /\ ~idPin /\ obs["IdPin"] = "Waiting" => ~connecting

\* The inductive invariant.
OtgInv == WatcherTypes /\ OutsideTypes /\ TimersFollowState /\ IndicatorHeld

\* The memory a handler builds from the variables is sound.
LEMMA MemIsSound ==
  ASSUME WatcherTypes, OutsideTypes, TimersFollowState, NEW in \in Outside
  PROVE  /\ Sound(Mem(in)) /\ Mem(in) \in OtgMemory
         /\ Mem(in).host = host /\ Mem(in).connecting = connecting
         /\ Mem(in).idPin = idPin /\ Mem(in).bus = bus
         /\ Mem(in).service = service /\ Mem(in).ctl = ctl
<1>1. in \in Answers
  BY OtgAssumption
<1>2. NoFault \in Panics
  BY DEF Panics
<1> QED BY <1>1, <1>2 DEF Mem, OtgMemory, Sound, Timed, TimersFollowState, WatcherTypes, OutsideTypes

\* Commit leaves a sound memory, or after a panic the one there was.
LEMMA Committing ==
  ASSUME WatcherTypes, TimersFollowState, NEW n, Sound(n), Commit(n)
  PROVE  /\ WatcherTypes' /\ TimersFollowState'
         /\ Running' => host' = n.host /\ connecting' = n.connecting /\ bus' = n.bus
<1>1. n \in OtgMemory /\ Timed(n.host)
  BY DEF Sound
<1>2. CASE n.panic # NoFault
  BY <1>1, <1>2 DEF Commit, OtgMemory, WatcherTypes, TimersFollowState, Running
<1>3. CASE n.panic = NoFault
  <2>1. /\ host' = n.host /\ notes' = n.notes /\ connecting' = n.connecting
        /\ published' = n.published /\ ctl' = n.ctl /\ asked' = n.asked
        /\ service' = n.service /\ bus' = n.bus /\ panic' = n.panic
    BY <1>3 DEF Commit
  <2>2. WatcherTypes'
    BY <1>1, <2>1 DEF OtgMemory, WatcherTypes
  <2>3. TimersFollowState'
    BY <1>1, <2>1 DEF Timed, TimersFollowState
  <2> QED BY <2>1, <2>2, <2>3
<1> QED BY <1>2, <1>3

\* A RunL that handles its event keeps the invariant of the watcher's side.
LEMMA HandlerKeeps ==
  ASSUME OtgInv, Running, NEW in \in Outside, NEW n, Handled(Mem(in), n), Commit(n),
         idPin' = idPin, obs'["VBus"] = obs["VBus"], obs'["IdPin"] = obs["IdPin"]
  PROVE  WatcherTypes' /\ TimersFollowState' /\ IndicatorHeld'
<1>1. /\ Mem(in).host = host /\ Mem(in).connecting = connecting
      /\ Mem(in).idPin = idPin /\ Mem(in).bus = bus
  BY MemIsSound DEF OtgInv
<1>2. /\ WatcherTypes' /\ TimersFollowState'
      /\ Running' => host' = n.host /\ connecting' = n.connecting /\ bus' = n.bus
  BY Committing DEF OtgInv, Handled
<1>3. Follows(Mem(in), n) /\ (Lit(Mem(in)) => Lit(n))
  BY DEF Handled
<1>4. IndicatorHeld'
  BY <1>1, <1>2, <1>3 DEF OtgInv, IndicatorHeld, Follows, Lit
<1> QED BY <1>2, <1>4

\* The observers' requests keep their types.
LEMMA Resubscribing ==
  ASSUME OutsideTypes, NEW o \in Observers, Resubscribe(o)
  PROVE  /\ obs' \in [Observers -> {"Waiting", "Ready", "Failed", "Deaf"}]
         /\ obs'["HostEvent"] # "Ready"
         /\ \A p \in Observers \ {o} : obs'[p] = obs[p]
         /\ obs'[o] = IF obs[o] = "Failed" THEN "Deaf" ELSE "Waiting"
BY DEF OutsideTypes, Resubscribe, Observers

\* A one-bit notification is given to one observer.
LEMMA Alerting ==
  ASSUME OutsideTypes, NEW o \in Observers \ {"HostEvent"}, obs' = Alerted(o)
  PROVE  /\ obs' \in [Observers -> {"Waiting", "Ready", "Failed", "Deaf"}]
         /\ obs'["HostEvent"] # "Ready"
         /\ \A p \in Observers \ {o} : obs'[p] = obs[p]
         /\ obs'[o] = IF obs[o] = "Waiting" THEN "Ready" ELSE obs[o]
BY DEF OutsideTypes, Alerted, Observers

\* The names of the observers.
LEMMA ObserverNames ==
  /\ {"IdPin", "VBus", "OtgState", "HostEvent", "Message"} = Observers
  /\ "IdPin" # "VBus" /\ "OtgState" \notin {"IdPin", "VBus", "HostEvent"}
  /\ {"HostEvent", "Message"} \cap {"IdPin", "VBus"} = {}
BY DEF Observers

-----------------------------------------------------------------------------
\* USB Manager.

\* It ends its change aside of the host.
LEMMA ChangeEndedIsAside ==
  ASSUME NEW m \in OtgMemory, NEW n \in ChangeEnded(m)
  PROVE  Aside(m, n)
<1>1. ASSUME NEW k \in OtgMemory, NEW what, NEW r \in Results
      PROVE  Aside(k, Complete(k, what, r))
  <2>1. k.ctl \in Control /\ KErrNone \in Results
    BY DEF OtgMemory, Results
  <2>2. \A c \in Results : [k.ctl EXCEPT !.iStatus = c] \in Control
    BY <2>1 DEF Control
  <2>3. \A c \in Results : Aside(k, [k EXCEPT !.ctl.iStatus = c])
    BY <2>1, <2>2 DEF OtgMemory, Aside
  <2>4. Aside(k, k)
    BY DEF Aside
  <2> QED BY <2>1, <2>3, <2>4 DEF Complete
<1>2. ASSUME NEW st \in ServiceStates
      PROVE  Aside(m, Changed(m, st))
  <2>1. m.service \in Service
    BY DEF OtgMemory
  <2>2. [state |-> st, id |-> IF st = "Started" THEN m.service.id ELSE None] \in Service
    BY <2>1 DEF Service
  <2>3. Changed(m, st) = [m EXCEPT !.service =
          [state |-> st, id |-> IF st = "Started" THEN m.service.id ELSE None]]
    BY DEF Changed
  <2> QED BY <2>2, <2>3 DEF OtgMemory, Aside
<1>3. ASSUME NEW st \in ServiceStates, NEW what, NEW r \in Results
      PROVE  Aside(m, Complete(Changed(m, st), what, r))
  <2>1. Changed(m, st) \in OtgMemory
    BY <1>2 DEF Aside
  <2> QED BY <1>1, <1>2, <2>1 DEF Aside
<1>4. /\ StartResults \subseteq Results /\ StopResults \subseteq Results
      /\ FailedStates \subseteq ServiceStates
      /\ KErrNone \in Results /\ "Started" \in ServiceStates /\ "Idle" \in ServiceStates
  BY OtgAssumption DEF ServiceStates, Results
<1>5. \E st \in ServiceStates, r \in Results, what \in {"TryStart", "TryStop"} :
        n = Complete(Changed(m, st), what, r)
  <2>1. CASE m.service.state = "Starting"
    BY <1>4, <2>1 DEF ChangeEnded
  <2>2. CASE m.service.state = "Stopping"
    <3>1. PICK r \in StopResults :
            n = Complete(Changed(m, IF r = KErrNone THEN "Idle" ELSE "Started"), "TryStop", r)
      BY <2>2 DEF ChangeEnded
    <3> QED BY <1>4, <3>1
  <2>3. CASE m.service.state \notin {"Starting", "Stopping"}
    BY <2>3 DEF ChangeEnded
  <2> QED BY <2>1, <2>2, <2>3
<1> QED BY <1>3, <1>5

-----------------------------------------------------------------------------
\* The watcher's handlers.

\* What is outside keeps its types when only the observers' requests change.
LEMMA OnlyObservers ==
  ASSUME OutsideTypes, NEW o \in Observers, Resubscribe(o), UNCHANGED outsideVars
  PROVE  OutsideTypes'
<1>1. /\ obs' \in [Observers -> {"Waiting", "Ready", "Failed", "Deaf"}]
      /\ obs'["HostEvent"] # "Ready"
  BY Resubscribing
<1> QED BY <1>1 DEF OutsideTypes, outsideVars

\* CUsbServiceControl::RunL.
LEMMA RunServiceControlKeeps ==
  ASSUME OtgInv, RunServiceControl
  PROVE  OtgInv'
<1>1. Running /\ idPin' = idPin /\ obs' = obs /\ OutsideTypes'
  BY DEF RunServiceControl, Turn, OtgInv, OutsideTypes, outsideVars
<1>2. PICK in \in Outside : Commit(ServiceControlRunL(Mem(in)))
  BY DEF RunServiceControl
<1>3. Handled(Mem(in), ServiceControlRunL(Mem(in)))
  BY MemIsSound, ServiceControlHandles DEF OtgInv
<1> QED BY <1>1, <1>2, <1>3, HandlerKeeps DEF OtgInv

\* A timer of a state elapses.
LEMMA RunTimerKeeps ==
  ASSUME OtgInv, NEW t \in Timers, RunTimer(t)
  PROVE  OtgInv'
<1>1. Running /\ idPin' = idPin /\ obs' = obs /\ OutsideTypes'
  BY DEF RunTimer, Turn, OtgInv, OutsideTypes, outsideVars
<1>2. PICK in \in Outside : Commit(TimerElapsed(Mem(in), t))
  BY DEF RunTimer
<1>3. Handled(Mem(in), TimerElapsed(Mem(in), t))
  BY MemIsSound, TimerElapsedHandles DEF OtgInv
<1> QED BY <1>1, <1>2, <1>3, HandlerKeeps DEF OtgInv

\* CNotifierActive::RunL.
LEMMA RunNoteKeeps ==
  ASSUME OtgInv, RunNote
  PROVE  OtgInv'
<1>1. Running /\ idPin' = idPin /\ obs' = obs /\ OutsideTypes'
  BY DEF RunNote, Turn, OtgInv, OutsideTypes, outsideVars
<1>2. PICK in \in Outside :
        LET m == Mem(in) IN
        Commit(IF notes.error = "Closed"
                 THEN WaitNotifierCompleted([m EXCEPT !.notes.error = "Hidden"])
                 ELSE [m EXCEPT !.notes.warning = "Hidden"])
  BY DEF RunNote
<1> DEFINE m == Mem(in)
           e == [m EXCEPT !.notes.error = "Hidden"]
           w == [m EXCEPT !.notes.warning = "Hidden"]
<1>3. Sound(m) /\ m \in OtgMemory
  BY MemIsSound DEF OtgInv
<1> HIDE DEF m
<1>4. Aside(m, e) /\ Aside(m, w)
  <2>1. m.notes \in Notes
    BY <1>3 DEF OtgMemory
  <2>2. /\ [m.notes EXCEPT !.error = "Hidden"] \in Notes
        /\ [m.notes EXCEPT !.warning = "Hidden"] \in Notes
    BY <2>1 DEF Notes, NoteStates
  <2> QED BY <1>3, <2>2 DEF OtgMemory, Aside
<1> HIDE DEF e, w
<1>5. Handled(m, e) /\ Handled(m, w) /\ Sound(e)
  BY <1>3, <1>4, AsideKeeps DEF Handled
<1>6. Handled(m, WaitNotifierCompleted(e))
  BY <1>5, NoteAnswered, InTurn
<1>7. \E n : Handled(Mem(in), n) /\ Commit(n)
  BY <1>2, <1>5, <1>6 DEF m, e, w
<1> QED BY <1>1, <1>7, HandlerKeeps DEF OtgInv

\* RunL of the OTG state observer.
LEMMA RunOtgStateKeeps ==
  ASSUME OtgInv, RunOtgState
  PROVE  OtgInv'
<1>1. /\ Running /\ idPin' = idPin /\ OutsideTypes'
      /\ obs'["VBus"] = obs["VBus"] /\ obs'["IdPin"] = obs["IdPin"]
  BY ObserverNames, OnlyObservers, Resubscribing
     DEF RunOtgState, Turn, OtgInv, outsideVars
<1>2. PICK in \in Outside :
        LET m == Mem(in) IN
        Commit(IF Failed("OtgState") THEN HandleDropping(m, "OtgStateError")
               ELSE CASE otg = "AIdle"       -> AIdle(m)
                      [] otg = "AHost"       -> AHost(m)
                      [] otg = "APeripheral" -> ToPeripheral(m)
                      [] otg = "AVbusError"  -> AVBusError(m)
                      [] otg = "BIdle"       -> BDevice(m))
  BY DEF RunOtgState
<1> DEFINE m == Mem(in)
<1>3. /\ Handled(m, HandleDropping(m, "OtgStateError")) /\ Handled(m, ToPeripheral(m))
      /\ Handled(m, AIdle(m)) /\ Handled(m, AHost(m))
      /\ Handled(m, AVBusError(m)) /\ Handled(m, BDevice(m))
  BY MemIsSound, BusEvents, Replies, ProblemNames DEF OtgInv
<1>4. otg \in OtgStates
  BY DEF OtgInv, OutsideTypes
<1> HIDE DEF m
<1>5. \E n : Handled(m, n) /\ Commit(n)
  BY <1>2, <1>3, <1>4 DEF m, OtgStates
<1>6. \E n : Handled(Mem(in), n) /\ Commit(n)
  BY <1>5 DEF m
<1> QED BY <1>1, <1>6, HandlerKeeps DEF OtgInv

\* The members of a host event.
LEMMA EventTypes ==
  ASSUME NEW e \in Events
  PROVE  /\ e.kind \in {"Attachment", "DriverLoad", "Detachment"}
         /\ e.kind = "Attachment" => e.what \in [error : AttachErrors, otg : BOOLEAN]
         /\ e.kind = "DriverLoad" => e.what \in AllLoadResults
BY OtgAssumption DEF Events, Event

\* RunL of the host event observer.
LEMMA RunHostEventKeeps ==
  ASSUME OtgInv, RunHostEvent
  PROVE  OtgInv'
<1>1. /\ Running /\ idPin' = idPin /\ Resubscribe("HostEvent")
      /\ UNCHANGED << idPin, otg, dev, message, left >>
      /\ events' = IF Failed("HostEvent") THEN events ELSE Tail(events)
  BY DEF RunHostEvent, Turn
<1>2. events \in Seq(Events) /\ (Failed("HostEvent") \/ events # << >>)
  <2>1. IsReady("HostEvent") /\ "HostEvent" \notin Timers
    BY DEF RunHostEvent, Turn, Timers
  <2> QED BY <2>1, ObserverNames DEF IsReady, Failed, OtgInv, OutsideTypes, WatcherTypes, Host
<1>3. events' \in Seq(Events)
  BY <1>1, <1>2
<1>4. /\ obs' \in [Observers -> {"Waiting", "Ready", "Failed", "Deaf"}]
      /\ obs'["HostEvent"] # "Ready"
      /\ obs'["VBus"] = obs["VBus"] /\ obs'["IdPin"] = obs["IdPin"]
  BY <1>1, ObserverNames, Resubscribing DEF OtgInv
<1>5. OutsideTypes'
  BY <1>1, <1>3, <1>4 DEF OtgInv, OutsideTypes
<1>6. PICK in \in Outside :
        LET m == Mem(in)
            e == Head(events)
        IN Commit(IF Failed("HostEvent") THEN HandleDropping(m, "HostEventNotificationError")
                  ELSE CASE e.kind = "Attachment" -> DeviceAttached(m, e.what)
                         [] e.kind = "Detachment" -> DeviceDetached(m)
                         [] e.kind = "DriverLoad" -> DriverLoad(m, e.what))
  BY DEF RunHostEvent
<1> DEFINE m == Mem(in)
           e == Head(events)
<1>7. Sound(m)
  BY MemIsSound DEF OtgInv
<1>8. \E n : Handled(m, n) /\ Commit(n)
  <2> HIDE DEF m
  <2>1. CASE Failed("HostEvent")
    <3>1. Commit(HandleDropping(m, "HostEventNotificationError"))
      BY <1>6, <2>1 DEF m
    <3>2. Handled(m, HandleDropping(m, "HostEventNotificationError"))
      BY <1>7, Replies, ProblemNames
    <3> QED BY <3>1, <3>2
  <2>2. CASE ~Failed("HostEvent")
    <3>1. e \in Events
      BY <1>2, <2>2
    <3> HIDE DEF e
    <3>2. /\ e.kind = "Attachment" => Handled(m, DeviceAttached(m, e.what))
          /\ Handled(m, DeviceDetached(m))
          /\ e.kind = "DriverLoad" => Handled(m, DriverLoad(m, e.what))
      BY <1>7, <3>1, EventTypes, HostEvents
    <3>3. Commit(CASE e.kind = "Attachment" -> DeviceAttached(m, e.what)
                   [] e.kind = "Detachment" -> DeviceDetached(m)
                   [] e.kind = "DriverLoad" -> DriverLoad(m, e.what))
      BY <1>6, <2>2 DEF m, e
    <3>4. e.kind \in {"Attachment", "DriverLoad", "Detachment"}
      BY <3>1, EventTypes
    <3> QED BY <3>2, <3>3, <3>4
  <2> QED BY <2>1, <2>2
<1> QED BY <1>1, <1>4, <1>5, <1>8, HandlerKeeps DEF OtgInv

\* RunL of the message observer.
LEMMA RunMessageKeeps ==
  ASSUME OtgInv, RunMessage
  PROVE  OtgInv'
<1>1. /\ Running /\ idPin' = idPin /\ Resubscribe("Message")
      /\ UNCHANGED << idPin, otg, dev, events, left >> /\ message' \in {message, None}
  BY DEF RunMessage, Turn
<1>2. /\ obs' \in [Observers -> {"Waiting", "Ready", "Failed", "Deaf"}]
      /\ obs'["HostEvent"] # "Ready"
      /\ obs'["VBus"] = obs["VBus"] /\ obs'["IdPin"] = obs["IdPin"]
  BY <1>1, ObserverNames, Resubscribing DEF OtgInv
<1>3. OutsideTypes'
  BY <1>1, <1>2 DEF OtgInv, OutsideTypes
<1>4. PICK in \in Outside :
        LET m == Mem(in) IN
        Commit(IF Failed("Message") THEN HandleDropping(m, "MessageNotificationError")
               ELSE CASE message = "BadHubPosition" -> BadHubPosition(m)
                      [] message = "VBusError"      -> AVBusError(m)
                      [] message = "SrpReceived"    -> SrpReceived(m)
                      [] message = "RequestSession" -> SessionRequested(m)
                      [] OTHER                      -> MessageReceived(m, message))
  BY DEF RunMessage
<1> DEFINE m == Mem(in)
<1>5. /\ Handled(m, HandleDropping(m, "MessageNotificationError"))
      /\ Handled(m, BadHubPosition(m)) /\ Handled(m, AVBusError(m)) /\ Handled(m, SrpReceived(m))
      /\ Handled(m, SessionRequested(m)) /\ Handled(m, MessageReceived(m, message))
  BY MemIsSound, Messages, BusEvents, Replies, ProblemNames DEF OtgInv
<1> HIDE DEF m
<1>6. \E n : Handled(m, n) /\ Commit(n)
  BY <1>4, <1>5 DEF m
<1>7. \E n : Handled(Mem(in), n) /\ Commit(n)
  BY <1>6 DEF m
<1> QED BY <1>1, <1>2, <1>3, <1>7, HandlerKeeps DEF OtgInv

\* RunL of the VBus observers: the indicator's, then the watcher's.
LEMMA RunVBusKeeps ==
  ASSUME OtgInv, RunVBus
  PROVE  OtgInv'
<1>1. /\ Running /\ idPin' = idPin /\ OutsideTypes'
      /\ obs'["VBus"] = (IF obs["VBus"] = "Failed" THEN "Deaf" ELSE "Waiting")
      /\ obs'["IdPin"] = obs["IdPin"]
  BY ObserverNames, OnlyObservers, Resubscribing DEF RunVBus, Turn, OtgInv, outsideVars
<1>2. PICK in \in Outside :
        LET m == Mem(in) IN
        Commit(CASE Failed("VBus")            -> HandleDropping(m, "VBusObserverError")
                 [] ~Failed("VBus") /\ bus.up -> VBusUp(SetIndicator(m))
                 [] OTHER                     -> VBusDown(SetIndicator(m)))
  BY DEF RunVBus
<1> DEFINE m == Mem(in)
           s == SetIndicator(m)
<1>3. Sound(m) /\ m \in OtgMemory
  BY MemIsSound DEF OtgInv
<1>4. /\ m.host = host /\ m.connecting = connecting /\ m.idPin = idPin /\ m.bus = bus
  BY MemIsSound DEF OtgInv
<1> HIDE DEF m
<1>5. Sound(s) /\ Lit(s) /\ Follows(m, s)
  BY <1>3, SetIndicatorType DEF Sound
<1> HIDE DEF s
<1>6. Handled(s, VBusUp(s)) /\ Handled(s, VBusDown(s))
  BY <1>5, BusEvents
<1>7. Handled(m, HandleDropping(m, "VBusObserverError"))
  BY <1>3, Replies, ProblemNames
<1>8. PICK n : Sound(n) /\ Commit(n) /\ Follows(m, n) /\ (~Failed("VBus") => Lit(n))
  <2>1. CASE Failed("VBus")
    BY <1>2, <1>7, <2>1 DEF m, Handled
  <2>2. CASE ~Failed("VBus")
    <3>1. Commit(VBusUp(s)) \/ Commit(VBusDown(s))
      BY <1>2, <2>2 DEF m, s
    <3> QED BY <1>5, <1>6, <3>1 DEF Handled, Follows
  <2> QED BY <2>1, <2>2
<1>9. /\ WatcherTypes' /\ TimersFollowState'
      /\ Running' => host' = n.host /\ connecting' = n.connecting /\ bus' = n.bus
  BY <1>8, Committing DEF OtgInv
<1>10. IndicatorHeld'
  BY <1>1, <1>4, <1>8, <1>9 DEF OtgInv, IndicatorHeld, Follows, Lit, Failed
<1> QED BY <1>1, <1>9, <1>10 DEF OtgInv

\* RunL of the ID pin observer.
LEMMA RunIdPinKeeps ==
  ASSUME OtgInv, RunIdPin
  PROVE  OtgInv'
<1>1. /\ Running /\ idPin' = idPin /\ OutsideTypes'
      /\ obs'["IdPin"] = (IF obs["IdPin"] = "Failed" THEN "Deaf" ELSE "Waiting")
      /\ obs'["VBus"] = obs["VBus"] /\ obs["IdPin"] \in {"Waiting", "Ready", "Failed", "Deaf"}
  BY ObserverNames, OnlyObservers, Resubscribing
     DEF RunIdPin, Turn, OtgInv, OutsideTypes, outsideVars
<1>2. obs["IdPin"] \in {"Ready", "Failed"}
  <2>1. IsReady("IdPin") /\ "IdPin" \notin Timers
    BY DEF RunIdPin, Turn, Timers
  <2> QED BY <2>1 DEF IsReady, OtgInv, WatcherTypes, Host
<1>3. PICK in \in Outside :
        \E m \in AtIdPin(in) :
          Commit(CASE Failed("IdPin")           -> HandleDropping(m, "IdPinError")
                   [] ~Failed("IdPin") /\ idPin -> IdPinOn(m)
                   [] OTHER                     -> IdPinOff(m))
  BY DEF RunIdPin
<1>4. PICK m \in AtIdPin(in) :
        Commit(CASE Failed("IdPin")           -> HandleDropping(m, "IdPinError")
                 [] ~Failed("IdPin") /\ idPin -> IdPinOn(m)
                 [] OTHER                     -> IdPinOff(m))
  BY <1>3
<1> DEFINE k == Mem(in)
<1>5. Sound(k) /\ k \in OtgMemory
  BY MemIsSound DEF OtgInv
<1>6. /\ k.host = host /\ k.connecting = connecting /\ k.idPin = idPin /\ k.bus = bus
  BY MemIsSound DEF OtgInv
<1>7. Handled(k, m) /\ Sound(m)
  <2>1. m = k \/ m \in ChangeEnded(k)
    BY <1>4 DEF AtIdPin
  <2> HIDE DEF k
  <2>2. Aside(k, m)
    BY <1>5, <2>1, ChangeEndedIsAside DEF Aside
  <2> QED BY <1>5, <2>2, AsideKeeps DEF Handled
<1> HIDE DEF k
<1>8. Handled(m, HandleDropping(m, "IdPinError")) /\ Handled(m, IdPinOn(m))
  BY <1>7, Replies, ProblemNames, StartSessionHandles DEF IdPinOn
<1>9. /\ Sound(IdPinOff(m)) /\ Follows(m, IdPinOff(m))
      /\ ~m.idPin => ~IdPinOff(m).connecting /\ Lit(IdPinOff(m))
  BY <1>7, IdPinOffHandles
<1>10. PICK n : /\ Sound(n) /\ Commit(n) /\ Follows(k, n)
                /\ idPin => (Lit(k) => Lit(n))
                /\ ~idPin /\ ~Failed("IdPin") => ~n.connecting
  <2>1. CASE Failed("IdPin")
    BY <1>4, <1>7, <1>8, <2>1 DEF Handled, Follows
  <2>2. CASE ~Failed("IdPin") /\ idPin
    <3>1. Commit(IdPinOn(m))
      BY <1>4, <2>2
    <3> QED BY <1>7, <1>8, <2>2, <3>1 DEF Handled, Follows
  <2>3. CASE ~Failed("IdPin") /\ ~idPin
    <3>1. Commit(IdPinOff(m))
      BY <1>4, <2>3
    <3> QED BY <1>6, <1>7, <1>9, <2>3, <3>1 DEF Handled, Follows
  <2> QED BY <2>1, <2>2, <2>3
<1>11. /\ WatcherTypes' /\ TimersFollowState'
       /\ Running' => host' = n.host /\ connecting' = n.connecting /\ bus' = n.bus
  BY <1>10, Committing DEF OtgInv
<1>12. IndicatorHeld'
  <2>1. Follows(k, n) /\ (idPin => (Lit(k) => Lit(n))) /\ (~idPin /\ ~Failed("IdPin") => ~n.connecting)
    BY <1>10
  <2> QED BY <1>1, <1>2, <1>6, <1>11, <2>1 DEF OtgInv, IndicatorHeld, Follows, Lit, Failed
<1> QED BY <1>1, <1>11, <1>12 DEF OtgInv

-----------------------------------------------------------------------------
\* What is outside.

\* USB Manager ends a change.
LEMMA ServiceChangesKeeps ==
  ASSUME OtgInv, ServiceChanges
  PROVE  OtgInv'
<1>1. /\ UNCHANGED << host, notes, connecting, published, asked, panic >>
      /\ UNCHANGED << bus, obs, idPin, otg, dev, events, message, left >>
  BY DEF ServiceChanges, unchangedHost, outsideVars
<1>2. PICK in \in Outside : \E m \in ChangeEnded(Mem(in)) : service' = m.service /\ ctl' = m.ctl
  BY DEF ServiceChanges
<1>3. Mem(in) \in OtgMemory
  BY MemIsSound DEF OtgInv
<1>4. PICK m \in ChangeEnded(Mem(in)) : service' = m.service /\ ctl' = m.ctl
  BY <1>2
<1>5. m \in OtgMemory
  BY <1>3, ChangeEndedIsAside DEF Aside
<1>6. service' \in Service /\ ctl' \in Control
  BY <1>4, <1>5 DEF OtgMemory
<1> QED BY <1>1, <1>6
     DEF OtgInv, WatcherTypes, OutsideTypes, TimersFollowState, IndicatorHeld, Running

\* One whim less is left.
LEMMA WhimType ==
  ASSUME OutsideTypes, Whim
  PROVE  left' \in [plugs : 0..MaxPlugs, troubles : 0..MaxTroubles]
<1>1. left.troubles \in 0..MaxTroubles /\ left.troubles > 0 /\ MaxTroubles \in Nat
  BY OtgAssumption DEF Whim, OutsideTypes
<1>2. left.troubles - 1 \in 0..MaxTroubles
  BY <1>1
<1> QED BY <1>2 DEF Whim, OutsideTypes

\* Another client uses USB Manager.
LEMMA OtherClientKeeps ==
  ASSUME OtgInv, OtherClient
  PROVE  OtgInv'
<1>1. /\ UNCHANGED << host, notes, connecting, published, asked, panic >>
      /\ UNCHANGED << bus, obs, idPin, otg, dev, events, message >>
  BY DEF OtherClient, unchangedHost
<1>2. PICK in \in Outside :
        LET m == Mem(in)
            new == IF m.service.state = "Started" THEN [m.service EXCEPT !.state = "Stopping"]
                   ELSE [state |-> "Starting", id |-> OtherPersonality]
        IN service' = new /\ ctl' = Complete(m, "StateNotification", KErrNone).ctl
  BY DEF OtherClient
<1> DEFINE m == Mem(in)
<1>3. m \in OtgMemory /\ m.service \in Service /\ m.ctl \in Control
  BY MemIsSound DEF OtgInv, OtgMemory
<1> HIDE DEF m
<1>4. service' \in Service
  <2>1. [m.service EXCEPT !.state = "Stopping"] \in Service
    BY <1>3 DEF Service, ServiceStates
  <2>2. [state |-> "Starting", id |-> OtherPersonality] \in Service
    BY DEF Service, ServiceStates, Personalities
  <2>3. service' \in {[m.service EXCEPT !.state = "Stopping"],
                      [state |-> "Starting", id |-> OtherPersonality]}
    BY <1>2 DEF m
  <2> QED BY <2>1, <2>2, <2>3
<1>5. ctl' \in Control
  <2>1. ctl' = Complete(m, "StateNotification", KErrNone).ctl
    BY <1>2 DEF m
  <2>2. [m.ctl EXCEPT !.iStatus = KErrNone] \in Control
    BY <1>3 DEF Control, Results
  <2>3. [m EXCEPT !.ctl.iStatus = KErrNone].ctl = [m.ctl EXCEPT !.iStatus = KErrNone]
    BY <1>3 DEF OtgMemory
  <2> QED BY <1>3, <2>1, <2>2, <2>3 DEF Complete
<1>6. left' \in [plugs : 0..MaxPlugs, troubles : 0..MaxTroubles]
  BY WhimType DEF OtgInv, OtherClient
<1> QED BY <1>1, <1>4, <1>5, <1>6
     DEF OtgInv, WatcherTypes, OutsideTypes, TimersFollowState, IndicatorHeld, Running

\* When the watcher is quiet, the ID pin has been looked at.
LEMMA QuietIsLookedAt ==
  ASSUME OtgInv, Quiet
  PROVE  obs["IdPin"] \notin {"Ready", "Failed"}
<1>1. 5 \in DOMAIN Order /\ Order[5] = "IdPin"
  BY DEF Order
<1>2. ~IsReady("IdPin")
  BY <1>1 DEF Quiet
<1> QED BY <1>2, ObserverNames DEF IsReady

\* The cable is plugged in.
LEMMA PlugInKeeps ==
  ASSUME OtgInv, PlugIn
  PROVE  OtgInv'
<1>1. /\ UNCHANGED watcherVars /\ UNCHANGED << otg, dev, events, message >>
      /\ idPin' = TRUE /\ ~idPin /\ ~bus.up /\ obs' = Alerted("IdPin")
      /\ left.plugs > 0 /\ left' = [left EXCEPT !.plugs = left.plugs - 1]
  BY DEF PlugIn
<1>2. /\ obs' \in [Observers -> {"Waiting", "Ready", "Failed", "Deaf"}]
      /\ obs'["HostEvent"] # "Ready" /\ obs'["VBus"] = obs["VBus"]
      /\ obs'["IdPin"] = IF obs["IdPin"] = "Waiting" THEN "Ready" ELSE obs["IdPin"]
  BY <1>1, ObserverNames, Alerting DEF OtgInv
<1>3. obs["IdPin"] \notin {"Ready", "Failed"}
  BY QuietIsLookedAt DEF PlugIn
<1>4. left' \in [plugs : 0..MaxPlugs, troubles : 0..MaxTroubles]
  <2>1. left.plugs \in 0..MaxPlugs /\ MaxPlugs \in Nat
    BY OtgAssumption DEF OtgInv, OutsideTypes
  <2>2. left.plugs - 1 \in 0..MaxPlugs
    BY <1>1, <2>1
  <2> QED BY <1>1, <2>2 DEF OtgInv, OutsideTypes
<1>5. IndicatorHeld'
  BY <1>1, <1>2, <1>3 DEF OtgInv, IndicatorHeld, Running, watcherVars
<1>6. OutsideTypes'
  BY <1>1, <1>2, <1>4 DEF OtgInv, OutsideTypes
<1> QED BY <1>1, <1>5, <1>6 DEF OtgInv, WatcherTypes, TimersFollowState, watcherVars

\* The cable is pulled, and VBus rises and falls.
LEMMA CableKeeps ==
  ASSUME OtgInv, PlugOut \/ VBusRises \/ VBusFalls
  PROVE  OtgInv'
<1>1. /\ UNCHANGED << host, notes, connecting, published, asked, panic, ctl, service >>
      /\ UNCHANGED << otg, dev, events, message, left >>
  BY DEF PlugOut, VBusRises, VBusFalls, unchangedHost, outsideVars
<1>2. bus' \in Bus
  BY DEF PlugOut, VBusRises, VBusFalls, OtgInv, WatcherTypes, Bus
<1>3. CASE PlugOut
  <2>1. /\ obs' \in [Observers -> {"Waiting", "Ready", "Failed", "Deaf"}]
        /\ obs'["HostEvent"] # "Ready"
        /\ obs'["IdPin"] = IF obs["IdPin"] = "Waiting" THEN "Ready" ELSE obs["IdPin"]
    BY <1>3, ObserverNames, Alerting DEF PlugOut, OtgInv
  <2>2. idPin' = FALSE
    BY <1>3 DEF PlugOut
  <2> QED BY <1>1, <1>2, <2>1, <2>2
       DEF OtgInv, WatcherTypes, OutsideTypes, TimersFollowState, IndicatorHeld, Running
<1>4. CASE VBusRises \/ VBusFalls
  <2>1. obs' = Alerted("VBus") /\ idPin' = idPin
    BY <1>4 DEF VBusRises, VBusFalls, outsideVars
  <2>2. /\ obs' \in [Observers -> {"Waiting", "Ready", "Failed", "Deaf"}]
        /\ obs'["HostEvent"] # "Ready" /\ obs'["IdPin"] = obs["IdPin"]
        /\ obs'["VBus"] = IF obs["VBus"] = "Waiting" THEN "Ready" ELSE obs["VBus"]
    BY <2>1, ObserverNames, Alerting DEF OtgInv
  <2> QED BY <1>1, <1>2, <2>1, <2>2
       DEF OtgInv, WatcherTypes, OutsideTypes, TimersFollowState, IndicatorHeld, Running
<1> QED BY <1>3, <1>4

\* The device comes and goes, and its drivers load.
LEMMA DeviceKeeps ==
  ASSUME OtgInv, \/ DeviceDetaches
                 \/ \E e \in Attachments : DeviceAttaches(e)
                 \/ \E r \in LoadResults : DriversLoaded(r)
  PROVE  OtgInv'
<1>1. UNCHANGED watcherVars /\ UNCHANGED << obs, idPin, otg, message, left >>
  BY DEF DeviceDetaches, DeviceAttaches, DriversLoaded
<1>2. /\ \A e \in Attachments : Event("Attachment", e) \in Events
      /\ \A r \in LoadResults : Event("DriverLoad", r) \in Events
      /\ Event("Detachment", None) \in Events
  BY DEF Events
<1>3. events \in Seq(Events)
  BY DEF OtgInv, OutsideTypes
<1>4. events' \in Seq(Events) /\ dev' \in Devices
  <2>1. CASE DeviceDetaches
    BY <1>2, <1>3, <2>1 DEF DeviceDetaches, Devices
  <2>2. CASE \E e \in Attachments : DeviceAttaches(e)
    BY <1>2, <1>3, <2>2 DEF DeviceAttaches, Devices
  <2>3. CASE \E r \in LoadResults : DriversLoaded(r)
    BY <1>2, <1>3, <2>3 DEF DriversLoaded, Devices
  <2> QED BY <2>1, <2>2, <2>3
<1> QED BY <1>1, <1>4
     DEF OtgInv, WatcherTypes, OutsideTypes, TimersFollowState, IndicatorHeld, Running, watcherVars

\* The OTG stack publishes a state.
LEMMA RoleKeeps ==
  ASSUME OtgInv, OtgFollows \/ HandsOver \/ TakesBack \/ VBusError
  PROVE  OtgInv'
<1>1. PICK st \in OtgStates : Publish(st)
  BY DEF OtgFollows, HandsOver, TakesBack, VBusError, Role, OtgStates
<1>2. /\ UNCHANGED << host, notes, connecting, published, asked, panic, ctl, service >>
      /\ UNCHANGED << idPin, dev, events, message >> /\ otg' \in OtgStates
      /\ obs' = Alerted("OtgState")
  BY <1>1 DEF Publish, unchangedHost
<1>3. /\ obs' \in [Observers -> {"Waiting", "Ready", "Failed", "Deaf"}]
      /\ obs'["HostEvent"] # "Ready"
      /\ obs'["VBus"] = obs["VBus"] /\ obs'["IdPin"] = obs["IdPin"]
  BY <1>2, ObserverNames, Alerting DEF OtgInv
<1>4. left' \in [plugs : 0..MaxPlugs, troubles : 0..MaxTroubles]
  BY WhimType DEF OtgFollows, HandsOver, TakesBack, VBusError, OtgInv, OutsideTypes
<1>5. bus' \in Bus /\ bus'.up = bus.up
  BY DEF OtgFollows, HandsOver, TakesBack, VBusError, OtgInv, WatcherTypes, Bus
<1> QED BY <1>2, <1>3, <1>4, <1>5
     DEF OtgInv, WatcherTypes, OutsideTypes, TimersFollowState, IndicatorHeld, Running

\* A message arrives.
LEMMA MessageArrivesKeeps ==
  ASSUME OtgInv, NEW k \in MessageKinds, MessageArrives(k)
  PROVE  OtgInv'
<1>1. UNCHANGED watcherVars /\ UNCHANGED << obs, idPin, otg, events >> /\ message' = k
  BY DEF MessageArrives
<1>2. k \in AllMessages
  BY OtgAssumption
<1>3. dev' \in Devices
  BY DEF MessageArrives, Devices, OtgInv, OutsideTypes
<1>4. left' \in [plugs : 0..MaxPlugs, troubles : 0..MaxTroubles]
  BY WhimType DEF MessageArrives, OtgInv, OutsideTypes
<1> QED BY <1>1, <1>2, <1>3, <1>4
     DEF OtgInv, WatcherTypes, OutsideTypes, TimersFollowState, IndicatorHeld, Running, watcherVars

\* A timer's time is over, the user closes a note, or an observer's request fails.
LEMMA OthersKeep ==
  ASSUME OtgInv, TimerElapses \/ UserClosesNote \/ ObserverFails
  PROVE  OtgInv'
<1>1. CASE TimerElapses
  <2>1. PICK t \in host.timers \ host.elapsed :
          host' = [host EXCEPT !.elapsed = host.elapsed \cup {t}]
    BY <1>1 DEF TimerElapses
  <2>2. /\ host' \in Host /\ host'.timers = host.timers /\ host'.iHostState = host.iHostState
        /\ host'.iDeviceAttached = host.iDeviceAttached
    BY <2>1 DEF OtgInv, WatcherTypes, Host
  <2> QED BY <1>1, <2>2
       DEF TimerElapses, OtgInv, WatcherTypes, OutsideTypes, TimersFollowState, IndicatorHeld,
           Running, outsideVars
<1>2. CASE UserClosesNote
  <2>1. notes' \in Notes
    BY <1>2 DEF UserClosesNote, OtgInv, WatcherTypes, Notes, NoteStates
  <2> QED BY <1>2, <2>1
       DEF UserClosesNote, OtgInv, WatcherTypes, OutsideTypes, TimersFollowState, IndicatorHeld,
           Running, outsideVars
<1>3. CASE ObserverFails
  <2>1. PICK o \in Observers : obs[o] = "Waiting" /\ obs' = [obs EXCEPT ![o] = "Failed"]
    BY <1>3 DEF ObserverFails
  <2>2. /\ obs' \in [Observers -> {"Waiting", "Ready", "Failed", "Deaf"}]
        /\ obs'["HostEvent"] # "Ready"
        /\ \A p \in Observers : obs'[p] = obs[p] \/ obs'[p] = "Failed"
    BY <2>1 DEF OtgInv, OutsideTypes, Observers
  <2>3. UNCHANGED watcherVars /\ UNCHANGED << idPin, otg, dev, events, message >>
    BY <1>3 DEF ObserverFails
  <2>4. left' \in [plugs : 0..MaxPlugs, troubles : 0..MaxTroubles]
    BY <1>3, WhimType DEF ObserverFails, OtgInv
  <2>5. /\ obs'["IdPin"] = obs["IdPin"] \/ obs'["IdPin"] = "Failed"
        /\ obs'["VBus"] = obs["VBus"] \/ obs'["VBus"] = "Failed"
    BY <2>2, ObserverNames
  <2>6. IndicatorHeld'
    BY <2>3, <2>5 DEF OtgInv, IndicatorHeld, Running, watcherVars
  <2>7. OutsideTypes'
    BY <2>2, <2>3, <2>4 DEF OtgInv, OutsideTypes
  <2> QED BY <2>3, <2>6, <2>7 DEF OtgInv, WatcherTypes, TimersFollowState, watcherVars
<1> QED BY <1>1, <1>2, <1>3

-----------------------------------------------------------------------------
\* The theorems.

\* The invariant holds when usbotgwatcher has been constructed.
LEMMA InitHolds == Init => OtgInv
<1> SUFFICES ASSUME Init PROVE OtgInv
  OBVIOUS
<1>1. PICK in \in Outside :
        LET new == Constructed(in, idPin)
            m   == IF idPin THEN StartSession(new) ELSE new
        IN /\ host = m.host /\ notes = m.notes /\ connecting = m.connecting
           /\ published = m.published /\ ctl = m.ctl /\ asked = m.asked
           /\ panic = m.panic /\ service = m.service /\ bus = m.bus
  BY DEF Init
<1> DEFINE new == Constructed(in, idPin)
           m == IF idPin THEN StartSession(new) ELSE new
<1>2. /\ new \in OtgMemory /\ Timed(new.host) /\ ~new.connecting /\ ~new.bus.up
      /\ new.idPin = idPin
  <2>1. in \in Answers /\ idPin \in BOOLEAN
    BY OtgAssumption DEF Init
  <2>2. InitHost \in Host /\ Timed(InitHost)
    BY DEF InitHost, Host, HostStates, Timed
  <2>3. InitControl \in Control
    BY DEF InitControl, Control, Results
  <2>4. /\ [warning |-> "Hidden", error |-> "Hidden"] \in Notes
        /\ [state |-> "Idle", id |-> None] \in Service
        /\ [up |-> FALSE, wanted |-> FALSE] \in Bus /\ NoFault \in Panics
    BY DEF Notes, NoteStates, Service, ServiceStates, Bus, Panics
  <2> QED BY <2>1, <2>2, <2>3, <2>4 DEF Constructed, OtgMemory
<1> HIDE DEF new
<1>3. Sound(m) /\ Lit(m) /\ (~idPin => ~m.connecting) /\ m.idPin = idPin
  <2>1. Sound(new) /\ Lit(new)
    BY <1>2 DEF Sound, Lit
  <2>2. Handled(new, StartSession(new))
    BY <2>1, StartSessionHandles
  <2> QED BY <1>2, <2>1, <2>2 DEF Handled, Follows
<1>4. /\ host = m.host /\ notes = m.notes /\ connecting = m.connecting
      /\ published = m.published /\ ctl = m.ctl /\ asked = m.asked
      /\ panic = m.panic /\ service = m.service /\ bus = m.bus
  BY <1>1 DEF new
<1> HIDE DEF m
<1>5. WatcherTypes
  BY <1>3, <1>4 DEF Sound, OtgMemory, WatcherTypes
<1>6. TimersFollowState
  BY <1>3, <1>4 DEF Sound, Timed, TimersFollowState
<1>7. IndicatorHeld
  BY <1>3, <1>4 DEF Lit, IndicatorHeld
<1>8. OutsideTypes
  <2>1. << >> \in Seq(Events)
    OBVIOUS
  <2>2. MaxPlugs \in 0..MaxPlugs /\ MaxTroubles \in 0..MaxTroubles
    BY OtgAssumption
  <2> QED BY <2>1, <2>2 DEF Init, OutsideTypes, Observers, OtgStates, Devices
<1> QED BY <1>5, <1>6, <1>7, <1>8 DEF OtgInv

\* Every step keeps it.
LEMMA NextKeeps == OtgInv /\ [Next]_vars => OtgInv'
<1> SUFFICES ASSUME OtgInv, [Next]_vars PROVE OtgInv'
  OBVIOUS
<1>1. CASE RunServiceControl
  BY <1>1, RunServiceControlKeeps
<1>2. CASE RunIdPin
  BY <1>2, RunIdPinKeeps
<1>3. CASE RunVBus
  BY <1>3, RunVBusKeeps
<1>4. CASE RunOtgState
  BY <1>4, RunOtgStateKeeps
<1>5. CASE RunHostEvent
  BY <1>5, RunHostEventKeeps
<1>6. CASE RunMessage
  BY <1>6, RunMessageKeeps
<1>7. CASE RunNote
  BY <1>7, RunNoteKeeps
<1>8. CASE \E t \in Timers : RunTimer(t)
  BY <1>8, RunTimerKeeps
<1>9. CASE ServiceChanges
  BY <1>9, ServiceChangesKeeps
<1>10. CASE OtherClient
  BY <1>10, OtherClientKeeps
<1>11. CASE PlugIn
  BY <1>11, PlugInKeeps
<1>12. CASE PlugOut \/ VBusRises \/ VBusFalls
  BY <1>12, CableKeeps
<1>13. CASE \/ DeviceDetaches
            \/ \E e \in Attachments : DeviceAttaches(e)
            \/ \E r \in LoadResults : DriversLoaded(r)
  BY <1>13, DeviceKeeps
<1>14. CASE OtgFollows \/ HandsOver \/ TakesBack \/ VBusError
  BY <1>14, RoleKeeps
<1>15. CASE \E k \in MessageKinds : MessageArrives(k)
  BY <1>15, MessageArrivesKeeps
<1>16. CASE TimerElapses \/ UserClosesNote \/ ObserverFails
  BY <1>16, OthersKeep
<1>17. CASE UNCHANGED vars
  BY <1>17 DEF vars, watcherVars, outsideVars, OtgInv, WatcherTypes, OutsideTypes,
               TimersFollowState, IndicatorHeld, Running
<1> QED BY <1>1, <1>2, <1>3, <1>4, <1>5, <1>6, <1>7, <1>8, <1>9, <1>10, <1>11, <1>12, <1>13,
           <1>14, <1>15, <1>16, <1>17 DEF Next, Scheduler, World, Stack

\* The inductive invariant of usbotgwatcher: its types, its timers, its indicator.
THEOREM OtgInvariant == Spec => []OtgInv
<1>1. Init => OtgInv
  BY InitHolds
<1>2. OtgInv /\ [Next]_vars => OtgInv'
  BY NextKeeps
<1> QED BY <1>1, <1>2, PTL DEF Spec

\* Every object of usbotgwatcher, and all that is outside, keeps its type.
THEOREM OtgTypeCorrect == Spec => []TypeOK
<1>1. OtgInv => TypeOK
  BY DEF OtgInv, WatcherTypes, OutsideTypes, TypeOK
<1> QED BY <1>1, OtgInvariant, PTL

\* No host state waits without its timer, and JustBeforeLeavingThisStateL leaves no timer
\* to elapse in another state, whatever the stack, the device, USB Manager and the user do.
THEOREM TimersAreTheStates == Spec => []TimersFollowState
<1>1. OtgInv => TimersFollowState
  BY DEF OtgInv
<1> QED BY <1>1, OtgInvariant, PTL

\* CUsbIndicatorNotifier shows the connecting indicator from VBus to the drivers, whatever
\* closes the notes in between.
THEOREM IndicatorIsRight == Spec => []IndicatorTracksVBus
<1>1. OtgInv => IndicatorTracksVBus
  BY DEF OtgInv, IndicatorHeld, IndicatorTracksVBus
<1> QED BY <1>1, OtgInvariant, PTL

-----------------------------------------------------------------------------
(* A session in which nothing fails: NeverPanics, UnpluggedIsUndefined and  *)
(* HostsOnlyAttached.  What the OTG stack reports must come in a state that *)
(* expects it, so the invariant says what each of the device's words finds  *)
(* (Fits), in what order the words come (Stream), and how VBus, the plug,   *)
(* the roles, the service and the messages hold the host state machine.     *)

\* Only a timer that runs has elapsed.
Prompt(h) == h.elapsed \subseteq h.timers

\* The plug, VBus, the service and the panic are left alone.
Keeps(m, n) == /\ n.idPin = m.idPin /\ n.bus.up = m.bus.up /\ n.ctl = m.ctl
               /\ n.service = m.service /\ n.panic = m.panic /\ n.in = m.in
               /\ Prompt(m.host) => Prompt(n.host)

\* An error note is shown in HandleDropping only.
Heeded(m) == m.notes.error # "Hidden" => m.host.iHostState = "HandleDropping"

\* Nothing that matters to a session is changed.
Stays(m, n) ==
  /\ n \in OtgMemory /\ Keeps(m, n) /\ n.bus = m.bus /\ n.notes.error = m.notes.error
  /\ n.host.iHostState = m.host.iHostState
  /\ n.host.iDeviceAttached = m.host.iDeviceAttached /\ n.host.iWhat = m.host.iWhat

\* The state is changed, to another than HandleDropping or to that one.
Goes(m, n, st) ==
  /\ n \in OtgMemory /\ Keeps(m, n) /\ n.host.iHostState = st
  /\ Heeded(m) => n.notes.error = "Hidden"
Turns(m, n, st) == Goes(m, n, st) /\ n.bus = m.bus
Initiates(m, n) == /\ Goes(m, n, "AInitiate") /\ ~n.host.iDeviceAttached
                   /\ n.bus.wanted = IF m.bus.up THEN m.bus.wanted ELSE m.idPin
Drops(m, n) ==
  /\ n \in OtgMemory /\ Keeps(m, n) /\ n.host.iHostState = "HandleDropping"
  /\ n.host.iWhat \in Recoverable /\ n.notes.error = "Shown" /\ ~n.bus.wanted

\* What stays on the way does not matter.
LEMMA StaysOnTheWay ==
  ASSUME NEW m, NEW n, NEW k
  PROVE  /\ Stays(m, k) /\ Stays(k, n) => Stays(m, n)
         /\ \A st : Stays(m, k) /\ Turns(k, n, st) => Turns(m, n, st)
         /\ \A st : Turns(m, k, st) /\ Stays(k, n) => Turns(m, n, st)
         /\ Stays(m, k) /\ Initiates(k, n) => Initiates(m, n)
         /\ Initiates(m, k) /\ Stays(k, n) => Initiates(m, n)
         /\ Stays(m, k) /\ Drops(k, n) => Drops(m, n)
         /\ Drops(m, k) /\ Stays(k, n) => Drops(m, n)
<1>1. Stays(m, k) => (Heeded(m) <=> Heeded(k))
  BY DEF Stays, Heeded
<1> QED BY <1>1 DEF Stays, Turns, Initiates, Drops, Goes, Keeps

\* The indicator, the warning, the published state and the timers do not matter.
LEMMA Immaterial ==
  ASSUME NEW m \in OtgMemory, NEW t \in Timers
  PROVE  /\ Stays(m, m) /\ Stays(m, SetIndicator(m)) /\ Stays(m, ShowWarning(m))
         /\ Stays(m, CancelTimer(m, t)) /\ Stays(m, After(m, t))
         /\ \A p \in BOOLEAN : Stays(m, [m EXCEPT !.published = p])
<1>1. Stays(m, m)
  BY DEF Stays, Keeps
<1>2. Stays(m, SetIndicator(m))
  <2>1. SetIndicator(m) \in OtgMemory
    BY SetIndicatorType
  <2>2. \E on : SetIndicator(m) = m \/ SetIndicator(m) = [m EXCEPT !.connecting = on]
    BY DEF SetIndicator, ToggleConnecting
  <2> QED BY <2>1, <2>2 DEF Stays, Keeps, OtgMemory
<1>3. Stays(m, ShowWarning(m))
  <2>1. ShowWarning(m) \in OtgMemory
    BY AsideOperators DEF Aside, Panics
  <2>2. m.notes \in Notes
    BY DEF OtgMemory
  <2>3. [m.notes EXCEPT !.warning = "Shown"].error = m.notes.error
    BY <2>2 DEF Notes
  <2> QED BY <2>1, <2>3 DEF ShowWarning, Stays, Keeps, OtgMemory
<1>4. Stays(m, CancelTimer(m, t)) /\ Stays(m, After(m, t))
  <2>1. CancelTimer(m, t) \in OtgMemory /\ After(m, t) \in OtgMemory
    BY CancelTimerType, AfterType
  <2>2. m.host \in Host
    BY DEF OtgMemory
  <2>3. ASSUME NEW k, NEW h, k = [m EXCEPT !.host = h], k \in OtgMemory,
               h.iHostState = m.host.iHostState, h.iWhat = m.host.iWhat,
               h.iDeviceAttached = m.host.iDeviceAttached, Prompt(m.host) => Prompt(h)
        PROVE  Stays(m, k)
    <3>1. k.host = h /\ k.bus = m.bus /\ k.notes = m.notes /\ Keeps(m, k)
      BY <2>3 DEF OtgMemory, Keeps
    <3> QED BY <2>3, <3>1 DEF Stays
  <2> DEFINE c == [m.host EXCEPT !.timers = m.host.timers \ {t}, !.elapsed = m.host.elapsed \ {t}]
             a == [m.host EXCEPT !.timers = m.host.timers \cup {t}, !.elapsed = m.host.elapsed \ {t}]
  <2>4. CancelTimer(m, t) = [m EXCEPT !.host = c] /\ After(m, t) = [m EXCEPT !.host = a]
    BY DEF CancelTimer, After
  <2>5. /\ c.iHostState = m.host.iHostState /\ c.iWhat = m.host.iWhat
        /\ c.iDeviceAttached = m.host.iDeviceAttached
        /\ a.iHostState = m.host.iHostState /\ a.iWhat = m.host.iWhat
        /\ a.iDeviceAttached = m.host.iDeviceAttached
        /\ Prompt(m.host) => Prompt(c) /\ Prompt(a)
    BY <2>2 DEF Host, Prompt
  <2> HIDE DEF c, a
  <2> QED BY <2>1, <2>3, <2>4, <2>5
<1>5. \A p \in BOOLEAN : Stays(m, [m EXCEPT !.published = p])
  BY DEF Stays, Keeps, OtgMemory
<1> QED BY <1>1, <1>2, <1>3, <1>4, <1>5

\* A state is left: in HandleDropping the notes are closed.
LEMMA LeavingTurns ==
  ASSUME NEW m \in OtgMemory
  PROVE  LET j == JustBeforeLeaving(m) IN
         /\ j \in OtgMemory /\ Keeps(m, j) /\ j.bus = m.bus
         /\ Heeded(m) => j.notes.error = "Hidden"
         /\ j.host.iWhat = m.host.iWhat /\ j.host.iDeviceAttached = m.host.iDeviceAttached
<1> DEFINE j == JustBeforeLeaving(m)
<1>1. CASE m.host.iHostState = "HandleDropping"
  <2>1. j = CloseAllNotifiers(m)
    BY <1>1 DEF JustBeforeLeaving
  <2>2. CloseAllNotifiers(m) \in OtgMemory /\ CloseAllNotifiers(m).host = m.host
    BY CloseAllNotifiersType
  <2>3. CloseAllNotifiers(m).notes.error = "Hidden" /\ Keeps(m, CloseAllNotifiers(m))
        /\ CloseAllNotifiers(m).bus = m.bus
    BY DEF CloseAllNotifiers, ToggleConnecting, OtgMemory, Keeps
  <2> QED BY <2>1, <2>2, <2>3
<1>2. CASE m.host.iHostState # "HandleDropping"
  <2>1. j \in {m, [m EXCEPT !.published = FALSE]} \cup { CancelTimer(m, t) : t \in Timers }
    BY <1>2 DEF JustBeforeLeaving, Timers
  <2>2. Stays(m, j)
    BY <2>1, Immaterial DEF Timers
  <2> QED BY <1>2, <2>2 DEF Stays, Heeded
<1> QED BY <1>1, <1>2

\* A state is entered.
LEMMA EnterTurns ==
  ASSUME NEW m \in OtgMemory, NEW st \in HostStates
  PROVE  Turns(m, Enter(m, st), st)
<1> DEFINE j == JustBeforeLeaving(m)
<1>1. /\ j \in OtgMemory /\ Keeps(m, j) /\ j.bus = m.bus
      /\ Heeded(m) => j.notes.error = "Hidden"
  BY LeavingTurns
<1>2. Enter(m, st) = [j EXCEPT !.host = [j.host EXCEPT !.iHostState = st]]
  BY DEF Enter
<1> HIDE DEF j
<1>3. j.host \in Host
  BY <1>1 DEF OtgMemory
<1> DEFINE h == [j.host EXCEPT !.iHostState = st]
<1>4. h \in Host /\ h.iHostState = st /\ (Prompt(j.host) => Prompt(h))
  BY <1>3 DEF Host, Prompt
<1> HIDE DEF h
<1>5. Enter(m, st) = [j EXCEPT !.host = h]
  BY <1>2 DEF h
<1> QED BY <1>1, <1>4, <1>5 DEF OtgMemory, Turns, Goes, Keeps

\* The states entered as they are.
LEMMA TurnsTo ==
  ASSUME NEW m \in OtgMemory
  PROVE  /\ Turns(m, ToUndefined(m), "Undefined") /\ Turns(m, ToPeripheral(m), "APeripheral")
         /\ Turns(m, ToHost(m), "AHost")
         /\ Turns(m, DelayAttachedHandle(m), "DelayAttached")
         /\ Turns(m, DelayNotAttachedHandle(m), "DelayNotAttached")
<1>1. ASSUME NEW st \in HostStates, NEW k, Stays(Enter(m, st), k)
      PROVE  Turns(m, SetIndicator(k), st)
  <2>1. Turns(m, Enter(m, st), st)
    BY EnterTurns
  <2>2. Turns(m, k, st) /\ k \in OtgMemory
    BY <1>1, <2>1, StaysOnTheWay DEF Stays
  <2>3. Stays(k, SetIndicator(k))
    BY <2>2, Immaterial DEF Timers
  <2> QED BY <2>2, <2>3, StaysOnTheWay
<1>2. ASSUME NEW st \in HostStates, NEW t \in Timers
      PROVE  /\ Turns(m, SetIndicator(Enter(m, st)), st)
             /\ Turns(m, SetIndicator(After(Enter(m, st), t)), st)
             /\ Turns(m, SetIndicator([Enter(m, st) EXCEPT !.published = TRUE]), st)
  <2>1. Enter(m, st) \in OtgMemory
    BY EnterTurns DEF Turns, Goes
  <2> QED BY <1>1, <2>1, Immaterial
<1>3. {"Undefined", "APeripheral", "AHost", "DelayAttached", "DelayNotAttached"} \subseteq HostStates
  BY DEF HostStates
<1> QED BY <1>2, <1>3
     DEF ToUndefined, ToPeripheral, ToHost, DelayAttachedHandle, DelayNotAttachedHandle, Timers

\* A recoverable problem drops VBus.
LEMMA DropsVBus ==
  ASSUME NEW m \in OtgMemory, NEW what \in Recoverable
  PROVE  Drops(m, HandleDropping(m, what))
<1> DEFINE e == Enter(m, "HandleDropping")
           h == [e.host EXCEPT !.iWhat = what]
           w == [e EXCEPT !.host = h]
           b == [w.bus EXCEPT !.wanted = FALSE]
           d == [w EXCEPT !.bus = b]
           s == [d EXCEPT !.notes = [warning |-> "Hidden", error |-> "Shown"]]
<1>1. e \in OtgMemory /\ Keeps(m, e) /\ e.host.iHostState = "HandleDropping" /\ e.bus = m.bus
  BY EnterTurns DEF HostStates, Turns, Goes
<1>2. HandleDropping(m, what) = SetIndicator(s)
  BY DEF HandleDropping, ShowError, BusDrop
<1> HIDE DEF e
<1>3. /\ h \in Host /\ h.iHostState = "HandleDropping" /\ h.iWhat = what
      /\ Prompt(e.host) => Prompt(h)
  BY <1>1 DEF OtgMemory, Host, Problems, Prompt
<1> HIDE DEF h
<1>4. w \in OtgMemory /\ w.host = h /\ Keeps(m, w) /\ w.bus = m.bus
  BY <1>1, <1>3 DEF OtgMemory, Keeps
<1> HIDE DEF w
<1>5. b \in Bus /\ b.up = m.bus.up /\ ~b.wanted
  BY <1>4 DEF OtgMemory, Bus
<1> HIDE DEF b
<1>6. d \in OtgMemory /\ d.host = h /\ Keeps(m, d) /\ d.bus = b
  BY <1>4, <1>5 DEF OtgMemory, Keeps
<1> HIDE DEF d
<1>7. [warning |-> "Hidden", error |-> "Shown"] \in Notes
  BY DEF Notes, NoteStates
<1>8. s \in OtgMemory /\ s.host = h /\ Keeps(m, s) /\ s.bus = b /\ s.notes.error = "Shown"
  BY <1>6, <1>7 DEF OtgMemory, Keeps
<1> HIDE DEF s
<1>9. Drops(m, s)
  BY <1>3, <1>5, <1>8 DEF Drops
<1>10. Stays(s, SetIndicator(s))
  BY <1>8, Immaterial DEF Timers
<1> QED BY <1>2, <1>9, <1>10, StaysOnTheWay

\* The answers of a session in which nothing fails.
Granted(in) == in.driverLoading = KErrNone /\ in.busFailures = 0 /\ in.queries >= 3

\* VBus is asked for, as far as the plug is in.
LEMMA BusRequestKeeps ==
  ASSUME NEW m \in OtgMemory
  PROVE  LET n == BusRequest(m) IN
         /\ n \in OtgMemory /\ Keeps(m, n) /\ n.host = m.host /\ n.notes = m.notes
         /\ n.bus.wanted = m.idPin
<1> DEFINE b == [m.bus EXCEPT !.wanted = m.idPin]
<1>1. b \in Bus /\ b.up = m.bus.up /\ b.wanted = m.idPin
  BY DEF OtgMemory, Bus
<1>2. BusRequest(m) = [m EXCEPT !.bus = b]
  BY DEF BusRequest
<1> HIDE DEF b
<1> QED BY <1>1, <1>2 DEF OtgMemory, Keeps

\* An attempt begins without a device, and asks for VBus where there is none.
LEMMA InitiatesSession ==
  ASSUME NEW m \in OtgMemory, m.in.driverLoading = KErrNone, m.in.busFailures = 0
  PROVE  Initiates(m, AInitiate(m))
<1> DEFINE e == Enter(m, "AInitiate")
           h == [e.host EXCEPT !.iDeviceAttached = FALSE]
           n == [e EXCEPT !.host = h]
           r == IF n.bus.up THEN n ELSE BusRequest(n)
           a == After(r, "Attachment")
<1>1. Turns(m, e, "AInitiate") /\ e \in OtgMemory
  BY EnterTurns DEF HostStates, Turns, Goes
<1> HIDE DEF e
<1>2. h \in Host /\ h.iHostState = "AInitiate" /\ ~h.iDeviceAttached /\ (Prompt(e.host) => Prompt(h))
  BY <1>1 DEF OtgMemory, Host, Turns, Goes, Prompt
<1> HIDE DEF h
<1>3. n \in OtgMemory /\ n.host = h /\ n.in = m.in /\ Turns(m, n, "AInitiate")
  BY <1>1, <1>2 DEF OtgMemory, Turns, Goes, Keeps
<1> HIDE DEF n
<1>4. AInitiate(m) = SetIndicator(a)
  <2>1. AInitiate(m) = SetIndicator(RaiseVBus(n))
    BY <1>3 DEF AInitiate, n, e, h
  <2>2. RaiseVBus(n) = a
    BY <1>3 DEF RaiseVBus
  <2> QED BY <2>1, <2>2
<1>5. Initiates(m, r)
  <2>1. CASE n.bus.up
    BY <1>2, <1>3, <2>1 DEF Initiates, Turns, Goes
  <2>2. CASE ~n.bus.up
    BY <1>2, <1>3, <2>2, BusRequestKeeps DEF Initiates, Turns, Goes, Keeps
  <2> QED BY <2>1, <2>2
<1>6. r \in OtgMemory
  BY <1>5 DEF Initiates, Goes
<1> HIDE DEF r
<1>7. Stays(r, a) /\ a \in OtgMemory
  BY <1>6, Immaterial DEF Timers, Stays
<1> HIDE DEF a
<1>8. Stays(a, SetIndicator(a))
  BY <1>7, Immaterial DEF Timers
<1> QED BY <1>4, <1>5, <1>7, <1>8, StaysOnTheWay

-----------------------------------------------------------------------------
\* CUsbServiceControl in a session in which nothing fails.

\* Only the service control, USB Manager and the answers are changed.
Rests(m, n) ==
  /\ n \in OtgMemory /\ n.host = m.host /\ n.notes = m.notes /\ n.bus = m.bus
  /\ n.panic = m.panic /\ n.idPin = m.idPin
  /\ n.in.driverLoading = m.in.driverLoading /\ n.in.busFailures = m.in.busFailures

\* A request is outstanding: what it is, what is wanted then, and what USB Manager does.
Requests(m, n, what, st, id) ==
  /\ Rests(m, n) /\ n.ctl.active /\ n.ctl.iStatus = Pending /\ n.ctl.waits = what
  /\ n.ctl.iPersonalityId = id /\ n.service.state = st

\* What each operator changes.
LEMMA ControlChanges ==
  ASSUME NEW m \in OtgMemory, NEW what \in {"TryStart", "TryStop", "StateNotification"},
         NEW id \in Personalities, NEW wish \in Personalities \cup {None}
  PROVE  /\ Requests(m, TryStart(m, id), "TryStart", "Starting", m.ctl.iPersonalityId)
         /\ TryStart(m, id).service.id = id
         /\ Requests(m, TryStop(m), "TryStop", "Stopping", m.ctl.iPersonalityId)
         /\ LET n == ControlCancel(m) IN
            /\ Rests(m, n) /\ ~n.ctl.active /\ n.ctl.iStatus = m.ctl.iStatus
            /\ n.ctl.iPersonalityId = m.ctl.iPersonalityId /\ n.ctl.waits = m.ctl.waits
            /\ n.service = m.service /\ n.in = m.in
         /\ LET n == Want(m, wish) IN
            /\ Rests(m, n) /\ n.ctl.active = m.ctl.active /\ n.ctl.iStatus = m.ctl.iStatus
            /\ n.ctl.iPersonalityId = wish /\ n.ctl.waits = m.ctl.waits
            /\ n.service = m.service /\ n.in = m.in
         /\ LET n == Later(m) IN
            /\ Rests(m, n) /\ n.ctl = m.ctl /\ n.service = m.service
            /\ m.in.queries > 0 => n.in.queries = m.in.queries - 1
<1>1. /\ m.ctl \in Control /\ m.service \in Service /\ m.in \in Answers
  BY DEF OtgMemory
<1>2. /\ TryStart(m, id) \in OtgMemory /\ TryStop(m) \in OtgMemory
      /\ ControlCancel(m) \in OtgMemory /\ Want(m, wish) \in OtgMemory /\ Later(m) \in OtgMemory
  BY ControlOperators DEF Aside
<1>3. ASSUME NEW n, NEW s, NEW w, NEW k, n = Wait([m EXCEPT !.service = s], w), n \in OtgMemory
      PROVE  Requests(m, n, w, s.state, m.ctl.iPersonalityId) /\ n.service = s
  <2> DEFINE c == [m.ctl EXCEPT !.active = TRUE, !.iStatus = Pending, !.waits = w]
             a == [m EXCEPT !.service = s]
  <2>1. c.active /\ c.iStatus = Pending /\ c.waits = w /\ c.iPersonalityId = m.ctl.iPersonalityId
    BY <1>1 DEF Control
  <2>2. a.ctl = m.ctl /\ a = [m EXCEPT !.service = s]
    BY DEF OtgMemory
  <2>3. n = [m EXCEPT !.service = s, !.ctl = c]
    BY <1>3, <2>2 DEF Wait, OtgMemory
  <2> HIDE DEF c
  <2> QED BY <1>3, <2>1, <2>3 DEF Requests, Rests, OtgMemory
<1>4. /\ Requests(m, TryStart(m, id), "TryStart", "Starting", m.ctl.iPersonalityId)
      /\ TryStart(m, id).service.id = id
  BY <1>2, <1>3 DEF TryStart
<1>5. Requests(m, TryStop(m), "TryStop", "Stopping", m.ctl.iPersonalityId)
  <2> DEFINE s == [m.service EXCEPT !.state = "Stopping"]
  <2>1. s.state = "Stopping"
    BY <1>1 DEF Service
  <2>2. TryStop(m) = Wait([m EXCEPT !.service = s], "TryStop")
    BY DEF TryStop
  <2> HIDE DEF s
  <2> QED BY <1>2, <1>3, <2>1, <2>2
<1>6. ASSUME NEW n, NEW c, n = [m EXCEPT !.ctl = c], n \in OtgMemory
      PROVE  Rests(m, n) /\ n.ctl = c /\ n.service = m.service /\ n.in = m.in
  BY <1>6 DEF Rests, OtgMemory
<1>7. LET n == ControlCancel(m) IN
      /\ Rests(m, n) /\ ~n.ctl.active /\ n.ctl.iStatus = m.ctl.iStatus
      /\ n.ctl.iPersonalityId = m.ctl.iPersonalityId /\ n.ctl.waits = m.ctl.waits
      /\ n.service = m.service /\ n.in = m.in
  <2> DEFINE c == [m.ctl EXCEPT !.active = FALSE]
  <2>1. ~c.active /\ c.iStatus = m.ctl.iStatus /\ c.waits = m.ctl.waits
        /\ c.iPersonalityId = m.ctl.iPersonalityId
    BY <1>1 DEF Control
  <2>2. ControlCancel(m) = [m EXCEPT !.ctl = c]
    BY DEF ControlCancel
  <2> HIDE DEF c
  <2> QED BY <1>2, <1>6, <2>1, <2>2
<1>8. LET n == Want(m, wish) IN
      /\ Rests(m, n) /\ n.ctl.active = m.ctl.active /\ n.ctl.iStatus = m.ctl.iStatus
      /\ n.ctl.iPersonalityId = wish /\ n.ctl.waits = m.ctl.waits
      /\ n.service = m.service /\ n.in = m.in
  <2> DEFINE c == [m.ctl EXCEPT !.iPersonalityId = wish]
  <2>1. c.active = m.ctl.active /\ c.iStatus = m.ctl.iStatus /\ c.waits = m.ctl.waits
        /\ c.iPersonalityId = wish
    BY <1>1 DEF Control
  <2>2. Want(m, wish) = [m EXCEPT !.ctl = c]
    BY DEF Want
  <2> HIDE DEF c
  <2> QED BY <1>2, <1>6, <2>1, <2>2
<1>9. LET n == Later(m) IN
      /\ Rests(m, n) /\ n.ctl = m.ctl /\ n.service = m.service
      /\ m.in.queries > 0 => n.in.queries = m.in.queries - 1
  <2> DEFINE q == IF QueryFails(m) THEN 0 ELSE m.in.queries - 1
             a == [m.in EXCEPT !.queries = q]
  <2>1. /\ a.driverLoading = m.in.driverLoading /\ a.busFailures = m.in.busFailures
        /\ m.in.queries > 0 => a.queries = m.in.queries - 1
    BY <1>1 DEF Answers, QueryFails
  <2>2. Later(m) = [m EXCEPT !.in = a]
    BY DEF Later
  <2> HIDE DEF a
  <2> QED BY <1>2, <2>1, <2>2 DEF Rests, OtgMemory
<1> QED BY <1>4, <1>5, <1>7, <1>8, <1>9

\* One rest after another.
LEMMA RestsAgain ==
  ASSUME NEW m, NEW n, NEW k, Rests(m, k)
  PROVE  /\ Rests(k, n) => Rests(m, n)
         /\ \A what, st, id : Requests(k, n, what, st, id) => Requests(m, n, what, st, id)
BY DEF Rests, Requests

\* What RunL finds in such a session.
Completed(m) ==
  /\ m \in OtgMemory /\ Granted(m.in) /\ m.ctl.iPersonalityId \in {None, iPersonalityId}
  /\ m.ctl.iStatus \in {KErrNone, KErrGeneral} /\ m.service.state \in {"Idle", "Started"}
  /\ m.service.state = "Started" => m.ctl.iStatus = KErrNone /\ m.service.id = iPersonalityId

\* RunL: the start has failed, or the service is idle and not wanted.
Rested(m, n) ==
  /\ Rests(m, n) /\ ~n.ctl.active /\ n.ctl.iStatus = m.ctl.iStatus
  /\ n.ctl.iPersonalityId = m.ctl.iPersonalityId /\ n.service = m.service
  /\ m.service.state = "Idle"

\* RunL: the service has started, and is wanted: the host may be.
Opened(m, n) ==
  /\ m.ctl.iPersonalityId = iPersonalityId /\ m.service.state = "Started"
  /\ \E k : /\ Rests(m, k) /\ ~k.ctl.active /\ k.ctl.iPersonalityId = None
            /\ k.ctl.iStatus = m.ctl.iStatus /\ k.service = m.service /\ Initiates(k, n)

\* RunL in such a session.
LEMMA RunLCompletes ==
  ASSUME NEW mem, Completed(mem)
  PROVE  LET n == ServiceControlRunL(mem) IN
         \/ Rested(mem, n) \/ Opened(mem, n)
         \/ /\ mem.ctl.iPersonalityId = iPersonalityId /\ n.service.id = iPersonalityId
            /\ Requests(mem, n, "TryStart", "Starting", iPersonalityId)
         \/ /\ mem.ctl.iPersonalityId = None
            /\ Requests(mem, n, "TryStop", "Stopping", None)
<1> DEFINE m == ControlCancel(mem)
           l == Later(m)
           n == ServiceControlRunL(mem)
<1>1. iPersonalityId \in Personalities /\ iPersonalityId # None
  BY PersonalityAssumption DEF Personalities
<1>2. /\ m \in OtgMemory /\ Rests(mem, m) /\ ~m.ctl.active /\ m.ctl.iStatus = mem.ctl.iStatus
      /\ m.ctl.iPersonalityId = mem.ctl.iPersonalityId
      /\ m.service = mem.service /\ m.in = mem.in
  BY <1>1, ControlChanges DEF Completed, Rests
<1>3. m = [mem EXCEPT !.ctl.active = FALSE]
  BY DEF ControlCancel
<1> HIDE DEF m
<1>4. Granted(m.in) /\ m.in.queries \in Nat
  BY <1>2 DEF Completed, OtgMemory, Answers
<1>5. /\ l \in OtgMemory /\ Rests(m, l) /\ l.ctl = m.ctl /\ l.service = m.service
      /\ l.in.queries >= 2 /\ l.in.queries \in Nat
  BY <1>1, <1>2, <1>4, ControlChanges DEF Rests, Granted
<1> HIDE DEF l
<1>6. Rests(mem, l)
  BY <1>2, <1>5, RestsAgain
<1>7. KErrNone # KErrGeneral /\ KErrGeneral # KErrNoMemory /\ KErrNone # KErrNoMemory
  BY DEF KErrNone, KErrGeneral, KErrNoMemory
<1>8. CASE mem.ctl.iStatus = KErrGeneral
  <2>1. n = m
    BY <1>2, <1>3, <1>7, <1>8 DEF ServiceControlRunL, ReqCompleted
  <2> QED BY <1>2, <1>7, <1>8, <2>1 DEF Rested, Completed
<1>9. CASE mem.ctl.iStatus = KErrNone /\ mem.service.state = "Idle"
  <2>1. n = ServiceIsIdle(l)
    BY <1>2, <1>3, <1>4, <1>9 DEF ServiceControlRunL, QueryFails, l, Granted
  <2>2. CASE mem.ctl.iPersonalityId = None
    <3>1. n = l
      BY <1>2, <1>5, <1>7, <1>9, <2>1, <2>2 DEF ServiceIsIdle, ReqCompleted, QueryFails
    <3> QED BY <1>2, <1>5, <1>6, <1>9, <3>1 DEF Rested
  <2>3. CASE mem.ctl.iPersonalityId = iPersonalityId
    <3> DEFINE v == Want(l, None)
               w == Want(v, iPersonalityId)
               c == ControlCancel(w)
    <3>1. v \in OtgMemory /\ Rests(l, v) /\ v.service = l.service /\ v.in = l.in
      BY <1>1, <1>5, ControlChanges DEF Rests
    <3> HIDE DEF v
    <3>2. /\ w \in OtgMemory /\ Rests(v, w) /\ w.service = v.service /\ w.in = v.in
          /\ w.ctl.iPersonalityId = iPersonalityId
      BY <1>1, <3>1, ControlChanges DEF Rests
    <3> HIDE DEF w
    <3>3. /\ c \in OtgMemory /\ Rests(w, c) /\ c.service = w.service
          /\ c.ctl.iPersonalityId = iPersonalityId
      BY <1>1, <3>2, ControlChanges DEF Rests
    <3> HIDE DEF c
    <3>4. ~StartFails(v)
      BY <1>2, <1>5, <1>9, <3>1 DEF StartFails, StopFails, QueryFails
    <3>5. n = TryStart(c, iPersonalityId)
      <4>1. n = StartL(v, iPersonalityId)
        BY <1>1, <1>2, <1>5, <2>1, <2>3, <3>4 DEF ServiceIsIdle, StartWanted, v
      <4> QED BY <1>2, <1>5, <1>9, <3>1, <3>4, <4>1 DEF StartL, c, w
    <3>6. /\ Requests(c, n, "TryStart", "Starting", iPersonalityId) /\ n.service.id = iPersonalityId
      BY <1>1, <3>3, <3>5, ControlChanges
    <3>7. Requests(mem, n, "TryStart", "Starting", iPersonalityId)
      BY <1>6, <3>1, <3>2, <3>3, <3>6, RestsAgain
    <3> QED BY <2>3, <3>6, <3>7
  <2> QED BY <2>2, <2>3 DEF Completed
<1>10. CASE mem.ctl.iStatus = KErrNone /\ mem.service.state = "Started"
  <2>1. n = ServiceIsStarted(l)
    BY <1>2, <1>3, <1>4, <1>10 DEF ServiceControlRunL, QueryFails, l, Granted
  <2>2. mem.service.id = iPersonalityId
    BY <1>10 DEF Completed
  <2>3. CASE mem.ctl.iPersonalityId = None
    <3> DEFINE t == Later(l)
               c == ControlCancel(t)
    <3>1. /\ t \in OtgMemory /\ Rests(l, t) /\ t.ctl = l.ctl /\ t.service = l.service
          /\ t.in.queries >= 1
      BY <1>1, <1>5, ControlChanges DEF Rests
    <3> HIDE DEF t
    <3>2. c \in OtgMemory /\ Rests(t, c) /\ c.ctl.iPersonalityId = None
      BY <1>1, <1>2, <1>5, <2>3, <3>1, ControlChanges DEF Rests
    <3> HIDE DEF c
    <3>3. n = StopL(t)
      BY <1>1, <1>2, <1>5, <2>1, <2>2, <2>3 DEF ServiceIsStarted, QueryFails, t
    <3>4. n = TryStop(c)
      BY <1>2, <1>5, <1>10, <3>1, <3>3 DEF StopL, StopFails, QueryFails, c
    <3>5. Requests(c, n, "TryStop", "Stopping", None)
      BY <1>1, <3>2, <3>4, ControlChanges
    <3> QED BY <1>6, <2>3, <3>1, <3>2, <3>5, RestsAgain
  <2>4. CASE mem.ctl.iPersonalityId = iPersonalityId
    <3> DEFINE v == Want(l, None)
               k == Later(v)
    <3>1. /\ v \in OtgMemory /\ Rests(l, v) /\ v.service = l.service /\ v.in = l.in
          /\ ~v.ctl.active /\ v.ctl.iPersonalityId = None /\ v.ctl.iStatus = mem.ctl.iStatus
      BY <1>1, <1>2, <1>5, ControlChanges DEF Rests
    <3> HIDE DEF v
    <3>2. /\ k \in OtgMemory /\ Rests(v, k) /\ k.ctl = v.ctl /\ k.service = v.service
          /\ k.in.queries >= 1
      BY <1>1, <1>5, <3>1, ControlChanges DEF Rests
    <3> HIDE DEF k
    <3>3. n = AInitiate(k)
      <4>1. n = ReqCompleted(k, KErrNone)
        BY <1>1, <1>2, <1>5, <2>1, <2>2, <2>4 DEF ServiceIsStarted, QueryFails, k, v
      <4> QED BY <1>2, <1>5, <1>7, <1>10, <3>1, <3>2, <4>1 DEF ReqCompleted, QueryFails
    <3>4. Rests(mem, k)
      BY <1>6, <3>1, <3>2, RestsAgain
    <3>5. Initiates(k, n)
      BY <3>2, <3>3, <3>4, InitiatesSession DEF Rests, Completed, Granted
    <3> QED BY <1>2, <1>5, <1>10, <2>4, <3>1, <3>2, <3>4, <3>5 DEF Opened
  <2> QED BY <2>3, <2>4 DEF Completed
<1> QED BY <1>8, <1>9, <1>10 DEF Completed

\* No change that the service control waits for has ended.
Unanswered(m) ==
  /\ m \in OtgMemory /\ Granted(m.in) /\ m.service.state \in {"Idle", "Started", "Starting", "Stopping"}
  /\ m.service.state \in {"Starting", "Stopping"} <=> m.ctl.active

\* The plug is in: the service is started, or what it does is waited for.
LEMMA SessionStarts ==
  ASSUME NEW m, Unanswered(m), m.service.state # "Started"
  PROVE  LET n == StartSession(m) IN
         IF m.service.state = "Idle"
           THEN /\ Requests(m, n, "TryStart", "Starting", iPersonalityId)
                /\ n.service.id = iPersonalityId
           ELSE /\ Rests(m, n) /\ n.ctl.active /\ n.ctl.iStatus = m.ctl.iStatus
                /\ n.ctl.waits = m.ctl.waits /\ n.ctl.iPersonalityId = iPersonalityId
                /\ n.service = m.service
<1> DEFINE a == [m EXCEPT !.asked = "Start"]
           w == Want(a, iPersonalityId)
           c == ControlCancel(w)
           n == StartSession(m)
<1>1. iPersonalityId \in Personalities
  BY DEF Personalities
<1>2. m \in OtgMemory /\ m.in.queries >= 3
  BY DEF Unanswered, Granted
<1>3. a \in OtgMemory /\ Rests(m, a) /\ a.ctl = m.ctl /\ a.service = m.service /\ a.in = m.in
  BY <1>2 DEF OtgMemory, Rests
<1>4. n = IF StartFails(a) THEN HandleDropping(a, "CanNotStartUsbServices") ELSE StartL(a, iPersonalityId)
  BY DEF StartSession
<1> HIDE DEF a
<1>5. ~StartFails(a)
  BY <1>2, <1>3 DEF StartFails, StopFails, QueryFails, Unanswered
<1>6. /\ w \in OtgMemory /\ Rests(a, w) /\ w.service = a.service
      /\ w.ctl.active = a.ctl.active /\ w.ctl.iStatus = a.ctl.iStatus
      /\ w.ctl.waits = a.ctl.waits /\ w.ctl.iPersonalityId = iPersonalityId
  BY <1>1, <1>3, ControlChanges DEF Rests
<1> HIDE DEF w
<1>7. CASE m.service.state = "Idle"
  <2>1. c \in OtgMemory /\ Rests(w, c) /\ c.ctl.iPersonalityId = iPersonalityId
    BY <1>1, <1>6, ControlChanges DEF Rests
  <2> HIDE DEF c
  <2>2. n = TryStart(c, iPersonalityId)
    BY <1>3, <1>4, <1>5, <1>7 DEF StartL, c, w
  <2>3. Requests(c, n, "TryStart", "Starting", iPersonalityId) /\ n.service.id = iPersonalityId
    BY <1>1, <2>1, <2>2, ControlChanges
  <2>4. Requests(m, n, "TryStart", "Starting", iPersonalityId)
    BY <1>3, <1>6, <2>1, <2>3, RestsAgain
  <2> QED BY <1>7, <2>3, <2>4
<1>8. CASE m.service.state \in {"Starting", "Stopping"}
  <2>1. n = w
    BY <1>3, <1>4, <1>5, <1>6, <1>8 DEF StartL, WaitForChange, Unanswered, w
  <2>2. Rests(m, w) /\ w.ctl.active
    BY <1>3, <1>6, <1>8, RestsAgain DEF Unanswered
  <2> QED BY <1>3, <1>6, <1>8, <2>1, <2>2
<1> QED BY <1>7, <1>8 DEF Unanswered

\* The plug is out: the host state machine is reset and the service stopped.
LEMMA SessionEnds ==
  ASSUME NEW m, Unanswered(m), m.ctl.iPersonalityId \in {None, iPersonalityId}
  PROVE  LET n == IdPinOff(m) IN
         /\ n \in OtgMemory /\ n.host.iHostState = "Undefined" /\ n.notes.error = "Hidden"
         /\ n.bus = m.bus /\ n.panic = m.panic /\ n.idPin = m.idPin
         /\ Prompt(m.host) => Prompt(n.host)
         /\ CASE m.service.state = "Idle" -> n.ctl = m.ctl /\ n.service = m.service
              [] m.service.state = "Started" ->
                   /\ n.service.state = "Stopping" /\ n.ctl.active /\ n.ctl.iStatus = Pending
                   /\ n.ctl.waits = "TryStop" /\ n.ctl.iPersonalityId = m.ctl.iPersonalityId
              [] m.service.state \in {"Starting", "Stopping"} ->
                   /\ n.service = m.service /\ n.ctl.active /\ n.ctl.iStatus = m.ctl.iStatus
                   /\ n.ctl.waits = m.ctl.waits /\ n.ctl.iPersonalityId = None
<1> DEFINE a == [m EXCEPT !.asked = "Stop"]
           u == ToUndefined(a)
           k == CloseAllNotifiers(u)
           n == IdPinOff(m)
<1>1. m \in OtgMemory /\ m.in.queries >= 3 /\ iPersonalityId \in Personalities
  BY DEF Unanswered, Granted, Personalities
<1>2. /\ a \in OtgMemory /\ a.ctl = m.ctl /\ a.service = m.service /\ a.in = m.in /\ a.host = m.host
      /\ a.bus = m.bus /\ a.panic = m.panic /\ a.idPin = m.idPin
  BY <1>1 DEF OtgMemory
<1>3. n = IF StopFails(k) THEN Panic(k, "CanNotStopUsbServices") ELSE StopL(k)
  BY DEF IdPinOff
<1> HIDE DEF a
<1>4. Turns(a, u, "Undefined") /\ u \in OtgMemory
  BY <1>2, TurnsTo DEF Turns, Goes
<1> HIDE DEF u
<1>5. /\ k \in OtgMemory /\ k.host = u.host /\ k.notes.error = "Hidden" /\ k.bus = u.bus
      /\ k.ctl = u.ctl /\ k.service = u.service /\ k.in = u.in /\ k.panic = u.panic /\ k.idPin = u.idPin
  <2> DEFINE h == [warning |-> "Hidden", error |-> "Hidden"]
  <2>1. k = [u EXCEPT !.notes = h, !.connecting = FALSE]
    BY <1>4 DEF CloseAllNotifiers, ToggleConnecting, OtgMemory
  <2>2. h.error = "Hidden" /\ h \in Notes
    BY DEF Notes, NoteStates
  <2> HIDE DEF h
  <2> QED BY <1>4, <2>1, <2>2 DEF OtgMemory
<1> HIDE DEF k
<1>6. /\ k.ctl = m.ctl /\ k.service = m.service /\ k.in = m.in /\ k.host.iHostState = "Undefined"
      /\ k.bus = m.bus /\ k.panic = m.panic /\ k.idPin = m.idPin
      /\ Prompt(m.host) => Prompt(k.host)
  BY <1>2, <1>4, <1>5 DEF Turns, Goes, Keeps
<1>7. ~StopFails(k) /\ n = StopL(k)
  BY <1>1, <1>3, <1>6 DEF StopFails, QueryFails, Unanswered
<1>8. CASE m.service.state = "Idle"
  <2>1. n = k
    BY <1>6, <1>7, <1>8 DEF StopL
  <2> QED BY <1>5, <1>6, <1>8, <2>1
<1>9. CASE m.service.state = "Started"
  <2> DEFINE c == ControlCancel(k)
  <2>1. c \in OtgMemory /\ Rests(k, c) /\ c.ctl.iPersonalityId = m.ctl.iPersonalityId
    BY <1>1, <1>5, <1>6, ControlChanges DEF Rests
  <2> HIDE DEF c
  <2>2. n = TryStop(c)
    BY <1>6, <1>7, <1>9 DEF StopL, c
  <2>3. Requests(c, n, "TryStop", "Stopping", m.ctl.iPersonalityId)
    BY <1>1, <2>1, <2>2, ControlChanges
  <2>4. Requests(k, n, "TryStop", "Stopping", m.ctl.iPersonalityId)
    BY <2>1, <2>3, RestsAgain
  <2> QED BY <1>5, <1>6, <1>9, <2>4 DEF Requests, Rests
<1>10. CASE m.service.state \in {"Starting", "Stopping"}
  <2> DEFINE w == Want(k, None)
  <2>1. /\ Rests(k, w) /\ w.service = k.service /\ w.ctl.active = k.ctl.active
        /\ w.ctl.iStatus = k.ctl.iStatus /\ w.ctl.waits = k.ctl.waits /\ w.ctl.iPersonalityId = None
    BY <1>1, <1>5, ControlChanges
  <2> HIDE DEF w
  <2>2. n = w
    BY <1>6, <1>7, <1>10, <2>1 DEF StopL, WaitForChange, Unanswered, w
  <2> QED BY <1>5, <1>6, <1>10, <2>1, <2>2 DEF Rests, Unanswered
<1> QED BY <1>8, <1>9, <1>10 DEF Unanswered

-----------------------------------------------------------------------------
\* The invariant of a session in which nothing fails.

\* Every answer is good, the OTG stack reports what it sees in time and in order, and no
\* device is bad from the start.  A start may fail, but not for the want of memory, nor
\* for good.
GoodSession ==
  /\ \A in \in Outside : Granted(in)
  /\ Races = {} /\ "BadDeviceAttached" \notin MessageKinds
  /\ StopResults \subseteq {KErrNone}
  /\ KErrNoMemory \notin StartResults /\ "FatalError" \notin FailedStates

State == host.iHostState

\* The observers hear everything.
Observed == /\ obs \in [Observers -> {"Waiting", "Ready"}]
            /\ obs["HostEvent"] = "Waiting" /\ obs["Message"] = "Waiting"

\* The service control waits for what USB Manager does, and a host needs the service.
Served ==
  /\ service.state \in {"Starting", "Stopping"} <=> ctl.active /\ ctl.iStatus = Pending
  /\ service.state = "Starting" => ctl.waits = "TryStart"
  /\ service.state = "Stopping" => ctl.waits = "TryStop"
  /\ service.state # "FatalError" /\ ctl.iStatus # KErrNoMemory
  /\ service.state \in {"Starting", "Started"} => service.id = iPersonalityId
  /\ ctl.iPersonalityId # OtherPersonality
  /\ service.state = "Started" /\ ~ctl.active => ctl.iPersonalityId = None
  /\ service.state = "Started" /\ ctl.active => ctl.iStatus = KErrNone
  /\ State # "Undefined" => service.state = "Started" /\ ~ctl.active

\* What the watcher knows of the plug: that it is out, or not yet that it is in.
Away == idPin <=> obs["IdPin"] = "Ready"
PluggedIn == idPin \/ obs["IdPin"] = "Ready"

\* There is a device, or something to report about one.
Busy == dev # "None" \/ events # << >>

\* Nothing is done, wanted or reported without a plug, nor before its session began.
Unplugged ==
  /\ Away => /\ State = "Undefined"
             /\ ctl.active => ctl.iPersonalityId = None
             /\ service.state = "Started" => ctl.active
  /\ ~idPin => message = None /\ ~bus.wanted
  /\ ~idPin /\ obs["OtgState"] = "Ready" => otg # "APeripheral"
  /\ idPin /\ otg = "BIdle" => obs["OtgState"] = "Waiting"
  /\ PluggedIn /\ State = "Undefined" => ~bus.up /\ ~bus.wanted /\ ~Busy /\ otg # "APeripheral"

\* The user answers for a problem that is being handled, when its device is gone.
Noted ==
  /\ notes.error # "Hidden" => State = "HandleDropping"
  /\ notes.error = "Closed" => dev = "None"
  /\ State = "HandleDropping" => host.iWhat \in Recoverable
  /\ Prompt(host)

\* Messages that panic or ask for VBus come when the state can take them.
Told ==
  /\ message \notin {"BadDeviceAttached", "BadDeviceDetached"}
  /\ message = "BadHubPosition" => ~Busy /\ State # "Undefined"
  /\ message \in {"SrpReceived", "RequestSession"} => otg # "APeripheral"

\* The order in which a device is reported.
Stream ==
  /\ dev # "Bad"
  /\ \A i \in 1..Len(events) :
       /\ events[i].kind = "Attachment" =>
            /\ i = 1
            /\ events[i].what.error # "None" => Len(events) = 1 /\ dev \in {"None", "Rejected"}
            /\ events[i].what.error = "None" /\ Len(events) = 1 => dev = "Loading"
       /\ events[i].kind = "DriverLoad" =>
            IF i = Len(events) THEN dev = "Loaded" ELSE events[i + 1].kind = "Detachment"
       /\ events[i].kind = "Detachment" => i = Len(events) /\ dev = "None"

\* The next word about the device, or what it is when all is said; and the states
\* that expect it, besides those that expect anything.
Expected == IF events = << >> THEN dev ELSE Head(events).kind
Seen == State = "AInitiate" /\ host.iDeviceAttached
AnyWord == {"Undefined", "HandleDropping"}
Fits ==
  /\ Expected = "None" => State \in AnyWord \cup {"AInitiate", "DelayNotAttached", "APeripheral"}
  /\ Expected \in {"Rejected", "Attachment"} => State \in AnyWord \cup {"AInitiate", "DelayNotAttached"}
  /\ Expected \in {"Loading", "DriverLoad"} => Seen \/ State \in AnyWord
  /\ Expected = "Loaded" => State \in AnyWord \cup {"AHost", "DelayAttached"}
  /\ Expected = "Detachment" => Seen \/ State \in AnyWord \cup {"AHost", "DelayAttached"}

\* VBus, asked for and risen, and the role that is handed over.
Powered ==
  /\ Busy => ~(obs["VBus"] = "Ready" /\ bus.up)
  /\ Busy /\ obs["VBus"] = "Waiting" /\ ~bus.up => State \in AnyWord
  /\ ~bus.up /\ State = "DelayNotAttached" => obs["VBus"] = "Ready" /\ ~bus.wanted
  /\ ~bus.up /\ State = "APeripheral" => ~bus.wanted
  /\ bus.up /\ obs["VBus"] = "Ready" => State \notin {"APeripheral", "DelayNotAttached"}
  /\ otg = "APeripheral" /\ obs["OtgState"] = "Ready" /\ ~bus.up => ~bus.wanted
  /\ Busy => otg # "APeripheral"
  /\ State = "APeripheral" /\ obs["OtgState"] = "Waiting" => otg = "APeripheral"

\* The inductive invariant, together with OtgInv.
SessionInv == /\ Running /\ Observed /\ Served /\ Unplugged /\ Noted
              /\ Told /\ Stream /\ Fits /\ Powered

\* A step of HostsOnlyAttached.
Hosting == State # "AHost" /\ State' = "AHost" => Seen

-----------------------------------------------------------------------------
\* Moves of the host state machine.

\* A handler forgets a notification at most, and takes an event or a message at most.
Listens ==
  /\ idPin' = idPin /\ otg' = otg /\ dev' = dev /\ panic' = NoFault
  /\ Observed' /\ obs'["IdPin"] = obs["IdPin"]
  /\ obs'["VBus"] \in {obs["VBus"], "Waiting"} /\ obs'["OtgState"] \in {obs["OtgState"], "Waiting"}
  /\ message' \in {message, None} /\ Stream' /\ (Busy' => Busy)

\* Dropping VBus is always right in a session.
LEMMA DroppedGood ==
  ASSUME SessionInv, Listens, State # "Undefined", UNCHANGED << ctl, service >>,
         bus'.up = bus.up, ~bus'.wanted, State' = "HandleDropping", host'.iWhat \in Recoverable,
         notes'.error = "Shown", Prompt(host')
  PROVE  SessionInv' /\ Hosting
<1>1. Running'
  BY DEF Listens, Running
<1>2. Observed' /\ Stream'
  BY DEF Listens
<1>3. Served'
  BY DEF SessionInv, Served, State
<1>4. Unplugged'
  BY DEF SessionInv, Unplugged, Away, PluggedIn, Listens
<1>5. Noted'
  BY DEF Noted
<1>6. Told'
  BY OtgAssumption DEF SessionInv, Told, Listens, AllMessages
<1>7. Fits'
  BY DEF Fits, AnyWord
<1>8. Powered'
  BY DEF SessionInv, Powered, Listens, AnyWord
<1> QED BY <1>1, <1>2, <1>3, <1>4, <1>5, <1>6, <1>7, <1>8 DEF SessionInv, Hosting

\* A new attempt is right when no word is left over from the last one.
LEMMA InitiatedGood ==
  ASSUME SessionInv, Listens, ~Away, Served', bus'.up = bus.up,
         bus'.wanted = IF bus.up THEN bus.wanted ELSE idPin, State' = "AInitiate",
         notes'.error = "Hidden", Prompt(host'),
         Expected' \in {"None", "Rejected", "Attachment"},
         Busy' /\ obs'["VBus"] = "Waiting" => bus.up,
         otg = "APeripheral" /\ obs'["OtgState"] = "Ready" => bus.up
  PROVE  SessionInv' /\ Hosting
<1>1. Running'
  BY DEF Listens, Running
<1>2. Observed' /\ Stream'
  BY DEF Listens
<1>4. Unplugged'
  BY DEF SessionInv, Unplugged, Away, PluggedIn, Listens
<1>5. Noted'
  BY DEF Noted
<1>6. Told'
  BY OtgAssumption DEF SessionInv, Told, Listens, AllMessages
<1>7. Fits'
  BY DEF Fits
<1>8. Powered'
  BY DEF SessionInv, Powered, Listens, Observed, Observers
<1> QED BY <1>1, <1>2, <1>4, <1>5, <1>6, <1>7, <1>8 DEF SessionInv, Hosting

-----------------------------------------------------------------------------
\* The handlers of a session in which nothing fails.

\* The memory a handler finds.
LEMMA MemInSession ==
  ASSUME OtgInv, SessionInv, GoodSession, NEW in \in Outside
  PROVE  LET m == Mem(in) IN
         /\ m \in OtgMemory /\ m.host = host /\ m.notes = notes /\ m.ctl = ctl
         /\ m.service = service /\ m.bus = bus /\ m.idPin = idPin /\ m.panic = NoFault
         /\ Granted(m.in) /\ Heeded(m)
<1>1. Mem(in) \in OtgMemory
  BY MemIsSound DEF OtgInv
<1> QED BY <1>1 DEF Mem, GoodSession, SessionInv, Noted, Heeded, State

\* The memory a handler leaves.
LEMMA CommitInSession ==
  ASSUME NEW n, Commit(n), n.panic = NoFault
  PROVE  /\ host' = n.host /\ notes' = n.notes /\ ctl' = n.ctl /\ service' = n.service
         /\ bus' = n.bus /\ panic' = NoFault
BY DEF Commit

\* Whose turn it is has nothing before it.
LEMMA TurnInSession ==
  ASSUME OtgInv, SessionInv, NEW o, Turn(o)
  PROVE  /\ o = "ServiceControl" => Ready(ctl)
         /\ o \in Timers => o \in host.elapsed
         /\ o = "IdPin" => obs["IdPin"] = "Ready"
         /\ o = "VBus" => obs["VBus"] = "Ready"
         /\ o = "OtgState" => obs["OtgState"] = "Ready"
         /\ o = "HostEvent" => events # << >>
         /\ o = "Message" => message # None
         /\ o \in {"IdPin", "VBus", "OtgState", "HostEvent", "Message", "Note"} => ~Ready(ctl)
         /\ o \in {"VBus", "OtgState", "HostEvent", "Message", "Note"} => obs["IdPin"] = "Waiting"
         /\ o \in {"OtgState", "HostEvent", "Message", "Note"} => obs["VBus"] = "Waiting"
         /\ o \in {"HostEvent", "Message", "Note"} => obs["OtgState"] = "Waiting"
         /\ o \in {"Message", "Note"} => events = << >>
         /\ o = "Note" => message = None
<1>1. /\ \A i \in 1..10 : i \in DOMAIN Order
      /\ Order[1] = "ServiceControl" /\ Order[5] = "IdPin" /\ Order[6] = "VBus"
      /\ Order[7] = "OtgState" /\ Order[8] = "HostEvent" /\ Order[9] = "Message"
      /\ Order[10] = "Note"
  BY DEF Order
<1>2. /\ obs["IdPin"] \in {"Waiting", "Ready"} /\ obs["VBus"] \in {"Waiting", "Ready"}
      /\ obs["OtgState"] \in {"Waiting", "Ready"}
      /\ obs["HostEvent"] = "Waiting" /\ obs["Message"] = "Waiting"
  BY DEF SessionInv, Observed, Observers
<1>3. host.elapsed \subseteq Timers
  BY DEF OtgInv, WatcherTypes, Host
<1>4. \A i, j \in DOMAIN Order : Order[i] = o /\ j < i => ~IsReady(Order[j])
  BY DEF Turn
<1>5. IsReady(o)
  BY DEF Turn
<1>6. /\ o = "ServiceControl" => Ready(ctl)
      /\ o \in Timers => o \in host.elapsed
      /\ o = "IdPin" => obs["IdPin"] = "Ready"
      /\ o = "VBus" => obs["VBus"] = "Ready"
      /\ o = "OtgState" => obs["OtgState"] = "Ready"
      /\ o = "HostEvent" => events # << >>
      /\ o = "Message" => message # None
  BY <1>2, <1>3, <1>5 DEF IsReady, Observers, Timers
<1>7. /\ ~IsReady("ServiceControl") => ~Ready(ctl)
      /\ ~IsReady("IdPin") => obs["IdPin"] = "Waiting"
      /\ ~IsReady("VBus") => obs["VBus"] = "Waiting"
      /\ ~IsReady("OtgState") => obs["OtgState"] = "Waiting"
      /\ ~IsReady("HostEvent") => events = << >>
      /\ ~IsReady("Message") => message = None
  BY <1>2 DEF IsReady, Observers
<1>8. /\ o \in {"IdPin", "VBus", "OtgState", "HostEvent", "Message", "Note"} => ~IsReady("ServiceControl")
      /\ o \in {"VBus", "OtgState", "HostEvent", "Message", "Note"} => ~IsReady("IdPin")
      /\ o \in {"OtgState", "HostEvent", "Message", "Note"} => ~IsReady("VBus")
      /\ o \in {"HostEvent", "Message", "Note"} => ~IsReady("OtgState")
      /\ o \in {"Message", "Note"} => ~IsReady("HostEvent")
      /\ o = "Note" => ~IsReady("Message")
  BY <1>1, <1>4
<1> QED BY <1>6, <1>7, <1>8

\* A timer drops VBus in the state it was started in.
LEMMA RunTimerGood ==
  ASSUME OtgInv, SessionInv, GoodSession, NEW t \in Timers, RunTimer(t)
  PROVE  SessionInv' /\ Hosting
<1>1. PICK in \in Outside : Commit(TimerElapsed(Mem(in), t))
  BY DEF RunTimer
<1> DEFINE m == Mem(in)
           k == CancelTimer(m, t)
           n == TimerElapsed(m, t)
<1>2. /\ m \in OtgMemory /\ m.host = host /\ m.notes = notes /\ m.ctl = ctl
      /\ m.service = service /\ m.bus = bus /\ m.idPin = idPin /\ m.panic = NoFault
  BY MemInSession
<1>3. Stays(m, k) /\ k \in OtgMemory
  BY <1>2, Immaterial DEF Stays
<1> HIDE DEF m
<1>4. Drops(m, n)
  <2>1. n = HandleDropping(k, IF t = "Attachment" THEN "DanglingCable" ELSE "UnsupportedDevice")
    BY DEF TimerElapsed
  <2>2. Drops(k, n)
    BY <1>3, <2>1, DropsVBus DEF Recoverable
  <2> QED BY <1>3, <2>2, StaysOnTheWay
<1>5. Commit(n)
  BY <1>1 DEF m
<1> HIDE DEF n, k
<1>6. /\ host' = n.host /\ notes' = n.notes /\ ctl' = n.ctl /\ service' = n.service
      /\ bus' = n.bus /\ panic' = NoFault
  BY <1>2, <1>4, <1>5, CommitInSession DEF Drops, Keeps
<1>7. t \in host.timers /\ State # "Undefined" /\ Prompt(host)
  <2>1. t \in host.elapsed
    BY TurnInSession DEF RunTimer
  <2>2. Prompt(host)
    BY DEF SessionInv, Noted
  <2> QED BY <2>1, <2>2 DEF Prompt, OtgInv, TimersFollowState, Timers, State
<1>8. UNCHANGED << obs, idPin, otg, dev, events, message >>
  BY DEF RunTimer, outsideVars
<1>9. Listens
  BY <1>6, <1>8 DEF Listens, SessionInv, Observed, Stream, Busy
<1> QED BY <1>2, <1>4, <1>6, <1>7, <1>9, DroppedGood DEF Drops, Keeps, State

\* The user has answered: another attempt.
LEMMA RunNoteGood ==
  ASSUME OtgInv, SessionInv, GoodSession, RunNote
  PROVE  SessionInv' /\ Hosting
<1>1. PICK in \in Outside :
        LET m == Mem(in) IN
        Commit(IF notes.error = "Closed"
                 THEN WaitNotifierCompleted([m EXCEPT !.notes.error = "Hidden"])
                 ELSE [m EXCEPT !.notes.warning = "Hidden"])
  BY DEF RunNote
<1> DEFINE m == Mem(in)
           e == [m EXCEPT !.notes.error = "Hidden"]
           w == [m EXCEPT !.notes.warning = "Hidden"]
<1>2. /\ m \in OtgMemory /\ m.host = host /\ m.notes = notes /\ m.ctl = ctl
      /\ m.service = service /\ m.bus = bus /\ m.idPin = idPin /\ m.panic = NoFault
      /\ Granted(m.in) /\ Heeded(m)
  BY MemInSession
<1>3. Commit(IF notes.error = "Closed" THEN WaitNotifierCompleted(e) ELSE w)
  BY <1>1 DEF m
<1> HIDE DEF m
<1>4. /\ obs["IdPin"] = "Waiting" /\ obs["VBus"] = "Waiting" /\ obs["OtgState"] = "Waiting"
      /\ events = << >> /\ message = None
  BY TurnInSession DEF RunNote
<1>5. UNCHANGED << obs, idPin, otg, dev, events, message >>
  BY DEF RunNote, outsideVars
<1>6. CASE notes.error = "Closed"
  <2> DEFINE n == AInitiate(e)
  <2>1. State = "HandleDropping" /\ host.iWhat \in Recoverable /\ dev = "None" /\ Prompt(host)
    BY <1>6 DEF SessionInv, Noted
  <2>2. /\ e \in OtgMemory /\ Keeps(m, e) /\ e.bus = m.bus /\ e.host = m.host /\ Heeded(e)
    <3>1. m.notes \in Notes
      BY <1>2 DEF OtgMemory
    <3>2. [m.notes EXCEPT !.error = "Hidden"] \in Notes /\ [m.notes EXCEPT !.error = "Hidden"].error = "Hidden"
      BY <3>1 DEF Notes, NoteStates
    <3> QED BY <1>2, <3>2 DEF OtgMemory, Keeps, Heeded
  <2>3. Commit(WaitNotifierCompleted(e))
    BY <1>3, <1>6
  <2> HIDE DEF e
  <2>4. Initiates(e, n)
    BY <1>2, <2>2, InitiatesSession DEF Keeps, Granted
  <2>5. Commit(n)
    <3>1. e.host.iWhat \in Recoverable /\ e.host.iWhat \notin Fatal
      BY <1>2, <2>1, <2>2 DEF Recoverable, Fatal
    <3> QED BY <2>3, <3>1 DEF WaitNotifierCompleted
  <2> HIDE DEF n
  <2>6. /\ host' = n.host /\ notes' = n.notes /\ ctl' = n.ctl /\ service' = n.service
        /\ bus' = n.bus /\ panic' = NoFault
    BY <1>2, <2>2, <2>4, <2>5, CommitInSession DEF Initiates, Goes, Keeps
  <2>7. /\ ctl' = ctl /\ service' = service /\ State' = "AInitiate" /\ notes'.error = "Hidden"
        /\ bus'.up = bus.up /\ bus'.wanted = (IF bus.up THEN bus.wanted ELSE idPin) /\ Prompt(host')
    BY <1>2, <2>1, <2>2, <2>4, <2>6 DEF Initiates, Goes, Keeps, State
  <2>8. Listens
    BY <1>5, <2>6 DEF Listens, SessionInv, Observed, Stream, Busy
  <2>9. ~Away /\ Served'
    BY <2>1, <2>7 DEF SessionInv, Unplugged, Served, State
  <2>10. Expected' = "None" /\ ~Busy'
    BY <1>4, <1>5, <2>1 DEF Expected, Busy
  <2> QED BY <1>4, <1>5, <2>7, <2>8, <2>9, <2>10, InitiatedGood
<1>7. CASE notes.error # "Closed"
  <2>1. Commit(w)
    BY <1>3, <1>7
  <2>2. /\ w.host = host /\ w.notes.error = notes.error /\ w.ctl = ctl /\ w.service = service
        /\ w.bus = bus /\ w.panic = NoFault
    <3>1. m.notes \in Notes
      BY <1>2 DEF OtgMemory
    <3>2. [m.notes EXCEPT !.warning = "Hidden"].error = m.notes.error
      BY <3>1 DEF Notes
    <3> QED BY <1>2, <3>2 DEF OtgMemory
  <2> HIDE DEF w
  <2>3. /\ host' = host /\ notes'.error = notes.error /\ ctl' = ctl /\ service' = service
        /\ bus' = bus /\ panic' = NoFault
    BY <2>1, <2>2, CommitInSession
  <2> QED BY <1>5, <2>3
       DEF SessionInv, Running, Observed, Served, Unplugged, Away, PluggedIn, Busy, Noted, Told,
           Stream, Fits, Expected, Seen, Powered, State, Hosting
<1> QED BY <1>6, <1>7

\* A change of the service and its control alone.
LEMMA ServiceGood ==
  ASSUME SessionInv, UNCHANGED << host, notes, bus, obs, idPin, otg, dev, events, message >>,
         panic' = NoFault, Served', Away => /\ ctl'.active => ctl'.iPersonalityId = None
                                            /\ service'.state = "Started" => ctl'.active
  PROVE  SessionInv' /\ Hosting
<1>1. Running' /\ Observed' /\ Served' /\ Noted' /\ Told' /\ Stream' /\ Fits' /\ Powered'
  BY DEF SessionInv, Running, Observed, Noted, Told, Stream, Fits, Expected, Seen, Powered, Busy, State
<1>2. Unplugged'
  BY DEF SessionInv, Unplugged, Away, PluggedIn, Busy, State
<1> QED BY <1>1, <1>2 DEF SessionInv, Hosting, State

\* The service control goes on, and lets the host begin when the plug is in.
LEMMA RunServiceControlGood ==
  ASSUME OtgInv, SessionInv, GoodSession, RunServiceControl
  PROVE  SessionInv' /\ Hosting
<1>1. PICK in \in Outside : Commit(ServiceControlRunL(Mem(in)))
  BY DEF RunServiceControl
<1> DEFINE m == Mem(in)
           n == ServiceControlRunL(m)
<1>2. /\ m \in OtgMemory /\ m.host = host /\ m.notes = notes /\ m.ctl = ctl
      /\ m.service = service /\ m.bus = bus /\ m.idPin = idPin /\ m.panic = NoFault
      /\ Granted(m.in) /\ Heeded(m)
  BY MemInSession
<1> HIDE DEF m
<1>3. ctl.active /\ ctl.iStatus # Pending
  BY TurnInSession DEF RunServiceControl, Ready
<1>4. ctl \in Control /\ service \in Service
  BY DEF OtgInv, WatcherTypes
<1>5. State = "Undefined" /\ Prompt(host)
  BY <1>3 DEF SessionInv, Served, Noted
<1>6. Completed(m)
  <2>1. ctl.iStatus \in {KErrNone, KErrGeneral} /\ service.state \in {"Idle", "Started"}
    BY <1>3, <1>4 DEF SessionInv, Served, Control, Results, Service, ServiceStates
  <2>2. ctl.iPersonalityId \in {None, iPersonalityId}
    BY <1>4 DEF SessionInv, Served, Control, Personalities
  <2> QED BY <1>2, <1>3, <2>1, <2>2 DEF Completed, SessionInv, Served
<1>7. UNCHANGED << obs, idPin, otg, dev, events, message >>
  BY DEF RunServiceControl, outsideVars
<1>8. Commit(n)
  BY <1>1 DEF m
<1> HIDE DEF n
<1>9. Away => ctl.iPersonalityId = None
  BY <1>3 DEF SessionInv, Unplugged
<1>10. iPersonalityId # None /\ None # OtherPersonality /\ iPersonalityId # OtherPersonality
  BY PersonalityAssumption DEF Personalities
<1>11. CASE Rested(m, n)
  <2>1. /\ host' = host /\ notes' = notes /\ bus' = bus /\ panic' = NoFault
        /\ ctl' = n.ctl /\ service' = service
    BY <1>2, <1>8, <1>11, CommitInSession DEF Rested, Rests
  <2>2. Served'
    BY <1>2, <1>3, <1>5, <1>11, <2>1 DEF SessionInv, Served, State, Rested
  <2> QED BY <1>2, <1>7, <1>11, <2>1, <2>2, ServiceGood DEF Rested
<1>12. CASE Opened(m, n)
  <2>1. PICK k : /\ Rests(m, k) /\ ~k.ctl.active /\ k.ctl.iPersonalityId = None
                 /\ k.ctl.iStatus = m.ctl.iStatus /\ k.service = m.service /\ Initiates(k, n)
    BY <1>12 DEF Opened
  <2>2. Heeded(k) /\ n.panic = NoFault
    BY <1>2, <2>1 DEF Rests, Heeded, Initiates, Goes, Keeps
  <2>3. /\ host' = n.host /\ notes' = n.notes /\ ctl' = k.ctl /\ service' = service
        /\ bus' = n.bus /\ panic' = NoFault
    BY <1>2, <1>8, <2>1, <2>2, CommitInSession DEF Initiates, Goes, Keeps
  <2>4. /\ State' = "AInitiate" /\ notes'.error = "Hidden" /\ Prompt(host')
        /\ bus'.up = bus.up /\ bus'.wanted = (IF bus.up THEN bus.wanted ELSE idPin)
    BY <1>2, <1>5, <2>1, <2>2, <2>3 DEF Initiates, Goes, Keeps, Rests, State
  <2>5. Listens
    BY <1>7, <2>3 DEF Listens, SessionInv, Observed, Stream, Busy
  <2>6. Served'
    BY <1>2, <1>3, <1>10, <1>12, <2>1, <2>3 DEF SessionInv, Served, State, Opened
  <2>7. ~Away
    BY <1>2, <1>9, <1>10, <1>12 DEF Opened
  <2>8. ~Busy /\ otg # "APeripheral"
    BY <1>5, <2>7 DEF SessionInv, Observed, Observers, Unplugged, Away, PluggedIn
  <2>9. Expected' = "None" /\ ~Busy'
    BY <1>7, <2>8 DEF Busy, Expected
  <2> QED BY <2>4, <2>5, <2>6, <2>7, <2>8, <2>9, InitiatedGood
<1>13. CASE /\ m.ctl.iPersonalityId = iPersonalityId /\ n.service.id = iPersonalityId
            /\ Requests(m, n, "TryStart", "Starting", iPersonalityId)
  <2>1. /\ host' = host /\ notes' = notes /\ bus' = bus /\ panic' = NoFault
        /\ ctl' = n.ctl /\ service' = n.service
    BY <1>2, <1>8, <1>13, CommitInSession DEF Requests, Rests
  <2>2. Served'
    BY <1>5, <1>10, <1>13, <2>1 DEF Served, State, Requests, Pending, KErrNoMemory
  <2>3. ~Away
    BY <1>2, <1>9, <1>10, <1>13
  <2> QED BY <1>7, <2>1, <2>2, <2>3, ServiceGood
<1>14. CASE m.ctl.iPersonalityId = None /\ Requests(m, n, "TryStop", "Stopping", None)
  <2>1. /\ host' = host /\ notes' = notes /\ bus' = bus /\ panic' = NoFault
        /\ ctl' = n.ctl /\ service' = n.service
    BY <1>2, <1>8, <1>14, CommitInSession DEF Requests, Rests
  <2>2. Served'
    BY <1>5, <1>10, <1>14, <2>1 DEF Served, State, Requests, Pending, KErrNoMemory
  <2> QED BY <1>7, <1>14, <2>1, <2>2, ServiceGood DEF Requests
<1> QED BY <1>6, <1>11, <1>12, <1>13, <1>14, RunLCompletes DEF n

\* A handler that has nothing to do.
LEMMA StayedGood ==
  ASSUME SessionInv, Listens, UNCHANGED << ctl, service, bus >>, State' = State,
         host'.iDeviceAttached = host.iDeviceAttached, host'.iWhat = host.iWhat, Prompt(host'),
         notes'.error = notes.error, Fits', Powered'
  PROVE  SessionInv' /\ Hosting
<1>1. Running' /\ Observed' /\ Stream'
  BY DEF Listens, Running
<1>2. Served'
  BY DEF SessionInv, Served, State
<1>3. Unplugged'
  BY DEF SessionInv, Unplugged, Away, PluggedIn, Listens
<1>4. Noted'
  BY DEF SessionInv, Noted, Listens, State
<1>5. Told'
  BY OtgAssumption DEF SessionInv, Told, Listens, AllMessages
<1> QED BY <1>1, <1>2, <1>3, <1>4, <1>5 DEF SessionInv, Hosting

\* What the variables are when a handler has stayed, initiated, dropped or turned.
LEMMA Outcomes ==
  ASSUME NEW m, NEW n, Commit(n), m.host = host, m.notes = notes, m.ctl = ctl,
         m.service = service, m.bus = bus, m.idPin = idPin, m.panic = NoFault,
         Heeded(m), Prompt(host)
  PROVE  /\ Stays(m, n) =>
              /\ panic' = NoFault /\ Prompt(host') /\ UNCHANGED << ctl, service, bus >>
              /\ State' = State /\ host'.iDeviceAttached = host.iDeviceAttached
              /\ host'.iWhat = host.iWhat /\ notes'.error = notes.error
         /\ Initiates(m, n) =>
              /\ panic' = NoFault /\ Prompt(host') /\ UNCHANGED << ctl, service >>
              /\ bus'.up = bus.up /\ bus'.wanted = (IF bus.up THEN bus.wanted ELSE idPin)
              /\ State' = "AInitiate" /\ notes'.error = "Hidden"
         /\ Drops(m, n) =>
              /\ panic' = NoFault /\ Prompt(host') /\ UNCHANGED << ctl, service >>
              /\ bus'.up = bus.up /\ ~bus'.wanted
              /\ State' = "HandleDropping" /\ host'.iWhat \in Recoverable /\ notes'.error = "Shown"
         /\ \A st : Turns(m, n, st) =>
              /\ panic' = NoFault /\ Prompt(host') /\ UNCHANGED << ctl, service, bus >>
              /\ State' = st /\ notes'.error = "Hidden"
<1>1. n.panic = NoFault => /\ host' = n.host /\ notes' = n.notes /\ ctl' = n.ctl
                           /\ service' = n.service /\ bus' = n.bus /\ panic' = NoFault
  BY CommitInSession
<1>2. CASE Stays(m, n)
  BY <1>1, <1>2 DEF Stays, Keeps, State, Initiates, Drops, Turns, Goes
<1>3. CASE Initiates(m, n)
  BY <1>1, <1>3 DEF Stays, Keeps, State, Initiates, Drops, Turns, Goes
<1>4. CASE Drops(m, n)
  BY <1>1, <1>4 DEF Stays, Keeps, State, Initiates, Drops, Turns, Goes
<1>5. ASSUME NEW st, Turns(m, n, st)
      PROVE  /\ panic' = NoFault /\ Prompt(host') /\ UNCHANGED << ctl, service, bus >>
             /\ State' = st /\ notes'.error = "Hidden"
  BY <1>1, <1>5 DEF Keeps, State, Turns, Goes
<1> QED BY <1>2, <1>3, <1>4, <1>5

\* The words of a device.
LEMMA ExpectedWords ==
  ASSUME OtgInv, SessionInv
  PROVE  /\ Expected \in {"None", "Rejected", "Loading", "Loaded", "Attachment", "DriverLoad", "Detachment"}
         /\ events # << >> => Expected = Head(events).kind /\ Head(events) \in Events
         /\ Expected \in {"None", "Attachment", "DriverLoad", "Detachment"} =>
              (Expected = "None" <=> ~Busy)
         /\ State \in {"AHost", "DelayAttached"} => Busy
         /\ State = "APeripheral" => ~Busy
<1>1. events # << >> => Head(events) \in Events
  BY DEF OtgInv, OutsideTypes
<1>2. events # << >> => Head(events).kind \in {"Attachment", "DriverLoad", "Detachment"}
  BY <1>1, EventTypes
<1>3. dev \in {"None", "Rejected", "Loading", "Loaded"}
  BY DEF OtgInv, OutsideTypes, Devices, SessionInv, Stream
<1>4. Expected \in {"None", "Rejected", "Loading", "Loaded", "Attachment", "DriverLoad", "Detachment"}
  BY <1>2, <1>3 DEF Expected
<1>5. \/ events # << >> /\ Expected = Head(events).kind
      \/ events = << >> /\ Expected = dev
  BY DEF Expected
<1>6. Expected = "None" => ~Busy
  BY <1>2, <1>5 DEF Busy
<1>7. Expected \in {"Attachment", "DriverLoad", "Detachment"} => Busy
  BY <1>3, <1>5 DEF Busy
<1>8. State \in {"AHost", "DelayAttached"} => Expected \notin {"None"}
  BY DEF SessionInv, Fits, AnyWord
<1>9. State = "APeripheral" => Expected = "None"
  BY <1>4 DEF SessionInv, Fits, AnyWord, Seen
<1>10. Expected # "None" => Busy
  BY <1>5 DEF Busy
<1> QED BY <1>1, <1>4, <1>5, <1>6, <1>7, <1>8, <1>9, <1>10

\* VBus has risen or fallen.
LEMMA RunVBusGood ==
  ASSUME OtgInv, SessionInv, GoodSession, RunVBus
  PROVE  SessionInv' /\ Hosting
<1>1. obs["VBus"] = "Ready" /\ obs["IdPin"] = "Waiting"
  BY TurnInSession DEF RunVBus
<1>2. PICK in \in Outside :
        LET m == Mem(in) IN
        Commit(CASE Failed("VBus")            -> HandleDropping(m, "VBusObserverError")
                 [] ~Failed("VBus") /\ bus.up -> VBusUp(SetIndicator(m))
                 [] OTHER                     -> VBusDown(SetIndicator(m)))
  BY DEF RunVBus
<1> DEFINE m == Mem(in)
           k == SetIndicator(m)
<1>3. /\ m \in OtgMemory /\ m.host = host /\ m.notes = notes /\ m.ctl = ctl
      /\ m.service = service /\ m.bus = bus /\ m.idPin = idPin /\ m.panic = NoFault
      /\ Granted(m.in) /\ Heeded(m)
  BY MemInSession
<1>4. Stays(m, k) /\ k \in OtgMemory
  BY <1>3, Immaterial DEF Stays, Timers
<1>5. Commit(IF bus.up THEN VBusUp(k) ELSE VBusDown(k))
  BY <1>1, <1>2 DEF Failed, m
<1> HIDE DEF m, k
<1>6. Prompt(host)
  BY DEF SessionInv, Noted
<1>7. /\ UNCHANGED << idPin, otg, dev, events, message >>
      /\ Observed' /\ obs'["VBus"] = "Waiting" /\ obs'["IdPin"] = obs["IdPin"]
      /\ obs'["OtgState"] = obs["OtgState"]
  BY <1>1 DEF RunVBus, Resubscribe, outsideVars, SessionInv, Observed, Observers
<1>8. Stream' /\ Busy' = Busy /\ Expected' = Expected
  BY <1>7 DEF SessionInv, Stream, Busy, Expected
<1>9. HostState(k) = State /\ k.in = m.in
  BY <1>3, <1>4 DEF Stays, HostState, State, Keeps
<1>10. CASE (bus.up /\ State \in {"Undefined", "AInitiate"}) \/ (~bus.up /\ State \in AnyWord)
  <2>1. Commit(k)
    BY <1>5, <1>9, <1>10 DEF VBusUp, VBusDown, AnyWord
  <2>2. /\ panic' = NoFault /\ Prompt(host') /\ UNCHANGED << ctl, service, bus >>
        /\ State' = State /\ host'.iDeviceAttached = host.iDeviceAttached
        /\ host'.iWhat = host.iWhat /\ notes'.error = notes.error
    BY <1>3, <1>4, <1>6, <2>1, Outcomes
  <2>3. Fits'
    BY <1>8, <2>2 DEF SessionInv, Fits, Seen
  <2>4. Powered'
    BY <1>7, <1>8, <1>10, <2>2 DEF SessionInv, Powered, AnyWord
  <2> QED BY <1>7, <1>8, <2>2, <2>3, <2>4, StayedGood DEF Listens
<1>11. CASE bus.up /\ State = "HandleDropping"
  <2> DEFINE n == AInitiate(k)
  <2>1. Commit(n)
    BY <1>5, <1>9, <1>11 DEF VBusUp
  <2>2. Initiates(m, n)
    BY <1>3, <1>4, <1>9, InitiatesSession, StaysOnTheWay DEF Granted
  <2> HIDE DEF n
  <2>3. /\ panic' = NoFault /\ Prompt(host') /\ UNCHANGED << ctl, service >>
        /\ bus'.up = bus.up /\ bus'.wanted = (IF bus.up THEN bus.wanted ELSE idPin)
        /\ State' = "AInitiate" /\ notes'.error = "Hidden"
    BY <1>3, <1>6, <2>1, <2>2, Outcomes
  <2>4. ~Busy /\ ~Away
    BY <1>1, <1>11 DEF SessionInv, Powered, Unplugged
  <2>5. Served'
    BY <1>11, <2>3 DEF SessionInv, Served
  <2>6. Expected' = "None"
    BY <1>8, <2>4 DEF Expected, Busy
  <2> QED BY <1>7, <1>8, <1>11, <2>3, <2>4, <2>5, <2>6, InitiatedGood DEF Listens
<1>12. CASE ~bus.up /\ State \notin AnyWord
  <2> DEFINE n == HandleDropping(k, "ErrorInConnection")
  <2>1. Commit(n)
    BY <1>5, <1>9, <1>12 DEF VBusDown, AnyWord
  <2>2. Drops(m, n)
    BY <1>4, DropsVBus, StaysOnTheWay DEF Recoverable
  <2> HIDE DEF n
  <2>3. /\ panic' = NoFault /\ Prompt(host') /\ UNCHANGED << ctl, service >>
        /\ bus'.up = bus.up /\ ~bus'.wanted
        /\ State' = "HandleDropping" /\ host'.iWhat \in Recoverable /\ notes'.error = "Shown"
    BY <1>3, <1>6, <2>1, <2>2, Outcomes
  <2> QED BY <1>7, <1>8, <1>12, <2>3, DroppedGood DEF Listens, AnyWord
<1>13. bus.up => State \in {"Undefined", "AInitiate", "HandleDropping"}
  <2>1. bus.up => ~Busy /\ State \notin {"APeripheral", "DelayNotAttached"}
    BY <1>1 DEF SessionInv, Powered
  <2>2. State \in HostStates
    BY DEF OtgInv, WatcherTypes, Host, State
  <2>3. State \in {"AHost", "DelayAttached"} => Busy
    BY ExpectedWords
  <2> QED BY <2>1, <2>2, <2>3 DEF HostStates
<1> QED BY <1>10, <1>11, <1>12, <1>13

\* The OTG stack has published a state.
LEMMA RunOtgStateGood ==
  ASSUME OtgInv, SessionInv, GoodSession, RunOtgState
  PROVE  SessionInv' /\ Hosting
<1>1. obs["OtgState"] = "Ready" /\ obs["VBus"] = "Waiting" /\ obs["IdPin"] = "Waiting"
  BY TurnInSession DEF RunOtgState
<1>2. PICK in \in Outside :
        LET m == Mem(in) IN
        Commit(IF Failed("OtgState") THEN HandleDropping(m, "OtgStateError")
               ELSE CASE otg = "AIdle"       -> AIdle(m)
                      [] otg = "AHost"       -> AHost(m)
                      [] otg = "APeripheral" -> ToPeripheral(m)
                      [] otg = "AVbusError"  -> AVBusError(m)
                      [] otg = "BIdle"       -> BDevice(m))
  BY DEF RunOtgState
<1> DEFINE m == Mem(in)
<1>3. /\ m \in OtgMemory /\ m.host = host /\ m.notes = notes /\ m.ctl = ctl
      /\ m.service = service /\ m.bus = bus /\ m.idPin = idPin /\ m.panic = NoFault
      /\ Granted(m.in) /\ Heeded(m)
  BY MemInSession
<1>4. /\ otg = "AIdle" => Commit(AIdle(m))
      /\ otg = "AHost" => Commit(AHost(m))
      /\ otg = "APeripheral" => Commit(ToPeripheral(m))
      /\ otg = "AVbusError" => Commit(AVBusError(m))
      /\ otg = "BIdle" => Commit(BDevice(m))
  BY <1>1, <1>2 DEF Failed, m
<1> HIDE DEF m
<1>5. otg \in OtgStates /\ HostState(m) = State /\ Prompt(host)
  BY <1>3 DEF OtgInv, OutsideTypes, HostState, State, SessionInv, Noted
<1>6. /\ UNCHANGED << idPin, otg, dev, events, message >>
      /\ Observed' /\ obs'["OtgState"] = "Waiting" /\ obs'["IdPin"] = obs["IdPin"]
      /\ obs'["VBus"] = obs["VBus"]
  BY <1>1 DEF RunOtgState, Resubscribe, outsideVars, SessionInv, Observed, Observers
<1>7. Stream' /\ Busy' = Busy /\ Expected' = Expected
  BY <1>6 DEF SessionInv, Stream, Busy, Expected
<1>8. ASSUME Commit(m), State = "APeripheral" => otg = "APeripheral"
      PROVE  SessionInv' /\ Hosting
  <2>1. /\ panic' = NoFault /\ Prompt(host') /\ UNCHANGED << ctl, service, bus >>
        /\ State' = State /\ host'.iDeviceAttached = host.iDeviceAttached
        /\ host'.iWhat = host.iWhat /\ notes'.error = notes.error
    <3>1. Stays(m, m)
      BY <1>3 DEF Stays, Keeps
    <3> QED BY <1>3, <1>5, <1>8, <3>1, Outcomes
  <2>2. Fits'
    BY <1>7, <2>1 DEF SessionInv, Fits, Seen
  <2>3. Powered'
    BY <1>6, <1>7, <1>8, <2>1 DEF SessionInv, Powered, AnyWord
  <2> QED BY <1>6, <1>7, <2>1, <2>2, <2>3, StayedGood DEF Listens
<1>9. ASSUME Commit(AInitiate(m)), State \in {"APeripheral", "DelayNotAttached"}
      PROVE  SessionInv' /\ Hosting
  <2>1. /\ panic' = NoFault /\ Prompt(host') /\ UNCHANGED << ctl, service >>
        /\ bus'.up = bus.up /\ bus'.wanted = (IF bus.up THEN bus.wanted ELSE idPin)
        /\ State' = "AInitiate" /\ notes'.error = "Hidden"
    BY <1>3, <1>5, <1>9, InitiatesSession, Outcomes DEF Granted
  <2>2. ~Away /\ Served'
    BY <1>9, <2>1 DEF SessionInv, Unplugged, Served
  <2>3. Expected \in {"None", "Rejected", "Attachment"}
    BY <1>9, ExpectedWords DEF SessionInv, Fits, AnyWord, Seen
  <2>4. Busy => bus.up
    BY <1>1, <1>9 DEF SessionInv, Powered, AnyWord
  <2> QED BY <1>6, <1>7, <2>1, <2>2, <2>3, <2>4, InitiatedGood DEF Listens
<1>10. ASSUME Commit(HandleDropping(m, "TooMuchPower")), State # "Undefined"
       PROVE  SessionInv' /\ Hosting
  <2>1. /\ panic' = NoFault /\ Prompt(host') /\ UNCHANGED << ctl, service >>
        /\ bus'.up = bus.up /\ ~bus'.wanted
        /\ State' = "HandleDropping" /\ host'.iWhat \in Recoverable /\ notes'.error = "Shown"
    <3>1. Drops(m, HandleDropping(m, "TooMuchPower"))
      BY <1>3, DropsVBus DEF Recoverable
    <3> QED BY <1>3, <1>5, <1>10, <3>1, Outcomes
  <2> QED BY <1>6, <1>7, <1>10, <2>1, DroppedGood DEF Listens
<1>11. CASE otg \in {"AIdle", "AHost"}
  <2>1. CASE State \in {"APeripheral", "DelayNotAttached"} /\ Commit(AInitiate(m))
    BY <1>9, <2>1
  <2>2. CASE State # "APeripheral" /\ Commit(m)
    BY <1>8, <2>2
  <2> QED BY <1>4, <1>5, <1>11, <2>1, <2>2 DEF AIdle, AHost
<1>12. CASE otg = "AVbusError"
  <2>1. CASE State \in AnyWord
    BY <1>4, <1>5, <1>8, <1>12, <2>1 DEF AVBusError, AnyWord
  <2>2. CASE State \notin AnyWord
    BY <1>4, <1>5, <1>10, <1>12, <2>2 DEF AVBusError, AnyWord
  <2> QED BY <2>1, <2>2
<1>13. CASE otg = "BIdle"
  <2>1. State = "Undefined"
    BY <1>1, <1>13 DEF SessionInv, Unplugged, Away
  <2> QED BY <1>4, <1>5, <1>8, <1>13, <2>1 DEF BDevice
<1>14. CASE otg = "APeripheral"
  <2>1. /\ panic' = NoFault /\ Prompt(host') /\ UNCHANGED << ctl, service, bus >>
        /\ State' = "APeripheral" /\ notes'.error = "Hidden"
    BY <1>3, <1>4, <1>5, <1>14, TurnsTo, Outcomes
  <2>2. ~Busy /\ idPin /\ State # "Undefined"
    BY <1>1, <1>14 DEF SessionInv, Powered, Unplugged, PluggedIn
  <2>3. Running' /\ Observed' /\ Stream'
    BY <1>6, <1>7, <2>1 DEF Running
  <2>4. Served'
    BY <2>1, <2>2 DEF SessionInv, Served
  <2>5. Unplugged'
    BY <1>1, <1>6, <1>7, <1>14, <2>1, <2>2 DEF SessionInv, Unplugged, Away, PluggedIn
  <2>6. Noted'
    BY <2>1 DEF Noted
  <2>7. Told'
    BY <1>6, <1>7, <2>1 DEF SessionInv, Told
  <2>8. Fits'
    <3>1. Expected' = "None"
      BY <1>7, <2>2 DEF Expected, Busy
    <3> QED BY <2>1, <3>1 DEF Fits
  <2>9. Powered'
    BY <1>1, <1>6, <1>7, <1>14, <2>1, <2>2 DEF SessionInv, Powered
  <2> QED BY <2>1, <2>3, <2>4, <2>5, <2>6, <2>7, <2>8, <2>9 DEF SessionInv, Hosting
<1> QED BY <1>5, <1>11, <1>12, <1>13, <1>14 DEF OtgStates

\* The plug has been put in or pulled out.
LEMMA RunIdPinGood ==
  ASSUME OtgInv, SessionInv, GoodSession, RunIdPin
  PROVE  SessionInv' /\ Hosting
<1>1. obs["IdPin"] = "Ready" /\ ~Ready(ctl)
  BY TurnInSession DEF RunIdPin
<1>2. PICK in \in Outside : \E m \in AtIdPin(in) :
        Commit(CASE Failed("IdPin")           -> HandleDropping(m, "IdPinError")
                 [] ~Failed("IdPin") /\ idPin -> IdPinOn(m)
                 [] OTHER                     -> IdPinOff(m))
  BY DEF RunIdPin
<1> DEFINE m == Mem(in)
<1>3. /\ m \in OtgMemory /\ m.host = host /\ m.notes = notes /\ m.ctl = ctl
      /\ m.service = service /\ m.bus = bus /\ m.idPin = idPin /\ m.panic = NoFault
      /\ Granted(m.in) /\ Heeded(m)
  BY MemInSession
<1>4. AtIdPin(in) = {m}
  BY DEF AtIdPin, GoodSession
<1>5. Commit(IF idPin THEN StartSession(m) ELSE IdPinOff(m))
  BY <1>1, <1>2, <1>4 DEF Failed, IdPinOn
<1> HIDE DEF m
<1>6. /\ UNCHANGED << idPin, otg, dev, events, message >>
      /\ Observed' /\ obs'["IdPin"] = "Waiting" /\ obs'["OtgState"] = obs["OtgState"]
      /\ obs'["VBus"] = obs["VBus"]
  BY <1>1 DEF RunIdPin, Resubscribe, outsideVars, SessionInv, Observed, Observers
<1>7. Stream' /\ Busy' = Busy /\ Expected' = Expected
  BY <1>6 DEF SessionInv, Stream, Busy, Expected
<1>8. ctl \in Control /\ service \in Service /\ Prompt(host) /\ idPin \in BOOLEAN
  BY DEF OtgInv, WatcherTypes, OutsideTypes, SessionInv, Noted
<1>9. ctl.iPersonalityId \in {None, iPersonalityId}
  BY <1>8 DEF SessionInv, Served, Control, Personalities
<1>10. Unanswered(m)
  <2>1. service.state \in {"Idle", "Started", "Starting", "Stopping"}
    BY <1>8 DEF SessionInv, Served, Service, ServiceStates
  <2>2. service.state \in {"Starting", "Stopping"} <=> ctl.active
    BY <1>1 DEF SessionInv, Served, Ready
  <2> QED BY <1>3, <2>1, <2>2 DEF Unanswered
<1>11. iPersonalityId # None /\ None # OtherPersonality /\ iPersonalityId # OtherPersonality
  BY PersonalityAssumption DEF Personalities
<1>12. CASE idPin
  <2> DEFINE n == StartSession(m)
  <2>1. State = "Undefined" /\ ~bus.up /\ ~bus.wanted /\ ~Busy /\ otg # "APeripheral"
    BY <1>1, <1>12 DEF SessionInv, Unplugged, Away, PluggedIn
  <2>2. service.state # "Started"
    BY <1>1, <1>12 DEF SessionInv, Unplugged, Served, Away, Ready, KErrNone, Pending
  <2>3. IF service.state = "Idle"
          THEN /\ Requests(m, n, "TryStart", "Starting", iPersonalityId)
               /\ n.service.id = iPersonalityId
          ELSE /\ Rests(m, n) /\ n.ctl.active /\ n.ctl.iStatus = ctl.iStatus
               /\ n.ctl.waits = ctl.waits /\ n.ctl.iPersonalityId = iPersonalityId
               /\ n.service = service
    BY <1>3, <1>10, <2>2, SessionStarts
  <2>4. Commit(n)
    BY <1>5, <1>12
  <2> HIDE DEF n
  <2>5. /\ host' = host /\ notes' = notes /\ bus' = bus /\ panic' = NoFault
        /\ ctl' = n.ctl /\ service' = n.service
    BY <1>3, <2>3, <2>4, CommitInSession DEF Requests, Rests
  <2>6. Served'
    <3>1. CASE service.state = "Idle"
      BY <1>11, <2>1, <2>3, <2>5, <3>1 DEF Served, State, Requests, Pending, KErrNoMemory
    <3>2. CASE service.state # "Idle"
      <4>1. ctl.active
        BY <1>3, <1>10, <2>2, <3>2 DEF Unanswered
      <4> QED BY <1>11, <2>1, <2>2, <2>3, <2>5, <3>2, <4>1 DEF SessionInv, Served, State
    <3> QED BY <3>1, <3>2
  <2>7. Unplugged'
    BY <1>6, <1>7, <1>12, <2>1, <2>5 DEF SessionInv, Unplugged, Away, PluggedIn, State
  <2>8. Running' /\ Observed' /\ Stream' /\ Noted' /\ Told'
    BY <1>6, <1>7, <2>5 DEF SessionInv, Running, Noted, Told, State
  <2>9. Fits' /\ Powered'
    BY <1>6, <1>7, <2>1, <2>5 DEF SessionInv, Fits, Powered, State, Seen, AnyWord
  <2> QED BY <2>1, <2>5, <2>6, <2>7, <2>8, <2>9 DEF SessionInv, Hosting, State
<1>13. CASE ~idPin
  <2> DEFINE n == IdPinOff(m)
  <2>1. /\ n \in OtgMemory /\ n.host.iHostState = "Undefined" /\ n.notes.error = "Hidden"
        /\ n.bus = m.bus /\ n.panic = m.panic /\ n.idPin = m.idPin
        /\ Prompt(m.host) => Prompt(n.host)
        /\ CASE m.service.state = "Idle" -> n.ctl = m.ctl /\ n.service = m.service
             [] m.service.state = "Started" ->
                  /\ n.service.state = "Stopping" /\ n.ctl.active /\ n.ctl.iStatus = Pending
                  /\ n.ctl.waits = "TryStop" /\ n.ctl.iPersonalityId = m.ctl.iPersonalityId
             [] m.service.state \in {"Starting", "Stopping"} ->
                  /\ n.service = m.service /\ n.ctl.active /\ n.ctl.iStatus = m.ctl.iStatus
                  /\ n.ctl.waits = m.ctl.waits /\ n.ctl.iPersonalityId = None
    BY <1>3, <1>9, <1>10, SessionEnds
  <2>2. Commit(n)
    BY <1>5, <1>13
  <2> HIDE DEF n
  <2>3. /\ host' = n.host /\ notes' = n.notes /\ bus' = bus /\ panic' = NoFault
        /\ ctl' = n.ctl /\ service' = n.service
    BY <1>3, <2>1, <2>2, CommitInSession
  <2>4. State' = "Undefined" /\ notes'.error = "Hidden" /\ Prompt(host')
    BY <1>3, <1>8, <2>1, <2>3 DEF State
  <2>5. /\ Served' /\ service'.state # "Started"
        /\ ctl'.active => ctl'.iPersonalityId = None
    <3>1. CASE service.state = "Idle"
      BY <1>3, <1>10, <2>1, <2>3, <2>4, <3>1 DEF SessionInv, Served, Unanswered
    <3>2. CASE service.state = "Started"
      <4>1. ctl.iPersonalityId = None
        BY <1>3, <1>10, <3>2 DEF SessionInv, Served, Unanswered
      <4> QED BY <1>3, <1>11, <2>1, <2>3, <2>4, <3>2, <4>1 DEF Served, Pending, KErrNoMemory
    <3>3. CASE service.state \in {"Starting", "Stopping"}
      BY <1>3, <1>10, <1>11, <2>1, <2>3, <2>4, <3>3 DEF SessionInv, Served, Unanswered
    <3> QED BY <1>3, <1>10, <3>1, <3>2, <3>3 DEF Unanswered
  <2>6. Unplugged'
    <3>1. ~idPin' /\ ~PluggedIn' /\ State' = "Undefined"
      BY <1>6, <1>13, <2>4 DEF PluggedIn
    <3>2. message' = None /\ ~bus'.wanted /\ (obs'["OtgState"] = "Ready" => otg' # "APeripheral")
      BY <1>6, <1>13, <2>3 DEF SessionInv, Unplugged
    <3>3. /\ ctl'.active => ctl'.iPersonalityId = None
          /\ service'.state = "Started" => ctl'.active
      BY <2>5
    <3> HIDE DEF State, PluggedIn
    <3> QED BY <3>1, <3>2, <3>3 DEF Unplugged
  <2>7. Running' /\ Observed' /\ Stream' /\ Noted'
    BY <1>6, <1>7, <2>3, <2>4 DEF SessionInv, Running, Noted
  <2>8. Told'
    BY <1>6, <1>7, <1>13, <2>4, OtgAssumption DEF SessionInv, Told, Unplugged, AllMessages
  <2>9. Fits'
    BY <2>4 DEF Fits, AnyWord
  <2>10. Powered'
    <3>1. /\ bus' = bus /\ otg' = otg /\ Busy' = Busy /\ obs'["VBus"] = obs["VBus"]
          /\ obs'["OtgState"] = obs["OtgState"] /\ State' = "Undefined"
      BY <1>6, <1>7, <2>3, <2>4
    <3> QED BY <3>1 DEF SessionInv, Powered, AnyWord
  <2> QED BY <2>10, <2>4, <2>5, <2>6, <2>7, <2>8, <2>9 DEF SessionInv, Hosting
<1> QED BY <1>8, <1>12, <1>13

\* The next word of a device follows from the one that is taken.
LEMMA NextWord ==
  ASSUME OtgInv, SessionInv, events # << >>, events' = Tail(events), dev' = dev
  PROVE  /\ Stream' /\ (Busy' => Busy)
         /\ Expected = "Attachment" =>
              IF Head(events).what.error = "None"
                THEN Expected' \in {"Loading", "DriverLoad", "Detachment"}
                ELSE Expected' \in {"None", "Rejected"}
         /\ Expected = "DriverLoad" => Expected' \in {"Loaded", "Detachment"}
         /\ Expected = "Detachment" => Expected' = "None" /\ ~Busy'
<1>1. PICK l \in Nat : l = Len(events)
  BY DEF OtgInv, OutsideTypes
<1>2. /\ l > 0 /\ Head(events) = events[1] /\ events' \in Seq(Events) /\ Len(events') = l - 1
      /\ \A i \in 1..(l - 1) : events'[i] = events[i + 1]
  <2>1. events \in Seq(Events) /\ events # << >>
    BY DEF OtgInv, OutsideTypes
  <2> QED BY <1>1, <2>1
<1>3. \A i \in 1..l : events[i].kind \in {"Attachment", "DriverLoad", "Detachment"}
  <2>1. \A i \in 1..l : events[i] \in Events
    BY <1>1 DEF OtgInv, OutsideTypes
  <2> QED BY <2>1, EventTypes
<1>4. \A i \in 1..l :
        /\ events[i].kind = "Attachment" =>
             /\ i = 1
             /\ events[i].what.error # "None" => l = 1 /\ dev \in {"None", "Rejected"}
             /\ events[i].what.error = "None" /\ l = 1 => dev = "Loading"
        /\ events[i].kind = "DriverLoad" =>
             IF i = l THEN dev = "Loaded" ELSE events[i + 1].kind = "Detachment"
        /\ events[i].kind = "Detachment" => i = l /\ dev = "None"
  BY <1>1 DEF SessionInv, Stream
<1>5. Expected = events[1].kind
  BY <1>2 DEF Expected
<1>6. /\ l = 1 => events' = << >> /\ Expected' = dev
      /\ l # 1 => Expected' = events[2].kind
  <2>1. l = 1 => events' = << >>
    BY <1>2
  <2>2. l # 1 => events' # << >> /\ Head(events') = events[2]
    <3>1. ASSUME l # 1
          PROVE  Len(events') > 0 /\ 1 \in 1..(l - 1) /\ 1 + 1 = 2
      BY <1>2, <3>1
    <3>2. \A s \in Seq(Events) : Len(s) > 0 => s # << >> /\ Head(s) = s[1]
      OBVIOUS
    <3> QED BY <1>2, <3>1, <3>2
  <2> QED BY <2>1, <2>2 DEF Expected
<1>7. /\ 1 \in 1..l /\ (l # 1 => 2 \in 1..l /\ 1 + 1 = 2)
  BY <1>2
<1>8. Stream'
  <2>1. SUFFICES ASSUME NEW i \in 1..(l - 1)
                 PROVE  /\ events'[i].kind # "Attachment"
                        /\ events'[i].kind = "DriverLoad" =>
                             IF i = l - 1 THEN dev = "Loaded"
                             ELSE events'[i + 1].kind = "Detachment"
                        /\ events'[i].kind = "Detachment" => i = l - 1 /\ dev = "None"
    BY <1>2 DEF SessionInv, Stream
  <2>2. i + 1 \in 1..l /\ i + 1 # 1 /\ (i = l - 1 <=> i + 1 = l)
    BY <1>2
  <2>3. i # l - 1 => i + 1 \in 1..(l - 1)
    BY <1>2
  <2>4. events'[i] = events[i + 1] /\ (i # l - 1 => events'[i + 1] = events[(i + 1) + 1])
    BY <1>2, <2>3
  <2> QED BY <1>4, <2>2, <2>4
<1>9. Busy' => Busy
  BY DEF Busy
<1>10. Expected = "Attachment" =>
         IF Head(events).what.error = "None"
           THEN Expected' \in {"Loading", "DriverLoad", "Detachment"}
           ELSE Expected' \in {"None", "Rejected"}
  <2>1. events[1].kind = "Attachment" /\ events[1].what.error # "None" =>
          l = 1 /\ dev \in {"None", "Rejected"}
    BY <1>4, <1>7
  <2>2. events[1].kind = "Attachment" /\ events[1].what.error = "None" /\ l = 1 => dev = "Loading"
    BY <1>4, <1>7
  <2>3. l # 1 => events[2].kind \in {"DriverLoad", "Detachment"}
    BY <1>3, <1>4, <1>7
  <2> QED BY <1>2, <1>5, <1>6, <2>1, <2>2, <2>3
<1>11. Expected = "DriverLoad" => Expected' \in {"Loaded", "Detachment"}
  BY <1>4, <1>5, <1>6, <1>7
<1>12. Expected = "Detachment" => Expected' = "None" /\ ~Busy'
  <2>1. Expected = "Detachment" => l = 1 /\ dev = "None"
    BY <1>4, <1>5, <1>7
  <2> QED BY <1>6, <2>1 DEF Busy
<1> QED BY <1>8, <1>9, <1>10, <1>11, <1>12

\* A turn before a move does not matter either, nor an attempt while VBus is up.
LEMMA TurnsFirst ==
  ASSUME NEW m \in OtgMemory, NEW k, NEW n, NEW s
  PROVE  /\ Turns(m, k, s) /\ Drops(k, n) => Drops(m, n)
         /\ Turns(m, k, s) /\ Initiates(k, n) => Initiates(m, n)
         /\ \A st : Turns(m, k, s) /\ Turns(k, n, st) => Turns(m, n, st)
         /\ Initiates(m, k) /\ m.bus.up => Turns(m, k, "AInitiate")
<1>1. Turns(m, k, s) /\ Heeded(m) => Heeded(k)
  BY DEF Turns, Goes, Heeded
<1>2. Initiates(m, k) /\ m.bus.up => Turns(m, k, "AInitiate")
  <2>1. SUFFICES ASSUME Initiates(m, k), m.bus.up
                 PROVE  k.bus = m.bus
    BY DEF Initiates, Turns
  <2>2. k.bus \in Bus /\ m.bus \in Bus /\ k.bus.up = m.bus.up /\ k.bus.wanted = m.bus.wanted
    BY <2>1 DEF Initiates, Goes, Keeps, OtgMemory
  <2> QED BY <2>2 DEF Bus
<1> QED BY <1>1, <1>2 DEF Turns, Initiates, Drops, Goes, Keeps

\* AInitiate sees a device, and leaves the state for the one its problem asks for.
Sees(m, n, e) ==
  \/ Drops(m, n)
  \/ e.error = "None" /\ Turns(m, n, "AInitiate") /\ n.host.iDeviceAttached
  \/ e.error # "None" /\ (Initiates(m, n) \/ Turns(m, n, "DelayNotAttached"))
LEMMA AttachmentSeen ==
  ASSUME NEW m \in OtgMemory, m.host.iHostState = "AInitiate", NEW e,
         m.in.driverLoading = KErrNone, m.in.busFailures = 0
  PROVE  Sees(m, InitiateAttached(m, e), e)
<1> DEFINE h == [m.host EXCEPT !.iDeviceAttached = TRUE]
           a == [m EXCEPT !.host = h]
           k == CancelTimer(a, "Attachment")
           n == InitiateAttached(m, e)
<1> SUFFICES Sees(m, n, e)
  OBVIOUS
<1>1. h \in Host /\ h.iHostState = "AInitiate" /\ h.iDeviceAttached /\ (Prompt(m.host) => Prompt(h))
  BY DEF OtgMemory, Host, Prompt
<1>2. a = [m EXCEPT !.host.iDeviceAttached = TRUE]
  OBVIOUS
<1> HIDE DEF h
<1>3. a \in OtgMemory /\ Turns(m, a, "AInitiate") /\ a.host.iDeviceAttached
  BY <1>1 DEF OtgMemory, Turns, Goes, Keeps, Heeded
<1>4. /\ e.otg => n = HandleDropping(k, "ConnectedToOTG")
      /\ ~e.otg /\ e.error = "None" => n = k
      /\ ~e.otg /\ e.error = "DetachedDuringDriverLoading" => n = AInitiate(k)
      /\ ~e.otg /\ e.error = "BadPower" => n = DelayNotAttachedHandle(k)
      /\ ~e.otg /\ e.error \notin {"None", "DetachedDuringDriverLoading", "BadPower"}
           => n = HandleDropping(k, "UnsupportedDevice")
  BY <1>2 DEF InitiateAttached
<1> HIDE DEF a
<1>5. Stays(a, k) /\ k \in OtgMemory
  BY <1>3, Immaterial DEF Stays, Timers
<1> HIDE DEF k
<1>6. Turns(m, k, "AInitiate") /\ k.host.iDeviceAttached /\ k.in = m.in
  BY <1>3, <1>5, StaysOnTheWay DEF Stays, Turns, Goes, Keeps
<1>7. \A what \in Recoverable : Drops(m, HandleDropping(k, what))
  BY <1>5, <1>6, DropsVBus, TurnsFirst
<1>8. Initiates(m, AInitiate(k)) /\ Turns(m, DelayNotAttachedHandle(k), "DelayNotAttached")
  BY <1>5, <1>6, InitiatesSession, TurnsTo, TurnsFirst
<1> HIDE DEF n
<1>9. CASE e.otg \/ e.error \notin {"None", "DetachedDuringDriverLoading", "BadPower"}
  BY <1>4, <1>7, <1>9 DEF Sees, Recoverable
<1>10. CASE ~e.otg /\ e.error = "None"
  BY <1>4, <1>6, <1>10 DEF Sees
<1>11. CASE ~e.otg /\ e.error = "DetachedDuringDriverLoading"
  BY <1>4, <1>8, <1>11 DEF Sees
<1>12. CASE ~e.otg /\ e.error = "BadPower"
  BY <1>4, <1>8, <1>12 DEF Sees
<1> QED BY <1>9, <1>10, <1>11, <1>12

\* Another state is right when the next word fits it and VBus does.
LEMMA TurnedGood ==
  ASSUME SessionInv, Listens, UNCHANGED << ctl, service, bus >>, Prompt(host'),
         State # "Undefined", State' \notin {"Undefined", "HandleDropping"},
         notes'.error = "Hidden", Fits', Powered'
  PROVE  SessionInv'
<1>1. Running' /\ Observed' /\ Stream'
  BY DEF Listens, Running
<1>2. Served'
  BY DEF SessionInv, Served
<1>3. Unplugged'
  BY DEF SessionInv, Unplugged, Away, PluggedIn, Listens
<1>4. Noted'
  BY DEF Noted
<1>5. Told'
  BY OtgAssumption DEF SessionInv, Told, Listens, AllMessages
<1> QED BY <1>1, <1>2, <1>3, <1>4, <1>5 DEF SessionInv

\* The device is heard of.
LEMMA RunHostEventGood ==
  ASSUME OtgInv, SessionInv, GoodSession, RunHostEvent
  PROVE  SessionInv' /\ Hosting
<1>1. /\ obs["HostEvent"] = "Waiting" /\ obs["OtgState"] = "Waiting" /\ obs["VBus"] = "Waiting"
      /\ obs["IdPin"] = "Waiting" /\ events # << >>
  BY TurnInSession DEF RunHostEvent, SessionInv, Observed
<1>2. PICK in \in Outside :
        LET m == Mem(in)
            e == Head(events)
        IN Commit(IF Failed("HostEvent") THEN HandleDropping(m, "HostEventNotificationError")
                  ELSE CASE e.kind = "Attachment" -> DeviceAttached(m, e.what)
                         [] e.kind = "Detachment" -> DeviceDetached(m)
                         [] e.kind = "DriverLoad" -> DriverLoad(m, e.what))
  BY DEF RunHostEvent
<1> DEFINE m == Mem(in)
           e == Head(events)
<1>3. /\ m \in OtgMemory /\ m.host = host /\ m.notes = notes /\ m.ctl = ctl
      /\ m.service = service /\ m.bus = bus /\ m.idPin = idPin /\ m.panic = NoFault
      /\ Granted(m.in) /\ Heeded(m)
  BY MemInSession
<1>4. Expected = e.kind /\ e \in Events
  BY <1>1, ExpectedWords
<1>5. /\ e.kind = "Attachment" => Commit(DeviceAttached(m, e.what))
      /\ e.kind = "Detachment" => Commit(DeviceDetached(m))
      /\ e.kind = "DriverLoad" => Commit(DriverLoad(m, e.what))
  BY <1>1, <1>2 DEF Failed, m
<1> HIDE DEF m, e
<1>6. Prompt(host) /\ HostState(m) = State /\ m.in.driverLoading = KErrNone /\ m.in.busFailures = 0
  BY <1>3 DEF SessionInv, Noted, HostState, State, Granted
<1>7. /\ UNCHANGED << idPin, otg, dev, message >> /\ events' = Tail(events)
      /\ Observed' /\ obs' = obs
  BY <1>1 DEF RunHostEvent, Failed, Resubscribe, SessionInv, Observed, Observers
<1>8. Stream' /\ (Busy' => Busy)
  BY <1>1, <1>7, NextWord
<1>9. /\ Expected \in {"Attachment", "DriverLoad", "Detachment"} /\ Busy
      /\ State \in AnyWord \/ bus.up
  <2>1. Expected \in {"Attachment", "DriverLoad", "Detachment"}
    BY <1>4, EventTypes
  <2> QED BY <1>1, <2>1, ExpectedWords DEF SessionInv, Powered
<1>10. panic' = NoFault => Listens
  BY <1>7, <1>8 DEF Listens
<1>11. CASE State \in AnyWord
  <2>1. Commit(m)
    BY <1>4, <1>5, <1>6, <1>9, <1>11 DEF DeviceAttached, DeviceDetached, DriverLoad, AnyWord
  <2>2. /\ panic' = NoFault /\ Prompt(host') /\ UNCHANGED << ctl, service, bus >>
        /\ State' = State /\ host'.iDeviceAttached = host.iDeviceAttached
        /\ host'.iWhat = host.iWhat /\ notes'.error = notes.error
    <3>1. Stays(m, m)
      BY <1>3 DEF Stays, Keeps
    <3> QED BY <1>3, <1>6, <2>1, <3>1, Outcomes
  <2>3. Fits'
    BY <1>11, <2>2 DEF Fits
  <2>4. Powered'
    BY <1>7, <1>8, <1>11, <2>2 DEF SessionInv, Powered, AnyWord
  <2> QED BY <1>10, <2>2, <2>3, <2>4, StayedGood
<1>12. ASSUME NEW n, Commit(n), Drops(m, n), State \notin AnyWord
       PROVE  SessionInv' /\ Hosting
  <2>1. /\ panic' = NoFault /\ Prompt(host') /\ UNCHANGED << ctl, service >>
        /\ bus'.up = bus.up /\ ~bus'.wanted
        /\ State' = "HandleDropping" /\ host'.iWhat \in Recoverable /\ notes'.error = "Shown"
    BY <1>3, <1>6, <1>12, Outcomes
  <2> QED BY <1>10, <1>12, <2>1, DroppedGood DEF AnyWord
<1>13. ASSUME NEW n, Commit(n), Initiates(m, n), State \notin AnyWord,
              Expected' \in {"None", "Rejected"}
       PROVE  SessionInv' /\ Hosting
  <2>1. /\ panic' = NoFault /\ Prompt(host') /\ UNCHANGED << ctl, service >>
        /\ bus'.up = bus.up /\ bus'.wanted = (IF bus.up THEN bus.wanted ELSE idPin)
        /\ State' = "AInitiate" /\ notes'.error = "Hidden"
    BY <1>3, <1>6, <1>13, Outcomes
  <2>2. ~Away /\ Served'
    BY <1>13, <2>1 DEF SessionInv, Unplugged, Served, AnyWord
  <2>3. bus.up /\ obs'["OtgState"] # "Ready"
    BY <1>1, <1>7, <1>9, <1>13
  <2> QED BY <1>10, <1>13, <2>1, <2>2, <2>3, InitiatedGood
<1>14. ASSUME NEW n, NEW st, Commit(n), Turns(m, n, st), State \notin AnyWord, bus.up,
              st \in {"AInitiate", "DelayNotAttached", "AHost", "DelayAttached"},
              st = "DelayNotAttached" => Expected' \in {"None", "Rejected"},
              st = "AInitiate" => n.host.iDeviceAttached /\ Expected' \in {"Loading", "DriverLoad", "Detachment"},
              st \in {"AHost", "DelayAttached"} => Expected' \in {"Loaded", "Detachment"} /\ Seen
       PROVE  SessionInv' /\ Hosting
  <2>1. /\ panic' = NoFault /\ Prompt(host') /\ UNCHANGED << ctl, service, bus >>
        /\ State' = st /\ notes'.error = "Hidden"
    BY <1>3, <1>6, <1>14, Outcomes
  <2>2. host' = n.host
    BY <1>3, <1>14, CommitInSession DEF Turns, Goes, Keeps
  <2>3. Fits'
    BY <1>14, <2>1, <2>2 DEF Fits, Seen
  <2>4. Powered'
    BY <1>1, <1>7, <1>8, <1>14, <2>1 DEF SessionInv, Powered
  <2>5. SessionInv'
    BY <1>10, <1>14, <2>1, <2>3, <2>4, TurnedGood DEF AnyWord
  <2> QED BY <1>14, <2>1, <2>5 DEF Hosting
<1>15. CASE e.kind = "Attachment" /\ State \notin AnyWord
  <2>1. State \in {"AInitiate", "DelayNotAttached"} /\ bus.up
    BY <1>4, <1>9, <1>15 DEF SessionInv, Fits
  <2> DEFINE k == IF State = "AInitiate" THEN m ELSE AInitiate(m)
             n == DeviceAttached(m, e.what)
  <2>2. /\ k \in OtgMemory /\ k.host.iHostState = "AInitiate" /\ k.in = m.in
        /\ State # "AInitiate" => Turns(m, k, "AInitiate")
    <3>1. CASE State = "AInitiate"
      BY <1>3, <1>6, <3>1 DEF HostState
    <3>2. CASE State # "AInitiate"
      <4>1. Initiates(m, k)
        BY <1>3, <1>6, <3>2, InitiatesSession
      <4>2. Turns(m, k, "AInitiate")
        BY <1>3, <2>1, <4>1, TurnsFirst
      <4> QED BY <4>2 DEF Turns, Goes, Keeps
    <3> QED BY <3>1, <3>2
  <2>3. n = InitiateAttached(k, e.what)
    BY <1>6, <2>1, <2>2 DEF DeviceAttached, HostState
  <2> HIDE DEF k
  <2>4. Sees(k, n, e.what)
    BY <1>6, <2>2, <2>3, AttachmentSeen
  <2>5. Sees(m, n, e.what)
    <3>1. CASE State = "AInitiate"
      BY <2>4, <3>1 DEF k
    <3>2. CASE State # "AInitiate"
      BY <1>3, <2>2, <2>4, <3>2, TurnsFirst DEF Sees
    <3> QED BY <3>1, <3>2
  <2>6. Commit(n)
    BY <1>5, <1>15
  <2> HIDE DEF n
  <2>7. IF e.what.error = "None" THEN Expected' \in {"Loading", "DriverLoad", "Detachment"}
        ELSE Expected' \in {"None", "Rejected"}
    BY <1>1, <1>4, <1>7, <1>15, NextWord DEF e
  <2>8. CASE Drops(m, n)
    BY <1>12, <1>15, <2>6, <2>8
  <2>9. CASE e.what.error = "None" /\ Turns(m, n, "AInitiate") /\ n.host.iDeviceAttached
    BY <1>14, <1>15, <2>1, <2>6, <2>7, <2>9
  <2>10. CASE e.what.error # "None" /\ Initiates(m, n)
    BY <1>13, <1>15, <2>6, <2>7, <2>10
  <2>11. CASE e.what.error # "None" /\ Turns(m, n, "DelayNotAttached")
    BY <1>14, <1>15, <2>1, <2>6, <2>7, <2>11
  <2> QED BY <2>5, <2>8, <2>9, <2>10, <2>11 DEF Sees
<1>16. CASE e.kind = "DriverLoad" /\ State \notin AnyWord
  <2>1. Seen /\ State = "AInitiate" /\ bus.up
    BY <1>4, <1>9, <1>16 DEF SessionInv, Fits, Seen
  <2>2. Expected' \in {"Loaded", "Detachment"}
    BY <1>1, <1>4, <1>7, <1>16, NextWord
  <2> DEFINE n == DriverLoad(m, e.what)
  <2>3. Turns(m, n, "AHost") \/ Turns(m, n, "DelayAttached")
    <3>1. e.what \in {"Success", "PartialDetached", "Partial", "Failure"}
      BY <1>4, <1>16, EventTypes DEF AllLoadResults
    <3>2. /\ e.what \in {"Success", "PartialDetached"} => n = ToHost(m)
          /\ e.what = "Partial" => n = ToHost(ShowWarning(m))
          /\ e.what = "Failure" => n = DelayAttachedHandle(m)
      BY <1>6, <2>1 DEF DriverLoad
    <3>3. Turns(m, ToHost(m), "AHost") /\ Turns(m, DelayAttachedHandle(m), "DelayAttached")
      BY <1>3, TurnsTo
    <3>4. Turns(m, ToHost(ShowWarning(m)), "AHost")
      <4>1. Stays(m, ShowWarning(m)) /\ ShowWarning(m) \in OtgMemory
        BY <1>3, Immaterial DEF Stays, Timers
      <4>2. Turns(ShowWarning(m), ToHost(ShowWarning(m)), "AHost")
        BY <4>1, TurnsTo
      <4> QED BY <4>1, <4>2, StaysOnTheWay
    <3> QED BY <3>1, <3>2, <3>3, <3>4
  <2>4. Commit(n)
    BY <1>5, <1>16
  <2> HIDE DEF n
  <2> QED BY <1>14, <1>16, <2>1, <2>2, <2>3, <2>4
<1>17. CASE e.kind = "Detachment" /\ State \notin AnyWord
  <2>1. Expected' = "None"
    BY <1>1, <1>4, <1>7, <1>17, NextWord
  <2>2. DeviceDetached(m) = AInitiate(m)
    <3>1. Seen \/ State \in {"AHost", "DelayAttached"}
      BY <1>4, <1>17 DEF SessionInv, Fits
    <3> QED BY <1>3, <1>6, <3>1 DEF DeviceDetached, Seen, HostState
  <2>3. Initiates(m, AInitiate(m))
    BY <1>3, <1>6, InitiatesSession
  <2> QED BY <1>5, <1>13, <1>17, <2>1, <2>2, <2>3
<1> QED BY <1>4, <1>9, <1>11, <1>15, <1>16, <1>17

\* A message is handled.
LEMMA RunMessageGood ==
  ASSUME OtgInv, SessionInv, GoodSession, RunMessage
  PROVE  SessionInv' /\ Hosting
<1>1. /\ obs["Message"] = "Waiting" /\ obs["OtgState"] = "Waiting" /\ obs["VBus"] = "Waiting"
      /\ obs["IdPin"] = "Waiting" /\ events = << >> /\ message # None
  BY TurnInSession DEF RunMessage, SessionInv, Observed
<1>2. PICK in \in Outside :
        LET m == Mem(in) IN
        Commit(IF Failed("Message") THEN HandleDropping(m, "MessageNotificationError")
               ELSE CASE message = "BadHubPosition" -> BadHubPosition(m)
                      [] message = "VBusError"      -> AVBusError(m)
                      [] message = "SrpReceived"    -> SrpReceived(m)
                      [] message = "RequestSession" -> SessionRequested(m)
                      [] OTHER                      -> MessageReceived(m, message))
  BY DEF RunMessage
<1> DEFINE m == Mem(in)
<1>3. /\ m \in OtgMemory /\ m.host = host /\ m.notes = notes /\ m.ctl = ctl
      /\ m.service = service /\ m.bus = bus /\ m.idPin = idPin /\ m.panic = NoFault
      /\ Granted(m.in) /\ Heeded(m)
  BY MemInSession
<1>4. /\ message = "BadHubPosition" => Commit(BadHubPosition(m))
      /\ message = "VBusError" => Commit(AVBusError(m))
      /\ message = "SrpReceived" => Commit(SrpReceived(m))
      /\ message = "RequestSession" => Commit(SessionRequested(m))
      /\ message \notin {"BadHubPosition", "VBusError", "SrpReceived", "RequestSession"}
           => Commit(MessageReceived(m, message))
  BY <1>1, <1>2 DEF Failed, m
<1> HIDE DEF m
<1>5. Prompt(host) /\ HostState(m) = State /\ m.in.busFailures = 0
  BY <1>3 DEF SessionInv, Noted, HostState, State, Granted
<1>6. /\ UNCHANGED << idPin, otg, dev, events >> /\ message' = None
      /\ Observed' /\ obs' = obs
  BY <1>1 DEF RunMessage, Failed, Resubscribe, SessionInv, Observed, Observers
<1>7. Stream' /\ Busy' = Busy /\ Expected' = Expected
  BY <1>6 DEF SessionInv, Stream, Busy, Expected
<1>8. panic' = NoFault => Listens
  BY <1>6, <1>7 DEF Listens
<1>9. ASSUME Commit(m)
      PROVE  SessionInv' /\ Hosting
  <2>1. /\ panic' = NoFault /\ Prompt(host') /\ UNCHANGED << ctl, service, bus >>
        /\ State' = State /\ host'.iDeviceAttached = host.iDeviceAttached
        /\ host'.iWhat = host.iWhat /\ notes'.error = notes.error
    <3>1. Stays(m, m)
      BY <1>3 DEF Stays, Keeps
    <3> QED BY <1>3, <1>5, <1>9, <3>1, Outcomes
  <2>2. Fits'
    BY <1>7, <2>1 DEF SessionInv, Fits, Seen
  <2>3. Powered'
    BY <1>6, <1>7, <2>1 DEF SessionInv, Powered
  <2> QED BY <1>8, <2>1, <2>2, <2>3, StayedGood
<1>10. ASSUME NEW what \in Recoverable, Commit(HandleDropping(m, what)), State # "Undefined"
       PROVE  SessionInv' /\ Hosting
  <2>1. Drops(m, HandleDropping(m, what))
    BY <1>3, DropsVBus
  <2>2. /\ panic' = NoFault /\ Prompt(host') /\ UNCHANGED << ctl, service >>
        /\ bus'.up = bus.up /\ ~bus'.wanted
        /\ State' = "HandleDropping" /\ host'.iWhat \in Recoverable /\ notes'.error = "Shown"
    BY <1>3, <1>5, <1>10, <2>1, Outcomes
  <2> QED BY <1>8, <1>10, <2>2, DroppedGood
<1>11. ASSUME Commit(AskForBus(m)), State # "Undefined", message \in {"SrpReceived", "RequestSession"}
       PROVE  SessionInv' /\ Hosting
  <2>1. CASE bus.up
    BY <1>3, <1>9, <1>11, <2>1 DEF AskForBus
  <2>2. CASE ~bus.up
    <3> DEFINE n == BusRequest(m)
    <3>1. n \in OtgMemory /\ Keeps(m, n) /\ n.host = m.host /\ n.notes = m.notes /\ n.bus.wanted = idPin
      BY <1>3, BusRequestKeeps
    <3>2. Commit(n)
      BY <1>3, <1>5, <1>11, <2>2 DEF AskForBus
    <3> HIDE DEF n
    <3>3. /\ host' = host /\ notes' = notes /\ ctl' = ctl /\ service' = service
          /\ ~bus'.up /\ panic' = NoFault
      BY <1>3, <2>2, <3>1, <3>2, CommitInSession DEF Keeps
    <3>4. State' = State /\ (Seen' <=> Seen)
      BY <3>3 DEF State, Seen
    <3>5. State \notin {"DelayNotAttached", "APeripheral"} /\ idPin
      BY <1>1, <1>11, <2>2 DEF SessionInv, Powered, Told, Unplugged
    <3>6. Running' /\ Observed' /\ Stream'
      BY <1>6, <1>7, <3>3 DEF Running
    <3>7. Served'
      BY <3>3, <3>4 DEF SessionInv, Served
    <3>8. Unplugged'
      BY <1>6, <1>11, <3>3, <3>4, <3>5 DEF SessionInv, Unplugged, Away, PluggedIn
    <3>9. Noted'
      BY <1>6, <3>3, <3>4 DEF SessionInv, Noted
    <3>10. Told'
      BY <1>6, OtgAssumption DEF Told, AllMessages
    <3>11. Fits'
      BY <1>7, <3>4 DEF SessionInv, Fits
    <3>12. Powered'
      BY <1>1, <1>6, <1>7, <2>2, <3>3, <3>4, <3>5 DEF SessionInv, Powered
    <3> QED BY <3>4, <3>6, <3>7, <3>8, <3>9, <3>10, <3>11, <3>12 DEF SessionInv, Hosting
  <2> QED BY <2>1, <2>2
<1>12. CASE message = "BadHubPosition"
  <2>1. State \notin {"Undefined", "AHost"}
    BY <1>12, ExpectedWords DEF SessionInv, Told
  <2> QED BY <1>4, <1>5, <1>10, <1>12, <2>1 DEF BadHubPosition, Recoverable
<1>13. CASE message = "VBusError"
  <2>1. CASE State \in AnyWord
    BY <1>4, <1>5, <1>9, <1>13, <2>1 DEF AVBusError, AnyWord
  <2>2. CASE State \notin AnyWord
    BY <1>4, <1>5, <1>10, <1>13, <2>2 DEF AVBusError, Recoverable, AnyWord
  <2> QED BY <2>1, <2>2
<1>14. CASE message = "SrpReceived"
  <2>1. CASE State = "Undefined"
    BY <1>4, <1>5, <1>9, <1>14, <2>1 DEF SrpReceived
  <2>2. CASE State # "Undefined"
    BY <1>4, <1>5, <1>11, <1>14, <2>2 DEF SrpReceived
  <2> QED BY <2>1, <2>2
<1>15. CASE message = "RequestSession"
  <2>1. CASE State \in {"AInitiate", "AHost", "APeripheral"}
    BY <1>4, <1>5, <1>11, <1>15, <2>1 DEF SessionRequested
  <2>2. CASE State \notin {"AInitiate", "AHost", "APeripheral"}
    BY <1>4, <1>5, <1>9, <1>15, <2>2 DEF SessionRequested
  <2> QED BY <2>1, <2>2
<1>16. CASE message \notin {"BadHubPosition", "VBusError", "SrpReceived", "RequestSession"}
  <2>1. message \notin {"BadDeviceAttached", "BadDeviceDetached"}
    BY DEF SessionInv, Told
  <2>2. CASE State \in {"AInitiate", "AHost", "APeripheral"} /\ message \in {"ConnectionProblem", "UnsupportedDevice"}
    BY <1>4, <1>5, <1>10, <1>16, <2>2 DEF MessageReceived, Recoverable
  <2>3. CASE ~(State \in {"AInitiate", "AHost", "APeripheral"} /\ message \in {"ConnectionProblem", "UnsupportedDevice"})
    BY <1>4, <1>5, <1>9, <1>16, <2>1, <2>3 DEF MessageReceived
  <2> QED BY <2>2, <2>3
<1> QED BY <1>12, <1>13, <1>14, <1>15, <1>16

-----------------------------------------------------------------------------
\* What happens outside in a session in which nothing fails.

\* The watcher has done all it had to do.
LEMMA QuietInSession ==
  ASSUME SessionInv, Quiet
  PROVE  /\ \A o \in Observers : obs[o] = "Waiting"
         /\ events = << >> /\ message = None /\ "Closed" \notin {notes.warning, notes.error}
<1>1. \A i \in 5..10 : i \in DOMAIN Order /\ ~IsReady(Order[i])
  BY DEF Quiet, Order
<1>2. /\ Order[5] = "IdPin" /\ Order[6] = "VBus" /\ Order[7] = "OtgState"
      /\ Order[8] = "HostEvent" /\ Order[9] = "Message" /\ Order[10] = "Note"
  BY DEF Order
<1>3. /\ ~IsReady("IdPin") /\ ~IsReady("VBus") /\ ~IsReady("OtgState")
      /\ ~IsReady("HostEvent") /\ ~IsReady("Message") /\ ~IsReady("Note")
  BY <1>1, <1>2
<1>4. /\ obs["IdPin"] \in {"Waiting", "Ready"} /\ obs["VBus"] \in {"Waiting", "Ready"}
      /\ obs["OtgState"] \in {"Waiting", "Ready"}
      /\ obs["HostEvent"] = "Waiting" /\ obs["Message"] = "Waiting"
  BY DEF SessionInv, Observed, Observers
<1> QED BY <1>3, <1>4 DEF IsReady, Observers

\* What hears of it.
LEMMA AlertedIs ==
  ASSUME SessionInv, NEW o \in {"IdPin", "VBus", "OtgState"}, obs' = Alerted(o)
  PROVE  Observed' /\ obs'[o] = "Ready" /\ \A p \in Observers \ {o} : obs'[p] = obs[p]
BY DEF SessionInv, Observed, Observers, Alerted

\* The watcher's own objects are left alone.
LEMMA WatcherRests ==
  ASSUME SessionInv, UNCHANGED << host, notes, ctl, service, panic >>
  PROVE  /\ Running' /\ Served' /\ State' = State /\ (Seen' <=> Seen) /\ Hosting
         /\ (notes'.error = "Closed" => dev' = "None") => Noted'
BY DEF SessionInv, Running, Served, Noted, State, Seen, Hosting

\* The device is left alone.
LEMMA DeviceRests ==
  ASSUME SessionInv, UNCHANGED << host, dev, events >>
  PROVE  Stream' /\ Fits' /\ Busy' = Busy /\ Expected' = Expected
BY DEF SessionInv, Stream, Fits, Busy, Expected, Seen, State

\* USB Manager ends the change it is making.
LEMMA ServiceChangesGood ==
  ASSUME OtgInv, SessionInv, GoodSession, ServiceChanges
  PROVE  SessionInv' /\ Hosting
<1>1. PICK in \in Outside : \E k \in ChangeEnded(Mem(in)) : service' = k.service /\ ctl' = k.ctl
  BY DEF ServiceChanges
<1> DEFINE m == Mem(in)
<1>2. PICK k \in ChangeEnded(m) : service' = k.service /\ ctl' = k.ctl
  BY <1>1
<1>3. m \in OtgMemory /\ m.ctl = ctl /\ m.service = service
  BY MemInSession
<1>4. service \in Service /\ ctl \in Control
  BY DEF OtgInv, WatcherTypes
<1> HIDE DEF m
<1>5. UNCHANGED << host, notes, bus, obs, idPin, otg, dev, events, message >> /\ panic' = NoFault
  BY DEF ServiceChanges, unchangedHost, outsideVars, Running
<1>6. ASSUME NEW st \in {"Started", "Idle"}, NEW r \in Results \ {KErrNoMemory},
             NEW what \in {"TryStart", "TryStop"},
             k = Complete(Changed(m, st), what, r),
             service.state = IF what = "TryStart" THEN "Starting" ELSE "Stopping",
             st = "Started" => r = KErrNone /\ what = "TryStart"
      PROVE  SessionInv' /\ Hosting
  <2>1. /\ ctl.active /\ ctl.iStatus = Pending /\ ctl.waits = what /\ State = "Undefined"
        /\ st = "Started" => service.id = iPersonalityId
    BY <1>6 DEF SessionInv, Served
  <2> DEFINE c == Changed(m, st)
             s == [state |-> st, id |-> IF st = "Started" THEN service.id ELSE None]
             d == [ctl EXCEPT !.iStatus = r]
  <2>2. c = [m EXCEPT !.service = s]
    BY <1>3 DEF Changed
  <2>3. c.ctl = ctl /\ c.service = s
    BY <1>3, <2>2 DEF OtgMemory
  <2>4. k = [m EXCEPT !.service = s, !.ctl = d]
    BY <1>3, <1>6, <2>1, <2>2, <2>3 DEF Complete, OtgMemory
  <2>5. service' = s /\ ctl' = d
    BY <1>2, <1>3, <2>4 DEF OtgMemory
  <2>6. /\ ctl'.active = ctl.active /\ ctl'.iStatus = r /\ ctl'.waits = ctl.waits
        /\ ctl'.iPersonalityId = ctl.iPersonalityId /\ service'.state = st
        /\ st = "Started" => service'.id = service.id
    BY <1>4, <2>5 DEF Control
  <2>7. r # Pending /\ r # KErrNoMemory
    BY <1>6 DEF Results, KErrNone, KErrGeneral, KErrNoMemory, Pending
  <2>8. Served'
    BY <1>5, <1>6, <2>1, <2>6, <2>7 DEF SessionInv, Served, State
  <2>9. Away => /\ ctl'.active => ctl'.iPersonalityId = None
                /\ service'.state = "Started" => ctl'.active
    BY <2>1, <2>6 DEF SessionInv, Unplugged
  <2> QED BY <1>5, <2>8, <2>9, ServiceGood
<1>7. CASE service.state = "Starting"
  <2>1. \/ k = Complete(Changed(m, "Started"), "TryStart", KErrNone)
        \/ \E st \in FailedStates, r \in StartResults \ {KErrNone} : k = Complete(Changed(m, st), "TryStart", r)
    BY <1>2, <1>3, <1>7 DEF ChangeEnded
  <2>2. KErrNone \in Results \ {KErrNoMemory}
    BY DEF Results, KErrNone, KErrGeneral, KErrNoMemory
  <2>3. FailedStates \subseteq {"Idle"} /\ StartResults \subseteq Results \ {KErrNoMemory}
    BY OtgAssumption DEF GoodSession
  <2> QED BY <1>6, <1>7, <2>1, <2>2, <2>3
<1>8. CASE service.state = "Stopping"
  <2>1. \E r \in StopResults : k = Complete(Changed(m, IF r = KErrNone THEN "Idle" ELSE "Started"), "TryStop", r)
    BY <1>2, <1>3, <1>8 DEF ChangeEnded
  <2>2. k = Complete(Changed(m, "Idle"), "TryStop", KErrNone)
    BY <2>1 DEF GoodSession
  <2>3. KErrNone \in Results \ {KErrNoMemory}
    BY DEF Results, KErrNone, KErrGeneral, KErrNoMemory
  <2> QED BY <1>6, <1>8, <2>2, <2>3
<1>9. service.state \in {"Starting", "Stopping"}
  BY <1>2, <1>3 DEF ChangeEnded
<1> QED BY <1>7, <1>8, <1>9

\* A plug.
LEMMA PlugGood ==
  ASSUME OtgInv, SessionInv, GoodSession, PlugIn \/ PlugOut
  PROVE  SessionInv' /\ Hosting
<1>1. /\ UNCHANGED << host, notes, ctl, service, panic, otg, dev, events, message >>
      /\ obs' = Alerted("IdPin")
  BY DEF PlugIn, PlugOut, watcherVars, unchangedHost
<1>2. /\ Observed' /\ obs'["IdPin"] = "Ready" /\ obs'["VBus"] = obs["VBus"]
      /\ obs'["OtgState"] = obs["OtgState"]
  BY <1>1, AlertedIs DEF Observers
<1>3. Running' /\ Served' /\ Noted' /\ State' = State /\ Hosting
  <2>1. notes.error = "Closed" => dev = "None"
    BY DEF SessionInv, Noted
  <2> QED BY <1>1, <2>1, WatcherRests
<1>4. Stream' /\ Fits' /\ Busy' = Busy
  BY <1>1, DeviceRests
<1>5. Told'
  BY <1>1, <1>3, <1>4 DEF SessionInv, Told
<1>6. bus'.up = bus.up /\ (bus'.wanted => bus.wanted) /\ Powered'
  <2>1. bus'.up = bus.up /\ (bus'.wanted => bus.wanted)
    BY DEF PlugIn, PlugOut, watcherVars, OtgInv, WatcherTypes, Bus
  <2> QED BY <1>1, <1>2, <1>3, <1>4, <2>1 DEF SessionInv, Powered
<1>7. CASE PlugIn
  <2>1. /\ ~idPin /\ idPin' = TRUE /\ obs["IdPin"] = "Waiting" /\ obs["OtgState"] = "Waiting"
        /\ ~bus.up /\ ~Busy /\ otg = "BIdle"
    BY <1>7, QuietInSession DEF PlugIn, Busy, Observers
  <2>2. State = "Undefined" /\ ~bus.wanted /\ message = None /\ Away
    BY <2>1 DEF SessionInv, Unplugged, Away
  <2>3. Unplugged'
    BY <1>1, <1>2, <1>3, <1>4, <1>6, <2>1, <2>2 DEF SessionInv, Unplugged, PluggedIn
  <2> QED BY <1>2, <1>3, <1>4, <1>5, <1>6, <2>3 DEF SessionInv
<1>8. CASE PlugOut
  <2>1. /\ idPin /\ idPin' = FALSE /\ message = None /\ obs["OtgState"] # "Ready" /\ ~bus'.wanted
    BY <1>8 DEF PlugOut, GoodSession, OtgInv, WatcherTypes, Bus
  <2>2. ~Away'
    BY <1>2, <2>1 DEF Away
  <2>3. Unplugged'
    BY <1>1, <1>2, <1>3, <1>4, <1>6, <2>1, <2>2 DEF SessionInv, Unplugged, PluggedIn
  <2> QED BY <1>2, <1>3, <1>4, <1>5, <1>6, <2>3 DEF SessionInv
<1> QED BY <1>7, <1>8

\* VBus.
LEMMA VBusGood ==
  ASSUME OtgInv, SessionInv, GoodSession, VBusRises \/ VBusFalls
  PROVE  SessionInv' /\ Hosting
<1>1. /\ UNCHANGED << host, notes, ctl, service, panic, idPin, otg, dev, events, message >>
      /\ obs' = Alerted("VBus") /\ bus'.wanted = bus.wanted
  BY DEF VBusRises, VBusFalls, outsideVars, unchangedHost, OtgInv, WatcherTypes, Bus
<1>2. /\ Observed' /\ obs'["VBus"] = "Ready" /\ obs'["IdPin"] = obs["IdPin"]
      /\ obs'["OtgState"] = obs["OtgState"]
  BY <1>1, AlertedIs DEF Observers
<1>3. Running' /\ Served' /\ Noted' /\ State' = State /\ Hosting
  <2>1. notes.error = "Closed" => dev = "None"
    BY DEF SessionInv, Noted
  <2> QED BY <1>1, <2>1, WatcherRests
<1>4. Stream' /\ Fits' /\ Busy' = Busy
  BY <1>1, DeviceRests
<1>5. Told'
  BY <1>1, <1>3, <1>4 DEF SessionInv, Told
<1>6. CASE VBusRises
  <2>1. ~bus.up /\ bus.wanted /\ idPin /\ ~Busy /\ bus'.up
    BY <1>6 DEF VBusRises, Busy, OtgInv, WatcherTypes, Bus
  <2>2. State \notin {"Undefined", "APeripheral", "DelayNotAttached"}
    BY <2>1 DEF SessionInv, Unplugged, PluggedIn, Powered
  <2>3. Unplugged'
    BY <1>1, <1>2, <1>3, <2>2 DEF SessionInv, Unplugged, Away, PluggedIn
  <2>4. Powered'
    BY <1>1, <1>2, <1>3, <1>4, <2>1, <2>2 DEF SessionInv, Powered
  <2> QED BY <1>2, <1>3, <1>4, <1>5, <2>3, <2>4 DEF SessionInv
<1>7. CASE VBusFalls
  <2>1. bus.up /\ ~bus.wanted /\ ~bus'.up
    BY <1>7 DEF VBusFalls, OtgInv, WatcherTypes, Bus
  <2>2. Unplugged'
    BY <1>1, <1>2, <1>3, <1>4, <2>1 DEF SessionInv, Unplugged, Away, PluggedIn
  <2>3. Powered'
    BY <1>1, <1>2, <1>3, <1>4, <2>1 DEF SessionInv, Powered
  <2> QED BY <1>2, <1>3, <1>4, <1>5, <2>2, <2>3 DEF SessionInv
<1> QED BY <1>6, <1>7

\* The OTG stack publishes a state.
LEMMA PublishGood ==
  ASSUME OtgInv, SessionInv, GoodSession, NEW st, Publish(st),
         bus'.up = bus.up, bus'.wanted => bus.wanted, st = "BIdle" => ~idPin,
         st = "APeripheral" => bus.up /\ idPin /\ ~Busy /\ message = None
  PROVE  SessionInv' /\ Hosting
<1>1. /\ UNCHANGED << host, notes, ctl, service, panic, idPin, dev, events, message >>
      /\ obs' = Alerted("OtgState") /\ otg' = st
  BY DEF Publish, unchangedHost
<1>2. /\ Observed' /\ obs'["OtgState"] = "Ready" /\ obs'["IdPin"] = obs["IdPin"]
      /\ obs'["VBus"] = obs["VBus"]
  BY <1>1, AlertedIs DEF Observers
<1>3. Running' /\ Served' /\ Noted' /\ State' = State /\ Hosting
  <2>1. notes.error = "Closed" => dev = "None"
    BY DEF SessionInv, Noted
  <2> QED BY <1>1, <2>1, WatcherRests
<1>4. Stream' /\ Fits' /\ Busy' = Busy
  BY <1>1, DeviceRests
<1>5. Told'
  BY <1>1, <1>3, <1>4, OtgAssumption DEF SessionInv, Told, AllMessages
<1>6. Unplugged'
  BY <1>1, <1>2, <1>3, <1>4 DEF SessionInv, Unplugged, Away, PluggedIn
<1>7. Powered'
  BY <1>1, <1>2, <1>3, <1>4 DEF SessionInv, Powered
<1> QED BY <1>2, <1>3, <1>4, <1>5, <1>6, <1>7 DEF SessionInv

\* The role that follows from the cable and the device, the one that is handed over and
\* taken back, and the error.
LEMMA RolesGood ==
  ASSUME OtgInv, SessionInv, GoodSession, OtgFollows \/ HandsOver \/ TakesBack \/ VBusError
  PROVE  SessionInv' /\ Hosting
<1>1. CASE OtgFollows
  <2>1. Role # "APeripheral" /\ (Role = "BIdle" => ~idPin)
    BY DEF Role
  <2> QED BY <1>1, <2>1, PublishGood DEF OtgFollows
<1>2. CASE HandsOver
  <2>1. ~Busy /\ message = None
    BY <1>2, QuietInSession DEF HandsOver, Busy
  <2> QED BY <1>2, <2>1, PublishGood DEF HandsOver
<1>3. CASE TakesBack
  BY <1>3, PublishGood DEF TakesBack
<1>4. CASE VBusError
  <2>1. bus'.up = bus.up /\ ~bus'.wanted
    BY <1>4 DEF VBusError, OtgInv, WatcherTypes, Bus
  <2> QED BY <1>4, <2>1, PublishGood DEF VBusError
<1> QED BY <1>1, <1>2, <1>3, <1>4

\* A device comes into a session that waits for one.
LEMMA DeviceAttachesGood ==
  ASSUME OtgInv, SessionInv, GoodSession, NEW e \in Attachments, DeviceAttaches(e)
  PROVE  SessionInv' /\ Hosting
<1>1. /\ UNCHANGED << host, notes, ctl, service, panic, bus, obs, idPin, otg, message >>
      /\ events' = << Event("Attachment", e) >>
      /\ dev' = CASE e.error = "None" -> "Loading"
                  [] e.error = "DetachedDuringDriverLoading" -> "None"
                  [] OTHER -> "Rejected"
      /\ bus.up /\ idPin /\ dev = "None" /\ events = << >> /\ otg \in {"AIdle", "AHost"}
  BY DEF DeviceAttaches, watcherVars
<1>2. /\ obs["VBus"] = "Waiting" /\ obs["OtgState"] = "Waiting" /\ message = None
      /\ notes.error # "Closed"
  BY QuietInSession DEF DeviceAttaches, Observers
<1>3. Running' /\ Served' /\ Noted' /\ State' = State /\ Hosting
  BY <1>1, <1>2, WatcherRests
<1>4. Observed'
  BY <1>1 DEF SessionInv, Observed
<1>5. Stream'
  <2>1. Len(events') = 1 /\ events'[1].kind = "Attachment" /\ events'[1].what = e
    BY <1>1 DEF Event
  <2>2. /\ dev' # "Bad" /\ (e.error # "None" => dev' \in {"None", "Rejected"})
        /\ e.error = "None" => dev' = "Loading"
    BY <1>1
  <2>3. \A i \in 1..Len(events') : i = 1
    BY <2>1
  <2> QED BY <2>1, <2>2, <2>3 DEF Stream
<1>6. Expected' = "Attachment" /\ Expected = "None" /\ ~Busy
  BY <1>1 DEF Expected, Busy, Event
<1>7. State \notin {"Undefined", "APeripheral"}
  BY <1>1, <1>2 DEF SessionInv, Unplugged, PluggedIn, Powered
<1>8. Fits'
  BY <1>3, <1>6, <1>7 DEF SessionInv, Fits
<1>9. Unplugged'
  BY <1>1, <1>3, <1>7 DEF SessionInv, Unplugged, Away, PluggedIn
<1>10. Told'
  BY <1>1, <1>2, OtgAssumption DEF Told, AllMessages
<1>11. Powered'
  BY <1>1, <1>2, <1>3 DEF SessionInv, Powered
<1> QED BY <1>3, <1>4, <1>5, <1>8, <1>9, <1>10, <1>11 DEF SessionInv

\* What has been reported of a device that has not gone.
LEMMA NotGone ==
  ASSUME OtgInv, SessionInv, dev # "None"
  PROVE  /\ \A i \in 1..Len(events) :
              /\ events[i].kind = "Attachment" =>
                   /\ i = 1
                   /\ events[i].what.error = "None" \/ (Len(events) = 1 /\ dev = "Rejected")
                   /\ events[i].what.error = "None" /\ Len(events) = 1 => dev = "Loading"
              /\ events[i].kind = "DriverLoad" => i = Len(events) /\ dev = "Loaded"
              /\ events[i].kind # "Detachment"
         /\ events \in Seq(Events) /\ notes.error # "Closed" /\ Busy
<1>1. events \in Seq(Events) /\ notes.error # "Closed" /\ Busy
  BY DEF OtgInv, OutsideTypes, SessionInv, Noted, Busy
<1>2. ASSUME NEW i \in 1..Len(events), events[i].kind = "DriverLoad", i # Len(events)
      PROVE  FALSE
  <2>1. i + 1 \in 1..Len(events)
    BY <1>1, <1>2
  <2>2. events[i + 1].kind = "Detachment"
    BY <1>2 DEF SessionInv, Stream
  <2> QED BY <2>1, <2>2 DEF SessionInv, Stream
<1> QED BY <1>1, <1>2 DEF SessionInv, Stream

\* Its next words come last, and change nothing that the state expects now.
LEMMA LastWord ==
  ASSUME OtgInv, SessionInv, dev # "None", NEW w \in Events, events' = Append(events, w)
  PROVE  /\ Len(events') = Len(events) + 1 /\ events'[Len(events) + 1] = w
         /\ \A i \in 1..Len(events) : events'[i] = events[i]
         /\ Busy' /\ Expected' = IF events = << >> THEN w.kind ELSE Expected
<1>1. events \in Seq(Events)
  BY DEF OtgInv, OutsideTypes
<1>2. /\ Len(events') = Len(events) + 1 /\ events'[Len(events) + 1] = w
      /\ \A i \in 1..Len(events) : events'[i] = events[i]
  BY <1>1
<1>3. \A s \in Seq(Events) : Len(s) > 0 <=> s # << >>
  OBVIOUS
<1>4. \A s \in Seq(Events) : s # << >> => Head(s) = s[1] /\ 1 \in 1..Len(s)
  OBVIOUS
<1>5. events' \in Seq(Events) /\ events' # << >>
  BY <1>1, <1>2, <1>3
<1>6. Head(events') = IF events = << >> THEN w ELSE Head(events)
  <2>1. CASE events = << >>
    BY <1>2, <1>4, <1>5, <2>1
  <2>2. CASE events # << >>
    BY <1>1, <1>2, <1>4, <1>5, <2>2
  <2> QED BY <2>1, <2>2
<1> QED BY <1>2, <1>5, <1>6 DEF Busy, Expected

\* Its drivers load, or it is pulled.
LEMMA DeviceGood ==
  ASSUME OtgInv, SessionInv, GoodSession,
         DeviceDetaches \/ \E r \in LoadResults : DriversLoaded(r)
  PROVE  SessionInv' /\ Hosting
<1>1. /\ UNCHANGED << host, notes, ctl, service, panic, bus, obs, idPin, otg, message >>
      /\ dev # "None"
  BY DEF DeviceDetaches, DriversLoaded, watcherVars
<1>2. notes.error # "Closed" /\ Busy
  BY <1>1, NotGone
<1>3. Running' /\ Served' /\ Noted' /\ State' = State /\ (Seen' <=> Seen) /\ Hosting
  BY <1>1, <1>2, WatcherRests
<1>4. Observed'
  BY <1>1 DEF SessionInv, Observed
<1>5. Unplugged' /\ Told' /\ Powered'
  <2>1. PluggedIn => State # "Undefined"
    BY <1>2 DEF SessionInv, Unplugged
  <2>2. Unplugged'
    BY <1>1, <1>3, <2>1 DEF SessionInv, Unplugged, Away, PluggedIn
  <2>3. Told'
    BY <1>1, <1>2 DEF SessionInv, Told
  <2>4. Powered'
    BY <1>1, <1>2, <1>3 DEF SessionInv, Powered
  <2> QED BY <2>2, <2>3, <2>4
<1>6. events \in Seq(Events) /\ dev \in {"Rejected", "Loading", "Loaded"}
  BY <1>1, NotGone DEF OtgInv, OutsideTypes, Devices, SessionInv, Stream
<1>7. CASE \E r \in LoadResults : DriversLoaded(r)
  <2>1. PICK r \in LoadResults : DriversLoaded(r)
    BY <1>7
  <2> DEFINE w == Event("DriverLoad", r)
  <2>2. /\ events' = Append(events, w) /\ dev = "Loading" /\ dev' = "Loaded"
        /\ w \in Events /\ w.kind = "DriverLoad"
    BY <2>1 DEF DriversLoaded, Events, Event
  <2> HIDE DEF w
  <2>3. /\ Len(events') = Len(events) + 1 /\ events'[Len(events) + 1] = w
        /\ \A i \in 1..Len(events) : events'[i] = events[i]
        /\ Expected' = IF events = << >> THEN "DriverLoad" ELSE Expected
    BY <1>1, <2>2, LastWord
  <2>4. \A i \in 1..Len(events) :
          events[i].kind = "Attachment" /\ i = 1 /\ events[i].what.error = "None"
    <3>1. \A i \in 1..Len(events) : events[i] \in Events
      BY <1>6
    <3>2. \A i \in 1..Len(events) : events[i].kind \in {"Attachment", "DriverLoad", "Detachment"}
      BY <3>1, EventTypes
    <3> QED BY <1>1, <2>2, <3>2, NotGone
  <2>5. Stream'
    <3>1. ASSUME NEW i \in 1..Len(events'), i # Len(events')
          PROVE  i \in 1..Len(events) /\ Len(events') # 1
      BY <1>6, <2>3, <3>1
    <3> QED BY <2>2, <2>3, <2>4, <3>1 DEF Stream
  <2>6. Fits'
    <3>1. CASE events = << >>
      <4>1. Expected = "Loading" /\ Expected' = "DriverLoad"
        BY <2>2, <2>3, <3>1 DEF Expected
      <4> QED BY <1>3, <4>1 DEF SessionInv, Fits
    <3>2. CASE events # << >>
      BY <1>3, <2>3, <3>2 DEF SessionInv, Fits
    <3> QED BY <3>1, <3>2
  <2> QED BY <1>3, <1>4, <1>5, <2>5, <2>6 DEF SessionInv
<1>8. CASE DeviceDetaches /\ dev = "Rejected"
  <2>1. events' = events /\ dev' = "None"
    BY <1>8 DEF DeviceDetaches
  <2>2. Stream'
    BY <1>1, <1>8, <2>1, NotGone DEF Stream
  <2>3. Fits'
    <3>1. CASE events = << >>
      <4>1. Expected = "Rejected" /\ Expected' = "None"
        BY <1>8, <2>1, <3>1 DEF Expected
      <4> QED BY <1>3, <4>1 DEF SessionInv, Fits
    <3>2. CASE events # << >>
      <4>1. Expected' = Expected
        BY <2>1, <3>2 DEF Expected
      <4> QED BY <1>3, <4>1 DEF SessionInv, Fits
    <3> QED BY <3>1, <3>2
  <2> QED BY <1>3, <1>4, <1>5, <2>2, <2>3 DEF SessionInv
<1>9. CASE DeviceDetaches /\ dev \in {"Loading", "Loaded"}
  <2> DEFINE w == Event("Detachment", None)
  <2>1. /\ events' = Append(events, w) /\ dev' = "None" /\ w \in Events /\ w.kind = "Detachment"
    BY <1>9 DEF DeviceDetaches, Events, Event
  <2> HIDE DEF w
  <2>2. /\ Len(events') = Len(events) + 1 /\ events'[Len(events) + 1] = w
        /\ \A i \in 1..Len(events) : events'[i] = events[i]
        /\ Expected' = IF events = << >> THEN "Detachment" ELSE Expected
    BY <1>1, <2>1, LastWord
  <2>3. \A i \in 1..Len(events) :
          /\ events[i].kind = "Attachment" => i = 1 /\ events[i].what.error = "None"
          /\ events[i].kind = "DriverLoad" => i = Len(events)
          /\ events[i].kind # "Detachment"
    BY <1>1, <1>9, NotGone
  <2>4. Stream'
    <3>1. ASSUME NEW i \in 1..Len(events'), i # Len(events')
          PROVE  i \in 1..Len(events) /\ Len(events') # 1
      BY <1>6, <2>2, <3>1
    <3> QED BY <2>1, <2>2, <2>3, <3>1 DEF Stream
  <2>5. Fits'
    <3>1. CASE events = << >>
      <4>1. Expected \in {"Loading", "Loaded"} /\ Expected' = "Detachment"
        BY <1>9, <2>2, <3>1 DEF Expected
      <4> QED BY <1>3, <4>1 DEF SessionInv, Fits
    <3>2. CASE events # << >>
      BY <1>3, <2>2, <3>2 DEF SessionInv, Fits
    <3> QED BY <3>1, <3>2
  <2> QED BY <1>3, <1>4, <1>5, <2>4, <2>5 DEF SessionInv
<1> QED BY <1>6, <1>7, <1>8, <1>9

\* A message comes about a cable that is in.
LEMMA MessageArrivesGood ==
  ASSUME OtgInv, SessionInv, GoodSession, NEW k \in MessageKinds, MessageArrives(k)
  PROVE  SessionInv' /\ Hosting
<1>1. /\ UNCHANGED << host, notes, ctl, service, panic, bus, obs, idPin, otg, events >>
      /\ message' = k /\ idPin /\ k # "BadDeviceAttached"
      /\ dev' = IF k = "BadDeviceDetached" THEN "None" ELSE dev
      /\ k = "BadHubPosition" => bus.up /\ dev = "None" /\ events = << >>
      /\ k \in {"SrpReceived", "RequestSession"} => otg = "AIdle"
      /\ k = "BadDeviceDetached" => dev = "Bad"
  BY DEF MessageArrives, watcherVars, GoodSession
<1>2. k # "BadDeviceDetached" /\ dev' = dev
  BY <1>1 DEF SessionInv, Stream
<1>3. Running' /\ Served' /\ Noted' /\ State' = State /\ Hosting
  <2>1. notes.error = "Closed" => dev = "None"
    BY DEF SessionInv, Noted
  <2> QED BY <1>1, <1>2, <2>1, WatcherRests
<1>4. Stream' /\ Fits' /\ Busy' = Busy
  BY <1>1, <1>2, DeviceRests
<1>5. Observed'
  BY <1>1 DEF SessionInv, Observed
<1>6. Unplugged'
  BY <1>1, <1>3, <1>4 DEF SessionInv, Unplugged, Away, PluggedIn
<1>7. Told'
  <2>1. k = "BadHubPosition" => ~Busy /\ State # "Undefined"
    BY <1>1 DEF Busy, SessionInv, Unplugged, PluggedIn
  <2> QED BY <1>1, <1>2, <1>3, <1>4, <2>1 DEF Told
<1>8. Powered'
  BY <1>1, <1>3, <1>4 DEF SessionInv, Powered
<1> QED BY <1>3, <1>4, <1>5, <1>6, <1>7, <1>8 DEF SessionInv

\* A timer elapses, or the user closes a note.
LEMMA TimesGood ==
  ASSUME OtgInv, SessionInv, GoodSession, TimerElapses \/ UserClosesNote
  PROVE  SessionInv' /\ Hosting
<1>1. UNCHANGED << ctl, service, panic, bus, obs, idPin, otg, dev, events, message >>
  BY DEF TimerElapses, UserClosesNote, outsideVars
<1>2. /\ State' = State /\ host'.iDeviceAttached = host.iDeviceAttached
      /\ host'.iWhat = host.iWhat /\ Prompt(host')
  <2>1. CASE TimerElapses
    <3>1. PICK t \in host.timers \ host.elapsed : host' = [host EXCEPT !.elapsed = @ \cup {t}]
      BY <2>1 DEF TimerElapses
    <3>2. host \in Host /\ Prompt(host)
      BY DEF OtgInv, WatcherTypes, SessionInv, Noted
    <3> QED BY <3>1, <3>2 DEF State, Host, Prompt
  <2>2. CASE UserClosesNote
    BY <2>2 DEF UserClosesNote, State, SessionInv, Noted
  <2> QED BY <2>1, <2>2
<1>3. /\ notes'.error # "Hidden" => notes.error # "Hidden"
      /\ notes'.error = "Closed" => dev = "None"
  <2>1. CASE TimerElapses
    BY <2>1 DEF TimerElapses, SessionInv, Noted
  <2>2. CASE UserClosesNote
    <3>1. PICK n \in {"warning", "error"} :
            /\ notes[n] = "Shown" /\ notes' = [notes EXCEPT ![n] = "Closed"]
            /\ n = "error" => dev \in {"None", "Bad"}
      BY <2>2 DEF UserClosesNote, GoodSession
    <3>2. CASE n = "error"
      <4>1. dev = "None"
        BY <3>1, <3>2 DEF SessionInv, Stream
      <4> QED BY <3>1, <3>2, <4>1
    <3>3. CASE n = "warning"
      <4>1. notes \in [{"warning", "error"} -> NoteStates]
        BY DEF OtgInv, WatcherTypes, Notes
      <4>2. notes'.error = notes.error
        BY <3>1, <3>3 DEF OtgInv, WatcherTypes, Notes
      <4> QED BY <4>2 DEF SessionInv, Noted
    <3> QED BY <3>1, <3>2, <3>3
  <2> QED BY <2>1, <2>2
<1>4. Running' /\ Observed' /\ Served' /\ Unplugged' /\ Told' /\ Stream'
  BY <1>1, <1>2 DEF SessionInv, Running, Observed, Served, Unplugged, Away, PluggedIn, Busy, Told, Stream
<1>5. Noted'
  BY <1>1, <1>2, <1>3 DEF SessionInv, Noted
<1>6. Fits' /\ Powered'
  BY <1>1, <1>2 DEF SessionInv, Fits, Expected, Seen, Powered, Busy
<1> QED BY <1>2, <1>4, <1>5, <1>6 DEF SessionInv, Hosting

\* ConstructL: the plug may be in already.
LEMMA InitInSession ==
  ASSUME Init, GoodSession
  PROVE  SessionInv
<1>1. PICK in \in Outside :
        LET new == Constructed(in, idPin)
            m   == IF idPin THEN StartSession(new) ELSE new
        IN /\ host = m.host /\ notes = m.notes /\ connecting = m.connecting
           /\ published = m.published /\ ctl = m.ctl /\ asked = m.asked
           /\ panic = m.panic /\ service = m.service /\ bus = m.bus
  BY DEF Init
<1> DEFINE new == Constructed(in, idPin)
           m == IF idPin THEN StartSession(new) ELSE new
<1>2. /\ new \in OtgMemory /\ Granted(new.in) /\ new.service = [state |-> "Idle", id |-> None]
      /\ new.ctl = InitControl /\ new.host = InitHost /\ new.panic = NoFault
      /\ new.bus = [up |-> FALSE, wanted |-> FALSE] /\ new.notes.error = "Hidden"
  <2>1. in \in Answers /\ idPin \in BOOLEAN /\ Granted(in)
    BY OtgAssumption DEF Init, GoodSession
  <2>2. InitHost \in Host
    BY DEF InitHost, Host, HostStates
  <2>3. InitControl \in Control
    BY DEF InitControl, Control, Results
  <2>4. /\ [warning |-> "Hidden", error |-> "Hidden"] \in Notes
        /\ [state |-> "Idle", id |-> None] \in Service
        /\ [up |-> FALSE, wanted |-> FALSE] \in Bus /\ NoFault \in Panics
    BY DEF Notes, NoteStates, Service, ServiceStates, Bus, Panics
  <2> QED BY <2>1, <2>2, <2>3, <2>4 DEF Constructed, OtgMemory
<1>3. /\ host = m.host /\ notes = m.notes /\ ctl = m.ctl
      /\ panic = m.panic /\ service = m.service /\ bus = m.bus
  BY <1>1
<1> HIDE DEF new
<1>4. Unanswered(new)
  BY <1>2 DEF Unanswered, InitControl
<1>5. /\ obs = [o \in Observers |-> "Waiting"] /\ otg = (IF idPin THEN "AIdle" ELSE "BIdle")
      /\ dev = "None" /\ events = << >> /\ message = None /\ idPin \in BOOLEAN
  BY DEF Init
<1>6. /\ host = InitHost /\ notes.error = "Hidden" /\ panic = NoFault
      /\ bus = [up |-> FALSE, wanted |-> FALSE]
      /\ IF idPin THEN /\ ctl.active /\ ctl.iStatus = Pending /\ ctl.waits = "TryStart"
                       /\ ctl.iPersonalityId = iPersonalityId /\ service.state = "Starting"
                       /\ service.id = iPersonalityId
                  ELSE ctl = InitControl /\ service.state = "Idle"
  <2>1. CASE idPin
    <3>1. /\ Requests(new, StartSession(new), "TryStart", "Starting", iPersonalityId)
          /\ StartSession(new).service.id = iPersonalityId
      BY <1>2, <1>4, SessionStarts
    <3> QED BY <1>2, <1>3, <2>1, <3>1 DEF Requests, Rests
  <2>2. CASE ~idPin
    BY <1>2, <1>3, <2>2
  <2> QED BY <2>1, <2>2
<1> HIDE DEF m
<1>7. State = "Undefined" /\ Prompt(host) /\ ~Busy /\ Expected = "None"
  BY <1>5, <1>6 DEF State, InitHost, Prompt, Busy, Expected
<1>8. iPersonalityId # None /\ None # OtherPersonality /\ iPersonalityId # OtherPersonality
  BY PersonalityAssumption DEF Personalities
<1>9. Running /\ Observed /\ Noted /\ Stream
  BY <1>5, <1>6, <1>7 DEF Running, Observed, Observers, Noted, Stream
<1>10. Served
  BY <1>6, <1>7, <1>8 DEF Served, InitControl, Pending, KErrNone, KErrNoMemory
<1>11. Unplugged
  BY <1>5, <1>6, <1>7 DEF Unplugged, Away, PluggedIn, Observers, InitControl
<1>12. Told /\ Fits /\ Powered
  BY <1>5, <1>6, <1>7, OtgAssumption DEF Told, AllMessages, Fits, AnyWord, Powered
<1> QED BY <1>9, <1>10, <1>11, <1>12 DEF SessionInv

\* Every step of the system.
LEMMA NextInSession ==
  ASSUME OtgInv, SessionInv, GoodSession, [Next]_vars
  PROVE  SessionInv' /\ Hosting
<1>1. CASE RunServiceControl
  BY <1>1, RunServiceControlGood
<1>2. CASE RunIdPin
  BY <1>2, RunIdPinGood
<1>3. CASE RunVBus
  BY <1>3, RunVBusGood
<1>4. CASE RunOtgState
  BY <1>4, RunOtgStateGood
<1>5. CASE RunHostEvent
  BY <1>5, RunHostEventGood
<1>6. CASE RunMessage
  BY <1>6, RunMessageGood
<1>7. CASE RunNote
  BY <1>7, RunNoteGood
<1>8. CASE \E t \in Timers : RunTimer(t)
  BY <1>8, RunTimerGood
<1>9. CASE ServiceChanges
  BY <1>9, ServiceChangesGood
<1>10. CASE OtherClient \/ ObserverFails
  BY <1>10 DEF OtherClient, ObserverFails, GoodSession
<1>11. CASE PlugIn \/ PlugOut
  BY <1>11, PlugGood
<1>12. CASE VBusRises \/ VBusFalls
  BY <1>12, VBusGood
<1>13. CASE \E e \in Attachments : DeviceAttaches(e)
  BY <1>13, DeviceAttachesGood
<1>14. CASE DeviceDetaches \/ \E r \in LoadResults : DriversLoaded(r)
  BY <1>14, DeviceGood
<1>15. CASE OtgFollows \/ HandsOver \/ TakesBack \/ VBusError
  BY <1>15, RolesGood
<1>16. CASE \E k \in MessageKinds : MessageArrives(k)
  BY <1>16, MessageArrivesGood
<1>17. CASE TimerElapses \/ UserClosesNote
  BY <1>17, TimesGood
<1>18. CASE UNCHANGED vars
  BY <1>18 DEF vars, watcherVars, outsideVars, SessionInv, Running, Observed, Served, Unplugged,
               Away, PluggedIn, Busy, Noted, Told, Stream, Fits, Expected, Seen, Powered, State, Hosting
<1> QED BY <1>1, <1>2, <1>3, <1>4, <1>5, <1>6, <1>7, <1>8, <1>9, <1>10, <1>11, <1>12, <1>13,
           <1>14, <1>15, <1>16, <1>17, <1>18 DEF Next, Scheduler, World, Stack

-----------------------------------------------------------------------------
\* In a session in which nothing fails, what the device and the OTG stack report finds the
\* host state machine in a state that fits it, in every state of every behaviour.
THEOREM SessionInvariant ==
  ASSUME GoodSession
  PROVE  Spec => []SessionInv
<1>1. Init => SessionInv
  BY InitInSession
<1>2. OtgInv /\ SessionInv /\ [Next]_vars => SessionInv'
  BY NextInSession
<1> QED BY <1>1, <1>2, OtgInvariant, PTL DEF Spec

\* CUsbState panics for an event that a state does not expect: in such a session none
\* comes, whatever the order in which plug, device, VBus, roles and service change.
THEOREM NothingUnexpected ==
  ASSUME GoodSession
  PROVE  Spec => []NeverPanics
<1>1. SessionInv => NeverPanics
  BY DEF SessionInv, Running, NeverPanics
<1> QED BY <1>1, SessionInvariant, PTL

\* CUsbOtgWatcher::IdPinOffL leaves no host behind, and none of the late results of what
\* was going on makes one while the plug is out.
THEOREM UnpluggedHolds ==
  ASSUME GoodSession
  PROVE  Spec => []UnpluggedIsUndefined
<1>1. SessionInv => UnpluggedIsUndefined
  BY DEF SessionInv, Unplugged, Away, State, UnpluggedIsUndefined
<1> QED BY <1>1, SessionInvariant, PTL

\* CUsbStateHostAHost is entered only from CUsbStateHostAInitiate, for a device that was
\* reported attached since that state was entered, and published as a peripheral then.
THEOREM HostsAreAttached ==
  ASSUME GoodSession
  PROVE  Spec => HostsOnlyAttached
<1>1. OtgInv /\ SessionInv /\ [Next]_vars =>
        [host.iHostState # "AHost" /\ host'.iHostState = "AHost"
           => host.iHostState = "AInitiate" /\ host.iDeviceAttached]_vars
  BY NextInSession DEF Hosting, Seen, State
<1> QED BY <1>1, OtgInvariant, SessionInvariant, PTL DEF Spec, HostsOnlyAttached

=============================================================================
