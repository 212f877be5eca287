------------------------- MODULE PersonalityHandler -------------------------
(***************************************************************************)
(* CUsbActivePersonalityHandler: starts and stops one personality plugin   *)
(* and, through USB Manager, the personality itself, on behalf of          *)
(* CUsbWatcher.  It holds a pointer to the watcher's request status and    *)
(* completes it when the operation it was asked for ends.                  *)
(*                                                                         *)
(* Every method is an operator from the memory of the process before the   *)
(* call to the memory after it.  The memory m is a record; this module     *)
(* touches m.h (the handler), m.w.iStatus (the request status the handler  *)
(* completes), m.fault, and reads m.w.iPersonalityId through the handler's *)
(* reference to it.  m.in holds what the outside answers during the step.  *)
(*                                                                         *)
(* External: the plugin (CUsbPersonality, an API with several              *)
(* implementations) and USB Manager (RUsb), which answer through iStatus.  *)
(* Not modelled: error queries shown by RunError and the serial number,    *)
(* which nothing here reads back.                                          *)
(***************************************************************************)
EXTENDS ActiveObjects, FiniteSets

CONSTANTS
  Personalities,       \* ids the installed plugins support
  None,                \* "no personality": also KUsbWatcherSelectedPersonalityNone
  DeferredCalls,       \* plugin calls that may be answered later than in the call
  ConfirmAnswers,      \* answers a plugin may give to ConfirmPersonalityUnload
  TryStartAnswers,     \* answers USB Manager may give to TryStart
  NullCompletionFaults \* does completing a NULL request status end the process?

PluginCalls == { "PrepareStart", "FinishStart", "PrepareStop", "FinishStop" }

ASSUME HandlerAssumption ==
  /\ None \notin Personalities
  /\ DeferredCalls \subseteq PluginCalls
  /\ ConfirmAnswers \subseteq Codes
  /\ TryStartAnswers \subseteq Codes
  /\ NullCompletionFaults \in BOOLEAN

HandlerStates == { "Idle", "PrepareStart", "StartUsb", "FinishStart",
                   "Started", "PrepareStop", "StopUsb", "FinishStop" }

\* iRequestStatus is TRUE when the pointer is not NULL; plugin is
\* iCurrentPersonalityHandler, named by the personality it was created for; usb is
\* the personality USB Manager runs for us: TryStart replaces what it ran, one that
\* fails or is undone leaves nothing, and so does a stop that is over; undefined:
\* iDeviceState is EUsbDeviceStateUndefined; cableNote: the cable-connected query is
\* shown or queued for the user.
Handler == [ iState : HandlerStates, active : BOOLEAN, iStatus : Statuses,
             plugin : Personalities \cup {None}, iRequestStatus : BOOLEAN,
             usb : Personalities \cup {None},
             isFailureCleanup : BOOLEAN, undefined : BOOLEAN, cableNote : BOOLEAN ]

InitHandler == [ iState |-> "Idle", active |-> FALSE, iStatus |-> KErrNone,
                 plugin |-> None, iRequestStatus |-> FALSE, usb |-> None,
                 isFailureCleanup |-> FALSE, undefined |-> TRUE, cableNote |-> FALSE ]

-----------------------------------------------------------------------------
\* CActive::SetActive() of the handler with status st.
HandlerActive(m, st) ==
  [m EXCEPT !.h.active = TRUE, !.h.iStatus = st,
            !.fault = IF m.h.active THEN Raise(@, SetActiveTwice) ELSE @]

\* A plugin call: answered at once with KErrNone, or later.
PluginStatus(call) == IF call \in DeferredCalls THEN Pending ELSE KErrNone

\* User::RequestComplete(iRequestStatus, code): nulls the pointer.
CompleteRequest(m, code) ==
  IF m.h.iRequestStatus
    THEN [m EXCEPT !.w.iStatus = code, !.h.iRequestStatus = FALSE]
    ELSE [m EXCEPT !.fault = IF NullCompletionFaults THEN Raise(@, NullRequest) ELSE @]

\* Mutant: the status is set to pending and the pointer is not kept.
TakeRequestLost(m) == [m EXCEPT !.w.iStatus = Pending]

\* aStatus = KRequestPending; iRequestStatus = &aStatus
TakeRequest(m) == [m EXCEPT !.w.iStatus = Pending, !.h.iRequestStatus = TRUE]

\* Personality notifier: every note and query is taken off the screen.
CancelAllNotes(m) == [m EXCEPT !.h.cableNote = FALSE]

\* ConfirmPersonalityUnload: asks the plugin of a started personality.
ConfirmPersonalityUnload(m) ==
  LET t == TakeRequest(m) IN
  CASE m.h.iState # "Started" -> HandlerActive(t, KErrGeneral)
    [] m.h.iState = "Started" /\ m.h.plugin # None ->
         HandlerActive(CancelAllNotes(t), Pending)
    [] OTHER -> HandlerActive(CancelAllNotes(t), KErrNone)

\* StartPersonality: refuses while a plugin exists; creating one may fail.
HandlerStart(m) ==
  LET t == CancelAllNotes(TakeRequest(m)) IN
  IF m.h.plugin # None \/ m.in.plugin # KErrNone \/ m.w.iPersonalityId \notin Personalities
    THEN CompleteRequest(t, KErrGeneral)
    ELSE HandlerActive([t EXCEPT !.h.plugin = m.w.iPersonalityId,
                                 !.h.iState = "PrepareStart",
                                 !.h.isFailureCleanup = FALSE],
                       PluginStatus("PrepareStart"))

\* The plugin is asked to prepare the stop; without one the step is immediate.
PrepareStop(m, cleanup) ==
  LET t == [m EXCEPT !.h.iState = "PrepareStop", !.h.isFailureCleanup = cleanup]
  IN IF m.h.plugin # None
       THEN HandlerActive(t, PluginStatus("PrepareStop"))
       ELSE IF cleanup THEN t ELSE HandlerActive(t, KErrNone)

HandlerStop(m) == PrepareStop(TakeRequest(m), FALSE)

\* StateChangeNotify, the part the handler keeps for itself: iDeviceState and
\* the cable-connected query, shown on Configured outside charging mode.
HandlerStateChange(m, old, new) ==
  [m EXCEPT !.h.undefined = (new = "Undefined"),
            !.h.cableNote = IF new = "Configured" /\ old # "Suspended"
                                /\ m.global # "Charging" THEN TRUE ELSE @]

CancelCableConnectedNotifier(m) == [m EXCEPT !.h.cableNote = FALSE]

-----------------------------------------------------------------------------
\* RunError, which RunL reaches by leaving in StartUsb: the plugin is told to
\* prepare a stop, and the start is reported as failed straight away.
HandlerRunError(m, error) == CompleteRequest(PrepareStop(m, TRUE), error)

\* RunL, after the scheduler has cleared the active flag: d is that memory.
HandlerRunL(m) ==
  LET ret == m.h.iStatus
      d   == [m EXCEPT !.h.active = FALSE]
      to(s, st) == HandlerActive([d EXCEPT !.h.iState = s], st)
      done(n)   == CompleteRequest(n, ret)
  IN CASE m.h.iState = "Idle" -> d
       [] m.h.iState = "PrepareStart" ->
            [to("StartUsb", Pending) EXCEPT !.h.usb = m.w.iPersonalityId]
       [] m.h.iState = "StartUsb" ->
            IF ret # KErrNone THEN HandlerRunError([d EXCEPT !.h.usb = None], ret)
            ELSE to("FinishStart", PluginStatus("FinishStart"))
       [] m.h.iState = "FinishStart" -> [done(d) EXCEPT !.h.iState = "Started"]
       [] m.h.iState = "PrepareStop" -> to("StopUsb", Pending)
       [] m.h.iState = "StopUsb" -> to("FinishStop", PluginStatus("FinishStop"))
       [] m.h.iState = "FinishStop" ->
            LET f == [d EXCEPT !.h.plugin = None, !.h.usb = None, !.h.iState = "Idle",
                               !.h.cableNote = @ /\ ~m.h.undefined]
            IN IF m.h.isFailureCleanup THEN f ELSE done(f)
       [] m.h.iState = "Started" -> done(d)

\* The states in which a cancelled operation ends with USB Manager running nothing:
\* the start is cancelled or undone, or the stop it was told goes on without us.
\* Before TryStart and before TryStop DoCancel says nothing to USB Manager.
UsbEnds == {"StartUsb", "FinishStart", "StopUsb", "FinishStop"}

\* DoCancel, what it makes of the handler itself: an unload confirmation leaves the
\* personality started; anything else drops the plugin, in PrepareStop with the
\* personality still up.
Cancelled(h) ==
  LET started == h.iState = "Started" IN
  [h EXCEPT !.active = FALSE,
            !.plugin = IF started THEN @ ELSE None,
            !.usb = IF h.iState \in UsbEnds THEN None ELSE @,
            !.iState = IF started THEN @ ELSE "Idle"]

\* Mutants of HandlerCancel: the plugin is not deleted; USB is never stopped; the
\* request of the watcher is not completed.
HandlerCancelKeepsPlugin(m) ==
  IF ~m.h.active THEN m
  ELSE CompleteRequest([m EXCEPT !.h = [Cancelled(@) EXCEPT !.plugin = m.h.plugin]], KErrCancel)

HandlerCancelLeavesUsb(m) ==
  IF ~m.h.active THEN m
  ELSE CompleteRequest([m EXCEPT !.h = [Cancelled(@) EXCEPT !.usb = m.h.usb]], KErrCancel)

HandlerCancelSilent(m) == IF ~m.h.active THEN m ELSE [m EXCEPT !.h = Cancelled(@)]

\* CActive::Cancel() of the handler, with its DoCancel.  In FinishStart DoCancel
\* stops USB and calls SetActive() while the object is still active.
HandlerCancel(m) ==
  IF ~m.h.active THEN m ELSE
  LET twice == m.h.iState = "FinishStart"
      d == [m EXCEPT !.h = Cancelled(m.h),
                     !.fault = IF twice THEN Raise(m.fault, SetActiveTwice) ELSE m.fault]
  IN CompleteRequest(CancelAllNotes(d), KErrCancel)

=============================================================================
