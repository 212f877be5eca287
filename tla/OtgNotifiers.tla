---------------------------- MODULE OtgNotifiers ----------------------------
(***************************************************************************)
(* The notes and the connecting indicator of usbotgwatcher                 *)
(* (CUsbNotifManager, CUsbNoteNotifier, CUsbIndicatorNotifier), and the    *)
(* vocabulary its parts share.                                             *)
(*                                                                         *)
(* A memory m holds the members of the watcher's objects and what they     *)
(* read and write outside: m.host (the host state machine), m.notes,       *)
(* m.connecting, m.published, m.ctl (CUsbServiceControl), m.service (USB   *)
(* Manager), m.bus, m.idPin, and m.in (the answers this handler gets).     *)
(***************************************************************************)
EXTENDS ActiveObjects, Naturals, Sequences

CONSTANT None   \* no personality, no timer

HostStates == { "Undefined", "AInitiate", "AHost", "APeripheral",
                "DelayAttached", "DelayNotAttached", "HandleDropping" }

NoteStates == { "Hidden", "Shown", "Closed" }   \* Closed: its RunL is to come
Notes == [ warning : NoteStates, error : NoteStates ]

\* A warning nobody waits for is replaced; an error note is waited for.
ShowWarning(m) == [m EXCEPT !.notes.warning = "Shown"]
ShowError(m)   == [m EXCEPT !.notes = [warning |-> "Hidden", error |-> "Shown"]]

ToggleConnecting(m, on) == [m EXCEPT !.connecting = on]

CloseAllNotifiers(m) ==
  ToggleConnecting([m EXCEPT !.notes = [warning |-> "Hidden", error |-> "Hidden"]], FALSE)

\* Mutant: the drivers do not end it.
SetIndicatorAlways(m) ==
  IF ~m.idPin \/ m.host.iHostState = "APeripheral" THEN m ELSE ToggleConnecting(m, m.bus.up)

\* The connecting indicator is on between VBus and the loading of the drivers.
SetIndicator(m) ==
  IF ~m.idPin \/ m.host.iHostState = "APeripheral" THEN m
  ELSE ToggleConnecting(m, m.bus.up /\ m.host.iHostState # "AHost")
=============================================================================
