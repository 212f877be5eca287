-------------------------- MODULE IndicatorHandler --------------------------
(***************************************************************************)
(* CUsbIndicatorHandler: the "connecting" (addressed) and the "connected"  *)
(* indicator of the device side, driven by the changes of the USB device   *)
(* state.  Suspending keeps the indicators; resuming to the state left     *)
(* before the suspension must not show them again.                         *)
(*                                                                         *)
(* Operators on m.ind.  External: the indicator framework, assumed to do   *)
(* what it is asked.                                                       *)
(***************************************************************************)

DeviceStates == { "Undefined", "Attached", "Powered", "Default",
                  "Address", "Configured", "Suspended" }

\* addressed, connected: iAddressedIndicatorActive, iConnectedIndicatorActive
Indicator == [ addressed : BOOLEAN, connected : BOOLEAN,
               iDevStateB4Suspend : DeviceStates ]

InitIndicator == [ addressed |-> FALSE, connected |-> FALSE,
                   iDevStateB4Suspend |-> "Undefined" ]

ShowConnected(i, on) == [i EXCEPT !.connected = on]
ShowAddressed(i, on) == [i EXCEPT !.addressed = on]

\* Mutant: the old state is not looked at.
ResumesToAny(i, old, s) == i.iDevStateB4Suspend = s

\* The state change is a return from a suspension entered in state s.
ResumesTo(i, old, s) == old = "Suspended" /\ i.iDevStateB4Suspend = s

\* HandleDeviceStateChangeL
IndicatorChange(i, old, new) ==
  CASE new = "Address" ->
         LET down == old = "Configured" \/ ResumesTo(i, old, "Configured")
             j == IF down THEN ShowConnected(i, FALSE) ELSE i
         IN IF ResumesTo(i, old, "Address") THEN j ELSE ShowAddressed(j, TRUE)
    [] new = "Configured" ->
         IF ResumesTo(i, old, "Configured") THEN i
         ELSE ShowConnected(ShowAddressed(i, FALSE), TRUE)
    [] new = "Undefined" -> ShowConnected(ShowAddressed(i, FALSE), FALSE)
    [] new = "Suspended" -> [i EXCEPT !.iDevStateB4Suspend = old]
    [] new \in {"Attached", "Powered", "Default"} -> ShowConnected(i, FALSE)

=============================================================================
