--------------------------- MODULE OtgProperties ----------------------------
(* What is checked of usbotgwatcher. *)
EXTENDS OtgSystem

\* Type invariant of the watcher's objects and of what is outside.
TypeOK ==
  /\ host \in Host /\ notes \in Notes
  /\ connecting \in BOOLEAN /\ published \in BOOLEAN
  /\ ctl \in Control /\ asked \in {"None", "Start", "Stop"}
  /\ panic \in Panics
  /\ obs \in [Observers -> {"Waiting", "Ready", "Failed", "Deaf"}]
  /\ service \in Service /\ bus \in Bus /\ idPin \in BOOLEAN
  /\ otg \in OtgStates /\ dev \in Devices
  /\ events \in Seq(Events) /\ message \in AllMessages \cup {None}
  /\ left \in [plugs : 0..MaxPlugs, troubles : 0..MaxTroubles]

\* A state that waits is never without its timer, and no timer outlives the
\* state that started it to elapse in another one (JustBeforeLeavingThisStateL).
TimersFollowState ==
  /\ "Attachment" \in host.timers <=> host.iHostState = "AInitiate" /\ ~host.iDeviceAttached
  /\ "DriversNotFound" \in host.timers <=> host.iHostState = "DelayAttached"
  /\ "TooMuchPower" \in host.timers <=> host.iHostState = "DelayNotAttached"

\* The connecting indicator is on from VBus to the drivers, whatever closes the
\* notes in between (CUsbIndicatorNotifier subscribes to VBus and to the state).
IndicatorTracksVBus ==
  Running /\ idPin /\ obs["VBus"] = "Waiting" /\ obs["IdPin"] = "Waiting" /\ host.iHostState # "APeripheral"
    => (connecting <=> bus.up /\ host.iHostState # "AHost")

\* Nothing the OTG stack reports comes in a state that panics for it (CUsbState).
NeverPanics == panic \in {NoFault, "CanNotStopUsbServices"}

\* Without the A-plug there is no host: whatever was going on when it was pulled
\* out, its late results lead to no other state (CUsbOtgWatcher::IdPinOffL).
UnpluggedIsUndefined ==
  Running /\ ~idPin /\ obs["IdPin"] = "Waiting" => host.iHostState = "Undefined"

\* A peripheral is announced only for a device that was reported attached since
\* the last attempt began, never for the drivers of one that is gone.
HostsOnlyAttached ==
  [][host.iHostState # "AHost" /\ host'.iHostState = "AHost"
       => host.iHostState = "AInitiate" /\ host.iDeviceAttached]_vars

\* "Stops service": once the watcher has asked for a stop, its service control
\* does not start the service again (cusbservicecontrol.h).
StopHolds ==
  [][asked' = "Stop" /\ service'.state = "Starting" /\ service.state # "Starting"
       => service'.id # iPersonalityId]_vars

\* A cable that is out for good leaves nothing behind: the service is stopped.
UnplugStops == (<>[]~idPin) => <>[](service.state = "Idle" /\ host.iHostState = "Undefined")

\* The peripheral that is gone does not stay announced.
GoneIsNotHosted == (published /\ dev = "None") ~> (~published \/ dev # "None")

\* A delay state is left again: its timer elapses, whatever the device does.
Delays == {"DelayAttached", "DelayNotAttached"}
DelaysEnd == (host.iHostState \in Delays) ~> (host.iHostState \notin Delays)
=============================================================================
