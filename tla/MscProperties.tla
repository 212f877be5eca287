--------------------------- MODULE MscProperties ---------------------------
(* What is checked of the mass-storage file server. *)
EXTENDS MscSystem

\* The host is waiting for the device.
HostWaits == Reachable /\ host.phase \in {"DataIn", "Status"}

\* Neither the server nor the driver has anything left to do.
Quiet == /\ server.process = "Running" /\ thread = "Free"
         /\ ~Ready(control) /\ ~Ready(notifier) /\ ~Ready(transport)
         /\ ldd.in = NoPacket /\ ~ldd.stalled /\ ldd.states = << >>
         /\ ~(ldd.out /\ ldd.rx # << >>)

\* The status a host reads is that of its command, and its residue is what was
\* not sent of the command's own data: nothing of an earlier command, no padding
\* and no bytes cut off pass for data (DecodeCBW, PrepareWriteToHost, HwStart).
CswIsHonest ==
  Reachable /\ ~ldd.stalled /\ host.phase = "Status" /\ ldd.in.kind = "CSW" =>
    /\ ldd.in.tag = host.tag
    /\ ldd.in.status # "EPhaseError" => host.got + ldd.in.residue = host.len

\* Device and host agree on the phase of a command: no status is sent to a host
\* that reads data, and no data to one that reads a status.
PhasesAgree ==
  Reachable /\ ~ldd.stalled =>
    /\ host.phase = "DataIn" => ldd.in.kind # "CSW"
    /\ host.phase = "Status" => ldd.in.kind # "Data"

\* Host and device do not wait for each other, unless the device has given the
\* command up: then its next word is the answer to a reset.
SilentOnlyAfterError == HostWaits /\ Quiet => host.corrupt

\* A host that asks why a command failed is told a reason, whatever requests and
\* changes of the device there were in between.
FailureIsExplained ==
  Reachable /\ ~ldd.stalled /\ host.phase = "DataIn" /\ host.failed /\ ldd.in.kind = "Data" =>
    ldd.in.reports # "NoSense"

\* The class stopped, or not started: no request is left with the driver.
IdleReleasesDevice ==
  Running /\ cc.iState = "EUsbServiceIdle" =>
    ~ldd.open /\ ~transport.active /\ ~control.active /\ ~notifier.active

\* Nothing is read on endpoint 0 because what was read last was too short for a header.
Deaf == ~control.active /\ control.iRequest = "Short"

\* A recovery ends: the reset is answered even when the server is waiting for the
\* host to clear an endpoint, unless the control interface reads requests no more since
\* it has read one that does not decode.
RecoveryEnds == host.phase = "Reset" ~> host.phase # "Reset" \/ ~Running \/ Deaf

=============================================================================
