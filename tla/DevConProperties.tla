-------------------------- MODULE DevConProperties --------------------------
(* What usbdevcon and its remote-personality plugin are for. *)
EXTENDS DevConSystem

\* The state machine and its two requests on endpoint 0 stay in step: it reads in Setup
\* and Data, writes in Status, does neither when stopped, and has device control
\* exactly while it is started.
Ep0InStep ==
  /\ devcon.reader.active <=> devcon.machine \in {"Setup", "Data"}
  /\ devcon.writer.active <=> devcon.machine = "Status"
  /\ devcon.control <=> devcon.machine # "None"

\* A host that chose a personality, was not refused and has asked nothing else but the
\* result is told of a success only when the personality runs (iLastResult, written by
\* DoHandleL and SetPersonalityCallBack).
SuccessIsReal ==
  host.asked # "none" /\ process = "Up" /\ devcon.remote.iLastResult = "ESuccess"
    => running = host.asked

\* A host that does nothing more but ask what became of its choice is not told for ever
\* that it is in progress, whatever the watcher answers.
ResultSettles ==
  <>[](host.asked # "none")
    => <>[](devcon.remote.iLastResult # "EDataTransferInProgress")

\* Every request of the host is answered, or the bus ends it.
HostAnswered == host.request # NoRequest ~> host.request = NoRequest

\* A device that stays configured gets its requests answered by usbdevcon for good,
\* though the shutdown timer may end the process just when the cable is connected:
\* the starter of usbwatcher brings it up again.
ConnectedIsServed ==
  <>[](bus = "Configured" /\ fault = NoFault) => <>[](process = "Up" /\ devcon.control)
=============================================================================
