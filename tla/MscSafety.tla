----------------------------- MODULE MscSafety ------------------------------
(***************************************************************************)
(* Theorems about the mass-storage server for every command, request,      *)
(* answer of the outside, race at the start and size of the queues.        *)
(*                                                                         *)
(* What is with the driver of a class that is not started depends on who   *)
(* can reach it: the handlers of the server run only when an object is     *)
(* active or the thread is blocked, the host only when the driver is open. *)
(* Service says that none of this is the case unless the class is started, *)
(* and what Stop relies on to undo it.                                     *)
(*                                                                         *)
(* What a host is told depends on where each command is: sent, read,       *)
(* replied to, filled up, discarded, reported or given up.  Exchange says  *)
(* what the transport, the driver, the host and the sense data hold in     *)
(* each of these places, and Agreement adds who has an object active, what *)
(* endpoint 0 is at and whether the server knows the state of the device.  *)
(* It needs a device that is not configured while the server starts.       *)
(***************************************************************************)
EXTENDS MscEffects

-----------------------------------------------------------------------------
\* The system.

Typed ==
  /\ transport \in Transport /\ control \in Control /\ notifier \in Notifier
  /\ scsi \in Scsi /\ image \in Image /\ ldd \in Ldd /\ thread \in Threads
  /\ server \in Server /\ cc \in ClassController /\ shown \in BOOLEAN
  /\ bus \in BusStates /\ host \in Host /\ fault \in MscFaults

Started == cc.iState = "EUsbServiceStarted"

\* A class that is started has the only session and the driver; one that is not leaves
\* nothing with the driver, and nothing in the server that could run.
Service(t, c, n, l, th, s, k, h) ==
  \/ /\ k.iState = "EUsbServiceStarted"
     /\ l.open /\ t.iInterfaceConfigured
     /\ s = [process |-> "Running", iSessionCount |-> 1]
  \/ /\ k.iState = "EUsbServiceIdle" /\ l = InitLdd /\ th = "Free" /\ h.phase = "Idle"
     /\ ~t.active /\ ~c.active /\ ~n.active
     /\ s.iSessionCount \in 0..1
ServiceInv == Service(transport, control, notifier, ldd, thread, server, cc, host)

\* The memory of a handler is typed.
LEMMA MemTyped ==
  ASSUME Typed, NEW in \in Answers \cup {<< >>} PROVE Mem(in) \in MscMemory
BY DEF Typed, Mem, MscMemory, MscErrors, MscFaults

\* The members of the memory are the variables.
LEMMA MemFields ==
  ASSUME NEW in
  PROVE  /\ Mem(in).t = transport /\ Mem(in).c = control /\ Mem(in).n = notifier
         /\ Mem(in).ldd = ldd /\ Mem(in).thread = thread /\ Mem(in).server = server
         /\ Mem(in).cc = cc /\ Mem(in).bus = bus /\ Mem(in).in = in
BY DEF Mem

\* What a handler leaves is typed.
LEMMA CommitTyped ==
  ASSUME Typed, NEW m \in MscMemory, Commit(m) PROVE Typed'
<1>1. CASE m.fault # NoFault
  BY <1>1 DEF Commit, Typed, MscMemory, serverVars
<1>2. CASE m.fault = NoFault
  BY <1>2 DEF Commit, Typed, MscMemory, serverVars
<1> QED BY <1>1, <1>2

\* What a handler leaves keeps the service, or the process has ended.
LEMMA CommitService ==
  ASSUME ServiceInv, NEW m, Commit(m),
         Service(m.t, m.c, m.n, m.ldd, m.thread, m.server, m.cc, host)
  PROVE  ServiceInv'
<1>1. CASE m.fault # NoFault
  BY <1>1 DEF Commit, ServiceInv, Service, serverVars
<1>2. CASE m.fault = NoFault
  BY <1>2 DEF Commit, ServiceInv, Service, serverVars
<1> QED BY <1>1, <1>2

\* A handler of the server does nothing to the service.
LEMMA HandlerKeepsService ==
  ASSUME Typed, ServiceInv, Started, NEW in \in Answers \cup {<< >>}, NEW m,
         Inside(Mem(in), m), Commit(m)
  PROVE  Typed' /\ ServiceInv'
<1>1. m \in MscMemory
  BY DEF Inside
<1>2. /\ m.server = server /\ m.cc = cc /\ m.ldd.open = ldd.open
      /\ m.t.iInterfaceConfigured = transport.iInterfaceConfigured
  BY MemFields DEF Inside
<1>3. Service(m.t, m.c, m.n, m.ldd, m.thread, m.server, m.cc, host)
  BY <1>2 DEF ServiceInv, Service, Started
<1> QED BY <1>1, <1>3, CommitTyped, CommitService

\* Nothing goes on unless the class is started.
LEMMA WorkNeedsStart ==
  ASSUME ServiceInv,
         transport.active \/ control.active \/ notifier.active \/ thread # "Free" \/ ldd.open
           \/ host.phase # "Idle"
  PROVE  Started
BY DEF ServiceInv, Service, Started, InitLdd

\* The active objects.
LEMMA SchedulerKeepsService ==
  ASSUME Typed, ServiceInv, RunControl \/ RunNotifier \/ RunTransport
  PROVE  Typed' /\ ServiceInv'
<1>1. Started
  BY WorkNeedsStart DEF RunControl, RunNotifier, RunTransport, Ready
<1>2. CASE RunControl
  <2>1. Unasked \in MscMemory /\ Commit(ControlRunL(Unasked))
    BY <1>2, MemTyped DEF RunControl, Unasked
  <2>2. Inside(Unasked, ControlRunL(Unasked))
    BY <2>1, ControlRunLEffect
  <2> QED BY <1>1, <2>1, <2>2, HandlerKeepsService DEF Unasked
<1>3. CASE RunNotifier
  <2>1. Unasked \in MscMemory /\ Commit(NotifierRunL(Unasked))
    BY <1>3, MemTyped DEF RunNotifier, Unasked
  <2>2. Inside(Unasked, NotifierRunL(Unasked))
    BY <2>1, NotifierRunLEffect
  <2> QED BY <1>1, <2>1, <2>2, HandlerKeepsService DEF Unasked
<1>4. CASE RunTransport
  <2>1. PICK in \in Outside : Commit(TransportRunL(Mem(in)))
    BY <1>4 DEF RunTransport
  <2>2. in \in Answers
    BY MscAssumption
  <2>3. Inside(Mem(in), TransportRunL(Mem(in)))
    BY <2>2, MemTyped, TransportRunLEffect DEF TransportOnly
  <2> QED BY <1>1, <2>1, <2>2, <2>3, HandlerKeepsService
<1> QED BY <1>2, <1>3, <1>4

\* A blocked handler that goes on.
LEMMA ThreadKeepsService ==
  ASSUME Typed, ServiceInv, ThreadResumes \/ StallGivesUp
  PROVE  Typed' /\ ServiceInv'
<1>1. Started
  BY WorkNeedsStart DEF ThreadResumes, ThreadUnblocked, StallGivesUp
<1> DEFINE p == [Unasked EXCEPT !.ldd.in = NoPacket]
           q == [Unasked EXCEPT !.ldd.rx = Tail(@)]
<1>2. Unasked \in MscMemory /\ Unasked.ldd = ldd
  BY MemTyped, MemFields DEF Unasked
<1>3. \/ Commit(Resume(Unasked)) \/ Commit(Resume(p))
      \/ ldd.rx # << >> /\ Commit(Resume(q))
  BY DEF ThreadResumes, StallGivesUp
<1>4. Inside(Unasked, Unasked) /\ Inside(Unasked, p)
  BY <1>2 DEF Inside, MscMemory, Ldd, Packets
<1>5. ldd.rx # << >> => Inside(Unasked, q)
  <2>1. SUFFICES ASSUME ldd.rx # << >> PROVE Inside(Unasked, q)
    OBVIOUS
  <2> DEFINE r == Tail(ldd.rx)
             l == [ldd EXCEPT !.rx = r]
  <2>2. ldd \in Ldd /\ ldd.rx \in Seq(Cbw)
    BY DEF Typed, Ldd
  <2>3. r \in Seq(Cbw)
    BY <2>1, <2>2
  <2> HIDE DEF r
  <2>4. l \in Ldd /\ l.open = ldd.open
    BY <2>2, <2>3 DEF Ldd
  <2>5. q = [Unasked EXCEPT !.ldd = l]
    BY <1>2 DEF r
  <2> HIDE DEF l
  <2> QED BY <1>2, <2>4, <2>5 DEF Inside, MscMemory
<1> HIDE DEF p, q
<1>6. ASSUME NEW m, Inside(Unasked, m), Commit(Resume(m)) PROVE Typed' /\ ServiceInv'
  <2>1. Inside(Unasked, Resume(m))
    BY <1>6, ResumeEffect, InsideTwice DEF TransportOnly, Inside
  <2> QED BY <1>1, <1>6, <2>1, HandlerKeepsService DEF Unasked
<1> QED BY <1>3, <1>4, <1>5, <1>6

\* The end of the server.
LEMMA ServerEndsKeepsService ==
  ASSUME Typed, ServiceInv, ServerEnds
  PROVE  Typed' /\ ServiceInv'
<1> DEFINE p == NewProcess(Unasked)
           s == [process |-> "None", iSessionCount |-> 0]
           m == [p EXCEPT !.ldd = InitLdd, !.server = s]
<1>1. Commit(m) /\ server.process = "Ending"
  BY DEF ServerEnds
<1>2. ~Started /\ ServiceInv /\ server.process = "Ending"
  BY <1>1 DEF ServiceInv, Service, Started
<1>3. Unasked \in MscMemory
  BY MemTyped DEF Unasked
<1>4. Called(Unasked, p)
  BY <1>3, NewProcessEffect
<1>5. s \in Server /\ s.iSessionCount \in 0..1
  BY DEF Server
<1> HIDE DEF p, s
<1>6. /\ m \in MscMemory /\ m.ldd = InitLdd /\ m.server = s /\ m.t = p.t /\ m.c = p.c
      /\ m.n = p.n /\ m.thread = p.thread /\ m.cc = p.cc
  BY <1>4, <1>5, ConstantTypes DEF Called, MscMemory
<1> HIDE DEF m
<1>7. Service(m.t, m.c, m.n, m.ldd, m.thread, m.server, m.cc, host)
  BY <1>2, <1>4, <1>5, <1>6, MemFields DEF Called, Unasked, Service, ServiceInv, Started
<1> QED BY <1>1, <1>6, <1>7, CommitTyped, CommitService

\* The start of the class.
LEMMA StartKeepsService ==
  ASSUME Typed, ServiceInv, Start
  PROVE  Typed' /\ ServiceInv'
<1>1. PICK in \in Outside, raced \in Races : Commit(ClassControllerStart(Mem(in), raced))
  BY DEF Start
<1>2. in \in Answers /\ raced \in BOOLEAN
  BY MscAssumption
<1>3. cc.iState = "EUsbServiceIdle"
  BY DEF Start
<1>4. /\ ldd = InitLdd /\ thread = "Free" /\ host.phase = "Idle" /\ ~transport.active
      /\ ~control.active /\ ~notifier.active /\ server.iSessionCount \in 0..1
  BY <1>3 DEF ServiceInv, Service
<1> DEFINE n == ClassControllerStart(Mem(in), raced)
<1>5. StartedOrNot(Mem(in), n)
  BY <1>2, <1>3, <1>4, MemTyped, MemFields, ClassControllerStartEffect
<1> HIDE DEF n
<1>6. Service(n.t, n.c, n.n, n.ldd, n.thread, n.server, n.cc, host)
  BY <1>4, <1>5, MemFields DEF StartedOrNot, Service
<1>7. n \in MscMemory /\ Commit(n)
  BY <1>1, <1>5 DEF StartedOrNot, n
<1> QED BY <1>6, <1>7, CommitTyped, CommitService

-----------------------------------------------------------------------------
\* The host: changes of its numbers.

\* The host has nothing outstanding.
LEMMA HostIdleEffect ==
  ASSUME NEW h \in Host
  PROVE  HostIdle(h) \in Host /\ HostIdle(h).phase = "Idle"
<1> DEFINE a == [h EXCEPT !.phase = "Idle", !.len = 0]
           b == [a EXCEPT !.got = 0]
           c == [b EXCEPT !.stalls = 0]
<1>1. a \in Host /\ a.phase = "Idle"
  BY DEF Host, Phases
<1>2. HostIdle(h) = c
  BY DEF HostIdle
<1> HIDE DEF a
<1>3. b \in Host /\ b.phase = "Idle"
  BY <1>1 DEF Host
<1> HIDE DEF b
<1>4. c \in Host /\ c.phase = "Idle"
  BY <1>3 DEF Host
<1> QED BY <1>2, <1>4

\* The host asks for something.
LEMMA HostAskedEffect ==
  ASSUME NEW h \in Host, NEW tag \in 0..1, NEW len \in Nat, NEW corrupt \in BOOLEAN,
         NEW failed \in BOOLEAN, NEW phase \in Phases
  PROVE  [h EXCEPT !.tag = tag, !.len = len, !.corrupt = corrupt, !.failed = failed,
                   !.phase = phase] \in Host
<1> DEFINE a == [h EXCEPT !.tag = tag]
           b == [a EXCEPT !.len = len]
           c == [b EXCEPT !.corrupt = corrupt, !.failed = failed, !.phase = phase]
<1>1. a \in Host
  BY DEF Host
<1>2. [h EXCEPT !.tag = tag, !.len = len, !.corrupt = corrupt, !.failed = failed,
                !.phase = phase] = c
  OBVIOUS
<1> HIDE DEF a
<1>3. b \in Host
  BY <1>1 DEF Host
<1> HIDE DEF b
<1>4. c \in Host
  BY <1>3 DEF Host
<1> QED BY <1>2, <1>4

-----------------------------------------------------------------------------
\* The remaining steps.

\* A stop that waits for the thread.
LEMMA AskStopKeepsService ==
  ASSUME Typed, ServiceInv, AskStop
  PROVE  Typed' /\ ServiceInv'
<1>1. cc' \in ClassController /\ cc'.iState = cc.iState
  BY DEF AskStop, Typed, ClassController
<1> QED BY <1>1 DEF AskStop, Typed, ServiceInv, Service

\* The stop of the class.
LEMMA StopKeepsService ==
  ASSUME Typed, ServiceInv, Stop
  PROVE  Typed' /\ ServiceInv'
<1> DEFINE m == ClassControllerStop(Unasked)
           h == HostIdle(host)
<1>1. cc.iState = "EUsbServiceStarted" /\ thread = "Free"
  BY DEF Stop, ThreadFree
<1>2. /\ transport.iInterfaceConfigured
      /\ server = [process |-> "Running", iSessionCount |-> 1]
  BY <1>1 DEF ServiceInv, Service
<1>3. server.iSessionCount = 1
  BY <1>2
<1>4. Stopped(m) /\ m.thread = "Free"
  BY <1>1, <1>2, <1>3, MemTyped, MemFields, ClassControllerStopEffect DEF Unasked
<1>5. h \in Host /\ h.phase = "Idle"
  BY HostIdleEffect DEF Typed
<1>6. /\ transport' = m.t /\ control' = m.c /\ notifier' = m.n /\ scsi' = m.scsi
      /\ image' = m.image /\ ldd' = m.ldd /\ thread' = m.thread /\ server' = m.server
      /\ cc' = m.cc /\ shown' = m.shown /\ bus' = bus /\ fault' = fault
      /\ host' = [h EXCEPT !.failed = FALSE, !.corrupt = FALSE]
  BY DEF Stop
<1> HIDE DEF m, h
<1>7. host' \in Host /\ host'.phase = "Idle"
  BY <1>5, <1>6 DEF Host
<1>8. Typed'
  <2>1. m \in MscMemory
    BY <1>4 DEF Stopped
  <2> QED BY <1>6, <1>7, <2>1 DEF Typed, MscMemory
<1>9. server'.iSessionCount \in 0..1
  BY <1>4, <1>6 DEF Stopped
<1>10. ServiceInv'
  BY <1>4, <1>6, <1>7, <1>9 DEF Stopped, ServiceInv, Service
<1> QED BY <1>8, <1>10

\* A step of the driver, the host or the bus keeps the handle open, and its changes of
\* the transport do not close the interface.
LEMMA OutsideKeepsService ==
  ASSUME ServiceInv, Started,
         ldd'.open = ldd.open,
         transport'.iInterfaceConfigured = transport.iInterfaceConfigured,
         UNCHANGED << server, cc >>
  PROVE  ServiceInv'
BY DEF ServiceInv, Service, Started


\* The driver completes a request.
LEMMA DriverKeepsService ==
  ASSUME Typed, ServiceInv, Driver
  PROVE  Typed' /\ ServiceInv'
<1>0. transport \in Transport /\ control \in Control /\ notifier \in Notifier /\ ldd \in Ldd
  BY DEF Typed
<1>1. Started
  BY WorkNeedsStart DEF Driver, NotifierCompletes, ReadCompletes, Ep0Completes
<1>2. CASE NotifierCompletes
  <2> DEFINE st == Head(ldd.states)
             q  == Tail(ldd.states)
  <2>1. st \in Reported /\ q \in Seq(Reported)
    BY <1>0, <1>2 DEF NotifierCompletes, Ldd
  <2>2. notifier' = [notifier EXCEPT !.iStatus = KErrNone, !.iDeviceState = st]
        /\ ldd' = [ldd EXCEPT !.states = q]
    BY <1>2 DEF NotifierCompletes
  <2> HIDE DEF st, q
  <2>3. notifier' \in Notifier /\ ldd' \in Ldd /\ ldd'.open = ldd.open
    BY <1>0, <2>1, <2>2 DEF Notifier, Ldd, Sts
  <2>4. UNCHANGED << transport, control, scsi, image, thread, server, cc, shown, bus, host,
                     fault >>
    BY <1>2 DEF NotifierCompletes
  <2> QED BY <1>1, <2>3, <2>4, OutsideKeepsService DEF Typed
<1>3. CASE ReadCompletes
  <2> DEFINE c == Head(ldd.rx)
             q == Tail(ldd.rx)
  <2>1. c \in Cbw /\ q \in Seq(Cbw)
    BY <1>0, <1>3 DEF ReadCompletes, Ldd
  <2>2. transport' = [transport EXCEPT !.iStatus = KErrNone, !.iCbwBuf = c]
        /\ ldd' = [ldd EXCEPT !.rx = q, !.out = FALSE]
    BY <1>3 DEF ReadCompletes
  <2> HIDE DEF c, q
  <2>3. /\ transport' \in Transport
        /\ transport'.iInterfaceConfigured = transport.iInterfaceConfigured
    BY <1>0, <2>1, <2>2 DEF Transport, Sts
  <2>4. ldd' \in Ldd /\ ldd'.open = ldd.open
    BY <1>0, <2>1, <2>2 DEF Ldd
  <2>5. UNCHANGED << control, notifier, scsi, image, thread, server, cc, shown, bus, host,
                     fault >>
    BY <1>3 DEF ReadCompletes
  <2> QED BY <1>1, <2>3, <2>4, <2>5, OutsideKeepsService DEF Typed
<1>4. CASE Ep0Completes
  <2>1. UNCHANGED << transport, notifier, scsi, image, thread, server, cc, shown, bus, host,
                     fault >>
    BY <1>4 DEF Ep0Completes
  <2>2. control' \in Control
    <3>1. CASE /\ ldd.ep0 \in Requests
               /\ control' = [control EXCEPT !.iStatus = KErrNone, !.iRequest = ldd.ep0]
      BY <1>0, <3>1 DEF Control, Sts
    <3>2. CASE control' = [control EXCEPT !.iStatus = KErrNone]
      BY <1>0, <3>2 DEF Control, Sts
    <3> QED BY <1>4, <3>1, <3>2 DEF Ep0Completes
  <2>3. ldd' \in Ldd /\ ldd'.open = ldd.open
    <3>1. CASE ldd' = ldd
      BY <1>0, <3>1
    <3>2. CASE ldd' = [ldd EXCEPT !.ep0 = IF @ = "GetMaxLun" THEN "None" ELSE @]
      BY <1>0, <3>2 DEF Ldd, Ep0s
    <3> QED BY <1>4, <3>1, <3>2 DEF Ep0Completes
  <2> QED BY <1>1, <2>1, <2>2, <2>3, OutsideKeepsService DEF Typed
<1> QED BY <1>2, <1>3, <1>4 DEF Driver

\* What a step of the host may change.
LEMMA HostKeepsService ==
  ASSUME Typed, ServiceInv, Reachable, host' \in Host, ldd' \in Ldd, ldd'.open = ldd.open,
         transport' \in Transport,
         transport'.iInterfaceConfigured = transport.iInterfaceConfigured,
         UNCHANGED << control, notifier, scsi, image, thread, server, cc, shown, bus, fault >>
  PROVE  Typed' /\ ServiceInv'
<1>1. Started
  BY WorkNeedsStart DEF Reachable
<1> QED BY <1>1, OutsideKeepsService DEF Typed

\* The host reads a packet.
LEMMA WriteDoneEffect ==
  ASSUME Typed
  PROVE  WriteDone \in Transport /\ WriteDone.iInterfaceConfigured = transport.iInterfaceConfigured
BY DEF Typed, WriteDone, Transport, Sts

\* The host sends a command.
LEMMA HostSendsKeepsService ==
  ASSUME Typed, ServiceInv, HostSends
  PROVE  Typed' /\ ServiceInv'
<1>1. PICK c \in Cbws :
        LET cbw == [valid |-> c.valid, tag |-> 1 - host.tag, len |-> c.len,
                    toHost |-> c.toHost, cmd |-> c.cmd]
        IN /\ ldd' = [ldd EXCEPT !.rx = Append(@, cbw)]
           /\ host' = [host EXCEPT !.tag = cbw.tag, !.len = c.len,
                         !.corrupt = @ \/ ~c.valid, !.failed = @ /\ c.cmd.op = "RequestSense",
                         !.phase = IF c.len = 0 THEN "Status"
                                   ELSE IF c.toHost THEN "DataIn" ELSE "DataOut"]
  BY DEF HostSends
<1> DEFINE tag == 1 - host.tag
           cbw == [valid |-> c.valid, tag |-> tag, len |-> c.len, toHost |-> c.toHost,
                   cmd |-> c.cmd]
           q == Append(ldd.rx, cbw)
           corrupt == host.corrupt \/ ~c.valid
           failed == host.failed /\ c.cmd.op = "RequestSense"
           phase == IF c.len = 0 THEN "Status" ELSE IF c.toHost THEN "DataIn" ELSE "DataOut"
<1>2. c \in AllCbws
  BY MscAssumption
<1>3. /\ c.valid \in BOOLEAN /\ c.len \in Nat /\ c.toHost \in BOOLEAN /\ c.cmd \in Command
  BY <1>2 DEF AllCbws
<1>4. host \in Host /\ ldd \in Ldd
  BY DEF Typed
<1>5. tag \in 0..1
  BY <1>4 DEF Host
<1>6. /\ ldd' = [ldd EXCEPT !.rx = q]
      /\ host' = [host EXCEPT !.tag = tag, !.len = c.len, !.corrupt = corrupt,
                              !.failed = failed, !.phase = phase]
  BY <1>1
<1> HIDE DEF tag
<1>7. cbw \in Cbw
  BY <1>3, <1>5 DEF Cbw
<1> HIDE DEF cbw
<1>8. q \in Seq(Cbw)
  BY <1>4, <1>7 DEF Ldd
<1> HIDE DEF q
<1>9. ldd' \in Ldd /\ ldd'.open = ldd.open
  BY <1>4, <1>6, <1>8 DEF Ldd
<1>10. corrupt \in BOOLEAN /\ failed \in BOOLEAN /\ phase \in Phases
  BY DEF Phases
<1> HIDE DEF corrupt, failed, phase
<1>11. host' \in Host
  BY <1>3, <1>4, <1>5, <1>6, <1>10, HostAskedEffect
<1>12. /\ Reachable
       /\ UNCHANGED << transport, control, notifier, scsi, image, thread, server, cc, shown,
                       bus, fault >>
  BY DEF HostSends, serverVars
<1>13. transport' \in Transport
       /\ transport'.iInterfaceConfigured = transport.iInterfaceConfigured
  BY <1>12 DEF Typed
<1> QED BY <1>9, <1>11, <1>12, <1>13, HostKeepsService

\* The host goes on.
LEMMA HostPhase ==
  ASSUME NEW h \in Host, NEW phase \in Phases
  PROVE  /\ [h EXCEPT !.phase = phase] \in Host
         /\ [h EXCEPT !.phase = phase, !.failed = FALSE, !.corrupt = FALSE] \in Host
BY DEF Host

\* What the steps of the host do to its own state and to the driver's.
LEMMA HostTyped ==
  ASSUME Typed,
         \/ HostSendsData \/ HostSeesStall \/ HostClears \/ HostResets \/ HostResetAnswered
         \/ HostReadsData \/ HostReadsStatus
  PROVE  host' \in Host
<1>1. host \in Host /\ ldd \in Ldd
  BY DEF Typed
<1>2. HostIdle(host) \in Host
  BY <1>1, HostIdleEffect
<1> DEFINE i == HostIdle(host)
<1> HIDE DEF i
<1>3. CASE HostSendsData \/ HostClears \/ HostResets \/ HostResetAnswered
  <2>1. \/ \E p \in Phases : \/ host' = [host EXCEPT !.phase = p]
                             \/ host' = [i EXCEPT !.phase = p]
        \/ host' = [host EXCEPT !.phase = "ResetClear", !.failed = FALSE, !.corrupt = FALSE]
    BY <1>3 DEF HostSendsData, HostClears, HostResets, HostResetAnswered, Phases, i
  <2>2. "ResetClear" \in Phases
    BY DEF Phases
  <2> QED BY <1>1, <1>2, <2>1, <2>2, HostPhase DEF i
<1>4. CASE HostSeesStall
  <2> DEFINE again == host.phase = "Status" /\ host.stalls = 1
             h == IF again THEN i ELSE host
             p == IF again THEN "Reset" ELSE "ClearIn"
             s == 1 - h.stalls
             k == [h EXCEPT !.stalls = s]
  <2>1. host' = [k EXCEPT !.phase = p]
    BY <1>4 DEF HostSeesStall, i
  <2>2. h \in Host /\ p \in Phases
    BY <1>1, <1>2 DEF Phases, i
  <2> HIDE DEF h, p
  <2>3. s \in 0..1
    BY <2>2 DEF Host
  <2> HIDE DEF s
  <2>4. k \in Host
    BY <2>2, <2>3 DEF Host
  <2> HIDE DEF k
  <2> QED BY <2>1, <2>2, <2>4, HostPhase
<1>5. CASE HostReadsData
  <2> DEFINE g == IF ldd.in.fresh THEN ldd.in.real ELSE 0
             f == host.failed /\ ldd.in.reports = "Data"
             k == [host EXCEPT !.got = g]
  <2>1. host' = [k EXCEPT !.phase = "Status", !.failed = f]
    BY <1>5 DEF HostReadsData
  <2>2. ldd.in \in DataPackets
    BY <1>1, <1>5 DEF HostReadsData, Ldd, Packets, NoPacket, CswPackets
  <2>3. g \in Nat /\ f \in BOOLEAN
    BY <2>2 DEF DataPackets
  <2> HIDE DEF g, f
  <2>4. k \in Host
    BY <1>1, <2>3 DEF Host
  <2> HIDE DEF k
  <2> QED BY <2>1, <2>3, <2>4 DEF Host, Phases
<1>6. CASE HostReadsStatus
  <2> DEFINE p == IF ldd.in.status = "EPhaseError" THEN "Reset" ELSE "Idle"
             f == i.failed \/ ldd.in.status = "ECommandFailed"
  <2>1. host' = [i EXCEPT !.phase = p, !.failed = f]
    BY <1>6 DEF HostReadsStatus, i
  <2>2. p \in Phases /\ f \in BOOLEAN
    BY DEF Phases
  <2>3. i \in Host
    BY <1>2 DEF i
  <2> HIDE DEF p, f
  <2> QED BY <2>1, <2>2, <2>3 DEF Host
<1> QED BY <1>3, <1>4, <1>5, <1>6

\* A change of one member of the driver, but its queues.
LEMMA LddChanged ==
  ASSUME NEW l \in Ldd, NEW e \in Ep0s, NEW b \in BOOLEAN
  PROVE  /\ [l EXCEPT !.ep0 = e] \in Ldd /\ [l EXCEPT !.ep0 = e].open = l.open
         /\ [l EXCEPT !.stalled = b] \in Ldd /\ [l EXCEPT !.stalled = b].open = l.open
         /\ [l EXCEPT !.in = NoPacket, !.ep0 = e] \in Ldd
         /\ [l EXCEPT !.in = NoPacket, !.ep0 = e].open = l.open
         /\ [l EXCEPT !.in = NoPacket] \in Ldd /\ [l EXCEPT !.in = NoPacket].open = l.open
BY DEF Ldd, Packets

\* A change of a queue of the driver.
LEMMA QueueChanged ==
  ASSUME NEW l \in Ldd, NEW q \in Seq(Cbw), NEW s \in Seq(Reported)
  PROVE  /\ [l EXCEPT !.rx = q] \in Ldd /\ [l EXCEPT !.rx = q].open = l.open
         /\ [l EXCEPT !.states = s] \in Ldd /\ [l EXCEPT !.states = s].open = l.open
BY DEF Ldd

\* The host goes on with a command, or resets.
LEMMA HostStepsKeepService ==
  ASSUME Typed, ServiceInv, HostSteps \/ HostResets
  PROVE  Typed' /\ ServiceInv'
<1>1. host' \in Host
  BY HostTyped DEF HostSteps
<1>2. ldd \in Ldd /\ ldd.ep0 \in Ep0s /\ ldd.rx \in Seq(Cbw)
  BY DEF Typed, Ldd
<1>3. /\ UNCHANGED << control, notifier, scsi, image, thread, server, cc, shown, bus, fault >>
      /\ Reachable
      /\ transport' = transport \/ transport' = WriteDone
  BY DEF HostSteps, HostResets, HostSendsData, HostReadsData, HostReadsStatus, HostSeesStall,
         HostClears, HostResetAnswered, serverVars
<1>4. /\ transport' \in Transport
      /\ transport'.iInterfaceConfigured = transport.iInterfaceConfigured
  BY <1>3, WriteDoneEffect DEF Typed
<1>5. ldd' \in Ldd /\ ldd'.open = ldd.open
  <2>1. CASE HostSendsData
    <3>1. Append(ldd.rx, OutData) \in Seq(Cbw)
      BY <1>2, ConstantTypes
    <3>2. ldd' = [ldd EXCEPT !.rx = Append(ldd.rx, OutData)]
      BY <2>1 DEF HostSendsData
    <3>3. << >> \in Seq(Reported)
      OBVIOUS
    <3> QED BY <1>2, <3>1, <3>2, <3>3, QueueChanged
  <2>2. CASE HostReadsData
    BY <1>2, <2>2, LddChanged DEF HostReadsData
  <2>3. CASE HostClears
    BY <1>2, <2>3, LddChanged DEF HostClears
  <2>4. CASE HostReadsStatus \/ HostSeesStall \/ HostResets \/ HostResetAnswered
    <3>1. \E e \in Ep0s : \/ ldd' = [ldd EXCEPT !.in = NoPacket, !.ep0 = e]
                          \/ ldd' = [ldd EXCEPT !.ep0 = e]
      <4>1. "Reset" \in Ep0s /\ "None" \in Ep0s
        BY DEF Ep0s, Requests
      <4> QED BY <1>2, <2>4, <4>1 DEF HostReadsStatus, HostSeesStall, HostResets,
                                      HostResetAnswered
    <3>2. PICK e \in Ep0s : \/ ldd' = [ldd EXCEPT !.in = NoPacket, !.ep0 = e]
                            \/ ldd' = [ldd EXCEPT !.ep0 = e]
      BY <3>1
    <3>3. /\ [ldd EXCEPT !.in = NoPacket, !.ep0 = e] \in Ldd
          /\ [ldd EXCEPT !.in = NoPacket, !.ep0 = e].open = ldd.open
          /\ [ldd EXCEPT !.ep0 = e] \in Ldd /\ [ldd EXCEPT !.ep0 = e].open = ldd.open
      BY <1>2, LddChanged
    <3> QED BY <3>2, <3>3
  <2> QED BY <2>1, <2>2, <2>3, <2>4 DEF HostSteps
<1> QED BY <1>1, <1>3, <1>4, <1>5, HostKeepsService

\* The host asks on endpoint 0 or chooses the interface again.
LEMMA HostAsksKeepsService ==
  ASSUME Typed, ServiceInv, HostAsks \/ AlternateSetting
  PROVE  Typed' /\ ServiceInv'
<1>1. ldd \in Ldd /\ ldd.rx \in Seq(Cbw) /\ ldd.states \in Seq(Reported) /\ host \in Host
      /\ transport \in Transport
  BY DEF Typed, Ldd
<1>2. /\ UNCHANGED << transport, control, notifier, scsi, image, thread, server, cc, shown,
                      bus, fault, host >>
      /\ Reachable
  BY DEF HostAsks, AlternateSetting, serverVars
<1>3. ldd' \in Ldd /\ ldd'.open = ldd.open
  <2>1. CASE HostAsks
    <3>1. \E e \in Ep0s : ldd' = [ldd EXCEPT !.ep0 = e]
      BY <2>1, MscAssumption DEF HostAsks, Ep0s
    <3> QED BY <1>1, <3>1, LddChanged
  <2>2. CASE AlternateSetting
    <3>1. "AlternateSetting" \in Reported
      BY DEF Reported
    <3>2. Append(ldd.states, "AlternateSetting") \in Seq(Reported)
      BY <1>1, <3>1
    <3>3. ldd' = [ldd EXCEPT !.states = Append(ldd.states, "AlternateSetting")]
      BY <2>2 DEF AlternateSetting
    <3> QED BY <1>1, <3>2, <3>3, QueueChanged
  <2> QED BY <2>1, <2>2
<1> QED BY <1>1, <1>2, <1>3, HostKeepsService

\* What the notifier will be told.
LEMMA ToldEffect ==
  ASSUME Typed, NEW st \in BusStates
  PROVE  Told(st) \in Seq(Reported) /\ (~ldd.open => Told(st) = << >>)
<1>1. st \in Reported /\ ldd.states \in Seq(Reported)
  BY DEF Reported, Typed, Ldd
<1>2. Append(ldd.states, st) \in Seq(Reported) /\ << >> \in Seq(Reported)
  BY <1>1
<1> QED BY <1>2 DEF Told

\* Two states of the driver with the same members.
LEMMA SameLdd ==
  ASSUME NEW l \in Ldd, NEW k \in Ldd, l.open = k.open, l.out = k.out, l.in = k.in,
         l.stalled = k.stalled, l.rx = k.rx, l.ep0 = k.ep0, l.states = k.states
  PROVE  l = k
BY DEF Ldd

\* A request that fails.
LEMMA FailsEffect ==
  ASSUME Typed
  PROVE  /\ Fails(transport) \in Transport /\ Fails(transport).active = transport.active
         /\ Fails(transport).iInterfaceConfigured = transport.iInterfaceConfigured
         /\ Fails(control) \in Control /\ Fails(control).active = control.active
BY DEF Typed, Fails, Transport, Control, Sts

\* The bus.
LEMMA BusKeepsService ==
  ASSUME Typed, ServiceInv, BusChanges
  PROVE  Typed' /\ ServiceInv'
<1>1. PICK st \in BusStates : BusGoesTo(st)
  BY DEF BusChanges
<1> DEFINE q == Told(st)
           l == [ldd EXCEPT !.in = NoPacket, !.out = FALSE, !.stalled = FALSE, !.rx = << >>,
                            !.ep0 = "None", !.states = q]
           k == [ldd EXCEPT !.states = q]
           i == HostIdle(host)
           h == [i EXCEPT !.failed = FALSE, !.corrupt = FALSE]
<1>2. q \in Seq(Reported) /\ (~ldd.open => q = << >>)
  BY ToldEffect
<1>3. /\ bus' = st /\ UNCHANGED << notifier, scsi, image, thread, server, cc, shown, fault >>
      /\ \/ /\ transport' = Fails(transport) /\ control' = Fails(control)
            /\ ldd' = l /\ host' = h
         \/ /\ UNCHANGED << transport, control, host >> /\ ldd' = k
  BY <1>1 DEF BusGoesTo
<1> HIDE DEF q
<1>4. /\ ldd \in Ldd /\ host \in Host /\ transport \in Transport /\ control \in Control
      /\ << >> \in Seq(Cbw)
  BY DEF Typed
<1>5. l \in Ldd /\ l.open = ldd.open /\ k \in Ldd /\ k.open = ldd.open
  BY <1>2, <1>4 DEF Ldd, Packets, Ep0s
<1>6. ldd = InitLdd => l = InitLdd /\ k = InitLdd
  <2>1. SUFFICES ASSUME ldd = InitLdd PROVE l = InitLdd /\ k = InitLdd
    OBVIOUS
  <2>2. ~ldd.open
    BY <2>1 DEF InitLdd
  <2>3. q = << >>
    BY <1>2, <2>2
  <2>4. /\ l.open = InitLdd.open /\ l.out = InitLdd.out /\ l.in = InitLdd.in
        /\ l.stalled = InitLdd.stalled /\ l.rx = InitLdd.rx /\ l.ep0 = InitLdd.ep0
        /\ l.states = InitLdd.states
    BY <2>1, <2>3 DEF InitLdd
  <2>5. /\ k.open = InitLdd.open /\ k.out = InitLdd.out /\ k.in = InitLdd.in
        /\ k.stalled = InitLdd.stalled /\ k.rx = InitLdd.rx /\ k.ep0 = InitLdd.ep0
        /\ k.states = InitLdd.states
    BY <2>1, <2>3 DEF InitLdd
  <2> QED BY <1>5, <2>4, <2>5, ConstantTypes, SameLdd
<1>7. i \in Host /\ i.phase = "Idle"
  BY <1>4, HostIdleEffect
<1> HIDE DEF i, l, k
<1>8. h \in Host /\ h.phase = "Idle"
  BY <1>7 DEF Host
<1> HIDE DEF h
<1>9. /\ transport' \in Transport /\ control' \in Control /\ ldd' \in Ldd /\ host' \in Host
      /\ transport'.active = transport.active /\ control'.active = control.active
      /\ transport'.iInterfaceConfigured = transport.iInterfaceConfigured
      /\ ldd'.open = ldd.open /\ (ldd = InitLdd => ldd' = InitLdd)
      /\ host'.phase = "Idle" \/ host' = host
  BY <1>3, <1>4, <1>5, <1>6, <1>8, FailsEffect
<1>10. Typed'
  BY <1>3, <1>9 DEF Typed
<1>11. ServiceInv'
  BY <1>3, <1>9 DEF ServiceInv, Service
<1> QED BY <1>10, <1>11

-----------------------------------------------------------------------------

\* Initially.
LEMMA InitService == Init => Typed /\ ServiceInv
<1> SUFFICES ASSUME Init PROVE Typed /\ ServiceInv
  OBVIOUS
<1>1. Blocks \in Nat
  BY MscAssumption
<1>2. /\ image \in Image /\ server \in Server /\ server.iSessionCount \in 0..1
  BY <1>1 DEF Init, Image, Server
<1>3. /\ cc \in ClassController /\ cc.iState = "EUsbServiceIdle"
      /\ thread \in Threads /\ bus \in BusStates /\ fault \in MscFaults /\ shown \in BOOLEAN
  BY DEF Init, ClassController, Threads, BusStates, MscFaults
<1>4. ~transport.active /\ ~control.active /\ ~notifier.active /\ host.phase = "Idle"
  BY DEF Init, InitTransport, InitControl, InitNotifier, InitHost
<1>5. Typed
  BY <1>2, <1>3, ConstantTypes DEF Init, Typed
<1>6. ServiceInv
  BY <1>2, <1>3, <1>4 DEF Init, ServiceInv, Service
<1> QED BY <1>5, <1>6

\* Every step keeps the types and the service.
LEMMA NextService ==
  ASSUME Typed, ServiceInv, [Next]_vars PROVE Typed' /\ ServiceInv'
<1>1. CASE Next
  <2>1. CASE Scheduler
    BY <2>1, SchedulerKeepsService, ThreadKeepsService DEF Scheduler
  <2>2. CASE HostAsks \/ AlternateSetting
    BY <2>2, HostAsksKeepsService
  <2>3. CASE HostSteps \/ HostResets
    BY <2>3, HostStepsKeepService
  <2> QED BY <1>1, <2>1, <2>2, <2>3, ThreadKeepsService, DriverKeepsService,
             ServerEndsKeepsService, StartKeepsService, AskStopKeepsService,
             StopKeepsService, HostSendsKeepsService, BusKeepsService DEF Next
<1>2. CASE UNCHANGED vars
  BY <1>2 DEF vars, Typed, ServiceInv, Service
<1> QED BY <1>1, <1>2

\* Types of the state of the mass-storage server, its class controller and its host.
THEOREM MscTypes == Spec => []Typed
<1>1. Typed /\ ServiceInv /\ [Next]_vars => (Typed /\ ServiceInv)'
  BY NextService
<1> QED BY InitService, <1>1, PTL DEF Spec

\* While the class is not started no request of the server is left with the driver, and
\* none of its active objects waits (CUsbMscFileClassController, CBulkOnlyTransport::Stop).
THEOREM MscIdleReleasesDevice == Spec => []IdleReleasesDevice
<1>1. Typed /\ ServiceInv /\ [Next]_vars => (Typed /\ ServiceInv)'
  BY NextService
<1>2. ServiceInv => IdleReleasesDevice
  BY DEF ServiceInv, Service, IdleReleasesDevice, InitLdd
<1> QED BY InitService, <1>1, <1>2, PTL DEF Spec

-----------------------------------------------------------------------------
\* The exchange of a command between host and device, when the server does not start while
\* the device is being configured.

\* What the notifier has still to tell the server: only choices of the setting, or a
\* change of the device first and then only these.
Alternates(s) == \A i \in 1..Len(s) : s[i] = "AlternateSetting"
NothingNew(n, s) ==
  Alternates(s) /\ (Ready(n) => n.iDeviceState = "AlternateSetting")
ComesFirst(n, s, st) ==
  IF Ready(n) THEN n.iDeviceState = st /\ Alternates(s)
  ELSE s # << >> /\ Head(s) = st /\ Alternates(Tail(s))
EndsWith(n, s, st) ==
  IF s # << >> THEN s[Len(s)] = st ELSE Ready(n) /\ n.iDeviceState = st

\* The server has started its transport, or will be told to; one that has will not be
\* told so again.
InStep(b, t, n, l) ==
  LET old == n.iOldDeviceState  s == l.states IN
  CASE b = "Configured" ->
         \/ t.iStarted /\ old = "None" /\ NothingNew(n, s)
         \/ t.iStarted /\ old = "Suspended" /\ ComesFirst(n, s, "Configured")
         \/ ~t.iStarted /\ old = "None" /\ ComesFirst(n, s, "Configured")
    [] b = "Suspended" ->
         \/ t.iStarted /\ old = "None" /\ ComesFirst(n, s, "Suspended")
         \/ t.iStarted /\ old = "Suspended" /\ NothingNew(n, s)
         \/ ~t.iStarted /\ old = "None" /\ NothingNew(n, s)
    [] b = "Unconfigured" ->
         \/ EndsWith(n, s, "Unconfigured")
         \/ s = << >> /\ ~Ready(n) /\ ~t.iStarted /\ old = "None"

\* Who has an object active, and what is on its way to the host.
Bulk(t, c, th, l) ==
  /\ ~t.iStarted => ~t.active /\ ~c.active /\ th = "Free"
  /\ th # "Free" => ~t.active
  /\ l.in # NoPacket => th = "Padding" \/ (t.active /\ t.iStatus = Pending)
  /\ l.out => t.active /\ t.iStatus = Pending /\ l.in = NoPacket
  /\ ~l.open => ~t.iStarted

\* A host without a configured device.
Blank(h) == h.phase = "Idle" /\ h.got = 0 /\ ~h.failed
Bare(l) == l.in = NoPacket /\ ~l.out /\ ~l.stalled /\ l.rx = << >> /\ l.ep0 = "None"

\* Endpoint 0: a request that was read is still there, and it is the host that resets.
Asked(c, l, h) ==
  /\ h.phase = "Reset" <=> l.ep0 \in {"Reset", "Answered"}
  /\ h.phase \notin {"Idle", "Reset"} => l.ep0 = "None"
  /\ c.active /\ c.iStatus = KErrNone /\ c.iCurrentState = "EReadEp0Data" => l.ep0 = c.iRequest

\* The command of the host, sent or read, with what it sends after it.
OfHost(cbw, rest, h) ==
  /\ cbw.tag = h.tag /\ cbw.len = h.len /\ h.got = 0
  /\ cbw.valid \/ h.corrupt
  /\ h.failed => cbw.cmd.op = "RequestSense"
  /\ \/ cbw.len = 0 /\ h.phase = "Status" /\ rest = << >>
     \/ cbw.len # 0 /\ cbw.toHost /\ h.phase = "DataIn" /\ rest = << >>
     \/ cbw.len # 0 /\ ~cbw.toHost /\ h.phase = "DataOut" /\ rest = << >>
     \/ cbw.len # 0 /\ ~cbw.toHost /\ h.phase = "Status" /\ rest = << OutData >>

\* The server is ready for a command.
AtRest(t) ==
  \/ ~t.iStarted
  \/ t.active /\ ~t.iWriteSetUp /\ t.iCurrentState = "EWaitForCBW" /\ t.iStatus = Pending
  \/ t.active /\ ~t.iWriteSetUp /\ t.iCurrentState = "ESendingCSW" /\ t.iStatus = KErrNone

Listening(t, l) ==
  t.active /\ t.iCurrentState = "EWaitForCBW" /\ t.iStatus = Pending => l.out

Awaiting(t, th, l, h, s) ==
  /\ AtRest(t) /\ Listening(t, l) /\ th = "Free" /\ l.in = NoPacket
  /\ h.phase \in {"ResetClear", "Reset"} \/ ~l.stalled
  /\ h.phase = "Reset" \/ (h.failed => s.sense # "NoSense")
  /\ \/ h.phase \in {"Idle", "ResetClear", "Reset"} /\ l.rx = << >> /\ h.got = 0
     \/ l.rx # << >> /\ OfHost(Head(l.rx), Tail(l.rx), h)

\* It has read it.
HasRead(t, th, l, h, s) ==
  /\ t.active /\ t.iStatus = KErrNone /\ t.iCurrentState = "EWaitForCBW" /\ ~t.iWriteSetUp
  /\ th = "Free" /\ l.in = NoPacket /\ ~l.stalled
  /\ h.failed => s.sense # "NoSense"
  /\ OfHost(t.iCbwBuf, l.rx, h)

\* It answers it: what the status it has in mind says is true.
Known(t, h, s) ==
  /\ t.iCbwTag = h.tag
  /\ t.iCmdStatus = "ECommandFailed" => s.sense # "NoSense"

Offered(t, l, h) ==
  /\ l.in.kind = "Data" /\ h.phase = "DataIn"
  /\ t.iCmdStatus # "EPhaseError" =>
       Sum(l.in, t.iDataResidue) = h.len
  /\ h.failed => l.in.reports \in Senses \ {"NoSense"}
Taken(t, h) ==
  /\ h.phase \in {"Status", "ClearIn"} /\ ~h.failed
  /\ t.iCmdStatus # "EPhaseError" => h.got + t.iDataResidue = h.len

Replies(t, th, l, h, s) ==
  /\ t.active /\ t.iCurrentState = "EWritingData" /\ th = "Free" /\ Known(t, h, s)
  /\ ~l.stalled /\ l.rx = << >>
  /\ \/ t.iStatus = Pending /\ Offered(t, l, h)
     \/ t.iStatus = KErrNone /\ l.in = NoPacket /\ Taken(t, h)

Pads(t, th, l, h, s) ==
  /\ th = "Padding" /\ ~t.iWriteSetUp /\ Known(t, h, s)
  /\ ~l.stalled /\ l.rx = << >> /\ ~h.failed
  /\ Offered(t, l, h) \/ (l.in = NoPacket /\ Taken(t, h))

CutsShort(t, th, l, h, s) ==
  /\ th = "StalledAfterData" /\ ~t.iWriteSetUp /\ Known(t, h, s)
  /\ l.in = NoPacket /\ l.rx = << >> /\ Taken(t, h)

Discards(t, th, l, h, s) ==
  /\ th = "Discarding" /\ Known(t, h, s)
  /\ l.in = NoPacket /\ ~l.stalled /\ h.got = 0 /\ t.iDataResidue = h.len
  /\ h.failed => t.iWriteSetUp
  /\ \/ h.phase = "DataOut" /\ l.rx = << >>
     \/ h.phase = "Status" /\ l.rx = << OutData >>

Reports(t, th, l, h, s) ==
  /\ t.active /\ t.iStatus = Pending /\ t.iCurrentState = "ESendingCSW" /\ th = "Free"
  /\ l.in.kind = "CSW" /\ l.in.tag = h.tag /\ l.rx = << >>
  /\ h.phase \in {"Status", "ClearIn"}
  /\ l.in.status # "EPhaseError" =>
       h.got + l.in.residue = h.len /\ ~t.iWriteSetUp /\ ~h.failed
  /\ l.in.status = "ECommandFailed" => s.sense # "NoSense"

\* It has given up on a host that sent something else than a command.
GivesUp(t, th, l, h) ==
  /\ t.iStarted /\ t.iCurrentState = "EPermErr" /\ l.in = NoPacket /\ h.corrupt
  /\ t.active => th = "Free" /\ t.iStatus = KErrNone
  /\ ~t.active => th \in {"Free", "Stalled"}
  /\ h.phase \in {"DataIn", "DataOut", "Status", "ClearIn"}

Exchange(t, th, l, h, s) ==
  \/ h.phase = "Reset" /\ l.ep0 # "Answered" /\ h.got = 0
  \/ Awaiting(t, th, l, h, s) \/ HasRead(t, th, l, h, s) \/ Replies(t, th, l, h, s)
  \/ Pads(t, th, l, h, s) \/ CutsShort(t, th, l, h, s) \/ Discards(t, th, l, h, s)
  \/ Reports(t, th, l, h, s) \/ GivesUp(t, th, l, h)

Agreement(t, c, n, th, l, b, h, s) ==
  /\ Bulk(t, c, th, l)
  /\ l.open => InStep(b, t, n, l)
  /\ ~l.open => Blank(h) /\ n.iOldDeviceState = "None"
  /\ l.open /\ b = "Unconfigured" => Blank(h) /\ Bare(l)
  /\ l.open /\ b # "Unconfigured" => Asked(c, l, h) /\ Exchange(t, th, l, h, s)
ExchangeInv ==
  Running => Agreement(transport, control, notifier, thread, ldd, bus, host, scsi)

-----------------------------------------------------------------------------
\* What the methods do to the sense data, and what else the exchange turns on.

\* Only commands and resets change the sense data.
LEMMA SenseKept ==
  ASSUME NEW m \in MscMemory
  PROVE  /\ ReadCBW(m).scsi = m.scsi /\ SetPermError(m).scsi = m.scsi
         /\ ReadEp0Data(m).scsi = m.scsi /\ ActivateNotifier(m).scsi = m.scsi
         /\ CancelTransport(m).scsi = m.scsi /\ CancelControl(m).scsi = m.scsi
         /\ Inactive(m).scsi = m.scsi /\ Unset(m).scsi = m.scsi
         /\ HwStarted(m).scsi = m.scsi
         /\ \A where \in Threads : StallIn(m, where).scsi = m.scsi /\ Block(m, where).scsi = m.scsi
         /\ \A r, st : SendCSW(m, r, st).scsi = m.scsi
BY DEF MscMemory, ReadCBW, TransportActive, SetPermError, ReadEp0Data, ActivateNotifier,
       CancelTransport, CancelControl, Inactive, Unset, HwStarted, StallIn, Block, SendCSW, Write

\* REQUEST SENSE replies with the sense data there was.
LEMMA RequestSenseReplies ==
  ASSUME NEW m \in MscMemory, NEW c \in Command, c.op = "RequestSense"
  PROVE  /\ DecodePacket(m, c).t.iWriteSetUp
         /\ DecodePacket(m, c).t.iWriteBuf.reports = m.scsi.sense
<1>1. c.op \notin NeedsImage
  BY DEF NeedsImage, Reads
<1>2. DecodePacket(m, c) = Handle(m, c)
  BY <1>1 DEF DecodePacket
<1>3. Handle(m, c) = HandleRequestSense(m, c)
  BY DEF Handle, Reads
<1> DEFINE len == Min2(c.len, ReplyLength.RequestSense)
           b == [len |-> len, fresh |-> TRUE, reports |-> m.scsi.sense]
           t == [m.t EXCEPT !.iWriteSetUp = TRUE, !.iWriteBuf = b]
           n == [m EXCEPT !.t = t]
<1>4. HandleRequestSense(m, c) = SetSense(n, "NoSense")
  BY DEF HandleRequestSense, SetupWriteData, MscMemory
<1>5. b.reports = m.scsi.sense
  OBVIOUS
<1>6. m.t \in Transport
  BY DEF MscMemory
<1> HIDE DEF b
<1>7. t.iWriteSetUp /\ t.iWriteBuf = b
  BY <1>6 DEF Transport
<1> HIDE DEF t
<1>8. n.t = t /\ SetSense(n, "NoSense").t = n.t
  BY DEF SetSense, MscMemory
<1> HIDE DEF n
<1> QED BY <1>2, <1>3, <1>4, <1>5, <1>7, <1>8

\* A write of data leaves the status and the sense data alone.
LEMMA WriteReason ==
  ASSUME NEW m \in MscMemory, NEW p, m.bus # "Unconfigured", NEW n,
         n = Write(m, p, "EWritingData")
  PROVE  /\ n.scsi = m.scsi /\ n.t.iCmdStatus = m.t.iCmdStatus /\ n.ldd.in = p
         /\ n.thread = m.thread
BY DEF Write, TransportActive, MscMemory, Transport, Ldd

\* What is sent is what is set up, and reports what that reports.
LEMMA PrepareWriteToHostReason ==
  ASSUME NEW m \in MscMemory, NEW len \in Nat, m.bus # "Unconfigured"
  PROVE  LET n == PrepareWriteToHost(m, len) IN
         /\ n.scsi = m.scsi
         /\ n.t.iCmdStatus \in {m.t.iCmdStatus, "EPhaseError"}
         /\ m.t.iWriteSetUp => n.ldd.in.reports = m.t.iWriteBuf.reports /\ n.thread = m.thread
<1> DEFINE buf    == m.t.iWriteBuf
           real   == Min2(buf.len, len)
           rest   == len - real
           d      == [m EXCEPT !.t.iDataResidue = rest]
           padded == [d EXCEPT !.t.iStallAllowed = FALSE]
           cut    == [d EXCEPT !.t.iCmdStatus = "EPhaseError"]
           packet == DataPacket(real, buf.fresh, buf.reports)
           none   == [m EXCEPT !.t.iDataResidue = len]
           mute   == [none EXCEPT !.t.iStallAllowed = FALSE]
           zeros  == DataPacket(0, TRUE, "Data")
           pad    == Block([none EXCEPT !.ldd.in = IF m.bus = "Unconfigured" THEN NoPacket
                                                   ELSE zeros], "Padding")
           n      == PrepareWriteToHost(m, len)
<1>1. packet.reports = buf.reports
  BY DEF DataPacket
<1>2. rest \in Nat
  <2>1. buf.len \in Nat
    BY DEF MscMemory, Transport, Buffer
  <2> HIDE DEF buf
  <2>2. real \in Nat /\ real <= len
    BY <2>1, MinIsNat
  <2> HIDE DEF real
  <2> QED BY <2>2
<1> HIDE DEF packet, zeros, rest
<1>3. /\ d \in MscMemory /\ d.bus = m.bus /\ d.scsi = m.scsi /\ d.thread = m.thread
      /\ d.t.iCmdStatus = m.t.iCmdStatus
  BY <1>2 DEF MscMemory, Transport
<1>4. none \in MscMemory /\ none.bus = m.bus /\ none.scsi = m.scsi
      /\ none.t.iCmdStatus = m.t.iCmdStatus
  BY DEF MscMemory, Transport
<1> HIDE DEF d, none
<1>5. /\ padded \in MscMemory /\ padded.bus = m.bus /\ padded.scsi = m.scsi
      /\ padded.thread = m.thread /\ padded.t.iCmdStatus = m.t.iCmdStatus
  BY <1>3 DEF MscMemory, Transport
<1>6. /\ cut \in MscMemory /\ cut.bus = m.bus /\ cut.scsi = m.scsi
      /\ cut.thread = m.thread /\ cut.t.iCmdStatus = "EPhaseError"
  BY <1>3 DEF MscMemory, Transport, CswStatuses
<1>7. /\ mute \in MscMemory /\ mute.bus = m.bus /\ mute.scsi = m.scsi
      /\ mute.t.iCmdStatus = m.t.iCmdStatus
  BY <1>4 DEF MscMemory, Transport
<1>8. pad.scsi = m.scsi /\ pad.t.iCmdStatus = m.t.iCmdStatus
  BY <1>4 DEF Block, MscMemory, Transport
<1> HIDE DEF padded, cut, mute, pad
<1>9. CASE m.t.iWriteSetUp
  <2>1. n = Write(padded, packet, "EWritingData") \/ n = Write(cut, packet, "EWritingData")
          \/ n = Write(d, packet, "EWritingData")
    <3> HIDE DEF buf
    <3> QED BY <1>9 DEF PrepareWriteToHost, padded, cut, packet, d, real, buf, rest
  <2> HIDE DEF n
  <2>2. /\ n.scsi = m.scsi /\ n.t.iCmdStatus \in {m.t.iCmdStatus, "EPhaseError"}
        /\ n.ldd.in = packet /\ n.thread = m.thread
    BY <1>3, <1>5, <1>6, <2>1, WriteReason
  <2> QED BY <1>1, <2>2 DEF n
<1>10. CASE ~m.t.iWriteSetUp
  <2>1. n = Write(mute, zeros, "EWritingData") \/ n = pad
    <3>1. CASE len <= KBOTMaxBufSize
      <4>1. ~(len > KBOTMaxBufSize)
        BY <3>1 DEF KBOTMaxBufSize
      <4> QED BY <1>10, <3>1, <4>1 DEF PrepareWriteToHost, mute, zeros, none
    <3>2. CASE ~(len <= KBOTMaxBufSize)
      <4>1. len > KBOTMaxBufSize
        BY <3>2 DEF KBOTMaxBufSize
      <4> QED BY <1>10, <3>2, <4>1 DEF PrepareWriteToHost, pad, zeros, none
    <3> QED BY <3>1, <3>2
  <2> HIDE DEF n
  <2>2. n.scsi = m.scsi /\ n.t.iCmdStatus = m.t.iCmdStatus
    BY <1>7, <1>8, <2>1, WriteReason
  <2> QED BY <1>10, <2>2 DEF n
<1> QED BY <1>9, <1>10

\* The status and the sense data agree after a command is decoded, and REQUEST SENSE
\* tells the sense data to a host that reads it.
LEMMA DecodeCBWReason ==
  ASSUME NEW m \in MscMemory, ~m.t.active, m.thread = "Free", m.bus # "Unconfigured",
         m.t.iCbwBuf.valid
  PROVE  LET cbw == m.t.iCbwBuf
             n   == DecodeCBW(m)
         IN /\ cbw.len = 0 /\ n.ldd.in.status = "ECommandFailed" => n.scsi.sense # "NoSense"
            /\ cbw.len # 0 /\ n.t.iCmdStatus = "ECommandFailed" => n.scsi.sense # "NoSense"
            /\ cbw.cmd.op = "RequestSense" =>
                 /\ cbw.len = 0 => n.ldd.in.status = "EPhaseError"
                 /\ cbw.len # 0 /\ cbw.toHost =>
                      n.ldd.in.reports = m.scsi.sense /\ n.thread = "Free"
                 /\ cbw.len # 0 /\ ~cbw.toHost => n.t.iWriteSetUp
<1> DEFINE cbw == m.t.iCbwBuf
           e == [m EXCEPT !.t.iWriteBuf.fresh = FALSE, !.t.iCbwBuf = NoCbw]
           p == DecodePacket(e, cbw.cmd)
           status == IF SenseOk(p) THEN "ECommandPassed" ELSE "ECommandFailed"
           d == Begun(p, cbw.tag, status)
           z == [d EXCEPT !.t.iDataResidue = 0]
           st == StatusUnlessWrite(d)
           n == DecodeCBW(m)
<1>1. cbw \in Cbw
  BY DEF MscMemory, Transport
<1>2. /\ cbw.valid \in BOOLEAN /\ cbw.toHost \in BOOLEAN
      /\ cbw.tag \in 0..1 /\ cbw.len \in Nat /\ cbw.cmd \in Command
  BY <1>1 DEF Cbw
<1>3. e.scsi = m.scsi /\ TransportOnly(m, e) /\ e.thread = m.thread /\ e.t.active = m.t.active
  <2>1. e.scsi = m.scsi
    BY DEF MscMemory
  <2> HIDE DEF e
  <2> QED BY <2>1, Stale DEF e
<1>4. /\ cbw.len = 0 => n = SendCSW(z, 0, st)
      /\ cbw.len # 0 /\ cbw.toHost => n = PrepareWriteToHost(d, cbw.len)
      /\ cbw.len # 0 /\ ~cbw.toHost => n = PrepareReadFromHost(d, cbw.len)
  BY <1>2 DEF DecodeCBW, Begun
<1> HIDE DEF cbw, e, n, z
<1>5. e \in MscMemory
  BY <1>3 DEF TransportOnly, Inside
<1>6. Replied(e, p)
  BY <1>2, <1>5, DecodePacketEffect
<1>7. cbw.cmd.op = "RequestSense" => p.t.iWriteSetUp /\ p.t.iWriteBuf.reports = m.scsi.sense
  BY <1>2, <1>3, <1>5, RequestSenseReplies
<1> HIDE DEF p
<1>8. p \in MscMemory
  BY <1>6 DEF Replied, TransportOnly, Inside
<1>9. /\ status \in CswStatuses /\ status # "EPhaseError"
      /\ status = "ECommandFailed" => p.scsi.sense # "NoSense"
  BY DEF CswStatuses, SenseOk
<1> HIDE DEF status
<1>10. /\ TransportOnly(p, d) /\ d.thread = p.thread
       /\ d.t.active = p.t.active /\ d.t.iWriteSetUp = p.t.iWriteSetUp
       /\ d.t.iWriteBuf = p.t.iWriteBuf /\ d.t.iCbwTag = cbw.tag /\ d.t.iCmdStatus = status
  BY <1>2, <1>8, <1>9, BegunEffect
<1>11. d.scsi = p.scsi
  BY <1>8 DEF Begun, MscMemory
<1> HIDE DEF d
<1>12. /\ d \in MscMemory /\ d.bus # "Unconfigured" /\ ~d.t.active /\ d.thread = "Free"
  BY <1>3, <1>6, <1>10 DEF Replied, TransportOnly, Inside
<1>13. d.t.iCmdStatus = "ECommandFailed" => d.scsi.sense # "NoSense"
  BY <1>9, <1>10, <1>11
<1>14. cbw.cmd.op = "RequestSense" => d.t.iWriteSetUp /\ d.t.iWriteBuf.reports = m.scsi.sense
  BY <1>7, <1>10
<1>15. CASE cbw.len = 0
  <2>1. st \in CswStatuses /\ (st = "ECommandFailed" => d.t.iCmdStatus = "ECommandFailed")
        /\ (d.t.iWriteSetUp => st = "EPhaseError")
    BY <1>9, <1>10 DEF StatusUnlessWrite, CswStatuses
  <2> HIDE DEF st
  <2>2. /\ TransportOnly(d, z) /\ z.t.active = d.t.active /\ z.scsi = d.scsi
    <3>1. z.scsi = d.scsi
      BY <1>12 DEF z, MscMemory
    <3> QED BY <1>12, <3>1, ResidueChanged DEF z
  <2>3. z \in MscMemory /\ z.bus # "Unconfigured" /\ ~z.t.active
    BY <1>12, <2>2 DEF TransportOnly, Inside
  <2>4. n = SendCSW(z, 0, st)
    BY <1>4, <1>15
  <2>5. StatusSent(z, n, 0, st) /\ n.scsi = z.scsi
    BY <2>1, <2>3, <2>4, SendCSWEffect, SenseKept
  <2>6. n.ldd.in = CswPacket(z.t.iCbwTag, 0, st)
    BY <2>3, <2>5 DEF StatusSent
  <2>7. n.ldd.in.status = st
    BY <2>6 DEF CswPacket
  <2> QED BY <1>13, <1>14, <1>15, <2>1, <2>2, <2>5, <2>7 DEF cbw, n
<1>16. CASE cbw.len # 0 /\ cbw.toHost
  <2>1. n = PrepareWriteToHost(d, cbw.len)
    BY <1>4, <1>16
  <2>2. /\ n.scsi = d.scsi
        /\ n.t.iCmdStatus \in {d.t.iCmdStatus, "EPhaseError"}
        /\ d.t.iWriteSetUp => n.ldd.in.reports = d.t.iWriteBuf.reports /\ n.thread = d.thread
    BY <1>2, <1>12, <2>1, PrepareWriteToHostReason
  <2> QED BY <1>12, <1>13, <1>14, <1>16, <2>2 DEF cbw, n
<1>17. CASE cbw.len # 0 /\ ~cbw.toHost
  <2> DEFINE r == [d EXCEPT !.t.iDataResidue = cbw.len]
  <2>1. n = Block(r, "Discarding")
    BY <1>4, <1>17 DEF PrepareReadFromHost
  <2>2. /\ r.scsi = d.scsi /\ r.t.iWriteSetUp = d.t.iWriteSetUp /\ r.t.iCmdStatus = d.t.iCmdStatus
        /\ r \in MscMemory
    BY <1>2, <1>12 DEF MscMemory, Transport
  <2> HIDE DEF r
  <2>3. n.scsi = r.scsi /\ n.t = r.t
    BY <2>1, <2>2, BlockEffect, SenseKept DEF Threads
  <2> QED BY <1>13, <1>14, <1>17, <2>2, <2>3 DEF cbw, n
<1> QED BY <1>2, <1>15, <1>16, <1>17

\* What a reading transport does of the next command.
LEMMA ReadCBWListens ==
  ASSUME NEW m \in MscMemory, ~m.t.active
  PROVE  LET n == ReadCBW(m) IN
         /\ n.t.active /\ n.t.iCurrentState = "EWaitForCBW"
         /\ n.t.iStatus = (IF m.bus = "Unconfigured" THEN KErrGeneral ELSE Pending)
         /\ n.t.iWriteSetUp = m.t.iWriteSetUp /\ n.t.iStarted = m.t.iStarted
         /\ n.ldd.out = (m.bus # "Unconfigured") /\ n.ldd.in = m.ldd.in
         /\ n.ldd.stalled = m.ldd.stalled /\ n.ldd.rx = m.ldd.rx /\ n.ldd.ep0 = m.ldd.ep0
         /\ n.ldd.states = m.ldd.states /\ n.ldd.open = m.ldd.open
         /\ n.c = m.c /\ n.n = m.n /\ n.thread = m.thread /\ n.bus = m.bus
         /\ n.fault = m.fault
<1> DEFINE l == [m.ldd EXCEPT !.out = (m.bus # "Unconfigured")]
           s == IF m.bus = "Unconfigured" THEN KErrGeneral ELSE Pending
           t == [m.t EXCEPT !.active = TRUE, !.iCurrentState = "EWaitForCBW", !.iStatus = s]
<1>1. m.ldd \in Ldd /\ m.t \in Transport
  BY DEF MscMemory
<1>2. ReadCBW(m) = [m EXCEPT !.ldd = l, !.t = t]
  BY DEF ReadCBW, TransportActive, MscMemory
<1>3. /\ l.out = (m.bus # "Unconfigured") /\ l.in = m.ldd.in
      /\ l.stalled = m.ldd.stalled /\ l.rx = m.ldd.rx /\ l.ep0 = m.ldd.ep0
      /\ l.states = m.ldd.states /\ l.open = m.ldd.open
  BY <1>1 DEF Ldd
<1>4. /\ t.active /\ t.iCurrentState = "EWaitForCBW" /\ t.iStatus = s
      /\ t.iWriteSetUp = m.t.iWriteSetUp /\ t.iStarted = m.t.iStarted
  BY <1>1 DEF Transport
<1> HIDE DEF l, t
<1>5. /\ ReadCBW(m).t = t /\ ReadCBW(m).ldd = l /\ ReadCBW(m).c = m.c /\ ReadCBW(m).n = m.n
      /\ ReadCBW(m).thread = m.thread /\ ReadCBW(m).bus = m.bus /\ ReadCBW(m).fault = m.fault
  BY <1>2 DEF MscMemory
<1> QED BY <1>3, <1>4, <1>5

\* Two memories that differ in the helpers and the queue of device states at most.
SameDriver(l, k) ==
  /\ k.open = l.open /\ k.in = l.in /\ k.stalled = l.stalled /\ k.rx = l.rx
  /\ k.ep0 = l.ep0 /\ k.states = l.states

\* A transport that starts waits for a command, and its reset for requests, unless the
\* process ends.
LEMMA HwStartBegins ==
  ASSUME NEW m \in MscMemory, NEW discard \in BOOLEAN
  PROVE  LET n == HwStart(m, discard) IN
         /\ n.t.iStarted /\ SameDriver(m.ldd, n.ldd)
         /\ n.c = m.c \/ (n.c.active /\ n.c.iStatus = Pending)
         /\ n.n = m.n /\ n.thread = m.thread /\ n.bus = m.bus /\ n.scsi = m.scsi
         /\ n.fault = NoFault =>
              /\ n.t.active /\ (discard => m.ldd.rx = << >>)
              /\ m.t.active => n.ldd.out = m.ldd.out
              /\ ~m.t.active => /\ ~n.t.iWriteSetUp /\ n.t.iCurrentState = "EWaitForCBW"
                                /\ n.t.iStatus = (IF m.bus = "Unconfigured" THEN KErrGeneral
                                                  ELSE Pending)
                                /\ n.ldd.out = (m.bus # "Unconfigured")
<1> DEFINE r == ReadEp0Data(m)
           d == HwStarted(r)
           f == [d EXCEPT !.fault = Raise(@, EmptyReadBuffer)]
           n == HwStart(m, discard)
<1>1. /\ r \in MscMemory /\ r.t = m.t /\ r.n = m.n /\ r.ldd = m.ldd /\ r.thread = m.thread
      /\ r.fault = m.fault /\ r.bus = m.bus /\ r.scsi = m.scsi
      /\ r.c = m.c \/ (r.c.active /\ r.c.iStatus = Pending)
  BY ReadEp0DataEffect, SenseKept DEF Inside
<1>2. n = IF discard /\ m.ldd.rx # << >> THEN f ELSE ReadCBW(d)
  BY DEF HwStart, HwStarted
<1> HIDE DEF r
<1>3. /\ d \in MscMemory /\ d.c = r.c /\ d.n = r.n /\ d.ldd = r.ldd /\ d.thread = r.thread
      /\ d.fault = r.fault /\ d.t.active = r.t.active /\ ~d.t.iWriteSetUp
      /\ d.bus = r.bus /\ d.scsi = r.scsi
  BY <1>1, HwStartedEffect, SenseKept DEF Inside
<1>4. d.t.iStarted
  BY <1>1 DEF HwStarted, MscMemory, Transport
<1> HIDE DEF d
<1>5. CASE discard /\ m.ldd.rx # << >>
  <2>1. /\ n.t = d.t /\ n.ldd = d.ldd /\ n.c = d.c /\ n.n = d.n /\ n.thread = d.thread
        /\ n.bus = d.bus /\ n.scsi = d.scsi /\ n.fault # NoFault
    BY <1>2, <1>3, <1>5 DEF MscMemory, Raise, NoFault, EmptyReadBuffer
  <2> HIDE DEF n
  <2> QED BY <1>1, <1>3, <1>4, <2>1 DEF SameDriver, n
<1>6. CASE ~(discard /\ m.ldd.rx # << >>)
  <2>1. n = ReadCBW(d)
    BY <1>2, <1>6
  <2>2. n.scsi = d.scsi
    BY <1>3, <2>1, SenseKept
  <2>3. CASE d.t.active
    <3>1. n = d
      BY <2>1, <2>3 DEF ReadCBW
    <3> QED BY <1>1, <1>3, <1>4, <1>6, <2>3, <3>1 DEF SameDriver, n
  <2>4. CASE ~d.t.active
    <3>1. /\ n.t.active /\ n.t.iCurrentState = "EWaitForCBW"
          /\ n.t.iStatus = (IF d.bus = "Unconfigured" THEN KErrGeneral ELSE Pending)
          /\ n.t.iWriteSetUp = d.t.iWriteSetUp /\ n.t.iStarted = d.t.iStarted
          /\ n.ldd.out = (d.bus # "Unconfigured") /\ SameDriver(d.ldd, n.ldd)
          /\ n.c = d.c /\ n.n = d.n /\ n.thread = d.thread /\ n.bus = d.bus
          /\ n.fault = d.fault
      BY <1>3, <2>1, <2>4, ReadCBWListens DEF SameDriver
    <3> HIDE DEF n
    <3> QED BY <1>1, <1>3, <1>4, <1>6, <2>2, <2>4, <3>1 DEF SameDriver, n
  <2> QED BY <2>3, <2>4
<1> QED BY <1>5, <1>6

\* A transport that stops leaves nothing on its way.
LEMMA HwStopEnds ==
  ASSUME NEW m \in MscMemory, m.t.iStarted
  PROVE  LET n == HwStop(m) IN
         /\ ~n.t.iStarted /\ ~n.t.active /\ n.c = InitControl /\ n.n = m.n
         /\ n.thread = m.thread /\ n.bus = m.bus /\ n.scsi = m.scsi /\ n.fault = m.fault
         /\ n.ldd.open = m.ldd.open /\ n.ldd.stalled = m.ldd.stalled /\ n.ldd.rx = m.ldd.rx
         /\ n.ldd.states = m.ldd.states
         /\ n.ldd.in = (IF m.t.active THEN NoPacket ELSE m.ldd.in)
         /\ n.ldd.out => m.ldd.out
         /\ n.ldd.ep0 = m.ldd.ep0 \/ (m.ldd.ep0 = "GetMaxLun" /\ n.ldd.ep0 = "Ignored")
<1> DEFINE t == CancelTransport(m)
           c == CancelControl(t)
           n == HwStop(m)
<1>1. /\ t \in MscMemory /\ ~t.t.active /\ t.thread = m.thread /\ t.fault = m.fault
      /\ t.n = m.n /\ t.bus = m.bus /\ t.scsi = m.scsi
      /\ t.ldd.open = m.ldd.open /\ t.ldd.stalled = m.ldd.stalled /\ t.ldd.rx = m.ldd.rx
      /\ t.ldd.states = m.ldd.states /\ t.ldd.ep0 = m.ldd.ep0
      /\ t.ldd.in = (IF m.t.active THEN NoPacket ELSE m.ldd.in)
  BY CancelTransportEffect, SenseKept DEF TransportOnly, Inside, SameEp0
<1>1a. t.ldd.out => m.ldd.out
  BY DEF CancelTransport, MscMemory, Ldd
<1>2. n = [c EXCEPT !.t.iStarted = FALSE]
  BY DEF HwStop
<1> HIDE DEF t
<1>3. /\ c \in MscMemory /\ c.c = InitControl /\ c.t = t.t /\ c.n = t.n
      /\ c.thread = t.thread /\ c.fault = t.fault /\ c.bus = t.bus /\ c.scsi = t.scsi
      /\ SameBulk(t.ldd, c.ldd)
      /\ c.ldd.ep0 = t.ldd.ep0 \/ (t.ldd.ep0 = "GetMaxLun" /\ c.ldd.ep0 = "Ignored")
  BY <1>1, CancelControlEffect, SenseKept DEF Inside
<1> HIDE DEF c
<1>4. /\ ~n.t.iStarted /\ n.t.active = c.t.active /\ n.c = c.c /\ n.n = c.n
      /\ n.thread = c.thread /\ n.bus = c.bus /\ n.scsi = c.scsi /\ n.fault = c.fault
      /\ n.ldd = c.ldd
  BY <1>2, <1>3 DEF MscMemory, Transport
<1> HIDE DEF n
<1> QED BY <1>1, <1>1a, <1>3, <1>4 DEF SameBulk, n

\* A transport that was not started has nothing to stop.
LEMMA HwStopIdle == ASSUME NEW m, ~m.t.iStarted PROVE HwStop(m) = m
BY DEF HwStop

\* All of a memory but the notifier.
SameButNotifier(m, n) ==
  /\ n.t = m.t /\ n.c = m.c /\ n.ldd = m.ldd /\ n.thread = m.thread /\ n.bus = m.bus
  /\ n.scsi = m.scsi /\ n.fault = m.fault

\* The notifier starts or stops the transport, and waits for the next change.
LEMMA NotifierRunLDoes ==
  ASSUME NEW m \in MscMemory
  PROVE  LET n  == NotifierRunL(m)
             st == m.n.iDeviceState
         IN /\ n.n.active /\ n.n.iStatus = Pending
            /\ n.n.iOldDeviceState = (IF st = "AlternateSetting" THEN m.n.iOldDeviceState
                                      ELSE IF st = "Suspended" THEN st ELSE "None")
            /\ \E d \in MscMemory :
                 /\ SameButNotifier(m, d)
                 /\ \/ /\ st = "Configured" /\ m.n.iOldDeviceState # "Suspended"
                       /\ SameButNotifier(HwStart(d, FALSE), n)
                    \/ st = "Unconfigured" /\ SameButNotifier(HwStop(d), n)
                    \/ /\ st # "Unconfigured"
                       /\ st = "Configured" => m.n.iOldDeviceState = "Suspended"
                       /\ SameButNotifier(d, n)
<1> DEFINE st == m.n.iDeviceState
           d == [m EXCEPT !.n.active = FALSE, !.n.iDeviceState = "None"]
           old == IF st = "AlternateSetting" THEN m.n.iOldDeviceState
                  ELSE IF st = "Suspended" THEN st ELSE "None"
           n == CASE st = "Configured" /\ m.n.iOldDeviceState # "Suspended" -> HwStart(d, FALSE)
                  [] st = "Unconfigured" -> HwStop(d)
                  [] OTHER -> d
           k == [n EXCEPT !.n.iOldDeviceState = old]
           a == ActivateNotifier(k)
<1>1. d \in MscMemory /\ SameButNotifier(m, d) /\ ~d.n.active
  BY DEF MscMemory, Notifier, Reported, BusStates, SameButNotifier
<1>2. old \in {"None", "Suspended"}
  BY DEF MscMemory, Notifier
<1>3. \/ st = "Configured" /\ m.n.iOldDeviceState # "Suspended" /\ n = HwStart(d, FALSE)
      \/ st = "Unconfigured" /\ n = HwStop(d)
      \/ /\ st # "Unconfigured" /\ (st = "Configured" => m.n.iOldDeviceState = "Suspended")
         /\ n = d
  OBVIOUS
<1>4. NotifierRunL(m) = a
  BY DEF NotifierRunL
<1> HIDE DEF d, n, old, k, st
<1>5. n \in MscMemory /\ ~n.n.active
  <2>1. Inside(d, HwStart(d, FALSE)) /\ Inside(d, HwStop(d))
    BY <1>1, HwStartEffect, HwStopEffect
  <2>2. HwStart(d, FALSE).n = d.n
    BY <1>1, HwStartBegins
  <2>3. HwStop(d).n = d.n
    BY <1>1, HwStopEnds, HwStopIdle
  <2>4. HwStart(d, FALSE) \in MscMemory /\ HwStop(d) \in MscMemory
    BY <2>1 DEF Inside
  <2> QED BY <1>1, <1>3, <2>2, <2>3, <2>4
<1>6. /\ k \in MscMemory /\ ~k.n.active /\ k.n.iOldDeviceState = old /\ SameButNotifier(n, k)
  BY <1>2, <1>5 DEF MscMemory, Notifier, SameButNotifier, k
<1>7. /\ a.n.active /\ a.n.iStatus = Pending /\ a.n.iOldDeviceState = old
      /\ SameButNotifier(k, a)
  BY <1>6, ActivateNotifierEffect, SenseKept DEF SameButNotifier, Inside
<1> HIDE DEF a
<1>8. SameButNotifier(n, a)
  BY <1>6, <1>7 DEF SameButNotifier
<1>9. \/ st = "Configured" /\ m.n.iOldDeviceState # "Suspended" /\ SameButNotifier(HwStart(d, FALSE), a)
      \/ st = "Unconfigured" /\ SameButNotifier(HwStop(d), a)
      \/ /\ st # "Unconfigured" /\ (st = "Configured" => m.n.iOldDeviceState = "Suspended")
         /\ SameButNotifier(d, a)
  BY <1>3, <1>8
<1>10. a.n.iOldDeviceState = (IF st = "AlternateSetting" THEN m.n.iOldDeviceState
                              ELSE IF st = "Suspended" THEN st ELSE "None")
  BY <1>7 DEF old
<1> QED BY <1>1, <1>4, <1>7, <1>9, <1>10 DEF st

\* All of a memory but the control interface and endpoint 0.
SameButControl(m, n) ==
  /\ n.t = m.t /\ n.n = m.n /\ n.thread = m.thread /\ n.bus = m.bus /\ n.scsi = m.scsi
  /\ n.fault = m.fault /\ SameBulk(m.ldd, n.ldd)
\* A request on endpoint 0 has been read.
HasRequest(c) == c.iStatus = KErrNone /\ c.iCurrentState = "EReadEp0Data"

\* A request other than the reset changes nothing but endpoint 0 and is the one it answers,
\* if it is answered; one that does not decode is the last to be read.
LEMMA ControlRunLAnswers ==
  ASSUME NEW m \in MscMemory, ~(HasRequest(m.c) /\ m.c.iRequest = "Reset")
  PROVE  LET n == ControlRunL(m) IN
         /\ SameButControl(m, n) /\ (n.c.active => n.c.iStatus = Pending)
         /\ n.ldd.ep0 = m.ldd.ep0 \/ (HasRequest(m.c) /\ n.ldd.ep0 \in {"None", "Ignored"})
         /\ m.ldd.ep0 = "None" => n.ldd.ep0 = "None"
<1> DEFINE d == [m EXCEPT !.c.active = FALSE]
           a == [d EXCEPT !.c.active = TRUE, !.c.iStatus = Pending,
                          !.c.iCurrentState = "ESendMaxLun"]
           n == ControlRunL(m)
<1>1. /\ d \in MscMemory /\ SameButControl(m, d) /\ d.ldd = m.ldd /\ ~d.c.active
      /\ d.c.iStatus = m.c.iStatus /\ d.c.iCurrentState = m.c.iCurrentState
      /\ d.c.iRequest = m.c.iRequest
  BY DEF MscMemory, Control, SameButControl, SameBulk
<1>2. /\ SameButControl(m, a) /\ a.c.active /\ a.c.iStatus = Pending /\ a.ldd = m.ldd
  BY DEF MscMemory, Control, SameButControl, SameBulk
<1>3. \/ HasRequest(m.c) /\ n = a
      \/ \E how \in {"None", "Ignored"} : HasRequest(m.c) /\ n = ReadEp0Data(Answer(d, how))
      \/ HasRequest(m.c) /\ n = Answer(d, "Ignored")
      \/ n = ReadEp0Data(d)
  <2>1. n = IF HasRequest(m.c) THEN DecodeEp0Data(d) ELSE ReadEp0Data(d)
    BY DEF ControlRunL, HasRequest
  <2> HIDE DEF d
  <2>2. HasRequest(m.c) => d.c.iRequest # "Reset"
    BY <1>1
  <2>3. HasRequest(m.c) =>
          \/ DecodeEp0Data(d) = a
          \/ DecodeEp0Data(d) = ReadEp0Data(Answer(d, "None"))
          \/ DecodeEp0Data(d) = ReadEp0Data(Answer(d, "Ignored"))
          \/ DecodeEp0Data(d) = Answer(d, "Ignored")
    BY <2>2 DEF DecodeEp0Data
  <2> HIDE DEF a, n
  <2> QED BY <2>1, <2>3
<1> HIDE DEF d, a, n
<1>4. ASSUME NEW k \in MscMemory, ~k.c.active, SameButControl(m, k)
      PROVE  /\ SameButControl(m, ReadEp0Data(k)) /\ ReadEp0Data(k).ldd = k.ldd
             /\ ReadEp0Data(k).c.active /\ ReadEp0Data(k).c.iStatus = Pending
  <2>1. /\ ReadEp0Data(k).t = k.t /\ ReadEp0Data(k).n = k.n /\ ReadEp0Data(k).ldd = k.ldd
        /\ ReadEp0Data(k).thread = k.thread /\ ReadEp0Data(k).fault = k.fault
        /\ ReadEp0Data(k).c.active /\ ReadEp0Data(k).bus = k.bus
        /\ ReadEp0Data(k).c.iStatus = Pending \/ ReadEp0Data(k).c = k.c
        /\ ReadEp0Data(k).scsi = k.scsi
    BY ReadEp0DataEffect, SenseKept DEF Inside
  <2> QED BY <1>4, <2>1 DEF SameButControl
<1>5. CASE HasRequest(m.c) /\ n = a
  BY <1>2, <1>5 DEF n
<1>6. ASSUME NEW how \in {"None", "Ignored"}, HasRequest(m.c),
             n = ReadEp0Data(Answer(d, how)) \/ n = Answer(d, how)
      PROVE  /\ SameButControl(m, n) /\ (n.c.active => n.c.iStatus = Pending)
             /\ n.ldd.ep0 = (IF m.ldd.ep0 = "None" THEN "None" ELSE how)
  <2> DEFINE k == Answer(d, how)
  <2>1. /\ k \in MscMemory /\ k.t = d.t /\ k.n = d.n /\ k.c = d.c /\ k.thread = d.thread
        /\ k.fault = d.fault /\ k.bus = d.bus /\ SameBulk(d.ldd, k.ldd)
        /\ k.ldd.ep0 = (IF d.ldd.ep0 = "None" THEN "None" ELSE how)
    BY <1>1, AnswerEffect DEF Inside
  <2>2. k.scsi = d.scsi
    BY <1>1 DEF Answer, MscMemory
  <2> HIDE DEF k
  <2>3. SameButControl(m, k) /\ ~k.c.active
    BY <1>1, <2>1, <2>2 DEF SameButControl, SameBulk
  <2>4. /\ SameButControl(m, n) /\ n.ldd = k.ldd /\ (n.c.active => n.c.iStatus = Pending)
    BY <1>4, <1>6, <2>1, <2>3 DEF k
  <2> QED BY <1>1, <2>1, <2>4
<1>7. CASE n = ReadEp0Data(d)
  BY <1>1, <1>4, <1>7 DEF n
<1> QED BY <1>3, <1>5, <1>6, <1>7 DEF n

\* The reset begins the transport anew and is answered, unless the process ends.
LEMMA ControlRunLResets ==
  ASSUME NEW m \in MscMemory, m.t.iStarted, HasRequest(m.c), m.c.iRequest = "Reset"
  PROVE  LET n == ControlRunL(m) IN
         /\ n.t.iStarted /\ n.n = m.n /\ n.thread = m.thread /\ n.bus = m.bus
         /\ n.c = InitControl \/ (n.c.active /\ n.c.iStatus = Pending)
         /\ n.ldd.open = m.ldd.open /\ n.ldd.stalled = m.ldd.stalled /\ n.ldd.rx = m.ldd.rx
         /\ n.ldd.states = m.ldd.states
         /\ n.ldd.in = (IF m.t.active THEN NoPacket ELSE m.ldd.in)
         /\ m.ldd.ep0 = "None" => n.ldd.ep0 = "None"
         /\ m.ldd.ep0 = "Reset" => n.ldd.ep0 = "Answered"
         /\ n.fault = NoFault =>
              /\ n.t.active /\ m.ldd.rx = << >> /\ ~n.t.iWriteSetUp
              /\ n.t.iCurrentState = "EWaitForCBW"
              /\ n.t.iStatus = (IF m.bus = "Unconfigured" THEN KErrGeneral ELSE Pending)
              /\ n.ldd.out = (m.bus # "Unconfigured")
<1> DEFINE d == [m EXCEPT !.c.active = FALSE]
           s == HwStop(d)
           r == ControllerReset(s)
           b == HwStart(r, TRUE)
           n == ControlRunL(m)
<1>1. /\ d \in MscMemory /\ d.ldd = m.ldd /\ d.t = m.t /\ d.n = m.n /\ d.thread = m.thread
      /\ d.bus = m.bus /\ d.c.iRequest = "Reset"
  BY DEF MscMemory, Control
<1>2. n = Answer(b, "Answered")
  <2>1. n = DecodeEp0Data(d)
    BY DEF ControlRunL, HasRequest
  <2> HIDE DEF d
  <2> QED BY <1>1, <2>1 DEF DecodeEp0Data
<1> HIDE DEF d
<1>3. /\ ~s.t.iStarted /\ ~s.t.active /\ s.c = InitControl /\ s.n = d.n
      /\ s.thread = d.thread /\ s.bus = d.bus
      /\ s.ldd.open = d.ldd.open /\ s.ldd.stalled = d.ldd.stalled /\ s.ldd.rx = d.ldd.rx
      /\ s.ldd.states = d.ldd.states
      /\ s.ldd.in = (IF d.t.active THEN NoPacket ELSE d.ldd.in)
      /\ s.ldd.ep0 = d.ldd.ep0 \/ (d.ldd.ep0 = "GetMaxLun" /\ s.ldd.ep0 = "Ignored")
  BY <1>1, HwStopEnds
<1>4. s \in MscMemory
  BY <1>1, HwStopEffect DEF Inside
<1> HIDE DEF s
<1>5. /\ r \in MscMemory /\ r.t = s.t /\ r.c = s.c /\ r.n = s.n /\ r.thread = s.thread
      /\ r.bus = s.bus /\ r.ldd = s.ldd
  BY <1>4, ConstantTypes DEF ControllerReset, MscMemory
<1> HIDE DEF r
<1>6. /\ b.t.iStarted /\ SameDriver(r.ldd, b.ldd)
      /\ b.c = r.c \/ (b.c.active /\ b.c.iStatus = Pending)
      /\ b.n = r.n /\ b.thread = r.thread /\ b.bus = r.bus
      /\ b.fault = NoFault =>
           /\ b.t.active /\ r.ldd.rx = << >>
           /\ ~b.t.iWriteSetUp /\ b.t.iCurrentState = "EWaitForCBW"
           /\ b.t.iStatus = (IF r.bus = "Unconfigured" THEN KErrGeneral ELSE Pending)
           /\ b.ldd.out = (r.bus # "Unconfigured")
  BY <1>3, <1>5, HwStartBegins
<1>7. b \in MscMemory
  BY <1>5, HwStartEffect DEF Inside
<1> HIDE DEF b
<1>8. /\ n.t = b.t /\ n.n = b.n /\ n.c = b.c /\ n.thread = b.thread /\ n.fault = b.fault
      /\ n.bus = b.bus /\ SameBulk(b.ldd, n.ldd)
      /\ n.ldd.ep0 = (IF b.ldd.ep0 = "None" THEN "None" ELSE "Answered")
  BY <1>2, <1>7, AnswerEffect DEF Inside
<1> HIDE DEF n
<1>9. /\ n.t.iStarted /\ n.n = m.n /\ n.thread = m.thread /\ n.bus = m.bus
      /\ n.c = InitControl \/ (n.c.active /\ n.c.iStatus = Pending)
  BY <1>1, <1>3, <1>5, <1>6, <1>8
<1>10. /\ n.ldd.open = m.ldd.open /\ n.ldd.stalled = m.ldd.stalled /\ n.ldd.rx = m.ldd.rx
       /\ n.ldd.states = m.ldd.states
       /\ n.ldd.in = (IF m.t.active THEN NoPacket ELSE m.ldd.in)
       /\ m.ldd.ep0 = "None" => n.ldd.ep0 = "None"
       /\ m.ldd.ep0 = "Reset" => n.ldd.ep0 = "Answered"
  BY <1>1, <1>3, <1>5, <1>6, <1>8 DEF SameDriver, SameBulk
<1>11. n.fault = NoFault =>
         /\ n.t.active /\ m.ldd.rx = << >> /\ ~n.t.iWriteSetUp
         /\ n.t.iCurrentState = "EWaitForCBW"
         /\ n.t.iStatus = (IF m.bus = "Unconfigured" THEN KErrGeneral ELSE Pending)
         /\ n.ldd.out = (m.bus # "Unconfigured")
  BY <1>1, <1>3, <1>5, <1>6, <1>8 DEF SameBulk
<1> QED BY <1>9, <1>10, <1>11 DEF n

-----------------------------------------------------------------------------
\* The exchange goes on.

\* A command that has been read is answered, or given up.
LEMMA DecodingKeepsExchange ==
  ASSUME NEW m \in MscMemory, NEW h \in Host, m.bus # "Unconfigured",
         m.t.iStarted, HasRead(m.t, m.thread, m.ldd, h, m.scsi)
  PROVE  LET n == DecodeCBW(Inactive(m)) IN Exchange(n.t, n.thread, n.ldd, h, n.scsi)
<1> DEFINE d == Inactive(m)
           n == DecodeCBW(d)
           cbw == m.t.iCbwBuf
<1>1. /\ d \in MscMemory /\ ~d.t.active /\ d.ldd = m.ldd /\ d.thread = "Free"
      /\ d.t.iCbwBuf = cbw /\ ~d.t.iWriteSetUp /\ d.t.iStarted
      /\ d.bus = m.bus /\ d.scsi = m.scsi
  BY InactiveEffect, SenseKept DEF HasRead, TransportOnly, Inside, SameCommand
<1>2. /\ cbw \in Cbw /\ cbw.len \in Nat /\ cbw.tag \in 0..1 /\ h.len \in Nat
      /\ cbw.valid \in BOOLEAN /\ cbw.toHost \in BOOLEAN
  BY DEF MscMemory, Transport, Cbw, Host
<1>3. /\ m.ldd.in = NoPacket /\ ~m.ldd.stalled /\ (h.failed => m.scsi.sense # "NoSense")
      /\ OfHost(cbw, m.ldd.rx, h)
  BY DEF HasRead
<1>4. m.scsi.sense \in Senses
  BY DEF MscMemory, Scsi
<1> HIDE DEF d, cbw
<1>5. TransportOnly(d, n) /\ Decoded(d, n)
  BY <1>1, DecodeCBWEffect
<1>6. cbw.valid =>
        /\ cbw.len = 0 /\ n.ldd.in.status = "ECommandFailed" => n.scsi.sense # "NoSense"
        /\ cbw.len # 0 /\ n.t.iCmdStatus = "ECommandFailed" => n.scsi.sense # "NoSense"
        /\ cbw.cmd.op = "RequestSense" =>
             /\ cbw.len = 0 => n.ldd.in.status = "EPhaseError"
             /\ cbw.len # 0 /\ cbw.toHost =>
                  n.ldd.in.reports = m.scsi.sense /\ n.thread = "Free"
             /\ cbw.len # 0 /\ ~cbw.toHost => n.t.iWriteSetUp
  BY <1>1, DecodeCBWReason
<1> HIDE DEF n
<1>7. n.ldd.rx = m.ldd.rx
  BY <1>1, <1>5 DEF TransportOnly
<1>8. CASE ~cbw.valid /\ Broken(d, n)
  <2>1. GivesUp(n.t, n.thread, n.ldd, h)
    BY <1>1, <1>3, <1>5, <1>8 DEF Broken, GivesUp, OfHost, TransportOnly
  <2> QED BY <2>1 DEF Exchange, n, d
<1>9. CASE cbw.valid /\ cbw.len = 0 /\ Said(d, n, cbw)
  <2>1. PICK status \in CswStatuses : /\ OnItsWay(d, n, CswPacket(cbw.tag, 0, status))
                                      /\ n.t.iWriteSetUp => status = "EPhaseError"
    BY <1>9 DEF Said
  <2>2. n.ldd.in = CswPacket(cbw.tag, 0, status)
    BY <1>1, <2>1 DEF OnItsWay
  <2>3. /\ n.ldd.in.kind = "CSW" /\ n.ldd.in.tag = cbw.tag /\ n.ldd.in.residue = 0
        /\ n.ldd.in.status = status
    BY <2>2 DEF CswPacket
  <2>4. /\ n.t.active /\ n.t.iStatus = Pending /\ n.t.iCurrentState = "ESendingCSW"
        /\ n.thread = "Free"
    BY <1>1, <1>9 DEF Said, Outstanding
  <2>5. h.phase = "Status" /\ m.ldd.rx = << >> /\ h.got = 0 /\ h.len = 0 /\ cbw.tag = h.tag
        /\ (h.failed => cbw.cmd.op = "RequestSense")
    BY <1>3, <1>9 DEF OfHost
  <2>6. h.got + n.ldd.in.residue = h.len
    BY <2>3, <2>5
  <2>7. Reports(n.t, n.thread, n.ldd, h, n.scsi)
    BY <1>6, <1>7, <1>9, <2>1, <2>3, <2>4, <2>5, <2>6 DEF Reports
  <2> QED BY <2>7 DEF Exchange, n, d
<1>10. CASE cbw.valid /\ cbw.len # 0 /\ cbw.toHost /\ Replying(d, n, cbw)
  <2>1. /\ h.phase = "DataIn" /\ m.ldd.rx = << >> /\ h.got = 0 /\ cbw.tag = h.tag
        /\ cbw.len = h.len /\ (h.failed => cbw.cmd.op = "RequestSense")
    BY <1>3, <1>10 DEF OfHost
  <2>2. Known(n.t, h, n.scsi)
    BY <1>6, <1>10, <2>1 DEF Replying, Known
  <2>3. ~n.ldd.stalled /\ n.ldd.rx = << >>
    BY <1>1, <1>3, <1>7, <1>10, <2>1 DEF Replying
  <2>4. h.failed => n.ldd.in.reports \in Senses \ {"NoSense"} /\ n.thread = "Free"
    BY <1>3, <1>4, <1>6, <1>10, <2>1
  <2>5. CASE Outstanding(d, n, "EWritingData")
    <3>1. n.thread # "Padding"
      BY <1>1, <2>5 DEF Outstanding
    <3>2. PICK p \in DataPackets : /\ OnItsWay(d, n, p)
                                   /\ ~d.t.iWriteSetUp /\ n.t.iCmdStatus # "EPhaseError"
                                        => Sum(p, n.t.iDataResidue) = cbw.len
      BY <1>10, <3>1 DEF Replying
    <3>3. n.ldd.in = p /\ p.kind = "Data"
      BY <1>1, <3>2 DEF OnItsWay, DataPackets
    <3>4. Offered(n.t, n.ldd, h)
      BY <1>1, <2>1, <2>4, <3>2, <3>3 DEF Offered
    <3>5. Replies(n.t, n.thread, n.ldd, h, n.scsi)
      BY <1>1, <2>2, <2>3, <2>5, <3>4 DEF Replies, Outstanding
    <3> QED BY <3>5 DEF Exchange, n, d
  <2>6. CASE /\ n.thread = "Padding" /\ ~n.t.active /\ ~n.t.iWriteSetUp
             /\ n.t.iDataResidue = cbw.len
             /\ OnItsWay(d, n, DataPacket(0, TRUE, "Data"))
    <3>1. n.ldd.in = DataPacket(0, TRUE, "Data")
      BY <1>1, <2>6 DEF OnItsWay
    <3>2. n.ldd.in.kind = "Data" /\ n.ldd.in.fresh /\ n.ldd.in.real = 0
      BY <3>1 DEF DataPacket
    <3>3. Sum(n.ldd.in, n.t.iDataResidue) = h.len
      BY <1>2, <2>1, <2>6, <3>2 DEF Sum
    <3>4. ~h.failed
      BY <2>4, <2>6
    <3>5. Pads(n.t, n.thread, n.ldd, h, n.scsi)
      BY <2>1, <2>2, <2>3, <2>6, <3>2, <3>3, <3>4 DEF Pads, Offered
    <3> QED BY <3>5 DEF Exchange, n, d
  <2> QED BY <1>10, <2>5, <2>6 DEF Replying
<1>11. CASE cbw.valid /\ cbw.len # 0 /\ ~cbw.toHost /\ Reading(d, n, cbw)
  <2>1. /\ h.got = 0 /\ cbw.tag = h.tag /\ cbw.len = h.len
        /\ (h.failed => cbw.cmd.op = "RequestSense")
        /\ \/ h.phase = "DataOut" /\ m.ldd.rx = << >>
           \/ h.phase = "Status" /\ m.ldd.rx = << OutData >>
    BY <1>3, <1>11 DEF OfHost
  <2>2. Known(n.t, h, n.scsi)
    BY <1>6, <1>11, <2>1 DEF Reading, Known
  <2>3. Discards(n.t, n.thread, n.ldd, h, n.scsi)
    BY <1>1, <1>3, <1>6, <1>7, <1>11, <2>1, <2>2 DEF Reading, Discards
  <2> QED BY <2>3 DEF Exchange, n, d
<1> QED BY <1>1, <1>5, <1>8, <1>9, <1>10, <1>11 DEF Decoded

\* A status that is sent tells what the host is to know.
LEMMA StatusKeepsExchange ==
  ASSUME NEW m \in MscMemory, NEW h \in Host, NEW residue \in Nat, NEW status \in CswStatuses,
         m.bus # "Unconfigured", ~m.t.active, m.thread = "Free", m.ldd.rx = << >>,
         m.t.iCbwTag = h.tag, h.phase \in {"Status", "ClearIn"},
         status # "EPhaseError" => h.got + residue = h.len /\ ~m.t.iWriteSetUp /\ ~h.failed,
         status = "ECommandFailed" => m.scsi.sense # "NoSense"
  PROVE  LET n == SendCSW(m, residue, status) IN Exchange(n.t, n.thread, n.ldd, h, n.scsi)
<1> DEFINE n == SendCSW(m, residue, status)
<1>1. StatusSent(m, n, residue, status) /\ n.scsi = m.scsi
  BY SendCSWEffect, SenseKept
<1> HIDE DEF n
<1>2. /\ Requested(m, n, "ESendingCSW")
      /\ n.ldd.in = CswPacket(m.t.iCbwTag, residue, status)
  BY <1>1 DEF StatusSent
<1>3. /\ n.ldd.in.kind = "CSW" /\ n.ldd.in.tag = h.tag /\ n.ldd.in.residue = residue
      /\ n.ldd.in.status = status
  BY <1>2 DEF CswPacket
<1>4. /\ n.t.active /\ n.t.iStatus = Pending /\ n.t.iCurrentState = "ESendingCSW"
      /\ n.thread = "Free" /\ n.t.iWriteSetUp = m.t.iWriteSetUp /\ n.ldd.rx = << >>
  BY <1>2 DEF Requested, TransportOnly
<1>5. Reports(n.t, n.thread, n.ldd, h, n.scsi)
  BY <1>1, <1>3, <1>4 DEF Reports
<1> QED BY <1>5 DEF Exchange, n

\* A handler of the transport leaves the host what it knows.
LEMMA RunLKeepsExchange ==
  ASSUME NEW m \in MscMemory, NEW h \in Host, m.bus # "Unconfigured",
         m.t.iStarted, Ready(m.t), m.thread = "Free",
         Exchange(m.t, m.thread, m.ldd, h, m.scsi)
  PROVE  LET n == TransportRunL(m) IN Exchange(n.t, n.thread, n.ldd, h, n.scsi)
<1> DEFINE d == Inactive(m)
           w == Unset(d)
           n == TransportRunL(m)
<1>1. /\ d \in MscMemory /\ ~d.t.active /\ d.ldd = m.ldd /\ d.thread = "Free"
      /\ d.bus = m.bus /\ d.scsi = m.scsi /\ d.t.iWriteSetUp = m.t.iWriteSetUp
      /\ SameCommand(m, d) /\ d.t.iStarted = m.t.iStarted
  BY InactiveEffect, SenseKept DEF TransportOnly, Inside
<1>2. d.t.iCurrentState = m.t.iCurrentState
  BY DEF Inactive, MscMemory, Transport
<1>3. /\ m.t.iStatus = KErrNone /\ m.t.iCurrentState = "EWaitForCBW" => n = DecodeCBW(d)
      /\ m.t.iStatus = KErrNone /\ m.t.iCurrentState = "ESendingCSW" => n = ReadCBW(d)
      /\ m.t.iStatus = KErrNone /\ m.t.iCurrentState = "EPermErr" => n = StallIn(d, "Stalled")
      /\ m.t.iStatus = KErrNone /\ m.t.iCurrentState = "EWritingData" =>
           \/ n = StallIn(w, "StalledAfterData")
           \/ n = SendCSW(w, w.t.iDataResidue, w.t.iCmdStatus)
  BY DEF TransportRunL, Inactive, Unset
<1> HIDE DEF d
<1>4. CASE h.phase = "Reset" /\ m.ldd.ep0 # "Answered" /\ h.got = 0
  <2>1. n.ldd.ep0 = m.ldd.ep0
    BY TransportRunLEffect DEF TransportOnly
  <2> QED BY <1>4, <2>1 DEF Exchange
<1>5. CASE Awaiting(m.t, m.thread, m.ldd, h, m.scsi)
  <2>1. m.t.iCurrentState = "ESendingCSW" /\ m.t.iStatus = KErrNone /\ ~m.t.iWriteSetUp
    BY <1>5 DEF Awaiting, AtRest, Ready
  <2>2. n = ReadCBW(d)
    BY <1>3, <2>1
  <2> HIDE DEF n
  <2>3. /\ n.t.active /\ n.t.iCurrentState = "EWaitForCBW" /\ n.t.iStatus = Pending
        /\ ~n.t.iWriteSetUp /\ n.ldd.out /\ n.ldd.in = m.ldd.in
        /\ n.ldd.stalled = m.ldd.stalled /\ n.ldd.rx = m.ldd.rx /\ n.thread = "Free"
    BY <1>1, <2>1, <2>2, ReadCBWListens
  <2>4. n.scsi = m.scsi
    BY <1>1, <2>2, SenseKept
  <2>5. Awaiting(n.t, n.thread, n.ldd, h, n.scsi)
    BY <1>5, <2>3, <2>4 DEF Awaiting, AtRest, Listening
  <2> QED BY <2>5 DEF Exchange, n
<1>6. CASE HasRead(m.t, m.thread, m.ldd, h, m.scsi)
  <2>1. n = DecodeCBW(d)
    BY <1>3, <1>6 DEF HasRead
  <2> HIDE DEF n
  <2> QED BY <1>6, <2>1, DecodingKeepsExchange DEF n, d
<1>7. CASE Replies(m.t, m.thread, m.ldd, h, m.scsi)
  <2>1. /\ m.t.iStatus = KErrNone /\ m.t.iCurrentState = "EWritingData"
        /\ m.ldd.in = NoPacket /\ m.ldd.rx = << >> /\ Taken(m.t, h) /\ Known(m.t, h, m.scsi)
    BY <1>7 DEF Replies, Ready
  <2>2. /\ TransportOnly(d, w) /\ w.t.active = d.t.active
        /\ w.ldd = d.ldd /\ w.thread = d.thread
        /\ ~w.t.iWriteSetUp /\ w.t.iCbwTag = d.t.iCbwTag
        /\ w.t.iDataResidue = d.t.iDataResidue /\ w.t.iCmdStatus = d.t.iCmdStatus
        /\ w.scsi = d.scsi
    BY <1>1, UnsetEffect, SenseKept
  <2>3. \/ n = StallIn(w, "StalledAfterData")
        \/ n = SendCSW(w, w.t.iDataResidue, w.t.iCmdStatus)
    BY <1>3, <2>1
  <2> HIDE DEF w, n
  <2>4. w \in MscMemory /\ w.bus # "Unconfigured" /\ ~w.t.active
    BY <1>1, <2>2 DEF TransportOnly, Inside
  <2>5. w.t.iDataResidue \in Nat /\ w.t.iCmdStatus \in CswStatuses
    BY <2>4 DEF MscMemory, Transport
  <2>6. /\ h.phase \in {"Status", "ClearIn"} /\ ~h.failed
        /\ w.t.iCmdStatus # "EPhaseError" => h.got + w.t.iDataResidue = h.len
        /\ w.t.iCmdStatus = "ECommandFailed" => w.scsi.sense # "NoSense"
        /\ w.t.iCbwTag = h.tag
    BY <1>1, <2>1, <2>2 DEF Taken, Known, SameCommand
  <2>7. CASE n = StallIn(w, "StalledAfterData")
    <3>1. /\ n.t = w.t /\ n.thread = "StalledAfterData" /\ n.ldd.in = w.ldd.in
          /\ n.ldd.rx = w.ldd.rx /\ n.scsi = w.scsi
      BY <2>4, <2>7, StallInEffect, SenseKept DEF Threads, SameEp0
    <3>2. CutsShort(n.t, n.thread, n.ldd, h, n.scsi)
      BY <1>1, <2>1, <2>2, <2>6, <3>1 DEF CutsShort, Known, Taken
    <3> QED BY <3>2 DEF Exchange, n
  <2>8. CASE n = SendCSW(w, w.t.iDataResidue, w.t.iCmdStatus)
    <3>1. w.thread = "Free" /\ w.ldd.rx = << >>
      BY <1>1, <2>1, <2>2
    <3> QED BY <2>2, <2>4, <2>5, <2>6, <2>8, <3>1, StatusKeepsExchange DEF n
  <2> QED BY <2>3, <2>7, <2>8
<1>8. CASE GivesUp(m.t, m.thread, m.ldd, h)
  <2>1. n = StallIn(d, "Stalled")
    BY <1>3, <1>8 DEF GivesUp, Ready
  <2> HIDE DEF n
  <2>2. n.t = d.t /\ n.thread = "Stalled" /\ n.ldd.in = d.ldd.in
    BY <1>1, <2>1, StallInEffect DEF Threads
  <2>3. GivesUp(n.t, n.thread, n.ldd, h)
    BY <1>1, <1>2, <1>8, <2>2 DEF GivesUp
  <2> QED BY <2>3 DEF Exchange, n
<1>9. CASE \/ Pads(m.t, m.thread, m.ldd, h, m.scsi) \/ CutsShort(m.t, m.thread, m.ldd, h, m.scsi)
           \/ Discards(m.t, m.thread, m.ldd, h, m.scsi)
           \/ Reports(m.t, m.thread, m.ldd, h, m.scsi)
  BY <1>9 DEF Pads, CutsShort, Discards, Reports, Ready
<1> HIDE DEF n
<1>10. Exchange(n.t, n.thread, n.ldd, h, n.scsi)
  BY <1>4, <1>5, <1>6, <1>7, <1>8, <1>9 DEF Exchange, n
<1> QED BY <1>10 DEF n

\* What a blocked handler goes on with: the padding is taken, the data is thrown away.
Unblocks(m) ==
  /\ m.thread = "Padding" => m.ldd.in = NoPacket
  /\ m.thread # "Free" /\ ~m.t.active

\* So does a handler that goes on.
LEMMA ResumeKeepsExchange ==
  ASSUME NEW m \in MscMemory, NEW h \in Host, m.bus # "Unconfigured", Unblocks(m),
         \/ h.phase = "Reset" /\ m.ldd.ep0 # "Answered" /\ h.got = 0
         \/ Pads(m.t, m.thread, m.ldd, h, m.scsi) \/ CutsShort(m.t, m.thread, m.ldd, h, m.scsi)
         \/ /\ m.thread = "Discarding" /\ m.ldd.rx = << >> /\ h.phase = "Status"
            /\ Known(m.t, h, m.scsi) /\ h.got = 0 /\ m.t.iDataResidue = h.len
            /\ h.failed => m.t.iWriteSetUp
         \/ GivesUp(m.t, m.thread, m.ldd, h)
  PROVE  LET n == Resume(m) IN Exchange(n.t, n.thread, n.ldd, h, n.scsi)
<1> DEFINE d == Block(m, "Free")
           n == Resume(m)
<1>1. /\ d \in MscMemory /\ d.t = m.t /\ d.ldd = m.ldd /\ d.thread = "Free"
      /\ d.bus = m.bus /\ d.scsi = m.scsi
  BY BlockEffect, SenseKept DEF TransportOnly, Inside, Threads
<1>2. /\ m.thread \in {"StalledAfterData", "Padding"} =>
           n = SendCSW(d, d.t.iDataResidue, d.t.iCmdStatus)
      /\ m.thread = "Discarding" => n = SendCSW(d, d.t.iDataResidue, StatusUnlessWrite(d))
      /\ m.thread = "Stalled" => n = d
  BY DEF Resume
<1>3. d.t.iDataResidue \in Nat /\ d.t.iCmdStatus \in CswStatuses
  <2> HIDE DEF d
  <2> QED BY <1>1 DEF MscMemory, Transport
<1>4. ~d.t.active /\ (m.thread = "Padding" => d.ldd.in = NoPacket)
  BY <1>1 DEF Unblocks
<1>4a. m.t \in Transport /\ h.len \in Nat
  BY DEF MscMemory, Host
<1>5. CASE h.phase = "Reset" /\ m.ldd.ep0 # "Answered" /\ h.got = 0
  <2>1. n.ldd.ep0 = m.ldd.ep0
    BY ResumeEffect DEF TransportOnly
  <2> QED BY <1>5, <2>1 DEF Exchange
<1> HIDE DEF d, n
<1>6. CASE Pads(m.t, m.thread, m.ldd, h, m.scsi) \/ CutsShort(m.t, m.thread, m.ldd, h, m.scsi)
  <2>1. n = SendCSW(d, d.t.iDataResidue, d.t.iCmdStatus)
    BY <1>2, <1>6 DEF Pads, CutsShort
  <2>2. m.ldd.in.kind # "Data" \/ m.thread # "Padding"
    BY <1>1, <1>4 DEF NoPacket
  <2>3. /\ ~d.t.iWriteSetUp /\ Known(d.t, h, d.scsi) /\ d.ldd.rx = << >> /\ Taken(d.t, h)
    BY <1>1, <1>6, <2>2 DEF Pads, CutsShort, Offered
  <2>4. Exchange(n.t, n.thread, n.ldd, h, n.scsi)
    BY <1>1, <1>3, <1>4, <2>1, <2>3, StatusKeepsExchange DEF Taken, Known
  <2> QED BY <2>4 DEF n
<1>7. CASE /\ m.thread = "Discarding" /\ m.ldd.rx = << >> /\ h.phase = "Status"
           /\ Known(m.t, h, m.scsi) /\ h.got = 0 /\ m.t.iDataResidue = h.len
           /\ h.failed => m.t.iWriteSetUp
  <2> DEFINE st == StatusUnlessWrite(d)
  <2>1. n = SendCSW(d, d.t.iDataResidue, st)
    BY <1>2, <1>7
  <2>2. /\ st \in CswStatuses /\ (st # "EPhaseError" => ~d.t.iWriteSetUp)
        /\ (st = "ECommandFailed" => d.t.iCmdStatus = "ECommandFailed")
    BY <1>3 DEF StatusUnlessWrite, CswStatuses
  <2> HIDE DEF st
  <2>3. h.got + d.t.iDataResidue = h.len
    BY <1>1, <1>4a, <1>7
  <2>4. d.t.iCbwTag = h.tag /\ (st = "ECommandFailed" => d.scsi.sense # "NoSense")
    BY <1>1, <1>7, <2>2 DEF Known
  <2>5. st # "EPhaseError" => ~h.failed
    BY <1>1, <1>7, <2>2
  <2>6. Exchange(n.t, n.thread, n.ldd, h, n.scsi)
    BY <1>1, <1>3, <1>4, <1>7, <2>1, <2>2, <2>3, <2>4, <2>5, StatusKeepsExchange
  <2> QED BY <2>6 DEF n
<1>8. CASE GivesUp(m.t, m.thread, m.ldd, h)
  <2>1. n = d
    BY <1>2, <1>8 DEF GivesUp, Unblocks
  <2>2. GivesUp(n.t, n.thread, n.ldd, h)
    BY <1>1, <1>4, <1>8, <2>1 DEF GivesUp
  <2> QED BY <2>2 DEF Exchange, n
<1> QED BY <1>5, <1>6, <1>7, <1>8

\* What the transport keeps whatever the host does: only one of its object and its blocked
\* handler goes on, a packet that waits is of a request that is outstanding, and an
\* endpoint of a device that is not configured holds nothing.
BulkGoesOn(m, n) ==
  /\ n.thread # "Free" => ~n.t.active
  /\ n.ldd.in # NoPacket => n.thread = "Padding" \/ (n.t.active /\ n.t.iStatus = Pending)
  /\ n.ldd.out => m.ldd.out \/ (n.t.active /\ n.t.iStatus = Pending /\ n.ldd.in = NoPacket)
  /\ m.bus = "Unconfigured" =>
       n.ldd.in = NoPacket /\ (n.ldd.stalled => m.ldd.stalled) /\ (n.ldd.out => m.ldd.out)

\* Only ReadCBW asks for something on the OUT endpoint.
LEMMA WriteHears ==
  ASSUME NEW m \in MscMemory, NEW p, NEW st PROVE Write(m, p, st).ldd.out = m.ldd.out
BY DEF Write, TransportActive, MscMemory, Ldd

\* A status does not.
LEMMA StatusHears ==
  ASSUME NEW m \in MscMemory, NEW residue, NEW status
  PROVE  SendCSW(m, residue, status).ldd.out = m.ldd.out
<1> DEFINE u == [m.t EXCEPT !.iCbwTag = 0, !.iDataResidue = 0, !.iStallAllowed = TRUE,
                            !.iCmdStatus = "ECommandPassed"]
           d == [m EXCEPT !.t = u]
<1>1. u \in Transport
  BY Forgotten DEF MscMemory
<1>2. SendCSW(m, residue, status) = m
      \/ SendCSW(m, residue, status)
           = Write(d, CswPacket(m.t.iCbwTag, residue, status), "ESendingCSW")
  BY DEF SendCSW, MscMemory
<1> HIDE DEF u
<1>3. d \in MscMemory /\ d.ldd = m.ldd
  BY <1>1 DEF MscMemory
<1> HIDE DEF d
<1> QED BY <1>2, <1>3, WriteHears

\* Nor does a reply.
LEMMA ReplyHears ==
  ASSUME NEW m \in MscMemory, NEW len \in Nat
  PROVE  PrepareWriteToHost(m, len).ldd.out = m.ldd.out
<1> DEFINE buf    == m.t.iWriteBuf
           real   == Min2(buf.len, len)
           rest   == len - real
           d      == [m EXCEPT !.t.iDataResidue = rest]
           padded == [d EXCEPT !.t.iStallAllowed = FALSE]
           cut    == [d EXCEPT !.t.iCmdStatus = "EPhaseError"]
           packet == DataPacket(real, buf.fresh, buf.reports)
           none   == [m EXCEPT !.t.iDataResidue = len]
           mute   == [none EXCEPT !.t.iStallAllowed = FALSE]
           zeros  == DataPacket(0, TRUE, "Data")
           pad    == Block([none EXCEPT !.ldd.in = IF m.bus = "Unconfigured" THEN NoPacket
                                                   ELSE zeros], "Padding")
           n      == PrepareWriteToHost(m, len)
<1>1. rest \in Nat
  <2>1. buf.len \in Nat
    BY DEF MscMemory, Transport, Buffer
  <2> HIDE DEF buf
  <2>2. real \in Nat /\ real <= len
    BY <2>1, MinIsNat
  <2> HIDE DEF real
  <2> QED BY <2>2
<1>2. \/ n = Write(padded, packet, "EWritingData") \/ n = Write(cut, packet, "EWritingData")
      \/ n = Write(d, packet, "EWritingData") \/ n = Write(mute, zeros, "EWritingData")
      \/ n = pad
  <2>1. CASE m.t.iWriteSetUp
    <3>1. n = Write(padded, packet, "EWritingData") \/ n = Write(cut, packet, "EWritingData")
            \/ n = Write(d, packet, "EWritingData")
      <4> HIDE DEF buf
      <4> QED BY <2>1 DEF PrepareWriteToHost, padded, cut, packet, d, real, buf, rest
    <3> HIDE DEF n, padded, cut, d, mute, pad
    <3> QED BY <3>1
  <2>2. CASE ~m.t.iWriteSetUp
    <3>1. CASE len <= KBOTMaxBufSize
      <4>1. ~(len > KBOTMaxBufSize)
        BY <3>1 DEF KBOTMaxBufSize
      <4> QED BY <2>2, <3>1, <4>1 DEF PrepareWriteToHost, mute, zeros, none
    <3>2. CASE ~(len <= KBOTMaxBufSize)
      <4>1. len > KBOTMaxBufSize
        BY <3>2 DEF KBOTMaxBufSize
      <4> QED BY <2>2, <3>2, <4>1 DEF PrepareWriteToHost, pad, zeros, none
    <3> QED BY <3>1, <3>2
  <2> QED BY <2>1, <2>2
<1> HIDE DEF packet, zeros, rest
<1>3. d \in MscMemory /\ d.ldd = m.ldd /\ none \in MscMemory /\ none.ldd = m.ldd
  BY <1>1 DEF MscMemory, Transport
<1> HIDE DEF d, none
<1>4. padded \in MscMemory /\ padded.ldd = m.ldd
  BY <1>3 DEF MscMemory, Transport
<1>4a. cut \in MscMemory /\ cut.ldd = m.ldd
  BY <1>3 DEF MscMemory, Transport, CswStatuses
<1>4b. mute \in MscMemory /\ mute.ldd = m.ldd
  BY <1>3 DEF MscMemory, Transport
<1>5. pad.ldd.out = m.ldd.out
  BY <1>3 DEF Block, MscMemory, Ldd
<1> HIDE DEF padded, cut, mute, pad, n
<1> QED BY <1>2, <1>3, <1>4, <1>4a, <1>4b, <1>5, WriteHears DEF n

\* Nor does a command.
LEMMA DecodeHears ==
  ASSUME NEW m \in MscMemory, ~m.t.active PROVE DecodeCBW(m).ldd.out = m.ldd.out
<1> DEFINE cbw == m.t.iCbwBuf
           e == [m EXCEPT !.t.iWriteBuf.fresh = FALSE, !.t.iCbwBuf = NoCbw]
           p == DecodePacket(e, cbw.cmd)
           status == IF SenseOk(p) THEN "ECommandPassed" ELSE "ECommandFailed"
           d == Begun(p, cbw.tag, status)
           z == [d EXCEPT !.t.iDataResidue = 0]
           r == [d EXCEPT !.t.iDataResidue = cbw.len]
           n == DecodeCBW(m)
<1>1. cbw.len \in Nat /\ cbw.cmd \in Command /\ cbw.tag \in 0..1
  BY DEF MscMemory, Transport, Cbw
<1>2. \/ n = SetPermError(e) \/ n = SendCSW(z, 0, StatusUnlessWrite(d))
      \/ n = PrepareWriteToHost(d, cbw.len) \/ n = Block(r, "Discarding")
  BY DEF DecodeCBW, Begun, PrepareReadFromHost
<1> HIDE DEF cbw, z, r, n
<1>3. e \in MscMemory /\ e.ldd = m.ldd
  BY Stale DEF TransportOnly, Inside
<1> HIDE DEF e
<1>4. p \in MscMemory /\ p.ldd = m.ldd
  BY <1>1, <1>3, DecodePacketEffect DEF Replied, TransportOnly, Inside
<1> HIDE DEF p
<1>5. status \in CswStatuses
  BY DEF CswStatuses
<1> HIDE DEF status
<1>6. d \in MscMemory /\ d.ldd = m.ldd
  BY <1>1, <1>4, <1>5, BegunEffect DEF TransportOnly, Inside
<1> HIDE DEF d
<1>7. z \in MscMemory /\ z.ldd = m.ldd /\ r \in MscMemory /\ r.ldd = m.ldd
  BY <1>1, <1>6, ResidueChanged DEF TransportOnly, Inside, z, r
<1>8. SetPermError(e).ldd = m.ldd /\ Block(r, "Discarding").ldd = m.ldd
  BY <1>3, <1>7, SetPermErrorEffect, BlockEffect DEF Threads
<1>9. n.ldd.out = m.ldd.out
  BY <1>1, <1>2, <1>6, <1>7, <1>8, StatusHears, ReplyHears
<1> QED BY <1>9 DEF n

\* A status that is sent.
LEMMA StatusGoesOn ==
  ASSUME NEW m \in MscMemory, NEW residue \in Nat, NEW status \in CswStatuses,
         ~m.t.active, m.thread = "Free"
  PROVE  BulkGoesOn(m, SendCSW(m, residue, status))
<1>1. StatusSent(m, SendCSW(m, residue, status), residue, status)
  BY SendCSWEffect
<1> QED BY <1>1, StatusHears DEF StatusSent, Requested, BulkGoesOn

\* A handler of the transport.
LEMMA RunLGoesOn ==
  ASSUME NEW m \in MscMemory, m.thread = "Free", m.ldd.in = NoPacket
  PROVE  BulkGoesOn(m, TransportRunL(m))
<1> DEFINE d == Inactive(m)
           w == Unset(d)
           n == TransportRunL(m)
<1>1. d \in MscMemory /\ ~d.t.active /\ d.ldd = m.ldd /\ d.thread = "Free" /\ d.bus = m.bus
  BY InactiveEffect DEF TransportOnly, Inside
<1>2. \/ n = SetPermError(d) \/ n = DecodeCBW(d) \/ n = ReadCBW(d) \/ n = StallIn(d, "Stalled")
      \/ n = StallIn(w, "StalledAfterData")
      \/ n = SendCSW(w, w.t.iDataResidue, w.t.iCmdStatus)
  BY DEF TransportRunL, Inactive, Unset
<1>3. TransportOnly(d, w) /\ w.ldd = m.ldd /\ w.thread = "Free" /\ ~w.t.active
  BY <1>1, UnsetEffect
<1> HIDE DEF d, w
<1>4. w \in MscMemory /\ w.bus = m.bus
  BY <1>1, <1>3 DEF TransportOnly, Inside
<1>5. w.t.iDataResidue \in Nat /\ w.t.iCmdStatus \in CswStatuses
  BY <1>4 DEF MscMemory, Transport
<1> HIDE DEF n
<1>6. CASE n = SetPermError(d)
  BY <1>1, <1>6, SetPermErrorEffect DEF BulkGoesOn, n
<1>7. CASE n = DecodeCBW(d)
  <2>1. Decoded(d, n)
    BY <1>1, <1>7, DecodeCBWEffect
  <2>2. BulkGoesOn(m, n)
    BY <1>1, <1>7, <2>1, DecodeHears DEF Decoded, Broken, Said, Replying, Reading, Outstanding, OnItsWay,
                      BulkGoesOn
  <2> QED BY <2>2 DEF n
<1>8. CASE n = ReadCBW(d)
  <2>1. /\ n.t.active /\ n.ldd.in = m.ldd.in /\ n.thread = "Free"
        /\ n.ldd.stalled = m.ldd.stalled
    BY <1>1, <1>8, ReadCBWListens
  <2>2. /\ n.ldd.out = (m.bus # "Unconfigured")
        /\ n.t.iStatus = (IF m.bus = "Unconfigured" THEN KErrGeneral ELSE Pending)
    BY <1>1, <1>8, ReadCBWListens
  <2> QED BY <2>1, <2>2 DEF BulkGoesOn, n
<1>9. CASE n = StallIn(d, "Stalled") \/ n = StallIn(w, "StalledAfterData")
  <2>1. /\ ~n.t.active /\ n.ldd.in = m.ldd.in
        /\ n.ldd.stalled = (m.bus # "Unconfigured")
    BY <1>1, <1>3, <1>4, <1>9, StallInEffect DEF Threads
  <2>2. n.ldd.out = m.ldd.out
    <3>1. /\ StallIn(d, "Stalled").ldd.out = d.ldd.out
          /\ StallIn(w, "StalledAfterData").ldd.out = w.ldd.out
      BY <1>1, <1>4 DEF StallIn, Block, MscMemory, Ldd
    <3> QED BY <1>1, <1>3, <1>9, <3>1
  <2> QED BY <2>1, <2>2 DEF BulkGoesOn, n
<1>10. CASE n = SendCSW(w, w.t.iDataResidue, w.t.iCmdStatus)
  <2>1. BulkGoesOn(w, n)
    BY <1>3, <1>4, <1>5, <1>10, StatusGoesOn
  <2> QED BY <1>3, <1>4, <2>1 DEF BulkGoesOn, n
<1> QED BY <1>2, <1>6, <1>7, <1>8, <1>9, <1>10

\* A blocked handler.
LEMMA ResumeGoesOn ==
  ASSUME NEW m \in MscMemory, ~m.t.active, m.ldd.in = NoPacket
  PROVE  BulkGoesOn(m, Resume(m))
<1> DEFINE d == Block(m, "Free")
           n == Resume(m)
<1>1. /\ d \in MscMemory /\ d.t = m.t /\ d.ldd = m.ldd /\ d.thread = "Free" /\ d.bus = m.bus
  BY BlockEffect DEF TransportOnly, Inside, Threads
<1>2. \/ n = d \/ n = SendCSW(d, d.t.iDataResidue, d.t.iCmdStatus)
      \/ n = SendCSW(d, d.t.iDataResidue, StatusUnlessWrite(d))
  BY DEF Resume
<1> HIDE DEF d
<1>3. /\ d.t.iDataResidue \in Nat /\ d.t.iCmdStatus \in CswStatuses
      /\ StatusUnlessWrite(d) \in CswStatuses
  BY <1>1 DEF MscMemory, Transport, StatusUnlessWrite, CswStatuses
<1> HIDE DEF n
<1>4. n = d \/ BulkGoesOn(d, n)
  BY <1>1, <1>2, <1>3, StatusGoesOn
<1>5. BulkGoesOn(m, n)
  BY <1>1, <1>4 DEF BulkGoesOn
<1> QED BY <1>5 DEF n

-----------------------------------------------------------------------------
\* The steps of the server.

\* The exchange is about what is on its way, not about what else the driver has.
LEMMA ExchangeSame ==
  ASSUME NEW t, NEW th, NEW l, NEW k, NEW h, NEW s, Exchange(t, th, l, h, s),
         k.in = l.in, k.out = l.out, k.stalled = l.stalled, k.rx = l.rx,
         h.phase = "Reset" /\ l.ep0 # "Answered" => k.ep0 # "Answered"
  PROVE  Exchange(t, th, k, h, s)
<1>1. CASE h.phase = "Reset" /\ l.ep0 # "Answered" /\ h.got = 0
  BY <1>1 DEF Exchange
<1>2. CASE Awaiting(t, th, l, h, s)
  BY <1>2 DEF Exchange, Awaiting, Listening
<1>3. CASE HasRead(t, th, l, h, s)
  BY <1>3 DEF Exchange, HasRead
<1>4. CASE Replies(t, th, l, h, s)
  BY <1>4 DEF Exchange, Replies, Offered
<1>5. CASE Pads(t, th, l, h, s)
  BY <1>5 DEF Exchange, Pads, Offered
<1>6. CASE CutsShort(t, th, l, h, s) \/ Discards(t, th, l, h, s)
  BY <1>6 DEF Exchange, CutsShort, Discards
<1>7. CASE Reports(t, th, l, h, s) \/ GivesUp(t, th, l, h)
  BY <1>7 DEF Exchange, Reports, GivesUp
<1> QED BY <1>1, <1>2, <1>3, <1>4, <1>5, <1>6, <1>7 DEF Exchange

\* Who is in step is a matter of the notifier.
LEMMA InStepSame ==
  ASSUME NEW b, NEW t, NEW n, NEW l, NEW u, NEW k, InStep(b, t, n, l),
         u.iStarted = t.iStarted, k.states = l.states
  PROVE  InStep(b, u, n, k)
BY DEF InStep

\* What a handler leaves is an exchange, or the process has ended.
LEMMA CommitAgrees ==
  ASSUME NEW m, Commit(m),
         m.fault = NoFault =>
           Agreement(m.t, m.c, m.n, m.thread, m.ldd, m.bus, host, m.scsi)
  PROVE  ExchangeInv'
<1>1. CASE m.fault # NoFault
  BY <1>1 DEF Commit, ExchangeInv, Running
<1>2. CASE m.fault = NoFault
  <2>1. /\ transport' = m.t /\ control' = m.c /\ notifier' = m.n /\ thread' = m.thread
        /\ ldd' = m.ldd /\ bus' = m.bus /\ scsi' = m.scsi /\ host' = host
    BY <1>2 DEF Commit
  <2>2. Agreement(m.t, m.c, m.n, m.thread, m.ldd, m.bus, host, m.scsi)
    BY <1>2
  <2>3. Agreement(m.t, m.c, m.n, m.thread, m.ldd, m.bus, host, m.scsi)
          = Agreement(transport, control, notifier, thread, ldd, bus, host, scsi)'
    BY <2>1
  <2> QED BY <2>2, <2>3 DEF ExchangeInv
<1> QED BY <1>1, <1>2

\* Outside a handler, the memory is the variables and no packet is left by an object that
\* is about to run.
LEMMA BeforeHandler ==
  ASSUME Typed, ServiceInv, ExchangeInv, Running, NEW in \in Answers \cup {<< >>}
  PROVE  LET m == Mem(in) IN
         /\ m \in MscMemory /\ m.scsi = scsi /\ m.fault = NoFault
         /\ Agreement(m.t, m.c, m.n, m.thread, m.ldd, m.bus, host, m.scsi)
         /\ m.t.active \/ m.c.active \/ m.n.active \/ m.thread # "Free" => m.ldd.open
<1>1. Mem(in) \in MscMemory
  BY MemTyped
<1>2. Mem(in).scsi = scsi /\ Mem(in).fault = NoFault
  BY DEF Mem
<1>3. /\ Mem(in).t = transport /\ Mem(in).c = control /\ Mem(in).n = notifier
      /\ Mem(in).ldd = ldd /\ Mem(in).thread = thread /\ Mem(in).bus = bus
  BY MemFields
<1>4. Agreement(transport, control, notifier, thread, ldd, bus, host, scsi)
  BY DEF ExchangeInv
<1>5. transport.active \/ control.active \/ notifier.active \/ thread # "Free" => ldd.open
  BY DEF ServiceInv, Service
<1> QED BY <1>1, <1>2, <1>3, <1>4, <1>5

\* A handler of the transport, or one that goes on, keeps step and the requests.
LEMMA StepAgrees ==
  ASSUME NEW m, NEW n, NEW h, TransportOnly(m, n), BulkGoesOn(m, n),
         m.ldd.open, m.t.iStarted, ~m.ldd.out, InStep(m.bus, m.t, m.n, m.ldd),
         m.bus = "Unconfigured" => Blank(h) /\ Bare(m.ldd),
         m.bus # "Unconfigured" => /\ Asked(m.c, m.ldd, h)
                                   /\ Exchange(n.t, n.thread, n.ldd, h, n.scsi)
  PROVE  Agreement(n.t, n.c, n.n, n.thread, n.ldd, n.bus, h, n.scsi)
<1>1. /\ n.c = m.c /\ n.n = m.n /\ n.t.iStarted = m.t.iStarted /\ n.bus = m.bus
      /\ n.ldd.ep0 = m.ldd.ep0 /\ n.ldd.states = m.ldd.states /\ n.ldd.rx = m.ldd.rx
      /\ n.ldd.open = m.ldd.open
  BY DEF TransportOnly, Inside
<1>2. Bulk(n.t, n.c, n.thread, n.ldd)
  BY <1>1 DEF Bulk, BulkGoesOn
<1>3. InStep(n.bus, n.t, n.n, n.ldd)
  BY <1>1, InStepSame
<1>4. n.bus = "Unconfigured" => Blank(h) /\ Bare(n.ldd)
  BY <1>1 DEF BulkGoesOn, Bare
<1>5. n.bus # "Unconfigured" =>
        Asked(n.c, n.ldd, h) /\ Exchange(n.t, n.thread, n.ldd, h, n.scsi)
  BY <1>1 DEF Asked
<1> QED BY <1>1, <1>2, <1>3, <1>4, <1>5 DEF Agreement

\* The transport.
LEMMA RunTransportAgrees ==
  ASSUME Typed, ServiceInv, ExchangeInv, RunTransport PROVE ExchangeInv'
<1>1. PICK in \in Outside : Commit(TransportRunL(Mem(in)))
  BY DEF RunTransport
<1>2. in \in Answers
  BY MscAssumption
<1> DEFINE m == Mem(in)
           n == TransportRunL(m)
<1>3. /\ m \in MscMemory
      /\ Agreement(m.t, m.c, m.n, m.thread, m.ldd, m.bus, host, m.scsi)
      /\ m.t.active => m.ldd.open
  BY <1>2, BeforeHandler DEF RunTransport, NoMessage, ThreadFree
<1>4. Ready(m.t) /\ m.thread = "Free"
  BY MemFields DEF RunTransport, NoMessage, ThreadFree
<1> HIDE DEF m
<1>5. m.t.iStarted /\ m.ldd.open /\ m.ldd.in = NoPacket /\ ~m.ldd.out
  BY <1>3, <1>4 DEF Agreement, Bulk, Ready
<1>6. TransportOnly(m, n) /\ BulkGoesOn(m, n)
  BY <1>3, <1>4, <1>5, TransportRunLEffect, RunLGoesOn
<1>7. /\ InStep(m.bus, m.t, m.n, m.ldd)
      /\ m.bus = "Unconfigured" => Blank(host) /\ Bare(m.ldd)
      /\ m.bus # "Unconfigured" => /\ Asked(m.c, m.ldd, host)
                                   /\ Exchange(m.t, m.thread, m.ldd, host, m.scsi)
  BY <1>3, <1>5 DEF Agreement
<1>8. host \in Host
  BY DEF Typed
<1>9. m.bus # "Unconfigured" => Exchange(n.t, n.thread, n.ldd, host, n.scsi)
  BY <1>3, <1>4, <1>5, <1>7, <1>8, RunLKeepsExchange
<1> HIDE DEF n
<1>10. Agreement(n.t, n.c, n.n, n.thread, n.ldd, n.bus, host, n.scsi)
  BY <1>5, <1>6, <1>7, <1>9, StepAgrees
<1> QED BY <1>1, <1>10, CommitAgrees DEF m, n

\* The notifier: what it was told is not to be told again.
LEMMA NotifierStaysInStep ==
  ASSUME NEW b \in BusStates, NEW t, NEW l, NEW n, NEW k, Ready(n),
         InStep(b, t, n, l), ~Ready(k), n.iDeviceState # "Unconfigured",
         n.iDeviceState = "Configured" => n.iOldDeviceState = "Suspended",
         k.iOldDeviceState = (IF n.iDeviceState = "AlternateSetting" THEN n.iOldDeviceState
                              ELSE IF n.iDeviceState = "Suspended" THEN n.iDeviceState
                              ELSE "None")
  PROVE  InStep(b, t, k, l)
<1>1. CASE b = "Configured"
  BY <1>1 DEF InStep, NothingNew, ComesFirst
<1>2. CASE b = "Suspended"
  BY <1>2 DEF InStep, NothingNew, ComesFirst
<1>3. CASE b = "Unconfigured"
  BY <1>3 DEF InStep, EndsWith
<1> QED BY <1>1, <1>2, <1>3 DEF BusStates

\* The transport starts once, or while the device is lost again.
LEMMA StartStaysInStep ==
  ASSUME NEW b \in BusStates, NEW t, NEW l, NEW n, NEW k, NEW u, Ready(n),
         InStep(b, t, n, l), ~Ready(k), u.iStarted, n.iDeviceState = "Configured",
         n.iOldDeviceState # "Suspended", k.iOldDeviceState = "None"
  PROVE  /\ InStep(b, u, k, l)
         /\ b # "Unconfigured" => ~t.iStarted
<1>1. CASE b = "Configured"
  BY <1>1 DEF InStep, NothingNew, ComesFirst
<1>2. CASE b = "Suspended"
  BY <1>2 DEF InStep, NothingNew, ComesFirst
<1>3. CASE b = "Unconfigured"
  BY <1>3 DEF InStep, EndsWith
<1> QED BY <1>1, <1>2, <1>3 DEF BusStates

\* It stops because the device is lost.
LEMMA StopStaysInStep ==
  ASSUME NEW b \in BusStates, NEW t, NEW l, NEW n, NEW k, NEW u, Ready(n),
         InStep(b, t, n, l), ~Ready(k), ~u.iStarted, n.iDeviceState = "Unconfigured",
         k.iOldDeviceState = "None"
  PROVE  b = "Unconfigured" /\ InStep(b, u, k, l)
<1>1. CASE b = "Configured"
  BY <1>1 DEF InStep, NothingNew, ComesFirst
<1>2. CASE b = "Suspended"
  BY <1>2 DEF InStep, NothingNew, ComesFirst
<1>3. CASE b = "Unconfigured"
  BY <1>3 DEF InStep, EndsWith
<1> QED BY <1>1, <1>2, <1>3 DEF BusStates

\* The exchange with a transport that starts: it waits for a command.
LEMMA StartKeepsExchange ==
  ASSUME NEW t, NEW u, NEW l, NEW k, NEW h, NEW s, ~t.active, ~t.iStarted,
         Exchange(t, "Free", l, h, s), SameDriver(l, k),
         u.active, ~u.iWriteSetUp, u.iCurrentState = "EWaitForCBW", u.iStatus = Pending,
         k.out
  PROVE  Exchange(u, "Free", k, h, s)
<1>1. CASE h.phase = "Reset" /\ l.ep0 # "Answered" /\ h.got = 0
  BY <1>1 DEF Exchange, SameDriver
<1>2. CASE Awaiting(t, "Free", l, h, s)
  BY <1>2 DEF Exchange, Awaiting, AtRest, Listening, SameDriver
<1> QED BY <1>1, <1>2 DEF Exchange, HasRead, Replies, Pads, CutsShort, Discards, Reports,
                          GivesUp

\* The notifier.
LEMMA RunNotifierAgrees ==
  ASSUME Typed, ServiceInv, ExchangeInv, RunNotifier PROVE ExchangeInv'
<1> DEFINE m == Unasked
           n == NotifierRunL(m)
           st == m.n.iDeviceState
<1>1. /\ m \in MscMemory /\ m.fault = NoFault
      /\ Agreement(m.t, m.c, m.n, m.thread, m.ldd, m.bus, host, m.scsi)
      /\ m.n.active => m.ldd.open
  BY BeforeHandler DEF RunNotifier, NoMessage, ThreadFree, Unasked
<1>2. Ready(m.n) /\ m.thread = "Free"
  BY MemFields DEF RunNotifier, NoMessage, ThreadFree, Unasked
<1> HIDE DEF m
<1>3. PICK d \in MscMemory :
        /\ SameButNotifier(m, d)
        /\ \/ /\ st = "Configured" /\ m.n.iOldDeviceState # "Suspended"
              /\ SameButNotifier(HwStart(d, FALSE), n)
           \/ st = "Unconfigured" /\ SameButNotifier(HwStop(d), n)
           \/ /\ st # "Unconfigured"
              /\ st = "Configured" => m.n.iOldDeviceState = "Suspended"
              /\ SameButNotifier(d, n)
  BY <1>1, NotifierRunLDoes
<1>4. /\ ~Ready(n.n)
      /\ n.n.iOldDeviceState = (IF st = "AlternateSetting" THEN m.n.iOldDeviceState
                                ELSE IF st = "Suspended" THEN st ELSE "None")
  BY <1>1, NotifierRunLDoes DEF Ready
<1> HIDE DEF n, st
<1>5. /\ d.t = m.t /\ d.c = m.c /\ d.ldd = m.ldd /\ d.thread = "Free" /\ d.bus = m.bus
      /\ d.scsi = m.scsi /\ m.ldd.open /\ d.fault = NoFault
  BY <1>1, <1>2, <1>3 DEF SameButNotifier, Ready
<1>6. /\ Bulk(d.t, d.c, "Free", d.ldd) /\ InStep(d.bus, d.t, m.n, d.ldd)
      /\ d.bus = "Unconfigured" => Blank(host) /\ Bare(d.ldd)
      /\ d.bus # "Unconfigured" => /\ Asked(d.c, d.ldd, host)
                                   /\ Exchange(d.t, "Free", d.ldd, host, d.scsi)
  BY <1>1, <1>2, <1>5 DEF Agreement
<1>7. d.bus \in BusStates
  BY DEF MscMemory
<1>8. CASE /\ st = "Configured" /\ m.n.iOldDeviceState # "Suspended"
           /\ SameButNotifier(HwStart(d, FALSE), n)
  <2> DEFINE k == HwStart(d, FALSE)
  <2>1. /\ k.t.iStarted /\ SameDriver(d.ldd, k.ldd)
        /\ k.c = d.c \/ (k.c.active /\ k.c.iStatus = Pending)
        /\ k.thread = d.thread /\ k.bus = d.bus /\ k.scsi = d.scsi
        /\ k.fault = NoFault =>
             /\ k.t.active /\ (d.t.active => k.ldd.out = d.ldd.out)
             /\ ~d.t.active => /\ ~k.t.iWriteSetUp /\ k.t.iCurrentState = "EWaitForCBW"
                               /\ k.t.iStatus = (IF d.bus = "Unconfigured" THEN KErrGeneral
                                                 ELSE Pending)
                               /\ k.ldd.out = (d.bus # "Unconfigured")
    BY HwStartBegins
  <2> HIDE DEF k
  <2>2. /\ n.t = k.t /\ n.c = k.c /\ n.ldd = k.ldd /\ n.thread = k.thread /\ n.bus = k.bus
        /\ n.scsi = k.scsi /\ n.fault = k.fault
    BY <1>8 DEF SameButNotifier, k
  <2>3. /\ InStep(d.bus, k.t, n.n, d.ldd) /\ (d.bus # "Unconfigured" => ~d.t.iStarted)
    BY <1>2, <1>4, <1>6, <1>7, <1>8, <2>1, StartStaysInStep DEF st
  <2>4. SUFFICES ASSUME n.fault = NoFault
                 PROVE Agreement(n.t, n.c, n.n, n.thread, n.ldd, n.bus, host, n.scsi)
    BY CommitAgrees DEF n, m, RunNotifier
  <2>5. InStep(n.bus, n.t, n.n, n.ldd)
    BY <2>1, <2>2, <2>3, InStepSame DEF SameDriver
  <2>6. k.ldd.in = NoPacket
    BY <1>6, <2>1, <2>3 DEF SameDriver, Bulk, Bare
  <2>7. CASE d.bus = "Unconfigured"
    <3>1. ~k.ldd.out
      BY <1>6, <2>1, <2>2, <2>4, <2>7 DEF Bare
    <3>2. Bulk(n.t, n.c, n.thread, n.ldd) /\ Bare(n.ldd)
      BY <1>5, <1>6, <2>1, <2>2, <2>4, <2>6, <2>7, <3>1 DEF Bulk, Bare, SameDriver
    <3> QED BY <1>5, <1>6, <2>1, <2>2, <2>5, <2>7, <3>2 DEF Agreement, SameDriver
  <2>8. CASE d.bus # "Unconfigured"
    <3>1. ~d.t.active /\ ~d.t.iStarted
      BY <1>6, <2>3, <2>8 DEF Bulk
    <3>2. /\ k.t.active /\ ~k.t.iWriteSetUp /\ k.t.iCurrentState = "EWaitForCBW"
          /\ k.t.iStatus = Pending /\ k.ldd.out
      BY <2>1, <2>2, <2>4, <2>8, <3>1
    <3>3. Bulk(n.t, n.c, n.thread, n.ldd)
      BY <1>5, <1>6, <2>1, <2>2, <2>6, <3>2 DEF Bulk, SameDriver
    <3>4. Asked(n.c, n.ldd, host)
      BY <1>6, <2>1, <2>2, <2>8 DEF Asked, SameDriver, Pending, KErrNone
    <3>5. Exchange(n.t, n.thread, n.ldd, host, n.scsi)
      BY <1>5, <1>6, <2>1, <2>2, <2>8, <3>1, <3>2, StartKeepsExchange
    <3> QED BY <1>5, <2>1, <2>2, <2>5, <2>8, <3>3, <3>4, <3>5 DEF Agreement, SameDriver
  <2> QED BY <2>7, <2>8
<1>9. CASE st = "Unconfigured" /\ SameButNotifier(HwStop(d), n)
  <2> DEFINE k == HwStop(d)
  <2>1. /\ ~k.t.iStarted /\ ~k.t.active /\ ~k.c.active /\ k.thread = d.thread /\ k.bus = d.bus
        /\ k.ldd.open = d.ldd.open /\ k.ldd.stalled = d.ldd.stalled /\ k.ldd.rx = d.ldd.rx
        /\ k.ldd.states = d.ldd.states /\ (d.ldd.in = NoPacket => k.ldd.in = NoPacket)
        /\ (k.ldd.out => d.ldd.out) /\ (d.ldd.ep0 = "None" => k.ldd.ep0 = "None")
    <3>1. CASE d.t.iStarted
      BY <3>1, HwStopEnds DEF InitControl
    <3>2. CASE ~d.t.iStarted
      BY <1>6, <3>2, HwStopIdle DEF Bulk
    <3> QED BY <3>1, <3>2
  <2> HIDE DEF k
  <2>2. /\ n.t = k.t /\ n.c = k.c /\ n.ldd = k.ldd /\ n.thread = k.thread /\ n.bus = k.bus
        /\ n.scsi = k.scsi
    BY <1>9 DEF SameButNotifier, k
  <2>3. d.bus = "Unconfigured" /\ InStep(d.bus, k.t, n.n, d.ldd)
    BY <1>2, <1>4, <1>6, <1>7, <1>9, <2>1, StopStaysInStep DEF st
  <2>4. InStep(n.bus, n.t, n.n, n.ldd)
    BY <2>1, <2>2, <2>3, InStepSame
  <2>5. Bulk(n.t, n.c, n.thread, n.ldd) /\ Bare(n.ldd)
    BY <1>5, <1>6, <2>1, <2>2, <2>3 DEF Bulk, Bare
  <2>6. Agreement(n.t, n.c, n.n, n.thread, n.ldd, n.bus, host, n.scsi)
    BY <1>5, <1>6, <2>1, <2>2, <2>3, <2>4, <2>5 DEF Agreement
  <2> QED BY <2>6, CommitAgrees DEF n, m, RunNotifier
<1>10. CASE /\ st # "Unconfigured" /\ (st = "Configured" => m.n.iOldDeviceState = "Suspended")
            /\ SameButNotifier(d, n)
  <2>1. /\ n.t = d.t /\ n.c = d.c /\ n.ldd = d.ldd /\ n.thread = d.thread /\ n.bus = d.bus
        /\ n.scsi = d.scsi
    BY <1>10 DEF SameButNotifier
  <2>2. InStep(d.bus, d.t, n.n, d.ldd)
    BY <1>2, <1>4, <1>6, <1>7, <1>10, NotifierStaysInStep DEF st
  <2>3. Agreement(n.t, n.c, n.n, n.thread, n.ldd, n.bus, host, n.scsi)
    BY <1>5, <1>6, <2>1, <2>2 DEF Agreement
  <2> QED BY <2>3, CommitAgrees DEF n, m, RunNotifier
<1> QED BY <1>3, <1>8, <1>9, <1>10

\* The control interface.
LEMMA RunControlAgrees ==
  ASSUME Typed, ServiceInv, ExchangeInv, RunControl PROVE ExchangeInv'
<1> DEFINE m == Unasked
           n == ControlRunL(m)
<1>1. /\ m \in MscMemory
      /\ Agreement(m.t, m.c, m.n, m.thread, m.ldd, m.bus, host, m.scsi)
      /\ m.c.active => m.ldd.open
  BY BeforeHandler DEF RunControl, NoMessage, ThreadFree, Unasked
<1>2. Ready(m.c) /\ m.thread = "Free" /\ m.c.active
  BY MemFields DEF RunControl, NoMessage, ThreadFree, Unasked, Ready
<1> HIDE DEF m
<1>3. /\ Bulk(m.t, m.c, m.thread, m.ldd) /\ InStep(m.bus, m.t, m.n, m.ldd)
      /\ m.bus = "Unconfigured" => Blank(host) /\ Bare(m.ldd)
      /\ m.bus # "Unconfigured" => /\ Asked(m.c, m.ldd, host)
                                   /\ Exchange(m.t, m.thread, m.ldd, host, m.scsi)
      /\ m.ldd.open /\ m.t.iStarted
  BY <1>1, <1>2 DEF Agreement, Bulk
<1>4. m.c.iRequest \in Requests
  BY <1>1 DEF MscMemory, Control
<1>5. CASE ~(HasRequest(m.c) /\ m.c.iRequest = "Reset")
  <2>1. /\ SameButControl(m, n) /\ (n.c.active => n.c.iStatus = Pending)
        /\ n.ldd.ep0 = m.ldd.ep0 \/ (HasRequest(m.c) /\ n.ldd.ep0 \in {"None", "Ignored"})
        /\ m.ldd.ep0 = "None" => n.ldd.ep0 = "None"
    BY <1>1, <1>5, ControlRunLAnswers
  <2> HIDE DEF n
  <2>2. /\ n.t = m.t /\ n.n = m.n /\ n.thread = m.thread /\ n.bus = m.bus /\ n.scsi = m.scsi
        /\ n.ldd.open = m.ldd.open /\ n.ldd.out = m.ldd.out /\ n.ldd.in = m.ldd.in
        /\ n.ldd.stalled = m.ldd.stalled /\ n.ldd.rx = m.ldd.rx
        /\ n.ldd.states = m.ldd.states
    BY <2>1 DEF SameButControl, SameBulk
  <2>3. Bulk(n.t, n.c, n.thread, n.ldd)
    BY <1>3, <2>2 DEF Bulk
  <2>4. InStep(n.bus, n.t, n.n, n.ldd)
    BY <1>3, <2>2, InStepSame
  <2>5. m.bus = "Unconfigured" => Bare(n.ldd)
    BY <1>3, <2>1, <2>2 DEF Bare
  <2>6. ASSUME m.bus # "Unconfigured"
        PROVE Asked(n.c, n.ldd, host) /\ Exchange(n.t, n.thread, n.ldd, host, n.scsi)
    <3>1. n.ldd.ep0 = m.ldd.ep0 \/ (m.ldd.ep0 \notin {"Reset", "Answered"}
                                    /\ n.ldd.ep0 \in {"None", "Ignored"})
      BY <1>2, <1>3, <1>4, <1>5, <2>1, <2>6 DEF Asked, HasRequest, Requests
    <3>2. Asked(n.c, n.ldd, host)
      BY <1>3, <2>1, <2>6, <3>1 DEF Asked, Pending, KErrNone
    <3>3. Exchange(n.t, n.thread, n.ldd, host, n.scsi)
      BY <1>3, <2>2, <2>6, <3>1, ExchangeSame
    <3> QED BY <3>2, <3>3
  <2>7. Agreement(n.t, n.c, n.n, n.thread, n.ldd, n.bus, host, n.scsi)
    BY <1>3, <2>2, <2>3, <2>4, <2>5, <2>6 DEF Agreement
  <2> QED BY <2>7, CommitAgrees DEF n, m, RunControl
<1>6. CASE HasRequest(m.c) /\ m.c.iRequest = "Reset"
  <2>1. /\ n.t.iStarted /\ n.n = m.n /\ n.thread = m.thread /\ n.bus = m.bus
        /\ n.c = InitControl \/ (n.c.active /\ n.c.iStatus = Pending)
        /\ n.ldd.open = m.ldd.open /\ n.ldd.stalled = m.ldd.stalled /\ n.ldd.rx = m.ldd.rx
        /\ n.ldd.states = m.ldd.states
        /\ n.ldd.in = (IF m.t.active THEN NoPacket ELSE m.ldd.in)
        /\ m.ldd.ep0 = "None" => n.ldd.ep0 = "None"
        /\ m.ldd.ep0 = "Reset" => n.ldd.ep0 = "Answered"
        /\ n.fault = NoFault =>
             /\ n.t.active /\ m.ldd.rx = << >> /\ ~n.t.iWriteSetUp
             /\ n.t.iCurrentState = "EWaitForCBW"
             /\ n.t.iStatus = (IF m.bus = "Unconfigured" THEN KErrGeneral ELSE Pending)
             /\ n.ldd.out = (m.bus # "Unconfigured")
    BY <1>1, <1>3, <1>6, ControlRunLResets
  <2> HIDE DEF n
  <2>2. SUFFICES ASSUME n.fault = NoFault
                 PROVE Agreement(n.t, n.c, n.n, n.thread, n.ldd, n.bus, host, n.scsi)
    BY CommitAgrees DEF n, m, RunControl
  <2>3. n.ldd.in = NoPacket
    BY <1>2, <1>3, <2>1 DEF Bulk
  <2>4. Bulk(n.t, n.c, n.thread, n.ldd)
    BY <1>2, <1>3, <2>1, <2>2, <2>3 DEF Bulk
  <2>5. InStep(n.bus, n.t, n.n, n.ldd)
    BY <1>3, <2>1, InStepSame
  <2>6. m.bus = "Unconfigured" => Bare(n.ldd)
    BY <1>3, <2>1, <2>2, <2>3 DEF Bare
  <2>7. ASSUME m.bus # "Unconfigured"
        PROVE Asked(n.c, n.ldd, host) /\ Exchange(n.t, n.thread, n.ldd, host, n.scsi)
    <3>1. m.ldd.ep0 = "Reset" /\ host.phase = "Reset" /\ n.ldd.ep0 = "Answered"
      BY <1>2, <1>3, <1>6, <2>1, <2>7 DEF Asked, HasRequest
    <3>2. Asked(n.c, n.ldd, host)
      BY <2>1, <3>1 DEF Asked, InitControl, Pending, KErrNone
    <3>3. host.got = 0
      BY <1>3, <2>7, <3>1 DEF Exchange, Awaiting, OfHost, HasRead, Replies, Offered, Taken,
                              Pads, CutsShort, Discards, Reports, GivesUp
    <3>4. Awaiting(n.t, n.thread, n.ldd, host, n.scsi)
      BY <1>2, <2>1, <2>2, <2>3, <2>7, <3>1, <3>3 DEF Awaiting, AtRest, Listening
    <3> QED BY <3>2, <3>4 DEF Exchange
  <2>8. Agreement(n.t, n.c, n.n, n.thread, n.ldd, n.bus, host, n.scsi)
    BY <1>3, <2>1, <2>4, <2>5, <2>6, <2>7 DEF Agreement
  <2> QED BY <2>8
<1> QED BY <1>5, <1>6

\* The exchange of a blocked handler that goes on.
LEMMA BlockedExchange ==
  ASSUME NEW t, NEW th, NEW l, NEW h, NEW s, th # "Free", ~t.active, Exchange(t, th, l, h, s)
  PROVE  \/ h.phase = "Reset" /\ l.ep0 # "Answered" /\ h.got = 0
         \/ Pads(t, th, l, h, s) \/ CutsShort(t, th, l, h, s) \/ Discards(t, th, l, h, s)
         \/ GivesUp(t, th, l, h)
BY DEF Exchange, Awaiting, HasRead, Replies, Reports

\* What the thread goes on with: as it is, without the packet or without the data.
LEMMA ThreadGoesOn ==
  ASSUME ThreadResumes \/ StallGivesUp
  PROVE  \/ /\ thread = "Padding" /\ (ldd.in = NoPacket \/ bus = "Unconfigured")
            /\ Commit(Resume([Unasked EXCEPT !.ldd.in = NoPacket]))
         \/ /\ thread = "Discarding" /\ ldd.rx # << >>
            /\ Commit(Resume([Unasked EXCEPT !.ldd.rx = Tail(@)]))
         \/ /\ thread \in {"Stalled", "StalledAfterData", "Discarding"}
            /\ thread = "Discarding" => bus = "Unconfigured"
            /\ Commit(Resume(Unasked))
<1>1. CASE StallGivesUp
  BY <1>1 DEF StallGivesUp
<1>2. CASE ThreadResumes
  <2>1. CASE thread = "Padding"
    BY <1>2, <2>1 DEF ThreadResumes, ThreadUnblocked
  <2>2. CASE thread = "Discarding" /\ ldd.rx # << >>
    BY <1>2, <2>2 DEF ThreadResumes, ThreadUnblocked
  <2>3. CASE thread # "Padding" /\ ~(thread = "Discarding" /\ ldd.rx # << >>)
    BY <1>2, <2>3 DEF ThreadResumes, ThreadUnblocked
  <2> QED BY <2>1, <2>2, <2>3
<1> QED BY <1>1, <1>2

\* A blocked handler goes on.
LEMMA ThreadAgrees ==
  ASSUME Typed, ServiceInv, ExchangeInv, ThreadResumes \/ StallGivesUp PROVE ExchangeInv'
<1> DEFINE m == Unasked
           p == [m EXCEPT !.ldd.in = NoPacket]
           q == [m EXCEPT !.ldd.rx = Tail(@)]
<1>1. /\ m \in MscMemory
      /\ Agreement(m.t, m.c, m.n, m.thread, m.ldd, m.bus, host, m.scsi)
      /\ m.thread # "Free" => m.ldd.open
  BY BeforeHandler DEF ThreadResumes, StallGivesUp, Unasked
<1>2. m.thread = thread /\ m.bus = bus /\ m.ldd = ldd
  BY MemFields DEF Unasked
<1>3. \/ /\ m.thread = "Padding" /\ (m.ldd.in = NoPacket \/ m.bus = "Unconfigured")
         /\ Commit(Resume(p))
      \/ m.thread = "Discarding" /\ m.ldd.rx # << >> /\ Commit(Resume(q))
      \/ /\ m.thread \in {"Stalled", "StalledAfterData", "Discarding"}
         /\ m.thread = "Discarding" => m.bus = "Unconfigured"
         /\ Commit(Resume(m))
  BY <1>2, ThreadGoesOn
<1> HIDE DEF m
<1>4. host \in Host /\ m.ldd \in Ldd
  BY <1>1 DEF Typed, MscMemory
<1>5. /\ Bulk(m.t, m.c, m.thread, m.ldd) /\ InStep(m.bus, m.t, m.n, m.ldd)
      /\ m.bus = "Unconfigured" => Blank(host) /\ Bare(m.ldd)
      /\ m.bus # "Unconfigured" => /\ Asked(m.c, m.ldd, host)
                                   /\ Exchange(m.t, m.thread, m.ldd, host, m.scsi)
      /\ m.ldd.open /\ m.t.iStarted /\ ~m.t.active /\ ~m.ldd.out
      /\ m.thread # "Padding" => m.ldd.in = NoPacket
  BY <1>1, <1>3 DEF Agreement, Bulk
<1>6. m.bus # "Unconfigured" =>
        \/ host.phase = "Reset" /\ m.ldd.ep0 # "Answered" /\ host.got = 0
        \/ Pads(m.t, m.thread, m.ldd, host, m.scsi) \/ CutsShort(m.t, m.thread, m.ldd, host, m.scsi)
        \/ Discards(m.t, m.thread, m.ldd, host, m.scsi)
        \/ GivesUp(m.t, m.thread, m.ldd, host)
  BY <1>3, <1>5, BlockedExchange
\* the memory it goes on with
<1>7. ASSUME NEW k \in MscMemory, Commit(Resume(k)),
             k.t = m.t, k.c = m.c, k.n = m.n, k.thread = m.thread, k.bus = m.bus,
             k.ldd.open = m.ldd.open, k.ldd.out = m.ldd.out, k.ldd.in = NoPacket,
             k.ldd.stalled = m.ldd.stalled, k.ldd.ep0 = m.ldd.ep0,
             k.ldd.states = m.ldd.states,
             m.bus = "Unconfigured" => k.ldd.rx = m.ldd.rx,
             m.bus # "Unconfigured" =>
               \/ host.phase = "Reset" /\ k.ldd.ep0 # "Answered" /\ host.got = 0
               \/ Pads(k.t, k.thread, k.ldd, host, k.scsi)
               \/ CutsShort(k.t, k.thread, k.ldd, host, k.scsi)
               \/ /\ k.thread = "Discarding" /\ k.ldd.rx = << >> /\ host.phase = "Status"
                  /\ Known(k.t, host, k.scsi) /\ host.got = 0 /\ k.t.iDataResidue = host.len
                  /\ host.failed => k.t.iWriteSetUp
               \/ GivesUp(k.t, k.thread, k.ldd, host)
      PROVE  ExchangeInv'
  <2> DEFINE n == Resume(k)
  <2>1. TransportOnly(k, n) /\ BulkGoesOn(k, n)
    BY <1>5, <1>7, ResumeEffect, ResumeGoesOn
  <2>2. k.bus # "Unconfigured" => Exchange(n.t, n.thread, n.ldd, host, n.scsi)
    <3>1. Unblocks(k)
      BY <1>3, <1>5, <1>7 DEF Unblocks
    <3> QED BY <1>4, <1>7, <3>1, ResumeKeepsExchange
  <2> HIDE DEF n
  <2>3. InStep(k.bus, k.t, k.n, k.ldd)
    BY <1>5, <1>7, InStepSame
  <2>4. k.bus = "Unconfigured" => Blank(host) /\ Bare(k.ldd)
    BY <1>5, <1>7 DEF Bare
  <2>5. k.bus # "Unconfigured" => Asked(k.c, k.ldd, host)
    BY <1>5, <1>7 DEF Asked
  <2>6. Agreement(n.t, n.c, n.n, n.thread, n.ldd, n.bus, host, n.scsi)
    BY <1>5, <1>7, <2>1, <2>2, <2>3, <2>4, <2>5, StepAgrees
  <2> QED BY <1>7, <2>6, CommitAgrees DEF n
<1>8. CASE /\ m.thread = "Padding" /\ (m.ldd.in = NoPacket \/ m.bus = "Unconfigured")
           /\ Commit(Resume(p))
  <2> DEFINE l == [m.ldd EXCEPT !.in = NoPacket]
  <2>1. /\ l \in Ldd /\ l.open = m.ldd.open /\ l.out = m.ldd.out /\ l.in = NoPacket
        /\ l.stalled = m.ldd.stalled /\ l.rx = m.ldd.rx /\ l.ep0 = m.ldd.ep0
        /\ l.states = m.ldd.states
    BY <1>4 DEF Ldd, Packets
  <2> HIDE DEF l
  <2>2. /\ p \in MscMemory /\ p.t = m.t /\ p.c = m.c /\ p.n = m.n /\ p.thread = m.thread
        /\ p.bus = m.bus /\ p.scsi = m.scsi /\ p.ldd = l
    BY <1>1, <2>1 DEF MscMemory, l
  <2> HIDE DEF p
  <2>3. m.bus # "Unconfigured" =>
          \/ host.phase = "Reset" /\ p.ldd.ep0 # "Answered" /\ host.got = 0
          \/ Pads(p.t, p.thread, p.ldd, host, p.scsi)
    <3>1. SUFFICES ASSUME m.bus # "Unconfigured", Pads(m.t, m.thread, m.ldd, host, m.scsi)
                   PROVE Pads(p.t, p.thread, p.ldd, host, p.scsi)
      BY <1>6, <1>8, <2>1, <2>2 DEF CutsShort, Discards, GivesUp
    <3>2. m.ldd.in = NoPacket
      BY <1>8, <3>1
    <3> QED BY <2>1, <2>2, <3>1, <3>2 DEF Pads, Offered
  <2> QED BY <1>7, <1>8, <2>1, <2>2, <2>3 DEF p
<1>9. CASE m.thread = "Discarding" /\ m.ldd.rx # << >> /\ Commit(Resume(q))
  <2> DEFINE r == Tail(m.ldd.rx)
             l == [m.ldd EXCEPT !.rx = r]
  <2>1. r \in Seq(Cbw)
    BY <1>4, <1>9 DEF Ldd
  <2>2. m.ldd.rx = << OutData >> => r = << >>
    OBVIOUS
  <2> HIDE DEF r
  <2>3. /\ l \in Ldd /\ l.open = m.ldd.open /\ l.out = m.ldd.out /\ l.in = m.ldd.in
        /\ l.stalled = m.ldd.stalled /\ l.rx = r /\ l.ep0 = m.ldd.ep0
        /\ l.states = m.ldd.states
    BY <1>4, <2>1 DEF Ldd
  <2> HIDE DEF l
  <2>4. /\ q \in MscMemory /\ q.t = m.t /\ q.c = m.c /\ q.n = m.n /\ q.thread = m.thread
        /\ q.bus = m.bus /\ q.scsi = m.scsi /\ q.ldd = l
    BY <1>1, <2>3 DEF MscMemory, l, r
  <2> HIDE DEF q
  <2>5. m.bus # "Unconfigured" =>
          \/ host.phase = "Reset" /\ q.ldd.ep0 # "Answered" /\ host.got = 0
          \/ /\ q.thread = "Discarding" /\ q.ldd.rx = << >> /\ host.phase = "Status"
             /\ Known(q.t, host, q.scsi) /\ host.got = 0 /\ q.t.iDataResidue = host.len
             /\ host.failed => q.t.iWriteSetUp
    <3>1. SUFFICES ASSUME m.bus # "Unconfigured", Discards(m.t, m.thread, m.ldd, host, m.scsi)
                   PROVE  /\ q.thread = "Discarding" /\ q.ldd.rx = << >>
                          /\ host.phase = "Status"
                          /\ Known(q.t, host, q.scsi) /\ host.got = 0
                          /\ q.t.iDataResidue = host.len
                          /\ host.failed => q.t.iWriteSetUp
      BY <1>5, <1>6, <1>9, <2>3, <2>4 DEF Pads, CutsShort, GivesUp
    <3> QED BY <1>9, <2>2, <2>3, <2>4, <3>1 DEF Discards
  <2>6. m.bus = "Unconfigured" => q.ldd.rx = m.ldd.rx
    BY <1>5, <1>9 DEF Bare
  <2> QED BY <1>5, <1>7, <1>9, <2>3, <2>4, <2>5, <2>6 DEF q
<1>10. CASE /\ m.thread \in {"Stalled", "StalledAfterData", "Discarding"}
            /\ m.thread = "Discarding" => m.bus = "Unconfigured"
            /\ Commit(Resume(m))
  <2>1. m.bus # "Unconfigured" =>
          \/ host.phase = "Reset" /\ m.ldd.ep0 # "Answered" /\ host.got = 0
          \/ CutsShort(m.t, m.thread, m.ldd, host, m.scsi)
          \/ GivesUp(m.t, m.thread, m.ldd, host)
    BY <1>6, <1>10 DEF Pads, Discards
  <2> QED BY <1>1, <1>5, <1>7, <1>10, <2>1
<1> QED BY <1>3, <1>8, <1>9, <1>10

-----------------------------------------------------------------------------
\* The class starts and stops.

\* A class that is not started has no exchange.
LEMMA IdleAgrees ==
  ASSUME NEW t, NEW c, NEW n, NEW l, NEW b, NEW h, NEW s, l = InitLdd,
         ~t.active, ~t.iStarted, ~c.active, n.iOldDeviceState = "None", Blank(h)
  PROVE  Agreement(t, c, n, "Free", l, b, h, s)
BY DEF Agreement, Bulk, InitLdd, NoPacket

\* What is left of a host whose device has gone.
LEMMA HostGone ==
  ASSUME NEW h \in Host
  PROVE  /\ HostIdle(h).phase = "Idle" /\ HostIdle(h).got = 0
         /\ HostIdle(h).failed = h.failed /\ HostIdle(h).corrupt = h.corrupt
         /\ Blank([HostIdle(h) EXCEPT !.failed = FALSE, !.corrupt = FALSE])
BY DEF HostIdle, Host, Blank

\* A class that is not started has nothing of an earlier start.
LEMMA IdleIsFresh ==
  ASSUME Typed, ServiceInv, ExchangeInv, Running, cc.iState = "EUsbServiceIdle"
  PROVE  /\ ldd = InitLdd /\ thread = "Free" /\ ~transport.active /\ ~control.active
         /\ ~transport.iStarted /\ notifier.iOldDeviceState = "None" /\ Blank(host)
<1>1. /\ ldd = InitLdd /\ thread = "Free" /\ ~transport.active /\ ~control.active
  BY DEF ServiceInv, Service
<1>2. ~ldd.open
  BY <1>1 DEF InitLdd
<1> QED BY <1>1, <1>2 DEF ExchangeInv, Agreement, Bulk

\* The server ends.
LEMMA ServerEndsAgrees ==
  ASSUME Typed, ServiceInv, ExchangeInv, ServerEnds PROVE ExchangeInv'
<1> DEFINE p == NewProcess(Unasked)
           s == [process |-> "None", iSessionCount |-> 0]
           m == [p EXCEPT !.ldd = InitLdd, !.server = s]
<1>1. Commit(m) /\ server.process = "Ending" /\ Running
  BY DEF ServerEnds
<1>2. cc.iState = "EUsbServiceIdle"
  BY <1>1 DEF ServiceInv, Service
<1>3. thread = "Free" /\ Blank(host)
  BY <1>1, <1>2, IdleIsFresh
<1>4. /\ p.t = InitTransport /\ p.c = InitControl /\ p.n = InitNotifier /\ p.thread = thread
  BY DEF NewProcess, Unasked, Mem
<1>4a. p \in MscMemory
  BY MemTyped, NewProcessEffect DEF Called, Unasked
<1> HIDE DEF p, s
<1>5. /\ m.t = p.t /\ m.c = p.c /\ m.n = p.n /\ m.thread = p.thread /\ m.ldd = InitLdd
  BY <1>4a DEF MscMemory
<1> HIDE DEF m
<1>6. /\ ~m.t.active /\ ~m.t.iStarted /\ ~m.c.active /\ m.n.iOldDeviceState = "None"
  BY <1>4, <1>5 DEF InitTransport, InitControl, InitNotifier
<1>7. Agreement(m.t, m.c, m.n, m.thread, m.ldd, m.bus, host, m.scsi)
  BY <1>3, <1>4, <1>5, <1>6, IdleAgrees
<1> QED BY <1>1, <1>7, CommitAgrees

\* A stop that waits.
LEMMA AskStopAgrees ==
  ASSUME ExchangeInv, AskStop PROVE ExchangeInv'
BY DEF AskStop, ExchangeInv, Running

\* The objects of a server that has been stopped forget what they were at.
LEMMA StopForgets ==
  ASSUME NEW m \in MscMemory
  PROVE  /\ ~ClassControllerStop(m).t.iStarted
         /\ ClassControllerStop(m).n.iOldDeviceState = "None"
<1> DEFINE d == SessionStop(m)
           s == SessionShutdown(d)
<1>1. /\ s.t = [InitTransport EXCEPT !.active = d.t.active]
      /\ s.n = [InitNotifier EXCEPT !.active = d.n.active]
  <2> DEFINE a == CancelControl([m EXCEPT !.shown = FALSE, !.ret = KErrNone])
             b == CancelTransport(a)
  <2> QED BY DEF SessionShutdown, SessionStop, TransportStop, CancelTransport, CancelControl,
                 MscMemory
<1>2. ~s.t.iStarted /\ s.n.iOldDeviceState = "None"
  BY <1>1 DEF InitTransport, InitNotifier
<1>3. ClassControllerStop(m).t = s.t /\ ClassControllerStop(m).n = s.n
  BY DEF ClassControllerStop, CloseSession
<1> QED BY <1>2, <1>3

\* The stop of the class.
LEMMA StopAgrees ==
  ASSUME Typed, ServiceInv, ExchangeInv, Stop PROVE ExchangeInv'
<1> DEFINE m == ClassControllerStop(Unasked)
<1>1. cc.iState = "EUsbServiceStarted" /\ thread = "Free"
  BY DEF Stop, ThreadFree
<1>2. /\ transport.iInterfaceConfigured
      /\ server = [process |-> "Running", iSessionCount |-> 1]
  BY <1>1 DEF ServiceInv, Service
<1>3. server.iSessionCount = 1
  BY <1>2
<1>4. Unasked \in MscMemory
  BY MemTyped DEF Unasked
<1>5. Stopped(m) /\ m.thread = "Free"
  BY <1>1, <1>2, <1>3, <1>4, MemFields, ClassControllerStopEffect DEF Unasked
<1>6. ~m.t.iStarted /\ m.n.iOldDeviceState = "None"
  BY <1>4, StopForgets
<1>7. Blank(host')
  BY HostGone DEF Stop, Typed
<1>8. /\ transport' = m.t /\ control' = m.c /\ notifier' = m.n /\ scsi' = m.scsi
      /\ ldd' = m.ldd /\ thread' = m.thread
  BY DEF Stop
<1> HIDE DEF m
<1>9. Agreement(transport', control', notifier', "Free", ldd', bus', host', scsi')
  BY <1>5, <1>6, <1>7, <1>8, IdleAgrees DEF Stopped
<1> QED BY <1>5, <1>8, <1>9 DEF ExchangeInv

\* A server that has not begun.
Fresh(m) == ~m.t.iStarted /\ m.n.iOldDeviceState = "None"

\* Sessions and units do not begin it, and a process is fresh.
LEMMA StaysFresh ==
  ASSUME NEW m \in MscMemory, Fresh(m)
  PROVE  Fresh(Connect(m)) /\ Fresh(SetupUnits(m)) /\ Fresh(StartServer(m))
<1>1. Connect(m).t = m.t /\ Connect(m).n = m.n
  BY DEF Connect, MscMemory
<1>2. SetupUnits(m).t = m.t /\ SetupUnits(m).n = m.n
  <2> DEFINE n == Connect(m)
             u == SetupLogicalUnit(n)
  <2>1. u.t = n.t /\ u.n = n.n
    BY DEF SetupLogicalUnit, Connect, MscMemory
  <2>2. CloseSession(u).t = u.t /\ CloseSession(u).n = u.n
    BY DEF CloseSession, SetupLogicalUnit, Connect, MscMemory
  <2>3. SetupUnits(m) = n \/ SetupUnits(m) = CloseSession(u)
    BY DEF SetupUnits
  <2> HIDE DEF n, u
  <2> QED BY <1>1, <2>1, <2>2, <2>3 DEF n
<1>3. \/ StartServer(m).t = m.t /\ StartServer(m).n = m.n
      \/ StartServer(m).t = InitTransport /\ StartServer(m).n = InitNotifier
  <2> DEFINE p == NewProcess(m)
  <2>1. p.t = InitTransport /\ p.n = InitNotifier
    BY DEF NewProcess, MscMemory
  <2>2. \/ StartServer(m) = [m EXCEPT !.ret = KErrNone]
        \/ StartServer(m) = [p EXCEPT !.ret = KErrNone]
        \/ StartServer(m) = [m EXCEPT !.ret = m.in.process]
    BY DEF StartServer
  <2>3. [p EXCEPT !.ret = KErrNone].t = p.t /\ [p EXCEPT !.ret = KErrNone].n = p.n
    BY DEF NewProcess
  <2>4. \A e : [m EXCEPT !.ret = e].t = m.t /\ [m EXCEPT !.ret = e].n = m.n
    BY DEF MscMemory
  <2> HIDE DEF p
  <2> QED BY <2>1, <2>2, <2>3, <2>4
<1> QED BY <1>1, <1>2, <1>3 DEF Fresh, InitTransport, InitNotifier

\* The driver of a class that is started, before the transport: open and empty.
Opened(m, o) ==
  /\ o \in MscMemory /\ o.t = m.t /\ o.c = m.c /\ o.thread = m.thread /\ o.bus = m.bus
  /\ o.n.active /\ o.n.iStatus = Pending /\ o.n.iOldDeviceState = m.n.iOldDeviceState
  /\ o.ldd.open /\ Bare(o.ldd) /\ o.ldd.states = << >>

LEMMA OpenedDriver ==
  ASSUME NEW m \in MscMemory, ~m.n.active, m.ldd = InitLdd
  PROVE  Opened(m, ActivateNotifier([m EXCEPT !.ldd.open = TRUE]))
<1> DEFINE a == [m EXCEPT !.ldd.open = TRUE]
           l == [InitLdd EXCEPT !.open = TRUE]
           o == ActivateNotifier(a)
<1>1. a \in MscMemory
  BY OpenedEffect
<1>2. l.open /\ Bare(l) /\ l.states = << >>
  BY DEF InitLdd, Bare
<1>3. /\ a.t = m.t /\ a.c = m.c /\ a.n = m.n /\ a.thread = m.thread /\ a.bus = m.bus
      /\ a.ldd = l
  BY DEF MscMemory
<1> HIDE DEF a, l
<1>4. o \in MscMemory /\ o.t = a.t /\ o.c = a.c /\ o.thread = a.thread /\ o.bus = a.bus
      /\ o.ldd = a.ldd
  BY <1>1, ActivateNotifierEffect DEF Inside, ActivateNotifier, MscMemory
<1>5. o.n.active /\ o.n.iStatus = Pending /\ o.n.iOldDeviceState = m.n.iOldDeviceState
  BY <1>1, <1>3 DEF ActivateNotifier, MscMemory, Notifier
<1> HIDE DEF o
<1>6. Opened(m, o)
  BY <1>2, <1>3, <1>4, <1>5 DEF Opened
<1> QED BY <1>6 DEF o, a

\* A transport that starts is in step with the device, and waits for a command if that is
\* configured.
LEMMA TransportStartAgrees ==
  ASSUME NEW m \in MscMemory, NEW h, Fresh(m), Blank(h), m.in \in Answers,
         ~m.t.active, ~m.c.active, ~m.n.active, m.ldd = InitLdd, m.thread = "Free"
  PROVE  LET n == TransportStart(m, FALSE) IN
         n.fault = NoFault => Agreement(n.t, n.c, n.n, n.thread, n.ldd, n.bus, h, n.scsi)
<1> DEFINE o == ActivateNotifier([m EXCEPT !.ldd.open = TRUE])
           d == IF o.bus = "Configured" THEN HwStart(o, FALSE) ELSE o
           f == [m EXCEPT !.ret = m.in.ldd]
           n == [d EXCEPT !.t.iInterfaceConfigured = TRUE, !.ret = KErrNone]
<1>1. TransportStart(m, FALSE) = f \/ TransportStart(m, FALSE) = n
  BY DEF TransportStart
<1>2. Agreement(f.t, f.c, f.n, f.thread, f.ldd, f.bus, h, f.scsi)
  BY IdleAgrees DEF Fresh, MscMemory
<1>3. Opened(m, o)
  BY OpenedDriver
<1> HIDE DEF o
<1>4. d = (IF o.bus = "Configured" THEN HwStart(o, FALSE) ELSE o)
  OBVIOUS
<1>4a. d \in MscMemory
  BY <1>3, HwStartEffect DEF Opened, Inside
<1> HIDE DEF d
<1>5. /\ n.c = d.c /\ n.n = d.n /\ n.thread = d.thread /\ n.ldd = d.ldd /\ n.bus = d.bus
      /\ n.scsi = d.scsi /\ n.fault = d.fault
      /\ n.t.active = d.t.active /\ n.t.iStatus = d.t.iStatus /\ n.t.iStarted = d.t.iStarted
      /\ n.t.iCurrentState = d.t.iCurrentState /\ n.t.iWriteSetUp = d.t.iWriteSetUp
  BY <1>4a DEF MscMemory, Transport
<1> HIDE DEF n
<1>6. ASSUME n.fault = NoFault
      PROVE Agreement(n.t, n.c, n.n, n.thread, n.ldd, n.bus, h, n.scsi)
  <2>1. CASE o.bus = "Configured"
    <3>1. d = HwStart(o, FALSE)
      BY <1>4, <2>1
    <3>2. /\ d.t.iStarted /\ SameDriver(o.ldd, d.ldd)
          /\ d.c = o.c \/ (d.c.active /\ d.c.iStatus = Pending)
          /\ d.n = o.n /\ d.thread = o.thread /\ d.bus = o.bus
          /\ d.t.active /\ ~d.t.iWriteSetUp /\ d.t.iCurrentState = "EWaitForCBW"
          /\ d.t.iStatus = Pending /\ d.ldd.out
      BY <1>3, <1>5, <1>6, <2>1, <3>1, HwStartBegins DEF Opened
    <3>3. ~Ready(n.n) /\ n.n.iOldDeviceState = "None" /\ n.ldd.states = << >>
      BY <1>3, <1>5, <3>2 DEF Opened, SameDriver, Ready, Pending, Fresh
    <3>4. InStep(n.bus, n.t, n.n, n.ldd)
      BY <1>5, <2>1, <3>2, <3>3 DEF InStep, NothingNew, Alternates
    <3>5. Bulk(n.t, n.c, n.thread, n.ldd)
      BY <1>3, <1>5, <3>2 DEF Bulk, Opened, Bare, SameDriver
    <3>6. Asked(n.c, n.ldd, h)
      BY <1>3, <1>5, <3>2 DEF Asked, Opened, Bare, SameDriver, Blank, Pending, KErrNone
    <3>7. Awaiting(n.t, n.thread, n.ldd, h, n.scsi)
      BY <1>3, <1>5, <3>2 DEF Awaiting, AtRest, Listening, Opened, Bare, SameDriver, Blank
    <3> QED BY <1>3, <1>5, <2>1, <3>2, <3>4, <3>5, <3>6, <3>7
            DEF Agreement, Exchange, Opened, SameDriver
  <2>2. CASE o.bus # "Configured"
    <3>1. d = o
      BY <1>4, <2>2
    <3>2. /\ ~n.t.iStarted /\ ~n.t.active /\ ~n.c.active /\ n.thread = "Free"
          /\ n.ldd.open /\ Bare(n.ldd) /\ n.ldd.states = << >>
          /\ ~Ready(n.n) /\ n.n.iOldDeviceState = "None" /\ n.bus = o.bus
      BY <1>3, <1>5, <3>1 DEF Opened, Fresh, Ready, Pending, KErrNone
    <3>3. n.bus \in {"Unconfigured", "Suspended"}
      BY <1>3, <2>2, <3>2 DEF Opened, MscMemory, BusStates
    <3>4. InStep(n.bus, n.t, n.n, n.ldd)
      <4>1. CASE n.bus = "Unconfigured"
        BY <3>2, <4>1 DEF InStep
      <4>2. CASE n.bus = "Suspended"
        BY <3>2, <4>2 DEF InStep, NothingNew, Alternates
      <4> QED BY <3>3, <4>1, <4>2
    <3>5. Bulk(n.t, n.c, n.thread, n.ldd) /\ Asked(n.c, n.ldd, h)
      BY <3>2 DEF Bulk, Bare, Asked, Blank
    <3>6. Awaiting(n.t, n.thread, n.ldd, h, n.scsi)
      BY <3>2 DEF Awaiting, AtRest, Listening, Bare, Blank
    <3> QED BY <3>2, <3>4, <3>5, <3>6 DEF Agreement, Exchange
  <2> QED BY <2>1, <2>2
<1> QED BY <1>1, <1>2, <1>6 DEF n

\* The start of the class, when the device is not configured meanwhile.
LEMMA StartAgrees ==
  ASSUME Typed, ServiceInv, ExchangeInv, Start, Races \subseteq {FALSE} PROVE ExchangeInv'
<1>1. PICK in \in Outside : Commit(ClassControllerStart(Mem(in), FALSE))
  BY DEF Start
<1> DEFINE m == Mem(in)
           served == StartServer(m)
           setup  == SetupUnits(served)
           opened == Connect(setup)
           shows  == [opened EXCEPT !.shown = TRUE]
           done   == TransportStart(shows, FALSE)
           st     == IF done.ret = KErrNone THEN "EUsbServiceStarted" ELSE "EUsbServiceIdle"
           n      == [done EXCEPT !.cc.iState = st]
           k      == ClassControllerStart(m, FALSE)
<1>2. k \in {served, setup, opened, n}
  BY DEF ClassControllerStart, SessionStart
<1>3. cc.iState = "EUsbServiceIdle" /\ Running /\ in \in Answers
  BY MscAssumption DEF Start
<1>4. /\ ldd = InitLdd /\ thread = "Free" /\ ~transport.active /\ ~control.active
      /\ ~transport.iStarted /\ notifier.iOldDeviceState = "None" /\ Blank(host)
      /\ ~notifier.active /\ server.iSessionCount \in 0..1
  BY <1>3, IdleIsFresh DEF ServiceInv, Service
<1>5. /\ m \in MscMemory /\ m.in \in Answers /\ Fresh(m) /\ m.ldd = InitLdd
      /\ m.thread = "Free" /\ ~m.t.active /\ ~m.c.active /\ ~m.n.active
      /\ m.server.iSessionCount \in 0..1
  BY <1>3, <1>4, MemTyped, MemFields DEF Fresh
<1> HIDE DEF m
<1>6. /\ Called(m, served) /\ Fresh(served) /\ served.server.iSessionCount \in 0..1
  BY <1>5, StartServerEffect, StaysFresh
<1> HIDE DEF served
<1>7. served \in MscMemory /\ served.in \in Answers
  BY <1>5, <1>6 DEF Called
<1>8. Called(served, setup) /\ Fresh(setup) /\ setup.server.iSessionCount \in 0..1
  BY <1>6, <1>7, SetupUnitsEffect, StaysFresh
<1> HIDE DEF setup
<1>9. setup \in MscMemory /\ Called(m, setup)
  BY <1>6, <1>8, CalledTwice DEF Called
<1>10. Called(m, opened) /\ Fresh(opened)
  BY <1>8, <1>9, ConnectEffect, StaysFresh, CalledTwice
<1> HIDE DEF opened
<1>11. opened \in MscMemory
  BY <1>10 DEF Called
<1>12. Called(m, shows) /\ Fresh(shows)
  <2>1. Called(opened, shows)
    BY <1>11, ShownEffect
  <2>2. shows.t = opened.t /\ shows.n = opened.n
    BY <1>11 DEF MscMemory
  <2> HIDE DEF shows
  <2> QED BY <1>10, <2>1, <2>2, CalledTwice DEF Fresh
<1> HIDE DEF shows
<1>13. ASSUME NEW q \in {served, setup, opened, shows}
       PROVE  /\ q \in MscMemory /\ Fresh(q) /\ q.in \in Answers /\ q.ldd = InitLdd
              /\ q.thread = "Free" /\ ~q.t.active /\ ~q.c.active /\ ~q.n.active
  <2>1. Called(m, q) /\ Fresh(q)
    BY <1>6, <1>8, <1>9, <1>10, <1>12
  <2> QED BY <1>5, <2>1 DEF Called
<1>14. done.fault = NoFault =>
         Agreement(done.t, done.c, done.n, done.thread, done.ldd, done.bus, host, done.scsi)
  BY <1>4, <1>13, TransportStartAgrees
<1>15. done \in MscMemory
  BY <1>13, TransportStartEffect DEF SessionStarted
<1> HIDE DEF done, st
<1>16. /\ n.t = done.t /\ n.c = done.c /\ n.n = done.n /\ n.thread = done.thread
       /\ n.ldd = done.ldd /\ n.bus = done.bus /\ n.scsi = done.scsi /\ n.fault = done.fault
  BY <1>15 DEF MscMemory
<1> HIDE DEF n, k
<1>17. ASSUME NEW q \in {served, setup, opened}
       PROVE  Agreement(q.t, q.c, q.n, q.thread, q.ldd, q.bus, host, q.scsi)
  BY <1>4, <1>13, IdleAgrees DEF Fresh
<1>18. k.fault = NoFault =>
         Agreement(k.t, k.c, k.n, k.thread, k.ldd, k.bus, host, k.scsi)
  BY <1>2, <1>14, <1>16, <1>17
<1>19. Commit(k)
  BY <1>1 DEF k, m
<1> QED BY <1>18, <1>19, CommitAgrees

-----------------------------------------------------------------------------
\* The driver completes requests.

\* What holds of the exchange while the driver is open.
LEMMA OpenExchange ==
  ASSUME Typed, ExchangeInv, Running, ldd.open
  PROVE  /\ Bulk(transport, control, thread, ldd) /\ InStep(bus, transport, notifier, ldd)
         /\ bus = "Unconfigured" => Blank(host) /\ Bare(ldd)
         /\ bus # "Unconfigured" => /\ Asked(control, ldd, host)
                                    /\ Exchange(transport, thread, ldd, host, scsi)
         /\ host \in Host /\ ldd \in Ldd /\ bus \in BusStates
         /\ transport \in Transport /\ control \in Control /\ notifier \in Notifier
BY DEF ExchangeInv, Agreement, Typed

\* The notifier is told of the first of the changes that wait.
LEMMA TellStaysInStep ==
  ASSUME NEW b \in BusStates, NEW t, NEW n, NEW l, NEW k, NEW m, InStep(b, t, n, l),
         ~Ready(n), Ready(k), l.states \in Seq(Reported), l.states # << >>,
         k.iDeviceState = Head(l.states), k.iOldDeviceState = n.iOldDeviceState,
         m.states = Tail(l.states)
  PROVE  InStep(b, t, k, m)
<1> DEFINE s == l.states
<1>1. s \in Seq(Reported) /\ s # << >> /\ m.states = Tail(s) /\ k.iDeviceState = Head(s)
  OBVIOUS
<1>2. Alternates(s) => Alternates(Tail(s)) /\ Head(s) = "AlternateSetting"
  <2> HIDE DEF s
  <2> QED BY <1>1 DEF Alternates
<1>3. s[Len(s)] = "Unconfigured" => EndsWith(k, Tail(s), "Unconfigured")
  <2> HIDE DEF s
  <2>1. CASE Tail(s) = << >>
    <3>1. Len(Tail(s)) = Len(s) - 1 /\ Len(s) \in Nat
      BY <1>1
    <3>2. Len(Tail(s)) = 0
      <4>1. Len(<< >>) = 0
        OBVIOUS
      <4> QED BY <2>1, <4>1, Zenon
    <3>3. Len(s) = 1
      BY <3>1, <3>2
    <3> QED BY <1>1, <2>1, <3>3 DEF EndsWith
  <2>2. CASE Tail(s) # << >>
    BY <1>1, <2>2 DEF EndsWith
  <2> QED BY <2>1, <2>2
<1>4. ASSUME NEW st, ComesFirst(n, s, st) PROVE ComesFirst(k, Tail(s), st)
  <2> HIDE DEF s
  <2> QED BY <1>1, <1>4 DEF ComesFirst
<1>5. NothingNew(n, s) => NothingNew(k, Tail(s))
  <2> HIDE DEF s
  <2> QED BY <1>1, <1>2 DEF NothingNew
<1>6. CASE b = "Configured"
  BY <1>4, <1>5, <1>6 DEF InStep
<1>7. CASE b = "Suspended"
  BY <1>4, <1>5, <1>7 DEF InStep
<1>8. CASE b = "Unconfigured"
  BY <1>3, <1>8 DEF InStep, EndsWith
<1> QED BY <1>6, <1>7, <1>8 DEF BusStates

\* The notifier is told.
LEMMA NotifierCompletesAgrees ==
  ASSUME Typed, ServiceInv, ExchangeInv, NotifierCompletes PROVE ExchangeInv'
<1>1. ldd.open /\ Running /\ UNCHANGED << transport, control, thread, bus, host, scsi, fault >>
  BY DEF ServiceInv, Service, NotifierCompletes
<1>2. /\ Bulk(transport, control, thread, ldd) /\ InStep(bus, transport, notifier, ldd)
      /\ bus = "Unconfigured" => Blank(host) /\ Bare(ldd)
      /\ bus # "Unconfigured" => /\ Asked(control, ldd, host)
                                 /\ Exchange(transport, thread, ldd, host, scsi)
      /\ ldd \in Ldd /\ bus \in BusStates /\ notifier \in Notifier
  BY <1>1, OpenExchange
<1>3. /\ ~Ready(notifier) /\ Ready(notifier') /\ notifier'.iDeviceState = Head(ldd.states)
      /\ notifier'.iOldDeviceState = notifier.iOldDeviceState /\ ldd.states # << >>
  BY <1>2 DEF NotifierCompletes, Notifier, Ready, Pending, KErrNone
<1>4. /\ ldd'.states = Tail(ldd.states) /\ ldd'.open = ldd.open /\ ldd'.in = ldd.in
      /\ ldd'.out = ldd.out /\ ldd'.stalled = ldd.stalled /\ ldd'.rx = ldd.rx
      /\ ldd'.ep0 = ldd.ep0 /\ ldd.states \in Seq(Reported)
  BY <1>2 DEF NotifierCompletes, Ldd
<1>5. InStep(bus, transport, notifier', ldd')
  BY <1>2, <1>3, <1>4, TellStaysInStep
<1>6. Bulk(transport, control, thread, ldd')
  BY <1>2, <1>4 DEF Bulk
<1>7. bus = "Unconfigured" => Blank(host) /\ Bare(ldd')
  BY <1>2, <1>4 DEF Bare
<1>8. bus # "Unconfigured" =>
        Asked(control, ldd', host) /\ Exchange(transport, thread, ldd', host, scsi)
  BY <1>2, <1>4, ExchangeSame DEF Asked
<1>9. Agreement(transport, control, notifier', thread, ldd', bus, host, scsi)
  BY <1>1, <1>4, <1>5, <1>6, <1>7, <1>8 DEF Agreement
<1> QED BY <1>1, <1>9 DEF ExchangeInv

\* The command of a host that waits for its answer is read.
LEMMA ReadKeepsExchange ==
  ASSUME NEW t, NEW l, NEW h, NEW s, NEW u, NEW k, Exchange(t, "Free", l, h, s),
         t.active, t.iStatus = Pending, t.iStarted, l.rx # << >>, l.in = NoPacket,
         u.active, u.iStatus = KErrNone, u.iCbwBuf = Head(l.rx),
         u.iCurrentState = t.iCurrentState, u.iWriteSetUp = t.iWriteSetUp,
         k.rx = Tail(l.rx), k.in = l.in, k.stalled = l.stalled, k.ep0 = l.ep0
  PROVE  Exchange(u, "Free", k, h, s)
<1>1. Pending # KErrNone
  BY DEF Pending, KErrNone
<1>2. CASE h.phase = "Reset" /\ l.ep0 # "Answered" /\ h.got = 0
  BY <1>2 DEF Exchange
<1>3. CASE Awaiting(t, "Free", l, h, s)
  <2>1. /\ OfHost(Head(l.rx), Tail(l.rx), h) /\ h.phase \notin {"Reset", "ResetClear"}
        /\ ~t.iWriteSetUp /\ t.iCurrentState = "EWaitForCBW"
    BY <1>1, <1>3 DEF Awaiting, AtRest, OfHost
  <2>2. HasRead(u, "Free", k, h, s)
    BY <1>3, <2>1 DEF Awaiting, HasRead
  <2> QED BY <2>2 DEF Exchange
<1> QED BY <1>1, <1>2, <1>3 DEF Exchange, HasRead, Replies, Pads, CutsShort, Discards, Reports,
                               GivesUp

\* The transport reads a packet.
LEMMA ReadCompletesAgrees ==
  ASSUME Typed, ServiceInv, ExchangeInv, ReadCompletes PROVE ExchangeInv'
<1>1. ldd.open /\ Running /\ UNCHANGED << notifier, control, thread, bus, host, scsi, fault >>
  BY DEF ServiceInv, Service, ReadCompletes
<1>2. /\ Bulk(transport, control, thread, ldd) /\ InStep(bus, transport, notifier, ldd)
      /\ bus = "Unconfigured" => Blank(host) /\ Bare(ldd)
      /\ bus # "Unconfigured" => /\ Asked(control, ldd, host)
                                 /\ Exchange(transport, thread, ldd, host, scsi)
      /\ ldd \in Ldd /\ transport \in Transport
  BY <1>1, OpenExchange
<1>3. transport.active /\ transport.iStatus = Pending /\ ldd.out /\ ldd.rx # << >>
  BY DEF ReadCompletes
<1>4. /\ thread = "Free" /\ transport.iStarted /\ ldd.in = NoPacket /\ bus # "Unconfigured"
  BY <1>2, <1>3 DEF Bulk, Bare
<1>5. /\ transport'.active /\ transport'.iStatus = KErrNone
      /\ transport'.iCbwBuf = Head(ldd.rx) /\ transport'.iStarted
      /\ transport'.iCurrentState = transport.iCurrentState
      /\ transport'.iWriteSetUp = transport.iWriteSetUp
  BY <1>2, <1>3, <1>4 DEF ReadCompletes, Transport
<1>6. /\ ldd'.rx = Tail(ldd.rx) /\ ~ldd'.out /\ ldd'.in = ldd.in /\ ldd'.open = ldd.open
      /\ ldd'.stalled = ldd.stalled /\ ldd'.ep0 = ldd.ep0 /\ ldd'.states = ldd.states
  BY <1>2 DEF ReadCompletes, Ldd
<1>7. Exchange(transport', "Free", ldd', host, scsi)
  BY <1>2, <1>3, <1>4, <1>5, <1>6, ReadKeepsExchange
<1>8. Bulk(transport', control, thread, ldd') /\ Asked(control, ldd', host)
  BY <1>2, <1>4, <1>5, <1>6 DEF Bulk, Asked
<1>9. InStep(bus, transport', notifier, ldd')
  BY <1>2, <1>4, <1>5, <1>6, InStepSame
<1>10. Agreement(transport', control, notifier, thread, ldd', bus, host, scsi)
  BY <1>1, <1>4, <1>6, <1>7, <1>8, <1>9 DEF Agreement
<1> QED BY <1>1, <1>10 DEF ExchangeInv

\* The control interface reads a request, or its reply has been read.
LEMMA Ep0CompletesAgrees ==
  ASSUME Typed, ServiceInv, ExchangeInv, Ep0Completes PROVE ExchangeInv'
<1>1. ldd.open /\ Running /\ UNCHANGED << notifier, transport, thread, bus, host, scsi, fault >>
  BY DEF ServiceInv, Service, Ep0Completes
<1>2. /\ Bulk(transport, control, thread, ldd) /\ InStep(bus, transport, notifier, ldd)
      /\ bus = "Unconfigured" => Blank(host) /\ Bare(ldd)
      /\ bus # "Unconfigured" => /\ Asked(control, ldd, host)
                                 /\ Exchange(transport, thread, ldd, host, scsi)
      /\ ldd \in Ldd /\ control \in Control
  BY <1>1, OpenExchange
<1>3. /\ control'.active = control.active
      /\ control'.iCurrentState = "EReadEp0Data" => ldd'.ep0 = control'.iRequest
      /\ ldd'.ep0 = ldd.ep0 \/ (ldd.ep0 = "GetMaxLun" /\ ldd'.ep0 = "None")
      /\ ldd'.in = ldd.in /\ ldd'.out = ldd.out /\ ldd'.stalled = ldd.stalled
      /\ ldd'.rx = ldd.rx /\ ldd'.states = ldd.states /\ ldd'.open = ldd.open
  <2>1. CASE control.iCurrentState = "EReadEp0Data"
    BY <1>2, <2>1 DEF Ep0Completes, Control, Ldd
  <2>2. CASE control.iCurrentState = "ESendMaxLun"
    BY <1>2, <2>2 DEF Ep0Completes, Control, Ldd
  <2> QED BY <2>1, <2>2 DEF Ep0Completes
<1>4. Bulk(transport, control', thread, ldd') /\ InStep(bus, transport, notifier, ldd')
  BY <1>2, <1>3, InStepSame DEF Bulk
<1>5. bus = "Unconfigured" => Blank(host) /\ Bare(ldd')
  BY <1>2, <1>3 DEF Bare
<1>6. bus # "Unconfigured" =>
        Asked(control', ldd', host) /\ Exchange(transport, thread, ldd', host, scsi)
  BY <1>2, <1>3, ExchangeSame DEF Asked
<1>7. Agreement(transport, control', notifier, thread, ldd', bus, host, scsi)
  BY <1>1, <1>3, <1>4, <1>5, <1>6 DEF Agreement
<1> QED BY <1>1, <1>7 DEF ExchangeInv

-----------------------------------------------------------------------------
\* The host.

\* A step of the host.
LEMMA HostAgrees ==
  ASSUME ExchangeInv, Reachable, UNCHANGED << control, notifier, thread, scsi, bus, fault >>,
         ldd'.open = ldd.open, ldd'.states = ldd.states,
         transport'.iStarted = transport.iStarted,
         Bulk(transport', control, thread, ldd'), Asked(control, ldd', host'),
         Exchange(transport', thread, ldd', host', scsi)
  PROVE  ExchangeInv'
<1>1. InStep(bus, transport, notifier, ldd)
  BY DEF ExchangeInv, Agreement, Reachable
<1>2. InStep(bus, transport', notifier, ldd')
  BY <1>1, InStepSame
<1>3. Agreement(transport', control, notifier, thread, ldd', bus, host', scsi)
  BY <1>2 DEF Agreement, Reachable
<1> QED BY <1>3 DEF ExchangeInv

\* What the host finds.
LEMMA HostFinds ==
  ASSUME Typed, ExchangeInv, Reachable
  PROVE  /\ Bulk(transport, control, thread, ldd) /\ Asked(control, ldd, host)
         /\ Exchange(transport, thread, ldd, host, scsi)
         /\ host \in Host /\ ldd \in Ldd /\ transport \in Transport /\ control \in Control
BY OpenExchange DEF Reachable

\* The requests of the transport are not the host's.
LEMMA BulkSame ==
  ASSUME NEW t, NEW c, NEW th, NEW l, NEW k, Bulk(t, c, th, l), k.in = l.in, k.out = l.out,
         k.open = l.open
  PROVE  Bulk(t, c, th, k)
BY DEF Bulk

\* Between two commands, the device waits.
LEMMA IdleExchange ==
  ASSUME NEW t, NEW th, NEW l, NEW h, NEW s, Exchange(t, th, l, h, s),
         \/ h.phase \in {"Idle", "ResetClear"}
         \/ h.phase = "Reset" /\ l.ep0 = "Answered"
  PROVE  Awaiting(t, th, l, h, s) /\ l.rx = << >> /\ h.got = 0
BY DEF Exchange, Awaiting, OfHost, HasRead, Replies, Offered, Taken, Pads, CutsShort, Discards,
       Reports, GivesUp

\* The host sends a command.
LEMMA HostSendsAgrees ==
  ASSUME Typed, ServiceInv, ExchangeInv, HostSends PROVE ExchangeInv'
<1>1. PICK c \in Cbws :
        LET cbw == [valid |-> c.valid, tag |-> 1 - host.tag, len |-> c.len,
                    toHost |-> c.toHost, cmd |-> c.cmd]
        IN /\ ldd' = [ldd EXCEPT !.rx = Append(@, cbw)]
           /\ host' = [host EXCEPT !.tag = cbw.tag, !.len = c.len,
                         !.corrupt = @ \/ ~c.valid, !.failed = @ /\ c.cmd.op = "RequestSense",
                         !.phase = IF c.len = 0 THEN "Status"
                                   ELSE IF c.toHost THEN "DataIn" ELSE "DataOut"]
  BY DEF HostSends
<1> DEFINE cbw == [valid |-> c.valid, tag |-> 1 - host.tag, len |-> c.len,
                   toHost |-> c.toHost, cmd |-> c.cmd]
<1>2. /\ Reachable /\ host.phase = "Idle" /\ ldd.ep0 = "None"
      /\ UNCHANGED << transport, control, notifier, thread, scsi, bus, fault >>
  BY DEF HostSends, serverVars
<1>3. /\ Bulk(transport, control, thread, ldd) /\ Asked(control, ldd, host)
      /\ Exchange(transport, thread, ldd, host, scsi) /\ host \in Host /\ ldd \in Ldd
  BY <1>2, HostFinds
<1>4. Awaiting(transport, thread, ldd, host, scsi) /\ ldd.rx = << >> /\ host.got = 0
  BY <1>2, <1>3, IdleExchange
<1>5. /\ host'.tag = cbw.tag /\ host'.len = cbw.len /\ host'.got = 0
      /\ host'.corrupt = (host.corrupt \/ ~c.valid)
      /\ host'.failed = (host.failed /\ c.cmd.op = "RequestSense")
      /\ host'.phase = (IF c.len = 0 THEN "Status"
                        ELSE IF c.toHost THEN "DataIn" ELSE "DataOut")
  BY <1>1, <1>3, <1>4 DEF Host
<1>6. /\ cbw.valid = c.valid /\ cbw.len = c.len /\ cbw.toHost = c.toHost /\ cbw.cmd = c.cmd
  OBVIOUS
<1>7. ldd' = [ldd EXCEPT !.rx = Append(ldd.rx, cbw)]
  BY <1>1
<1> HIDE DEF cbw
<1>8. Append(ldd.rx, cbw) = << cbw >>
  BY <1>4
<1>9. /\ ldd'.rx = << cbw >> /\ ldd'.in = ldd.in /\ ldd'.out = ldd.out /\ ldd'.open = ldd.open
      /\ ldd'.stalled = ldd.stalled /\ ldd'.ep0 = ldd.ep0 /\ ldd'.states = ldd.states
  BY <1>3, <1>7, <1>8 DEF Ldd
<1>10. Head(ldd'.rx) = cbw /\ Tail(ldd'.rx) = << >> /\ ldd'.rx # << >>
  BY <1>9
<1>11. OfHost(Head(ldd'.rx), Tail(ldd'.rx), host')
  BY <1>5, <1>6, <1>10 DEF OfHost
<1>12. Awaiting(transport, thread, ldd', host', scsi)
  BY <1>2, <1>4, <1>5, <1>9, <1>10, <1>11 DEF Awaiting, Listening
<1>13. Asked(control, ldd', host') /\ Bulk(transport, control, thread, ldd')
  BY <1>2, <1>3, <1>5, <1>9, BulkSame DEF Asked
<1>14. Exchange(transport, thread, ldd', host', scsi)
  BY <1>12 DEF Exchange
<1> QED BY <1>2, <1>9, <1>13, <1>14, HostAgrees

\* The rest of a sequence.
LEMMA TailElements ==
  ASSUME NEW S, NEW q \in Seq(S), q # << >>
  PROVE  /\ Tail(q) \in Seq(S) /\ Len(Tail(q)) = Len(q) - 1
         /\ \A i \in 1..Len(Tail(q)) : Tail(q)[i] = q[i + 1]
OBVIOUS

\* A packet after the command.
LEMMA DataAfterCommand ==
  ASSUME NEW q \in Seq(Cbw), NEW x \in Cbw, q # << >>, Tail(q) = << >>
  PROVE  Head(Append(q, x)) = Head(q) /\ Tail(Append(q, x)) = << x >> /\ Append(q, x) # << >>
<1>1. Len(Tail(q)) = Len(q) - 1 /\ Len(q) \in Nat
  OBVIOUS
<1>2. Len(Tail(q)) = 0
  <2>1. Len(<< >>) = 0
    OBVIOUS
  <2> QED BY <2>1, Zenon
<1>3. Len(q) = 1
  BY <1>1, <1>2
<1> DEFINE a == Append(q, x)
           r == Tail(a)
<1>4. a \in Seq(Cbw) /\ Len(a) = 2 /\ a[2] = x /\ Head(a) = Head(q) /\ a # << >>
  BY <1>3
<1> HIDE DEF a
<1>5. /\ r \in Seq(Cbw) /\ Len(r) = Len(a) - 1
      /\ \A i \in 1..Len(r) : r[i] = a[i + 1]
  BY <1>4, TailElements
<1>6. r = << x >>
  <2> HIDE DEF r
  <2>1. Len(r) = 1 /\ r[1] = a[1 + 1]
    BY <1>4, <1>5
  <2>2. r[1] = x
    BY <1>4, <2>1
  <2> QED BY <1>5, <2>1, <2>2
<1> QED BY <1>4, <1>6 DEF a

\* It sends the data of its command.
LEMMA HostSendsDataAgrees ==
  ASSUME Typed, ServiceInv, ExchangeInv, HostSendsData PROVE ExchangeInv'
<1>1. /\ Reachable /\ host.phase = "DataOut"
      /\ UNCHANGED << transport, control, notifier, thread, scsi, bus, fault >>
  BY DEF HostSendsData, serverVars
<1>2. /\ Bulk(transport, control, thread, ldd) /\ Asked(control, ldd, host)
      /\ Exchange(transport, thread, ldd, host, scsi) /\ host \in Host /\ ldd \in Ldd
  BY <1>1, HostFinds
<1>3. /\ host'.phase = "Status" /\ host'.tag = host.tag /\ host'.len = host.len
      /\ host'.got = host.got /\ host'.failed = host.failed /\ host'.corrupt = host.corrupt
  BY <1>2 DEF HostSendsData, Host
<1>4. /\ ldd'.rx = Append(ldd.rx, OutData) /\ ldd'.in = ldd.in /\ ldd'.out = ldd.out
      /\ ldd'.open = ldd.open /\ ldd'.stalled = ldd.stalled /\ ldd'.ep0 = ldd.ep0
      /\ ldd'.states = ldd.states /\ ldd.rx \in Seq(Cbw) /\ OutData \in Cbw
  BY <1>2, ConstantTypes DEF HostSendsData, Ldd
<1>5. ldd.rx = << >> => ldd'.rx = << OutData >>
  BY <1>4
<1>6. SUFFICES Exchange(transport, thread, ldd', host', scsi)
  <2>1. Asked(control, ldd', host') /\ Bulk(transport, control, thread, ldd')
    BY <1>1, <1>2, <1>3, <1>4, BulkSame DEF Asked
  <2> QED BY <1>1, <1>4, <2>1, HostAgrees
<1>7. CASE Awaiting(transport, thread, ldd, host, scsi)
  <2>1. ldd.rx # << >> /\ OfHost(Head(ldd.rx), Tail(ldd.rx), host)
    BY <1>1, <1>7 DEF Awaiting
  <2>2. Tail(ldd.rx) = << >>
    BY <1>1, <2>1 DEF OfHost
  <2>3. Head(ldd'.rx) = Head(ldd.rx) /\ Tail(ldd'.rx) = << OutData >> /\ ldd'.rx # << >>
    BY <1>4, <2>1, <2>2, DataAfterCommand
  <2>4. OfHost(Head(ldd'.rx), Tail(ldd'.rx), host')
    BY <1>1, <1>3, <2>1, <2>3 DEF OfHost
  <2>5. Awaiting(transport, thread, ldd', host', scsi)
    BY <1>1, <1>3, <1>4, <1>7, <2>3, <2>4 DEF Awaiting, Listening
  <2> QED BY <2>5 DEF Exchange
<1>8. CASE HasRead(transport, thread, ldd, host, scsi)
  <2>1. HasRead(transport, thread, ldd', host', scsi)
    BY <1>1, <1>3, <1>4, <1>5, <1>8 DEF HasRead, OfHost
  <2> QED BY <2>1 DEF Exchange
<1>9. CASE Discards(transport, thread, ldd, host, scsi)
  <2>1. Discards(transport, thread, ldd', host', scsi)
    BY <1>1, <1>3, <1>4, <1>5, <1>9 DEF Discards, Known
  <2> QED BY <2>1 DEF Exchange
<1>10. CASE GivesUp(transport, thread, ldd, host)
  <2>1. GivesUp(transport, thread, ldd', host')
    BY <1>3, <1>4, <1>10 DEF GivesUp
  <2> QED BY <2>1 DEF Exchange
<1> QED BY <1>1, <1>2, <1>7, <1>8, <1>9, <1>10
        DEF Exchange, Replies, Offered, Taken, Pads, CutsShort, Reports

\* The host has the data of its command: what it has read and the residue are the length.
LEMMA DataIsTaken ==
  ASSUME NEW t, NEW l, NEW h, NEW k, Offered(t, l, h), k.phase = "Status", k.len = h.len,
         k.got = (IF l.in.fresh THEN l.in.real ELSE 0),
         k.failed = (h.failed /\ l.in.reports = "Data")
  PROVE  Taken(t, k)
<1>1. ~k.failed
  BY DEF Offered, Senses
<1>2. t.iCmdStatus # "EPhaseError" => k.got + t.iDataResidue = k.len
  BY DEF Offered, Sum
<1> QED BY <1>1, <1>2 DEF Taken

\* It reads data.
LEMMA HostReadsDataAgrees ==
  ASSUME Typed, ServiceInv, ExchangeInv, HostReadsData PROVE ExchangeInv'
<1>1. /\ Reachable /\ ~ldd.stalled /\ host.phase = "DataIn" /\ ldd.in.kind = "Data"
      /\ transport' = WriteDone
      /\ UNCHANGED << control, notifier, thread, scsi, bus, fault >>
  BY DEF HostReadsData
<1>2. /\ Bulk(transport, control, thread, ldd) /\ Asked(control, ldd, host)
      /\ Exchange(transport, thread, ldd, host, scsi) /\ host \in Host /\ ldd \in Ldd
      /\ transport \in Transport
  BY <1>1, HostFinds
<1>3. /\ host'.phase = "Status" /\ host'.tag = host.tag /\ host'.len = host.len
      /\ host'.got = (IF ldd.in.fresh THEN ldd.in.real ELSE 0)
      /\ host'.failed = (host.failed /\ ldd.in.reports = "Data")
  BY <1>2 DEF HostReadsData, Host
<1>4. /\ ldd'.in = NoPacket /\ ldd'.rx = ldd.rx /\ ldd'.out = ldd.out
      /\ ldd'.open = ldd.open /\ ldd'.stalled = ldd.stalled /\ ldd'.ep0 = ldd.ep0
      /\ ldd'.states = ldd.states
  BY <1>2 DEF HostReadsData, Ldd
<1>5. /\ thread = "Padding" => transport' = transport
      /\ thread # "Padding" => transport'.iStatus = KErrNone
      /\ transport'.active = transport.active /\ transport'.iStarted = transport.iStarted
      /\ transport'.iCurrentState = transport.iCurrentState
      /\ transport'.iCbwTag = transport.iCbwTag
      /\ transport'.iCmdStatus = transport.iCmdStatus
      /\ transport'.iDataResidue = transport.iDataResidue
      /\ transport'.iWriteSetUp = transport.iWriteSetUp
  BY <1>1, <1>2 DEF WriteDone, Transport
<1>6. ldd.in # NoPacket
  BY <1>1 DEF NoPacket
<1>7. Taken(transport, host') => Taken(transport', host')
  BY <1>5 DEF Taken
<1>8. Known(transport, host, scsi) => Known(transport', host', scsi)
  BY <1>3, <1>5 DEF Known
<1>9. SUFFICES Exchange(transport', thread, ldd', host', scsi)
  <2>1. Asked(control, ldd', host')
    BY <1>1, <1>2, <1>3, <1>4 DEF Asked
  <2>2. Bulk(transport', control, thread, ldd')
    BY <1>2, <1>4, <1>5, <1>6 DEF Bulk
  <2> QED BY <1>1, <1>4, <1>5, <2>1, <2>2, HostAgrees
<1>10. CASE Replies(transport, thread, ldd, host, scsi)
  <2>1. Offered(transport, ldd, host)
    BY <1>6, <1>10 DEF Replies
  <2>2. Taken(transport', host')
    BY <1>3, <1>7, <2>1, DataIsTaken
  <2>3. Replies(transport', thread, ldd', host', scsi)
    BY <1>4, <1>5, <1>8, <1>10, <2>2 DEF Replies
  <2> QED BY <2>3 DEF Exchange
<1>11. CASE Pads(transport, thread, ldd, host, scsi)
  <2>1. Offered(transport, ldd, host)
    BY <1>6, <1>11 DEF Pads
  <2>2. Taken(transport', host')
    BY <1>3, <1>7, <2>1, DataIsTaken
  <2>3. Pads(transport', thread, ldd', host', scsi)
    BY <1>3, <1>4, <1>5, <1>8, <1>11, <2>2 DEF Pads
  <2> QED BY <2>3 DEF Exchange
<1> QED BY <1>1, <1>2, <1>6, <1>10, <1>11
        DEF Exchange, Awaiting, HasRead, CutsShort, Discards, Reports, GivesUp

\* A host that starts a recovery.
LEMMA ResetAgrees ==
  ASSUME Typed, ExchangeInv, Reachable, host.phase \notin {"Idle", "Reset"},
         UNCHANGED << control, notifier, thread, scsi, bus, fault >>,
         ldd'.open = ldd.open, ldd'.states = ldd.states, ldd'.ep0 = "Reset",
         transport'.iStarted = transport.iStarted,
         Bulk(transport', control, thread, ldd'), host'.phase = "Reset", host'.got = 0
  PROVE  ExchangeInv'
<1>1. ldd.ep0 = "None" /\ Asked(control, ldd, host) /\ control \in Control
  BY HostFinds DEF Asked
<1>2. Asked(control, ldd', host')
  BY <1>1 DEF Asked, Control, Requests
<1>3. Exchange(transport', thread, ldd', host', scsi)
  BY DEF Exchange
<1> QED BY <1>2, <1>3, HostAgrees

\* It reads the status.
LEMMA HostReadsStatusAgrees ==
  ASSUME Typed, ServiceInv, ExchangeInv, HostReadsStatus PROVE ExchangeInv'
<1>1. /\ Reachable /\ ~ldd.stalled /\ host.phase = "Status" /\ ldd.in.kind = "CSW"
      /\ transport' = WriteDone
      /\ UNCHANGED << control, notifier, thread, scsi, bus, fault >>
  BY DEF HostReadsStatus
<1>2. /\ Bulk(transport, control, thread, ldd) /\ Asked(control, ldd, host)
      /\ Exchange(transport, thread, ldd, host, scsi) /\ host \in Host /\ ldd \in Ldd
      /\ transport \in Transport
  BY <1>1, HostFinds
<1> DEFINE wrong == ldd.in.status = "EPhaseError"
           i == HostIdle(host)
<1>3. i \in Host /\ i.got = 0 /\ i.failed = host.failed
  BY <1>2, HostIdleEffect, HostGone
<1>4. host' = [i EXCEPT !.phase = IF wrong THEN "Reset" ELSE "Idle",
                        !.failed = @ \/ ldd.in.status = "ECommandFailed"]
  BY DEF HostReadsStatus
<1> HIDE DEF i
<1>5. /\ host'.phase = (IF wrong THEN "Reset" ELSE "Idle") /\ host'.got = 0
      /\ host'.failed = (host.failed \/ ldd.in.status = "ECommandFailed")
  BY <1>3, <1>4 DEF Host
<1>6. /\ ldd'.in = NoPacket /\ ldd'.rx = ldd.rx /\ ldd'.out = ldd.out
      /\ ldd'.open = ldd.open /\ ldd'.stalled = ldd.stalled
      /\ ldd'.ep0 = (IF wrong THEN "Reset" ELSE ldd.ep0)
      /\ ldd'.states = ldd.states
  BY <1>2 DEF HostReadsStatus, Ldd
<1>7. ldd.in # NoPacket
  BY <1>1 DEF NoPacket
<1>8. Reports(transport, thread, ldd, host, scsi)
  BY <1>1, <1>2, <1>7 DEF Exchange, Awaiting, HasRead, CutsShort, Discards, GivesUp, Replies,
                          Pads, Offered
<1>9. /\ transport'.iStatus = KErrNone
      /\ transport'.active = transport.active /\ transport'.iStarted = transport.iStarted
      /\ transport'.iCurrentState = transport.iCurrentState
      /\ transport'.iWriteSetUp = transport.iWriteSetUp
  BY <1>1, <1>2, <1>8 DEF WriteDone, Transport, Reports
<1>10. Bulk(transport', control, thread, ldd')
  BY <1>2, <1>6, <1>7, <1>9 DEF Bulk
<1>11. CASE wrong
  BY <1>1, <1>5, <1>6, <1>9, <1>10, <1>11, ResetAgrees
<1>12. CASE ~wrong
  <2>1. Asked(control, ldd', host')
    BY <1>1, <1>2, <1>5, <1>6, <1>12 DEF Asked
  <2>2. Awaiting(transport', thread, ldd', host', scsi)
    BY <1>1, <1>5, <1>6, <1>8, <1>9, <1>12
       DEF Awaiting, AtRest, Listening, Reports, Pending, KErrNone
  <2>3. Exchange(transport', thread, ldd', host', scsi)
    BY <2>2 DEF Exchange
  <2> QED BY <1>1, <1>6, <1>9, <1>10, <2>1, <2>3, HostAgrees
<1> QED BY <1>11, <1>12

\* It finds the endpoint halted.
LEMMA HostSeesStallAgrees ==
  ASSUME Typed, ServiceInv, ExchangeInv, HostSeesStall PROVE ExchangeInv'
<1>1. /\ Reachable /\ ldd.stalled /\ host.phase \in {"DataIn", "Status"}
      /\ UNCHANGED << transport, control, notifier, thread, scsi, bus, fault >>
  BY DEF HostSeesStall, serverVars
<1>2. /\ Bulk(transport, control, thread, ldd) /\ Asked(control, ldd, host)
      /\ Exchange(transport, thread, ldd, host, scsi) /\ host \in Host /\ ldd \in Ldd
  BY <1>1, HostFinds
<1>3. /\ ldd'.in = ldd.in /\ ldd'.rx = ldd.rx /\ ldd'.out = ldd.out
      /\ ldd'.open = ldd.open /\ ldd'.stalled = ldd.stalled
      /\ ldd'.ep0 = (IF host'.phase = "Reset" THEN "Reset" ELSE ldd.ep0)
      /\ ldd'.states = ldd.states
  BY <1>2 DEF HostSeesStall, Ldd
<1>4. Bulk(transport, control, thread, ldd')
  BY <1>2, <1>3, BulkSame
<1>5. CASE host.phase = "Status" /\ host.stalls = 1
  <2> DEFINE i == HostIdle(host)
  <2>1. i \in Host /\ i.got = 0
    BY <1>2, HostIdleEffect, HostGone
  <2>2. host' = [i EXCEPT !.stalls = 1 - @, !.phase = "Reset"]
    BY <1>5 DEF HostSeesStall
  <2> HIDE DEF i
  <2>3. host'.phase = "Reset" /\ host'.got = 0
    BY <2>1, <2>2 DEF Host
  <2> QED BY <1>1, <1>3, <1>4, <2>3, ResetAgrees
<1>6. CASE ~(host.phase = "Status" /\ host.stalls = 1)
  <2>1. host' = [host EXCEPT !.stalls = 1 - @, !.phase = "ClearIn"]
    BY <1>6 DEF HostSeesStall
  <2>2. /\ host'.phase = "ClearIn" /\ host'.tag = host.tag /\ host'.len = host.len
        /\ host'.got = host.got /\ host'.failed = host.failed
        /\ host'.corrupt = host.corrupt
    BY <1>2, <2>1 DEF Host
  <2>3. \/ CutsShort(transport, thread, ldd, host, scsi)
        \/ Reports(transport, thread, ldd, host, scsi)
        \/ GivesUp(transport, thread, ldd, host)
    BY <1>1, <1>2 DEF Exchange, Awaiting, HasRead, Replies, Pads, Discards
  <2>4. \/ CutsShort(transport, thread, ldd', host', scsi)
        \/ Reports(transport, thread, ldd', host', scsi)
        \/ GivesUp(transport, thread, ldd', host')
    BY <1>3, <2>2, <2>3 DEF CutsShort, Reports, GivesUp, Known, Taken
  <2>5. Exchange(transport, thread, ldd', host', scsi)
    BY <2>4 DEF Exchange
  <2>6. Asked(control, ldd', host')
    BY <1>1, <1>2, <1>3, <2>2 DEF Asked
  <2> QED BY <1>1, <1>3, <1>4, <2>5, <2>6, HostAgrees
<1> QED BY <1>5, <1>6

\* It clears the endpoint.
LEMMA HostClearsAgrees ==
  ASSUME Typed, ServiceInv, ExchangeInv, HostClears PROVE ExchangeInv'
<1>1. /\ Reachable /\ host.phase \in {"ClearIn", "ResetClear"}
      /\ UNCHANGED << transport, control, notifier, thread, scsi, bus, fault >>
  BY DEF HostClears, serverVars
<1>2. /\ Bulk(transport, control, thread, ldd) /\ Asked(control, ldd, host)
      /\ Exchange(transport, thread, ldd, host, scsi) /\ host \in Host /\ ldd \in Ldd
  BY <1>1, HostFinds
<1>3. /\ ldd'.in = ldd.in /\ ldd'.rx = ldd.rx /\ ldd'.out = ldd.out
      /\ ldd'.open = ldd.open /\ ~ldd'.stalled /\ ldd'.ep0 = ldd.ep0
      /\ ldd'.states = ldd.states
  BY <1>2 DEF HostClears, Ldd
<1>4. /\ host'.phase = (IF host.phase = "ClearIn" THEN "Status" ELSE "Idle")
      /\ host'.tag = host.tag /\ host'.len = host.len
      /\ host'.got = host.got /\ host'.failed = host.failed
      /\ host'.corrupt = host.corrupt
  BY <1>2 DEF HostClears, Host
<1>5. SUFFICES Exchange(transport, thread, ldd', host', scsi)
  <2>1. Asked(control, ldd', host') /\ Bulk(transport, control, thread, ldd')
    BY <1>1, <1>2, <1>3, <1>4, BulkSame DEF Asked
  <2> QED BY <1>1, <1>3, <2>1, HostAgrees
<1>6. CASE host.phase = "ResetClear"
  <2>1. Awaiting(transport, thread, ldd, host, scsi) /\ ldd.rx = << >> /\ host.got = 0
    BY <1>2, <1>6, IdleExchange
  <2>2. Awaiting(transport, thread, ldd', host', scsi)
    BY <1>3, <1>4, <1>6, <2>1 DEF Awaiting, Listening
  <2> QED BY <2>2 DEF Exchange
<1>7. CASE host.phase = "ClearIn"
  <2>1. \/ Replies(transport, thread, ldd, host, scsi)
        \/ Pads(transport, thread, ldd, host, scsi)
        \/ CutsShort(transport, thread, ldd, host, scsi)
        \/ Reports(transport, thread, ldd, host, scsi)
        \/ GivesUp(transport, thread, ldd, host)
    BY <1>2, <1>7 DEF Exchange, Awaiting, OfHost, HasRead, Discards
  <2>2. \/ Replies(transport, thread, ldd', host', scsi)
        \/ Pads(transport, thread, ldd', host', scsi)
        \/ CutsShort(transport, thread, ldd', host', scsi)
        \/ Reports(transport, thread, ldd', host', scsi)
        \/ GivesUp(transport, thread, ldd', host')
    BY <1>3, <1>4, <1>7, <2>1 DEF Replies, Pads, CutsShort, Reports, GivesUp, Known, Taken,
                                  Offered
  <2> QED BY <2>2 DEF Exchange
<1> QED BY <1>1, <1>6, <1>7

\* It gives a command up.
LEMMA HostResetsAgrees ==
  ASSUME Typed, ServiceInv, ExchangeInv, HostResets PROVE ExchangeInv'
<1>1. /\ Reachable /\ host.phase \in {"DataIn", "DataOut", "Status"}
      /\ UNCHANGED << transport, control, notifier, thread, scsi, bus, fault >>
  BY DEF HostResets, serverVars
<1>2. /\ Bulk(transport, control, thread, ldd) /\ host \in Host /\ ldd \in Ldd
  BY <1>1, HostFinds
<1>3. /\ ldd'.in = ldd.in /\ ldd'.out = ldd.out /\ ldd'.open = ldd.open
      /\ ldd'.ep0 = "Reset" /\ ldd'.states = ldd.states
  BY <1>2 DEF HostResets, Ldd
<1> DEFINE i == HostIdle(host)
<1>4. i \in Host /\ i.got = 0
  BY <1>2, HostIdleEffect, HostGone
<1>5. host' = [i EXCEPT !.phase = "Reset"]
  BY DEF HostResets
<1> HIDE DEF i
<1>6. host'.phase = "Reset" /\ host'.got = 0
  BY <1>4, <1>5 DEF Host
<1>7. Bulk(transport, control, thread, ldd')
  BY <1>2, <1>3, BulkSame
<1> QED BY <1>1, <1>3, <1>6, <1>7, ResetAgrees

\* Its reset is answered.
LEMMA HostResetAnsweredAgrees ==
  ASSUME Typed, ServiceInv, ExchangeInv, HostResetAnswered PROVE ExchangeInv'
<1>1. /\ Reachable /\ host.phase = "Reset" /\ ldd.ep0 = "Answered"
      /\ UNCHANGED << transport, control, notifier, thread, scsi, bus, fault >>
  BY DEF HostResetAnswered, serverVars
<1>2. /\ Bulk(transport, control, thread, ldd) /\ Asked(control, ldd, host)
      /\ Exchange(transport, thread, ldd, host, scsi) /\ host \in Host /\ ldd \in Ldd
      /\ control \in Control
  BY <1>1, HostFinds
<1>3. /\ ldd'.in = ldd.in /\ ldd'.rx = ldd.rx /\ ldd'.out = ldd.out
      /\ ldd'.open = ldd.open /\ ldd'.stalled = ldd.stalled /\ ldd'.ep0 = "None"
      /\ ldd'.states = ldd.states
  BY <1>2 DEF HostResetAnswered, Ldd
<1>4. host'.phase = "ResetClear" /\ host'.got = host.got /\ ~host'.failed
  BY <1>2 DEF HostResetAnswered, Host
<1>5. Awaiting(transport, thread, ldd, host, scsi) /\ ldd.rx = << >> /\ host.got = 0
  BY <1>1, <1>2, IdleExchange
<1>6. Awaiting(transport, thread, ldd', host', scsi)
  BY <1>3, <1>4, <1>5 DEF Awaiting, Listening
<1>7. Exchange(transport, thread, ldd', host', scsi)
  BY <1>6 DEF Exchange
<1>8. Asked(control, ldd', host') /\ Bulk(transport, control, thread, ldd')
  BY <1>1, <1>2, <1>3, <1>4, BulkSame DEF Asked, Control, Requests
<1> QED BY <1>1, <1>3, <1>7, <1>8, HostAgrees

\* It asks something else on endpoint 0.
LEMMA HostAsksAgrees ==
  ASSUME Typed, ServiceInv, ExchangeInv, HostAsks PROVE ExchangeInv'
<1>1. /\ Reachable /\ host.phase = "Idle"
      /\ ldd.ep0 \in {"None", "Ignored"} \/ ~control.active
      /\ UNCHANGED << transport, control, notifier, thread, scsi, bus, fault, host >>
  BY DEF HostAsks, serverVars
<1>2. /\ Bulk(transport, control, thread, ldd) /\ Asked(control, ldd, host)
      /\ Exchange(transport, thread, ldd, host, scsi) /\ host \in Host /\ ldd \in Ldd
      /\ control \in Control
  BY <1>1, HostFinds
<1>3. \E r \in Ep0Requests \cup {"None"} : ldd' = [ldd EXCEPT !.ep0 = r]
  BY DEF HostAsks
<1>4. /\ ldd'.in = ldd.in /\ ldd'.rx = ldd.rx /\ ldd'.out = ldd.out
      /\ ldd'.open = ldd.open /\ ldd'.stalled = ldd.stalled
      /\ ldd'.ep0 \in Ep0Requests \cup {"None"} /\ ldd'.states = ldd.states
  BY <1>2, <1>3 DEF Ldd
<1>5. ldd'.ep0 \notin {"Reset", "Answered"}
  BY <1>4, MscAssumption DEF Requests
<1>6. Asked(control, ldd', host) /\ Bulk(transport, control, thread, ldd')
  BY <1>1, <1>2, <1>4, <1>5, BulkSame DEF Asked, Control, Requests
<1>7. Exchange(transport, thread, ldd', host, scsi)
  BY <1>1, <1>2, <1>4, ExchangeSame
<1> QED BY <1>1, <1>4, <1>6, <1>7, HostAgrees

\* It chooses the setting again: nothing that the server looks at.
LEMMA AlternateSettingAgrees ==
  ASSUME Typed, ServiceInv, ExchangeInv, AlternateSetting PROVE ExchangeInv'
<1>1. /\ Reachable
      /\ UNCHANGED << transport, control, notifier, thread, scsi, bus, fault, host >>
  BY DEF AlternateSetting, serverVars
<1>2. /\ Bulk(transport, control, thread, ldd) /\ InStep(bus, transport, notifier, ldd)
      /\ Asked(control, ldd, host) /\ Exchange(transport, thread, ldd, host, scsi)
      /\ ldd \in Ldd /\ bus = "Configured"
  BY <1>1, OpenExchange DEF Reachable
<1> DEFINE s == ldd.states
           q == Append(s, "AlternateSetting")
<1>3. /\ ldd'.in = ldd.in /\ ldd'.rx = ldd.rx /\ ldd'.out = ldd.out
      /\ ldd'.open = ldd.open /\ ldd'.stalled = ldd.stalled
      /\ ldd'.ep0 = ldd.ep0 /\ ldd'.states = q /\ s \in Seq(Reported)
  BY <1>2 DEF AlternateSetting, Ldd
<1>4. Alternates(s) => Alternates(q)
  <2> HIDE DEF s
  <2> QED BY <1>3 DEF Alternates
<1>5. NothingNew(notifier, s) => NothingNew(notifier, q)
  BY <1>4 DEF NothingNew
<1>6. ComesFirst(notifier, s, "Configured") => ComesFirst(notifier, q, "Configured")
  <2>1. SUFFICES ASSUME ComesFirst(notifier, s, "Configured"), ~Ready(notifier)
                 PROVE  ComesFirst(notifier, q, "Configured")
    BY <1>4 DEF ComesFirst
  <2>2. s # << >> /\ Head(s) = "Configured" /\ Alternates(Tail(s))
    BY <2>1 DEF ComesFirst
  <2>3. /\ q \in Seq(Reported \cup {"AlternateSetting"}) /\ q # << >> /\ Head(q) = Head(s)
        /\ Len(q) = Len(s) + 1 /\ Len(s) \in Nat
        /\ \A i \in 1..Len(s) : q[i] = s[i]
        /\ q[Len(s) + 1] = "AlternateSetting"
    <3> HIDE DEF s
    <3> QED BY <1>3, <2>2
  <2> HIDE DEF q
  <2>4. /\ Len(Tail(q)) = Len(q) - 1
        /\ \A i \in 1..Len(Tail(q)) : Tail(q)[i] = q[i + 1]
    BY <2>3, TailElements
  <2>5. /\ Len(Tail(s)) = Len(s) - 1
        /\ \A i \in 1..Len(Tail(s)) : Tail(s)[i] = s[i + 1]
    BY <1>3, <2>2, TailElements
  <2>6. Alternates(Tail(q))
    <3>1. SUFFICES ASSUME NEW i \in 1..Len(Tail(q)) PROVE Tail(q)[i] = "AlternateSetting"
      BY DEF Alternates
    <3>2. Tail(q)[i] = q[i + 1] /\ i \in 1..Len(s)
      BY <2>3, <2>4
    <3>3. CASE i = Len(s)
      BY <2>3, <3>2, <3>3
    <3>4. CASE i # Len(s)
      <4>1. i + 1 \in 1..Len(s) /\ i \in 1..Len(Tail(s))
        BY <2>3, <2>5, <3>2, <3>4
      <4>2. q[i + 1] = Tail(s)[i]
        BY <2>3, <2>5, <4>1
      <4> QED BY <2>2, <3>2, <4>1, <4>2 DEF Alternates
    <3> QED BY <3>3, <3>4
  <2> QED BY <2>1, <2>2, <2>3, <2>6 DEF ComesFirst
<1> HIDE DEF s, q
<1>7. InStep(bus, transport, notifier, ldd')
  BY <1>2, <1>3, <1>5, <1>6 DEF InStep, s
<1>8. Exchange(transport, thread, ldd', host, scsi)
  BY <1>2, <1>3, ExchangeSame
<1>9. Bulk(transport, control, thread, ldd') /\ Asked(control, ldd', host)
  BY <1>2, <1>3, BulkSame DEF Asked
<1>10. Agreement(transport, control, notifier, thread, ldd', bus, host, scsi)
  BY <1>2, <1>7, <1>8, <1>9, <1>3, <1>1 DEF Agreement, Reachable
<1> QED BY <1>1, <1>10 DEF ExchangeInv

-----------------------------------------------------------------------------
\* The bus.

\* A server that has done what it can is told of the change alone.
LEMMA BusStaysInStep ==
  ASSUME NEW b \in BusStates, NEW st \in BusNext(b), st # "Unconfigured", NEW t, NEW n,
         NEW l, NEW k, InStep(b, t, n, l), ~Ready(n), l.states = << >>, k.states = << st >>
  PROVE  InStep(st, t, n, k) /\ (b = "Unconfigured" => ~t.iStarted)
<1>1. ComesFirst(n, k.states, st)
  BY DEF ComesFirst, Alternates
<1>2. CASE b = "Unconfigured"
  BY <1>1, <1>2 DEF InStep, EndsWith, BusNext
<1>3. CASE b = "Suspended"
  BY <1>1, <1>3 DEF InStep, ComesFirst, BusNext
<1>4. CASE b = "Configured"
  BY <1>1, <1>4 DEF InStep, ComesFirst, BusNext
<1> QED BY <1>2, <1>3, <1>4 DEF BusStates

\* The device is lost.
LEMMA BusIsLostAgrees ==
  ASSUME Typed, ServiceInv, ExchangeInv, BusGoesTo("Unconfigured") PROVE ExchangeInv'
<1> DEFINE q == Told("Unconfigured")
<1>1. /\ bus' = "Unconfigured" /\ transport' = Fails(transport) /\ control' = Fails(control)
      /\ ldd' = [ldd EXCEPT !.in = NoPacket, !.out = FALSE, !.stalled = FALSE, !.rx = << >>,
                            !.ep0 = "None", !.states = q]
      /\ host' = [HostIdle(host) EXCEPT !.failed = FALSE, !.corrupt = FALSE]
      /\ UNCHANGED << notifier, scsi, thread, fault >> /\ Running
  BY DEF BusGoesTo
<1>2. /\ Agreement(transport, control, notifier, thread, ldd, bus, host, scsi)
      /\ ldd \in Ldd /\ host \in Host /\ transport \in Transport
  BY <1>1 DEF ExchangeInv, Typed
<1>3. q = IF ldd.open THEN Append(ldd.states, "Unconfigured") ELSE << >>
  BY DEF Told
<1> HIDE DEF q
<1>4. ldd'.open = ldd.open /\ ldd'.states = q /\ Bare(ldd')
  BY <1>1, <1>2 DEF Ldd, Bare
<1>5. Blank(host')
  BY <1>1, <1>2, HostGone
<1>6. /\ transport'.active = transport.active /\ transport'.iStarted = transport.iStarted
      /\ control'.active = control.active
  BY <1>1, <1>2, FailsEffect DEF Fails, Transport
<1>7. Bulk(transport', control', thread, ldd')
  BY <1>2, <1>4, <1>6 DEF Agreement, Bulk, Bare
<1>8. ldd.open => InStep("Unconfigured", transport', notifier, ldd')
  <2>1. ldd.states \in Seq(Reported)
    BY <1>2 DEF Ldd
  <2>2. SUFFICES ASSUME ldd.open PROVE EndsWith(notifier, q, "Unconfigured")
    BY <1>4 DEF InStep
  <2>3. q = Append(ldd.states, "Unconfigured")
    BY <1>3, <2>2
  <2>4. q # << >> /\ q[Len(q)] = "Unconfigured"
    BY <2>1, <2>3
  <2> QED BY <2>4 DEF EndsWith
<1>9. Agreement(transport', control', notifier, thread, ldd', "Unconfigured", host', scsi)
  BY <1>2, <1>4, <1>5, <1>7, <1>8 DEF Agreement
<1> QED BY <1>1, <1>9 DEF ExchangeInv

\* The device is configured, suspended or resumed.
LEMMA BusGoesOnAgrees ==
  ASSUME Typed, ServiceInv, ExchangeInv, NEW st \in BusStates, st # "Unconfigured",
         BusGoesTo(st)
  PROVE  ExchangeInv'
<1>1. /\ bus' = st /\ st \in BusNext(bus) /\ Served /\ Running
      /\ ldd' = [ldd EXCEPT !.states = Told(st)]
      /\ UNCHANGED << transport, control, host, notifier, scsi, thread, fault >>
  BY DEF BusGoesTo
<1>2. /\ Agreement(transport, control, notifier, thread, ldd, bus, host, scsi)
      /\ ldd \in Ldd /\ bus \in BusStates
  BY <1>1 DEF ExchangeInv, Typed
<1>3. ldd.states = << >> /\ ~Ready(notifier) /\ thread = "Free"
  BY <1>1 DEF Served
<1>4. ldd.open => Told(st) = << st >>
  BY <1>3 DEF Told
<1>5. /\ ldd'.in = ldd.in /\ ldd'.rx = ldd.rx /\ ldd'.out = ldd.out
      /\ ldd'.open = ldd.open /\ ldd'.stalled = ldd.stalled
      /\ ldd'.ep0 = ldd.ep0 /\ ldd'.states = Told(st)
  BY <1>1, <1>2 DEF Ldd
<1>6. Bulk(transport, control, thread, ldd')
  BY <1>2, <1>5, BulkSame DEF Agreement
<1>7. CASE ~ldd.open
  <2>1. Agreement(transport, control, notifier, thread, ldd', st, host, scsi)
    BY <1>2, <1>5, <1>6, <1>7 DEF Agreement
  <2> QED BY <1>1, <2>1 DEF ExchangeInv
<1>8. CASE ldd.open
  <2>1. InStep(bus, transport, notifier, ldd)
    BY <1>2, <1>8 DEF Agreement
  <2>2. InStep(st, transport, notifier, ldd')
        /\ (bus = "Unconfigured" => ~transport.iStarted)
    BY <1>1, <1>2, <1>3, <1>4, <1>5, <1>8, <2>1, BusStaysInStep
  <2>3. Asked(control, ldd', host) /\ Exchange(transport, thread, ldd', host, scsi)
    <3>1. CASE bus # "Unconfigured"
      BY <1>2, <1>5, <1>8, <3>1, ExchangeSame DEF Agreement, Asked
    <3>2. CASE bus = "Unconfigured"
      <4>1. Blank(host) /\ Bare(ldd) /\ ~transport.active /\ ~control.active
        BY <1>2, <1>8, <2>2, <3>2 DEF Agreement, Bulk
      <4>2. Awaiting(transport, thread, ldd', host, scsi)
        BY <1>3, <1>5, <2>2, <3>2, <4>1 DEF Awaiting, AtRest, Listening, Blank, Bare
      <4> QED BY <1>5, <4>1, <4>2 DEF Asked, Exchange, Blank, Bare
    <3> QED BY <3>1, <3>2
  <2>4. Agreement(transport, control, notifier, thread, ldd', st, host, scsi)
    BY <1>5, <1>6, <1>8, <2>2, <2>3 DEF Agreement
  <2> QED BY <1>1, <2>4 DEF ExchangeInv
<1> QED BY <1>7, <1>8

-----------------------------------------------------------------------------

\* Initially there is no exchange.
LEMMA InitExchange == Init => ExchangeInv
<1> SUFFICES ASSUME Init PROVE ExchangeInv
  OBVIOUS
<1>1. /\ ~transport.active /\ ~transport.iStarted /\ ~control.active
      /\ notifier.iOldDeviceState = "None" /\ Blank(host) /\ ldd = InitLdd /\ thread = "Free"
  BY DEF Init, InitTransport, InitControl, InitNotifier, InitHost, Blank
<1> QED BY <1>1, IdleAgrees DEF ExchangeInv

\* Every step keeps the exchange, when the device is not configured while the server starts.
LEMMA NextExchange ==
  ASSUME Races \subseteq {FALSE}, Typed, ServiceInv, ExchangeInv, [Next]_vars
  PROVE  ExchangeInv'
<1>1. CASE Scheduler \/ StallGivesUp
  BY <1>1, RunControlAgrees, RunNotifierAgrees, RunTransportAgrees, ThreadAgrees DEF Scheduler
<1>2. CASE Driver
  BY <1>2, NotifierCompletesAgrees, ReadCompletesAgrees, Ep0CompletesAgrees DEF Driver
<1>3. CASE HostSteps
  BY <1>3, HostSendsDataAgrees, HostReadsDataAgrees, HostReadsStatusAgrees,
     HostSeesStallAgrees, HostClearsAgrees, HostResetAnsweredAgrees DEF HostSteps
<1>4. CASE ServerEnds \/ Start \/ AskStop \/ Stop
  BY <1>4, ServerEndsAgrees, StartAgrees, AskStopAgrees, StopAgrees
<1>5. CASE HostSends \/ HostResets \/ HostAsks \/ AlternateSetting
  BY <1>5, HostSendsAgrees, HostResetsAgrees, HostAsksAgrees, AlternateSettingAgrees
<1>6. CASE BusChanges
  BY <1>6, BusIsLostAgrees, BusGoesOnAgrees DEF BusChanges
<1>7. CASE UNCHANGED vars
  BY <1>7 DEF vars, ExchangeInv, Running
<1> QED BY <1>1, <1>2, <1>3, <1>4, <1>5, <1>6, <1>7 DEF Next

\* What the exchange says of a host that can be reached.
LEMMA ReachableExchange ==
  ASSUME ExchangeInv, Reachable
  PROVE  /\ Exchange(transport, thread, ldd, host, scsi)
         /\ Bulk(transport, control, thread, ldd)
         /\ InStep("Configured", transport, notifier, ldd)
BY DEF ExchangeInv, Agreement, Reachable

\* Device and host agree on the phase of a command: the host is never sent a status where
\* it reads data nor data where it reads a status, whatever was reset, cleared, lost or
\* configured again in between (DecodeCBW, TransportRunL, HwStart, HwStop).
THEOREM MscPhasesAgree == ASSUME Races \subseteq {FALSE} PROVE Spec => []PhasesAgree
<1>1. Init => Typed /\ ServiceInv /\ ExchangeInv
  BY InitService, InitExchange
<1>2. Typed /\ ServiceInv /\ ExchangeInv /\ [Next]_vars => (Typed /\ ServiceInv /\ ExchangeInv)'
  BY NextService, NextExchange
<1>3. ExchangeInv => PhasesAgree
  <2>1. SUFFICES ASSUME ExchangeInv, Reachable, ~ldd.stalled
                 PROVE  /\ host.phase = "DataIn" => ldd.in.kind # "CSW"
                        /\ host.phase = "Status" => ldd.in.kind # "Data"
    BY DEF PhasesAgree
  <2> QED BY <2>1, ReachableExchange
          DEF Exchange, Awaiting, HasRead, Replies, Offered, Pads, CutsShort, Discards,
              Reports, GivesUp, NoPacket
<1> QED BY <1>1, <1>2, <1>3, PTL DEF Spec

\* The status that a host reads is of its command, and the residue in it what is missing of
\* its data: neither padding, nor bytes cut off, nor an earlier command count
\* (PrepareWriteToHost, PrepareReadFromHost, SendCSW).
THEOREM MscCswIsHonest == ASSUME Races \subseteq {FALSE} PROVE Spec => []CswIsHonest
<1>1. Init => Typed /\ ServiceInv /\ ExchangeInv
  BY InitService, InitExchange
<1>2. Typed /\ ServiceInv /\ ExchangeInv /\ [Next]_vars => (Typed /\ ServiceInv /\ ExchangeInv)'
  BY NextService, NextExchange
<1>3. ExchangeInv => CswIsHonest
  <2>1. SUFFICES ASSUME ExchangeInv, Reachable, host.phase = "Status", ldd.in.kind = "CSW"
                 PROVE  /\ ldd.in.tag = host.tag
                        /\ ldd.in.status # "EPhaseError" =>
                             host.got + ldd.in.residue = host.len
    BY DEF CswIsHonest
  <2>2. Reports(transport, thread, ldd, host, scsi)
    BY <2>1, ReachableExchange
       DEF Exchange, Awaiting, HasRead, Replies, Offered, Pads, CutsShort, Discards, GivesUp,
           NoPacket
  <2> QED BY <2>2 DEF Reports
<1> QED BY <1>1, <1>2, <1>3, PTL DEF Spec

\* A host that asks for the reason after a command that failed is given one: the sense data
\* is neither lost to a suspend, a request on endpoint 0 or an alternate setting, nor
\* cleared before it is reported (HandleRequestSense, ControllerReset).
THEOREM MscFailureIsExplained ==
  ASSUME Races \subseteq {FALSE} PROVE Spec => []FailureIsExplained
<1>1. Init => Typed /\ ServiceInv /\ ExchangeInv
  BY InitService, InitExchange
<1>2. Typed /\ ServiceInv /\ ExchangeInv /\ [Next]_vars => (Typed /\ ServiceInv /\ ExchangeInv)'
  BY NextService, NextExchange
<1>3. ExchangeInv => FailureIsExplained
  <2>1. SUFFICES ASSUME ExchangeInv, Reachable, host.phase = "DataIn", host.failed,
                        ldd.in.kind = "Data"
                 PROVE  ldd.in.reports # "NoSense"
    BY DEF FailureIsExplained
  <2>2. Offered(transport, ldd, host)
    BY <2>1, ReachableExchange
       DEF Exchange, Awaiting, HasRead, Replies, Pads, CutsShort, Discards, Reports, GivesUp,
           NoPacket
  <2> QED BY <2>1, <2>2 DEF Offered
<1> QED BY <1>1, <1>2, <1>3, PTL DEF Spec

\* Host and device never wait for each other, unless the host has sent what is no command:
\* then the device has given up, and a reset is what it waits for (SetPermError).
THEOREM MscSilentOnlyAfterError ==
  ASSUME Races \subseteq {FALSE} PROVE Spec => []SilentOnlyAfterError
<1>1. Init => Typed /\ ServiceInv /\ ExchangeInv
  BY InitService, InitExchange
<1>2. Typed /\ ServiceInv /\ ExchangeInv /\ [Next]_vars => (Typed /\ ServiceInv /\ ExchangeInv)'
  BY NextService, NextExchange
<1>3. ExchangeInv => SilentOnlyAfterError
  <2>1. SUFFICES ASSUME ExchangeInv, Reachable, host.phase \in {"DataIn", "Status"}, Quiet
                 PROVE  host.corrupt
    BY DEF SilentOnlyAfterError, HostWaits
  <2>2. /\ Exchange(transport, thread, ldd, host, scsi)
        /\ Bulk(transport, control, thread, ldd)
        /\ InStep("Configured", transport, notifier, ldd)
    BY <2>1, ReachableExchange
  <2>3. /\ thread = "Free" /\ ~Ready(notifier) /\ ~Ready(transport) /\ ldd.in = NoPacket
        /\ ldd.states = << >> /\ ~(ldd.out /\ ldd.rx # << >>)
    BY <2>1 DEF Quiet
  <2>4. transport.iStarted
    BY <2>2, <2>3 DEF InStep, ComesFirst
  <2>5. ~Awaiting(transport, thread, ldd, host, scsi)
    BY <2>1, <2>3, <2>4 DEF Awaiting, AtRest, Listening, Ready, Pending, KErrNone
  <2> QED BY <2>1, <2>2, <2>3, <2>5
          DEF Exchange, HasRead, Replies, Offered, Pads, CutsShort, Discards, Reports, GivesUp,
              Ready, NoPacket, Pending, KErrNone
<1> QED BY <1>1, <1>2, <1>3, PTL DEF Spec

=============================================================================
