----------------------------- MODULE MscEffects -----------------------------
(***************************************************************************)
(* What the methods of the mass-storage server do, each as one lemma that  *)
(* the proofs of the system cite: the types of its memory, the members a   *)
(* method leaves alone, and what it leaves with the driver.                *)
(*                                                                         *)
(* The lemmas are stated with predicates of two memories, m before and n   *)
(* after the method, so that the lemma of a method follows from those of   *)
(* the methods it calls.                                                   *)
(***************************************************************************)
EXTENDS MscProperties, TLAPS

Sts == {Pending, KErrNone, KErrGeneral}
Transport ==
  [ iCurrentState : TransportStates, active : BOOLEAN, iStatus : Sts, iCbwBuf : Cbw,
    iWriteSetUp : BOOLEAN, iWriteBuf : Buffer, iDataResidue : Nat, iCbwTag : 0..1,
    iCmdStatus : CswStatuses, iStarted : BOOLEAN, iStallAllowed : BOOLEAN,
    iInterfaceConfigured : BOOLEAN ]
Control == [ iCurrentState : ControlStates, active : BOOLEAN, iStatus : Sts,
             iRequest : Requests ]
Notifier == [ active : BOOLEAN, iStatus : Sts, iDeviceState : Reported \cup {"None"},
              iOldDeviceState : {"None", "Suspended"} ]
DataPackets == [ kind : {"Data"}, real : Nat, fresh : BOOLEAN, reports : Senses \cup {"Data"} ]
CswPackets  == [ kind : {"CSW"}, tag : 0..1, residue : Nat, status : CswStatuses ]
Packets == {NoPacket} \cup DataPackets \cup CswPackets
Ep0s == {"None", "Ignored", "Answered"} \cup Requests
Ldd == [ open : BOOLEAN, out : BOOLEAN, in : Packets, stalled : BOOLEAN, rx : Seq(Cbw),
         ep0 : Ep0s, states : Seq(Reported) ]
Host == [ phase : Phases, tag : 0..1, len : Nat, got : Nat, stalls : 0..1,
          failed : BOOLEAN, corrupt : BOOLEAN ]
MscMemory ==
  [ t : Transport, c : Control, n : Notifier, scsi : Scsi, image : Image, ldd : Ldd,
    thread : Threads, server : Server, cc : ClassController, shown : BOOLEAN,
    bus : BusStates, fault : MscFaults, ret : MscErrors, in : Answers \cup {<< >>} ]


\* A handler of the server changes its three active objects, what they have with the
\* driver and the unit, and nothing else.
Inside(m, n) ==
  /\ n \in MscMemory
  /\ n.server = m.server /\ n.cc = m.cc /\ n.shown = m.shown /\ n.bus = m.bus
  /\ n.ldd.open = m.ldd.open /\ n.t.iInterfaceConfigured = m.t.iInterfaceConfigured
  /\ n.in = m.in

\* A method of the transport leaves its two helpers alone, and what the driver has
\* for the server.
TransportOnly(m, n) ==
  /\ Inside(m, n)
  /\ n.c = m.c /\ n.n = m.n /\ n.t.iStarted = m.t.iStarted
  /\ n.ldd.ep0 = m.ldd.ep0 /\ n.ldd.states = m.ldd.states /\ n.ldd.rx = m.ldd.rx

-----------------------------------------------------------------------------
\* Types of the constants of the modules.
LEMMA ConstantTypes ==
  /\ NoBuffer \in Buffer /\ NoCbw \in Cbw /\ InitTransport \in Transport
  /\ InitControl \in Control /\ InitNotifier \in Notifier /\ InitLdd \in Ldd
  /\ NoProtocol \in Scsi /\ InitHost \in Host /\ OutData \in Cbw
<1>1. NoBuffer \in Buffer
  BY DEF NoBuffer, Buffer
<1>2. NoCbw \in Cbw
  BY DEF NoCbw, Cbw, Command, Ops
<1>3. InitTransport \in Transport
  BY <1>1, <1>2 DEF InitTransport, Transport, TransportStates, Sts, CswStatuses
<1>4. InitControl \in Control /\ InitNotifier \in Notifier /\ NoProtocol \in Scsi
  BY DEF InitControl, Control, InitNotifier, Notifier, NoProtocol, Scsi, Senses, Sts,
         ControlStates, Requests, Reported, BusStates
<1>5. << >> \in Seq(Cbw) /\ << >> \in Seq(Reported)
  OBVIOUS
<1>6. InitLdd \in Ldd
  BY <1>5 DEF InitLdd, Ldd, Packets, Ep0s
<1>7. InitHost \in Host
  BY DEF InitHost, Host, Phases
<1>8. OutData \in Cbw
  BY <1>2 DEF OutData, Cbw
<1> QED BY <1>1, <1>2, <1>3, <1>4, <1>6, <1>7, <1>8

\* A method that calls methods keeps to what they keep to.
LEMMA InsideTwice ==
  ASSUME NEW m, NEW n, NEW k, Inside(m, n), Inside(n, k) PROVE Inside(m, k)
BY DEF Inside

\* Methods that leave the helpers alone, called one after the other, do.
LEMMA TransportOnlyTwice ==
  ASSUME NEW m, NEW n, NEW k, TransportOnly(m, n), TransportOnly(n, k)
  PROVE  TransportOnly(m, k)
BY DEF TransportOnly, Inside

\* A method that returns at once.
LEMMA NothingDone == ASSUME NEW m \in MscMemory PROVE TransportOnly(m, m)
BY DEF TransportOnly, Inside

-----------------------------------------------------------------------------
\* The control interface and the notifier.

\* A change of the driver that leaves the bulk endpoints alone, and one that leaves
\* endpoint 0 and the device states alone.
SameBulk(l, k) ==
  /\ k.open = l.open /\ k.out = l.out /\ k.in = l.in /\ k.stalled = l.stalled
  /\ k.rx = l.rx /\ k.states = l.states
SameEp0(l, k) ==
  k.open = l.open /\ k.rx = l.rx /\ k.ep0 = l.ep0 /\ k.states = l.states

\* A read of endpoint 0 makes the control interface active, or it was.
LEMMA ReadEp0DataEffect ==
  ASSUME NEW m \in MscMemory
  PROVE  /\ Inside(m, ReadEp0Data(m))
         /\ ReadEp0Data(m).t = m.t /\ ReadEp0Data(m).n = m.n /\ ReadEp0Data(m).ldd = m.ldd
         /\ ReadEp0Data(m).thread = m.thread /\ ReadEp0Data(m).fault = m.fault
         /\ ReadEp0Data(m).c.active
         /\ ReadEp0Data(m).c.iStatus = Pending \/ ReadEp0Data(m).c = m.c
BY DEF ReadEp0Data, Inside, MscMemory, Control, ControlStates, Sts

\* The control interface is reset; a reply that is cancelled is not given.
LEMMA CancelControlEffect ==
  ASSUME NEW m \in MscMemory
  PROVE  /\ Inside(m, CancelControl(m)) /\ CancelControl(m).c = InitControl
         /\ CancelControl(m).t = m.t /\ CancelControl(m).n = m.n
         /\ CancelControl(m).thread = m.thread /\ CancelControl(m).fault = m.fault
         /\ SameBulk(m.ldd, CancelControl(m).ldd)
         /\ \/ CancelControl(m).ldd.ep0 = m.ldd.ep0
            \/ m.ldd.ep0 = "GetMaxLun" /\ CancelControl(m).ldd.ep0 = "Ignored"
BY ConstantTypes DEF CancelControl, SameBulk, Inside, MscMemory, Control, Ldd, Ep0s

\* The notifier is active afterwards.
LEMMA ActivateNotifierEffect ==
  ASSUME NEW m \in MscMemory
  PROVE  /\ Inside(m, ActivateNotifier(m))
         /\ ActivateNotifier(m).t = m.t /\ ActivateNotifier(m).c = m.c
         /\ ActivateNotifier(m).ldd = m.ldd /\ ActivateNotifier(m).ret = m.ret
         /\ ActivateNotifier(m).thread = m.thread /\ ActivateNotifier(m).fault = m.fault
         /\ ActivateNotifier(m).n.active
         /\ ActivateNotifier(m).n.iDeviceState = m.n.iDeviceState
         /\ ActivateNotifier(m).n.iOldDeviceState = m.n.iOldDeviceState
         /\ ~m.n.active => ActivateNotifier(m).n.iStatus = Pending
BY DEF ActivateNotifier, Inside, MscMemory, Notifier, Sts

\* An answer to a request on endpoint 0.
LEMMA AnswerEffect ==
  ASSUME NEW m \in MscMemory, NEW how \in {"None", "Ignored", "Answered"}
  PROVE  /\ Inside(m, Answer(m, how)) /\ Answer(m, how).t = m.t /\ Answer(m, how).n = m.n
         /\ Answer(m, how).c = m.c
         /\ Answer(m, how).thread = m.thread /\ Answer(m, how).fault = m.fault
         /\ SameBulk(m.ldd, Answer(m, how).ldd)
         /\ Answer(m, how).ldd.ep0 = (IF m.ldd.ep0 = "None" THEN "None" ELSE how)
BY DEF Answer, SameBulk, Inside, MscMemory, Ldd, Ep0s

-----------------------------------------------------------------------------
\* The bulk endpoints.

\* A request of the transport is outstanding in state st, or has failed at once.
Requested(m, n, st) ==
  /\ TransportOnly(m, n) /\ n.thread = m.thread /\ n.fault = m.fault
  /\ n.t.active /\ n.t.iCurrentState = st
  /\ n.t.iStatus = (IF m.bus = "Unconfigured" THEN KErrGeneral ELSE Pending)
  /\ n.t.iWriteSetUp = m.t.iWriteSetUp /\ n.ldd.stalled = m.ldd.stalled

\* What the transport remembers of a command.
SameCommand(m, n) ==
  /\ n.t.iCbwBuf = m.t.iCbwBuf /\ n.t.iWriteBuf = m.t.iWriteBuf
  /\ n.t.iDataResidue = m.t.iDataResidue /\ n.t.iCbwTag = m.t.iCbwTag
  /\ n.t.iCmdStatus = m.t.iCmdStatus

\* Nothing has happened because a request is outstanding, or this one is now.
Read(m, n) ==
  IF m.t.active THEN n = m
  ELSE Requested(m, n, "EWaitForCBW") /\ SameCommand(m, n) /\ n.ldd.in = m.ldd.in
Written(m, n, p, st) ==
  /\ Requested(m, n, st) /\ SameCommand(m, n)
  /\ n.ldd.in = (IF m.bus = "Unconfigured" THEN NoPacket ELSE p)
StatusSent(m, n, residue, status) ==
  IF m.t.active THEN n = m
  ELSE /\ Requested(m, n, "ESendingCSW")
       /\ n.ldd.in = (IF m.bus = "Unconfigured" THEN NoPacket
                      ELSE CswPacket(m.t.iCbwTag, residue, status))

\* The transport makes a request.
LEMMA TransportActiveEffect ==
  ASSUME NEW m \in MscMemory, NEW st \in TransportStates
  PROVE  /\ Requested(m, TransportActive(m, st), st) /\ SameCommand(m, TransportActive(m, st))
         /\ TransportActive(m, st).ldd = m.ldd
BY DEF TransportActive, Requested, SameCommand, TransportOnly, Inside, MscMemory, Transport, Sts

\* A read of the next command.
LEMMA ReadCBWEffect ==
  ASSUME NEW m \in MscMemory PROVE Read(m, ReadCBW(m))
<1>1. CASE m.t.active
  BY <1>1 DEF ReadCBW, Read
<1>2. CASE ~m.t.active
  <2> DEFINE d == [m EXCEPT !.ldd.out = (m.bus # "Unconfigured")]
             n == TransportActive(d, "EWaitForCBW")
  <2>1. /\ TransportOnly(m, d) /\ d.t = m.t /\ d.thread = m.thread /\ d.fault = m.fault
        /\ d.bus = m.bus /\ d.ldd.in = m.ldd.in /\ d.ldd.stalled = m.ldd.stalled
    BY DEF TransportOnly, Inside, MscMemory, Ldd
  <2>2. ReadCBW(m) = n
    BY <1>2 DEF ReadCBW
  <2> HIDE DEF d
  <2>3. d \in MscMemory /\ "EWaitForCBW" \in TransportStates
    BY <2>1 DEF TransportOnly, Inside, TransportStates
  <2>4. Requested(d, n, "EWaitForCBW") /\ SameCommand(d, n) /\ n.ldd = d.ldd
    BY <2>3, TransportActiveEffect
  <2> HIDE DEF n
  <2>5. TransportOnly(m, n)
    BY <2>1, <2>4, TransportOnlyTwice DEF Requested
  <2>6. Requested(m, n, "EWaitForCBW") /\ SameCommand(m, n) /\ n.ldd.in = m.ldd.in
    BY <2>1, <2>4, <2>5 DEF Requested, SameCommand
  <2> QED BY <1>2, <2>2, <2>6 DEF Read
<1> QED BY <1>1, <1>2

\* A write to the host.
LEMMA WriteEffect ==
  ASSUME NEW m \in MscMemory, NEW p \in Packets, NEW st \in TransportStates
  PROVE  Written(m, Write(m, p, st), p, st)
<1> DEFINE d == [m EXCEPT !.ldd.in = IF m.bus = "Unconfigured" THEN NoPacket ELSE p]
           n == TransportActive(d, st)
<1>1. /\ TransportOnly(m, d) /\ d.t = m.t /\ d.thread = m.thread /\ d.fault = m.fault
      /\ d.bus = m.bus /\ d.ldd.stalled = m.ldd.stalled
      /\ d.ldd.in = (IF m.bus = "Unconfigured" THEN NoPacket ELSE p)
  BY DEF TransportOnly, Inside, MscMemory, Ldd, Packets
<1>2. Write(m, p, st) = n
  BY DEF Write
<1> HIDE DEF d
<1>3. d \in MscMemory
  BY <1>1 DEF TransportOnly, Inside
<1>4. Requested(d, n, st) /\ SameCommand(d, n) /\ n.ldd = d.ldd
  BY <1>3, TransportActiveEffect
<1> HIDE DEF n
<1>5. TransportOnly(m, n)
  BY <1>1, <1>4, TransportOnlyTwice DEF Requested
<1> QED BY <1>1, <1>2, <1>4, <1>5 DEF Written, Requested, SameCommand

\* The members of the transport that SendCSW resets.
LEMMA Forgotten ==
  ASSUME NEW t \in Transport
  PROVE  LET u == [t EXCEPT !.iCbwTag = 0, !.iDataResidue = 0, !.iStallAllowed = TRUE,
                            !.iCmdStatus = "ECommandPassed"]
         IN /\ u \in Transport /\ u.iStarted = t.iStarted /\ u.iWriteSetUp = t.iWriteSetUp
            /\ u.iInterfaceConfigured = t.iInterfaceConfigured
<1> DEFINE a == [t EXCEPT !.iCbwTag = 0]
           b == [a EXCEPT !.iDataResidue = 0]
           u == [b EXCEPT !.iStallAllowed = TRUE, !.iCmdStatus = "ECommandPassed"]
<1>1. /\ a \in Transport /\ a.iStarted = t.iStarted /\ a.iWriteSetUp = t.iWriteSetUp
      /\ a.iInterfaceConfigured = t.iInterfaceConfigured
  BY DEF Transport
<1> HIDE DEF a
<1>2. /\ b \in Transport /\ b.iStarted = a.iStarted /\ b.iWriteSetUp = a.iWriteSetUp
      /\ b.iInterfaceConfigured = a.iInterfaceConfigured
  BY <1>1 DEF Transport
<1> HIDE DEF b
<1>3. /\ u \in Transport /\ u.iStarted = b.iStarted /\ u.iWriteSetUp = b.iWriteSetUp
      /\ u.iInterfaceConfigured = b.iInterfaceConfigured
  BY <1>2 DEF Transport, CswStatuses
<1> HIDE DEF u
<1>4. /\ u \in Transport /\ u.iStarted = t.iStarted /\ u.iWriteSetUp = t.iWriteSetUp
      /\ u.iInterfaceConfigured = t.iInterfaceConfigured
  BY <1>1, <1>2, <1>3
<1> QED BY <1>4 DEF a, b, u

\* A change of the transport alone.
LEMMA TransportChanged ==
  ASSUME NEW m \in MscMemory, NEW t \in Transport, t.iStarted = m.t.iStarted,
         t.iInterfaceConfigured = m.t.iInterfaceConfigured
  PROVE  TransportOnly(m, [m EXCEPT !.t = t])
BY DEF TransportOnly, Inside, MscMemory

\* A status is sent with the tag of the command, which is forgotten.
LEMMA SendCSWEffect ==
  ASSUME NEW m \in MscMemory, NEW residue \in Nat, NEW status \in CswStatuses
  PROVE  StatusSent(m, SendCSW(m, residue, status), residue, status)
<1>1. CASE m.t.active
  BY <1>1 DEF SendCSW, StatusSent
<1>2. CASE ~m.t.active
  <2> DEFINE t == [m.t EXCEPT !.iCbwTag = 0, !.iDataResidue = 0, !.iStallAllowed = TRUE,
                              !.iCmdStatus = "ECommandPassed"]
             d == [m EXCEPT !.t.iCbwTag = 0, !.t.iDataResidue = 0, !.t.iStallAllowed = TRUE,
                            !.t.iCmdStatus = "ECommandPassed"]
             p == CswPacket(m.t.iCbwTag, residue, status)
             n == Write(d, p, "ESendingCSW")
  <2>0. m.t \in Transport
    BY DEF MscMemory
  <2>1. d = [m EXCEPT !.t = t]
    BY <2>0 DEF MscMemory, Transport
  <2>2. /\ t \in Transport /\ t.iStarted = m.t.iStarted /\ t.iWriteSetUp = m.t.iWriteSetUp
        /\ t.iInterfaceConfigured = m.t.iInterfaceConfigured
    BY <2>0, Forgotten
  <2> HIDE DEF t
  <2>3. TransportOnly(m, d)
    BY <2>1, <2>2, TransportChanged
  <2>4. /\ d.ldd = m.ldd /\ d.thread = m.thread /\ d.fault = m.fault
        /\ d.bus = m.bus /\ d.t.iWriteSetUp = m.t.iWriteSetUp
    BY <2>1, <2>2 DEF MscMemory
  <2>5. p \in Packets
    BY <2>0 DEF CswPacket, CswPackets, Packets, Transport
  <2>6. SendCSW(m, residue, status) = n
    BY <1>2 DEF SendCSW
  <2> HIDE DEF d
  <2>7. d \in MscMemory /\ "ESendingCSW" \in TransportStates
    BY <2>3 DEF TransportOnly, Inside, TransportStates
  <2> HIDE DEF p
  <2>8. Written(d, n, p, "ESendingCSW")
    BY <2>5, <2>7, WriteEffect
  <2> HIDE DEF n
  <2>9. TransportOnly(m, n)
    BY <2>3, <2>8, TransportOnlyTwice DEF Written, Requested
  <2>10. /\ Requested(m, n, "ESendingCSW")
         /\ n.ldd.in = (IF m.bus = "Unconfigured" THEN NoPacket ELSE p)
    BY <2>4, <2>8, <2>9 DEF Written, Requested
  <2> QED BY <1>2, <2>6, <2>10 DEF p, StatusSent
<1> QED BY <1>1, <1>2

\* The transport is to halt the endpoint.
LEMMA SetPermErrorEffect ==
  ASSUME NEW m \in MscMemory
  PROVE  /\ TransportOnly(m, SetPermError(m))
         /\ SetPermError(m).ldd = m.ldd /\ SetPermError(m).thread = m.thread
         /\ SetPermError(m).fault = m.fault
         /\ SetPermError(m).t.active /\ SetPermError(m).t.iStatus = KErrNone
         /\ SetPermError(m).t.iCurrentState = "EPermErr"
BY DEF SetPermError, TransportOnly, Inside, MscMemory, Transport, TransportStates, Sts

\* Nothing of the transport is left with the driver.
LEMMA CancelTransportEffect ==
  ASSUME NEW m \in MscMemory
  PROVE  /\ TransportOnly(m, CancelTransport(m)) /\ ~CancelTransport(m).t.active
         /\ CancelTransport(m).thread = m.thread /\ CancelTransport(m).fault = m.fault
         /\ CancelTransport(m).t.iWriteSetUp = m.t.iWriteSetUp
         /\ SameEp0(m.ldd, CancelTransport(m).ldd)
         /\ CancelTransport(m).ldd.stalled = m.ldd.stalled
         /\ CancelTransport(m).ldd.in = (IF m.t.active THEN NoPacket ELSE m.ldd.in)
<1> DEFINE t == [InitTransport EXCEPT
                   !.iWriteSetUp = m.t.iWriteSetUp, !.iWriteBuf = m.t.iWriteBuf,
                   !.iStarted = m.t.iStarted,
                   !.iInterfaceConfigured = m.t.iInterfaceConfigured]
           l == [m.ldd EXCEPT !.in = IF m.t.active THEN NoPacket ELSE @,
                              !.out = @ /\ ~m.t.active]
<1>1. m.t \in Transport /\ m.ldd \in Ldd
  BY DEF MscMemory
<1>2. /\ t \in Transport /\ ~t.active /\ t.iStarted = m.t.iStarted
      /\ t.iWriteSetUp = m.t.iWriteSetUp
      /\ t.iInterfaceConfigured = m.t.iInterfaceConfigured
  BY <1>1, ConstantTypes DEF InitTransport, Transport
<1>3. /\ l \in Ldd /\ SameEp0(m.ldd, l) /\ l.stalled = m.ldd.stalled
      /\ l.in = (IF m.t.active THEN NoPacket ELSE m.ldd.in)
  BY <1>1 DEF Ldd, Packets, SameEp0
<1>4. CancelTransport(m) = [m EXCEPT !.t = t, !.ldd = l]
  BY <1>1 DEF CancelTransport, MscMemory, Ldd
<1> HIDE DEF t
<1>5. /\ TransportOnly(m, CancelTransport(m)) /\ CancelTransport(m).t = t
      /\ CancelTransport(m).ldd = l
      /\ CancelTransport(m).thread = m.thread /\ CancelTransport(m).fault = m.fault
  <2> HIDE DEF l
  <2> QED BY <1>2, <1>3, <1>4 DEF TransportOnly, Inside, MscMemory, SameEp0
<1> HIDE DEF l
<1> QED BY <1>2, <1>3, <1>5

\* The IN endpoint is halted and the thread blocked.
LEMMA StallInEffect ==
  ASSUME NEW m \in MscMemory, NEW where \in Threads
  PROVE  /\ TransportOnly(m, StallIn(m, where)) /\ StallIn(m, where).t = m.t
         /\ StallIn(m, where).thread = where /\ StallIn(m, where).fault = m.fault
         /\ SameEp0(m.ldd, StallIn(m, where).ldd)
         /\ StallIn(m, where).ldd.in = m.ldd.in
         /\ StallIn(m, where).ldd.stalled = (m.bus # "Unconfigured")
BY DEF StallIn, Block, SameEp0, TransportOnly, Inside, MscMemory, Ldd

-----------------------------------------------------------------------------
\* The commands.

\* A command sets up a reply, of its own data, and changes the unit at most.
Replied(m, n) ==
  /\ TransportOnly(m, n) /\ n.thread = m.thread /\ n.ldd = m.ldd
  /\ n.t.active = m.t.active /\ n.t.iCurrentState = m.t.iCurrentState
  /\ n.t.iCbwBuf = m.t.iCbwBuf
  /\ n.t.iWriteSetUp => n.t.iWriteBuf.fresh \/ m.t.iWriteSetUp

\* Two parts of a command, of which one sets up no reply.
LEMMA RepliedTwice ==
  ASSUME NEW m, NEW n, NEW k, Replied(m, n), Replied(n, k),
         n.t = m.t \/ k.t = n.t
  PROVE  Replied(m, k)
BY TransportOnlyTwice DEF Replied

\* A command that does nothing.
LEMMA NoReply == ASSUME NEW m \in MscMemory PROVE Replied(m, m)
BY NothingDone DEF Replied

\* The sense data.
LEMMA SetSenseEffect ==
  ASSUME NEW m \in MscMemory, NEW sense \in Senses
  PROVE  Replied(m, SetSense(m, sense)) /\ SetSense(m, sense).t = m.t
BY DEF SetSense, Replied, TransportOnly, Inside, MscMemory, Scsi

\* The reply of a command.
LEMMA SetupWriteDataEffect ==
  ASSUME NEW m \in MscMemory, NEW len \in Nat, NEW reports \in Senses \cup {"Data"}
  PROVE  Replied(m, SetupWriteData(m, len, reports))
<1> DEFINE b == [len |-> len, fresh |-> TRUE, reports |-> reports]
           t == [m.t EXCEPT !.iWriteSetUp = TRUE, !.iWriteBuf = b]
<1>1. b \in Buffer /\ b.fresh
  BY DEF Buffer
<1>2. m.t \in Transport
  BY DEF MscMemory
<1>3. SetupWriteData(m, len, reports) = [m EXCEPT !.t = t]
  BY <1>2 DEF SetupWriteData, MscMemory, Transport
<1> HIDE DEF b
<1>4. /\ t \in Transport /\ t.iStarted = m.t.iStarted /\ t.iWriteBuf = b
      /\ t.active = m.t.active /\ t.iCurrentState = m.t.iCurrentState
      /\ t.iCbwBuf = m.t.iCbwBuf
      /\ t.iInterfaceConfigured = m.t.iInterfaceConfigured
  BY <1>1, <1>2 DEF Transport
<1> HIDE DEF t
<1>5. TransportOnly(m, [m EXCEPT !.t = t])
  BY <1>4, TransportChanged
<1>6. /\ [m EXCEPT !.t = t].t = t /\ [m EXCEPT !.t = t].thread = m.thread
      /\ [m EXCEPT !.t = t].ldd = m.ldd
  BY DEF MscMemory
<1> QED BY <1>1, <1>3, <1>4, <1>5, <1>6 DEF Replied

\* The image is opened or closed.
LEMMA ImageEffect ==
  ASSUME NEW m \in MscMemory
  PROVE  /\ Replied(m, ImageOpen(m)) /\ ImageOpen(m).t = m.t
         /\ Replied(m, ImageClose(m))
<1>1. ASSUME NEW o \in BOOLEAN, NEW n, n = [m EXCEPT !.image.iIsOpened = o]
      PROVE  Replied(m, n) /\ n.t = m.t
  BY <1>1 DEF Replied, TransportOnly, Inside, MscMemory, Image
<1>2. ImageOpen(m) = m \/ ImageOpen(m) = [m EXCEPT !.image.iIsOpened = (m.in.open = KErrNone)]
  BY DEF ImageOpen
<1>3. ImageClose(m) = [m EXCEPT !.image.iIsOpened = FALSE]
  BY DEF ImageClose
<1> QED BY <1>1, <1>2, <1>3, NoReply

\* The process ends.
LEMMA IndexPanicEffect ==
  ASSUME NEW m \in MscMemory PROVE Replied(m, IndexPanic(m))
BY DEF IndexPanic, Raise, MscFaults, Replied, TransportOnly, Inside, MscMemory

\* The image is there, or the sense data say that it is not.
LEMMA GetCheckFsEffect ==
  ASSUME NEW m \in MscMemory
  PROVE  Replied(m, GetCheckFs(m)) /\ GetCheckFs(m).t = m.t
<1> DEFINE n == ImageOpen(m)
<1>1. Replied(m, n) /\ n.t = m.t
  BY ImageEffect
<1>2. n \in MscMemory
  BY <1>1 DEF Replied, TransportOnly, Inside
<1>3. GetCheckFs(m) = n \/ GetCheckFs(m) = SetSense(n, "NotReady")
  BY DEF GetCheckFs
<1> HIDE DEF n
<1>4. Replied(n, SetSense(n, "NotReady")) /\ SetSense(n, "NotReady").t = n.t
  BY <1>2, SetSenseEffect DEF Senses
<1> QED BY <1>1, <1>3, <1>4, RepliedTwice

\* The smaller of two numbers.
LEMMA MinIsNat ==
  ASSUME NEW a \in Nat, NEW b \in Nat
  PROVE  Min2(a, b) \in Nat /\ Min2(a, b) <= a /\ Min2(a, b) <= b
BY DEF Min2

\* The lengths of the replies are numbers.
LEMMA ReplyLengths ==
  ASSUME NEW op \in DOMAIN ReplyLength PROVE ReplyLength[op] \in Nat
BY DEF ReplyLength

\* READ(10) and READ(12) set up a reply or leave sense data.
LEMMA HandleReadEffect ==
  ASSUME NEW m \in MscMemory, NEW c \in Command PROVE Replied(m, HandleRead(m, c))
<1> DEFINE blocks == IF c.op = "Read12" THEN c.len % WordBlocks ELSE c.len
<1>1. c.len \in Nat
  BY DEF Command
<1>2. blocks \in Nat
  BY <1>1 DEF WordBlocks
<1>3. blocks * KDefaultBlockSize \in Nat
  <2> HIDE DEF blocks
  <2> QED BY <1>2 DEF KDefaultBlockSize
<1>4. \/ HandleRead(m, c) = m
      \/ \E s \in Senses : HandleRead(m, c) = SetSense(m, s)
      \/ HandleRead(m, c) = SetupWriteData(m, blocks * KDefaultBlockSize, "Data")
  BY DEF HandleRead, Senses
<1> HIDE DEF blocks
<1> QED BY <1>3, <1>4, NoReply, SetSenseEffect, SetupWriteDataEffect

\* Commands with an allocation length.
LEMMA HandleSizedEffect ==
  ASSUME NEW m \in MscMemory, NEW c \in Command, c.op \in DOMAIN ReplyLength
  PROVE  Replied(m, HandleSized(m, c))
<1> DEFINE len == Min2(c.len, ReplyLength[c.op])
<1>1. len \in Nat
  BY MinIsNat, ReplyLengths DEF Command
<1>2. \/ HandleSized(m, c) = m \/ HandleSized(m, c) = IndexPanic(m)
      \/ HandleSized(m, c) = SetupWriteData(m, len, "Data")
  BY DEF HandleSized
<1> HIDE DEF len
<1> QED BY <1>1, <1>2, NoReply, IndexPanicEffect, SetupWriteDataEffect

\* REQUEST SENSE sets up the sense data and clears it.
LEMMA HandleRequestSenseEffect ==
  ASSUME NEW m \in MscMemory, NEW c \in Command
  PROVE  Replied(m, HandleRequestSense(m, c))
<1> DEFINE len == Min2(c.len, ReplyLength.RequestSense)
           n == SetupWriteData(m, len, m.scsi.sense)
<1>1. len \in Nat
  BY MinIsNat DEF Command, ReplyLength
<1>2. m.scsi.sense \in Senses
  BY DEF MscMemory, Scsi
<1>3. HandleRequestSense(m, c) = SetSense(n, "NoSense")
  BY DEF HandleRequestSense
<1> HIDE DEF len
<1>4. Replied(m, n)
  BY <1>1, <1>2, SetupWriteDataEffect
<1> HIDE DEF n
<1>5. n \in MscMemory
  BY <1>4 DEF Replied, TransportOnly, Inside
<1>6. Replied(n, SetSense(n, "NoSense")) /\ SetSense(n, "NoSense").t = n.t
  BY <1>5, SetSenseEffect DEF Senses
<1> QED BY <1>3, <1>4, <1>6, RepliedTwice

\* Every command sets up a reply at most.
LEMMA HandleEffect ==
  ASSUME NEW m \in MscMemory, NEW c \in Command PROVE Replied(m, Handle(m, c))
<1>1. c.op \in Ops
  BY DEF Command
<1>2. \/ Handle(m, c) = HandleRequestSense(m, c)
      \/ Handle(m, c) = HandleStartStopUnit(m, c)
      \/ Handle(m, c) = m
      \/ Handle(m, c) = SetSense(m, "IllegalRequest")
      \/ Handle(m, c) = HandleRead(m, c)
      \/ c.op \in DOMAIN ReplyLength /\ Handle(m, c) = SetupWriteData(m, ReplyLength[c.op], "Data")
      \/ c.op \in DOMAIN ReplyLength /\ Handle(m, c) = HandleSized(m, c)
  BY <1>1 DEF Handle, Ops, NeedsImage, Reads, ReplyLength
<1>3. Replied(m, HandleStartStopUnit(m, c))
  BY NoReply, ImageEffect DEF HandleStartStopUnit
<1>4. Replied(m, SetSense(m, "IllegalRequest"))
  BY SetSenseEffect DEF Senses
<1>5. c.op \in DOMAIN ReplyLength => Replied(m, SetupWriteData(m, ReplyLength[c.op], "Data"))
  BY ReplyLengths, SetupWriteDataEffect
<1> QED BY <1>2, <1>3, <1>4, <1>5, NoReply, HandleRequestSenseEffect, HandleReadEffect,
           HandleSizedEffect

\* So does a command block, with the test for the image before it.
LEMMA DecodePacketEffect ==
  ASSUME NEW m \in MscMemory, NEW c \in Command PROVE Replied(m, DecodePacket(m, c))
<1> DEFINE d == IF c.op = "RequestSense" THEN m ELSE SetSense(m, "NoSense")
           n == IF c.op \in NeedsImage THEN GetCheckFs(d) ELSE d
<1>1. Replied(m, d) /\ d.t = m.t
  BY NoReply, SetSenseEffect DEF Senses
<1>2. d \in MscMemory
  BY <1>1 DEF Replied, TransportOnly, Inside
<1> HIDE DEF d
<1>3. Replied(m, n) /\ n.t = m.t
  BY <1>1, <1>2, GetCheckFsEffect, RepliedTwice
<1>4. n \in MscMemory
  BY <1>3 DEF Replied, TransportOnly, Inside
<1>5. DecodePacket(m, c) = n \/ DecodePacket(m, c) = Handle(n, c)
  BY DEF DecodePacket, d
<1> HIDE DEF n
<1>6. Replied(n, Handle(n, c))
  BY <1>4, HandleEffect
<1> QED BY <1>3, <1>5, <1>6, RepliedTwice

-----------------------------------------------------------------------------
\* The data phase.

\* Data for the host is on its way, padding may be, and what is told is the host's:
\* unless the phases differ, what is sent of the command's own and the residue make up
\* what the host expects.
Sum(p, residue) == (IF p.fresh THEN p.real ELSE 0) + residue
DataSent(m, n, len) ==
  /\ TransportOnly(m, n) /\ n.fault = m.fault
  /\ n.t.iCbwTag = m.t.iCbwTag /\ n.ldd.stalled = m.ldd.stalled
  /\ \/ /\ n.thread = m.thread /\ n.t.active /\ n.t.iCurrentState = "EWritingData"
        /\ n.t.iStatus = (IF m.bus = "Unconfigured" THEN KErrGeneral ELSE Pending)
        /\ \E p \in DataPackets :
             /\ n.ldd.in = (IF m.bus = "Unconfigured" THEN NoPacket ELSE p)
             /\ (m.t.iWriteSetUp => m.t.iWriteBuf.fresh) /\ n.t.iCmdStatus # "EPhaseError"
                  => Sum(p, n.t.iDataResidue) = len
     \/ /\ n.thread = "Padding" /\ n.t.active = m.t.active /\ ~m.t.iWriteSetUp
        /\ n.t.iDataResidue = len /\ n.t.iWriteSetUp = m.t.iWriteSetUp
        /\ n.ldd.in = (IF m.bus = "Unconfigured" THEN NoPacket ELSE DataPacket(0, TRUE, "Data"))

\* Changes of one member, of which the residue is the only number.
LEMMA ResidueChanged ==
  ASSUME NEW m \in MscMemory, NEW r \in Nat, NEW d, d = [m EXCEPT !.t.iDataResidue = r]
  PROVE  /\ TransportOnly(m, d) /\ d.ldd = m.ldd /\ d.thread = m.thread /\ d.fault = m.fault
         /\ d.t.iCbwTag = m.t.iCbwTag /\ d.t.active = m.t.active
         /\ d.t.iWriteSetUp = m.t.iWriteSetUp
         /\ d.t.iDataResidue = r /\ d.t.iCmdStatus = m.t.iCmdStatus
<1> DEFINE t == [m.t EXCEPT !.iDataResidue = r]
<1>1. m.t \in Transport
  BY DEF MscMemory
<1>2. d = [m EXCEPT !.t = t]
  BY <1>1 DEF MscMemory, Transport
<1>3. /\ t \in Transport /\ t.iStarted = m.t.iStarted
      /\ t.iInterfaceConfigured = m.t.iInterfaceConfigured
      /\ t.iCbwTag = m.t.iCbwTag /\ t.iDataResidue = r /\ t.iCmdStatus = m.t.iCmdStatus
      /\ t.iWriteSetUp = m.t.iWriteSetUp /\ t.active = m.t.active
  BY <1>1 DEF Transport
<1> HIDE DEF t
<1>4. TransportOnly(m, d)
  BY <1>2, <1>3, TransportChanged
<1>5. /\ d.t = t /\ d.ldd = m.ldd /\ d.thread = m.thread /\ d.fault = m.fault
  BY <1>2 DEF MscMemory
<1> QED BY <1>3, <1>4, <1>5

\* A reply that is filled up.
LEMMA NoStallAllowed ==
  ASSUME NEW m \in MscMemory, NEW d, d = [m EXCEPT !.t.iStallAllowed = FALSE]
  PROVE  /\ TransportOnly(m, d) /\ d.ldd = m.ldd /\ d.thread = m.thread /\ d.fault = m.fault
         /\ d.t.iCbwTag = m.t.iCbwTag /\ d.t.iDataResidue = m.t.iDataResidue
         /\ d.t.iCmdStatus = m.t.iCmdStatus
BY DEF TransportOnly, Inside, MscMemory, Transport

\* The host expects less than there is.
LEMMA StatusChanged ==
  ASSUME NEW m \in MscMemory, NEW d, d = [m EXCEPT !.t.iCmdStatus = "EPhaseError"]
  PROVE  /\ TransportOnly(m, d) /\ d.ldd = m.ldd /\ d.thread = m.thread /\ d.fault = m.fault
         /\ d.t.iCbwTag = m.t.iCbwTag /\ d.t.iDataResidue = m.t.iDataResidue
         /\ d.t.iCmdStatus = "EPhaseError"
BY DEF TransportOnly, Inside, MscMemory, Transport, CswStatuses

\* The thread is blocked.
LEMMA BlockEffect ==
  ASSUME NEW m \in MscMemory, NEW where \in Threads
  PROVE  /\ TransportOnly(m, Block(m, where)) /\ Block(m, where).t = m.t
         /\ Block(m, where).thread = where /\ Block(m, where).fault = m.fault
         /\ Block(m, where).ldd = m.ldd
BY DEF Block, TransportOnly, Inside, MscMemory

\* A write of data from a memory that differs in the transport only.
LEMMA WriteData ==
  ASSUME NEW m \in MscMemory, NEW d, NEW len \in Nat, NEW p \in DataPackets,
         TransportOnly(m, d), d.ldd = m.ldd, d.thread = m.thread, d.fault = m.fault,
         d.t.iCbwTag = m.t.iCbwTag,
         (m.t.iWriteSetUp => m.t.iWriteBuf.fresh) /\ d.t.iCmdStatus # "EPhaseError"
           => Sum(p, d.t.iDataResidue) = len
  PROVE  DataSent(m, Write(d, p, "EWritingData"), len)
<1> DEFINE n == Write(d, p, "EWritingData")
<1>1. d \in MscMemory /\ p \in Packets /\ "EWritingData" \in TransportStates
  BY DEF TransportOnly, Inside, Packets, TransportStates
<1>2. Written(d, n, p, "EWritingData")
  BY <1>1, WriteEffect
<1> HIDE DEF n
<1>3. d.bus = m.bus
  BY DEF TransportOnly, Inside
<1>4. TransportOnly(m, n)
  BY <1>2, TransportOnlyTwice DEF Written, Requested
<1>5. /\ n.t.iCmdStatus = d.t.iCmdStatus /\ n.t.iDataResidue = d.t.iDataResidue
      /\ n.t.iCbwTag = m.t.iCbwTag
  BY <1>2 DEF Written, SameCommand
<1>6. /\ n.fault = m.fault /\ n.ldd.stalled = m.ldd.stalled /\ n.thread = m.thread /\ n.t.active
      /\ n.t.iCurrentState = "EWritingData"
      /\ n.t.iStatus = (IF m.bus = "Unconfigured" THEN KErrGeneral ELSE Pending)
      /\ n.ldd.in = (IF m.bus = "Unconfigured" THEN NoPacket ELSE p)
  BY <1>2, <1>3 DEF Written, Requested
<1> QED BY <1>4, <1>5, <1>6 DEF DataSent, n

\* Whatever is set up, data is sent to the host or is on its way.
LEMMA PrepareWriteToHostEffect ==
  ASSUME NEW m \in MscMemory, NEW len \in Nat
  PROVE  DataSent(m, PrepareWriteToHost(m, len), len)
<1> DEFINE buf    == m.t.iWriteBuf
           real   == Min2(buf.len, len)
           d      == [m EXCEPT !.t.iDataResidue = len - real]
           padded == [d EXCEPT !.t.iStallAllowed = FALSE]
           packet == DataPacket(real, buf.fresh, buf.reports)
           none   == [m EXCEPT !.t.iDataResidue = len]
           zeros  == DataPacket(0, TRUE, "Data")
           mute   == [none EXCEPT !.t.iStallAllowed = FALSE]
           cut    == [d EXCEPT !.t.iCmdStatus = "EPhaseError"]
           pad    == Block([none EXCEPT !.ldd.in = IF m.bus = "Unconfigured" THEN NoPacket
                                                   ELSE zeros], "Padding")
<1>1. buf \in Buffer
  BY DEF MscMemory, Transport
<1>2. real \in Nat /\ len - real \in Nat /\ real + (len - real) = len
  <2>1. buf.len \in Nat
    BY <1>1 DEF Buffer
  <2> HIDE DEF buf
  <2>2. real \in Nat /\ real <= len
    BY <2>1, MinIsNat
  <2> HIDE DEF real
  <2> QED BY <2>2
<1>3. packet \in DataPackets /\ packet.fresh = buf.fresh /\ packet.real = real
  <2> HIDE DEF real, buf
  <2> QED BY <1>1, <1>2 DEF DataPacket, DataPackets, Buffer
<1>4. zeros \in DataPackets /\ zeros.fresh /\ zeros.real = 0
  BY DEF DataPacket, DataPackets
<1> DEFINE rest == len - real
<1>r. rest \in Nat /\ d = [m EXCEPT !.t.iDataResidue = rest]
  BY <1>2
<1> HIDE DEF real, packet, zeros, rest, d
<1>5. /\ TransportOnly(m, d) /\ d.ldd = m.ldd /\ d.thread = m.thread /\ d.fault = m.fault
      /\ d.t.iCbwTag = m.t.iCbwTag /\ d.t.iDataResidue = rest
  BY <1>r, ResidueChanged
<1>6. /\ TransportOnly(m, none) /\ none.ldd = m.ldd /\ none.thread = m.thread
      /\ none.fault = m.fault /\ none.t.iCbwTag = m.t.iCbwTag /\ none.t.iDataResidue = len
      /\ none.t.active = m.t.active /\ none.t.iWriteSetUp = m.t.iWriteSetUp
  BY ResidueChanged
<1> HIDE DEF none
<1>7. d \in MscMemory /\ none \in MscMemory
  BY <1>5, <1>6 DEF TransportOnly, Inside
<1>8. /\ TransportOnly(d, padded) /\ padded.ldd = d.ldd /\ padded.thread = d.thread
      /\ padded.fault = d.fault
      /\ padded.t.iCbwTag = d.t.iCbwTag /\ padded.t.iDataResidue = d.t.iDataResidue
  BY <1>7, NoStallAllowed
<1>9. /\ TransportOnly(none, mute) /\ mute.ldd = none.ldd /\ mute.thread = none.thread
      /\ mute.fault = none.fault
      /\ mute.t.iCbwTag = none.t.iCbwTag /\ mute.t.iDataResidue = none.t.iDataResidue
  BY <1>7, NoStallAllowed
<1>10. /\ TransportOnly(d, cut) /\ cut.ldd = d.ldd /\ cut.thread = d.thread
       /\ cut.fault = d.fault /\ cut.t.iCbwTag = d.t.iCbwTag
       /\ cut.t.iCmdStatus = "EPhaseError"
  BY <1>7, StatusChanged
<1>11. CASE m.t.iWriteSetUp
  <2> HIDE DEF padded, cut, mute, pad, buf
  <2>1. \/ PrepareWriteToHost(m, len) = Write(padded, packet, "EWritingData")
        \/ PrepareWriteToHost(m, len) = Write(cut, packet, "EWritingData")
        \/ PrepareWriteToHost(m, len) = Write(d, packet, "EWritingData")
    BY <1>11 DEF PrepareWriteToHost, padded, cut, packet, d, real, buf
  <2>2. TransportOnly(m, padded) /\ TransportOnly(m, cut)
    BY <1>5, <1>8, <1>10, TransportOnlyTwice
  <2>3. buf.fresh => Sum(packet, rest) = len
    BY <1>2, <1>3 DEF Sum, rest
  <2>4. DataSent(m, Write(padded, packet, "EWritingData"), len)
    BY <1>3, <1>5, <1>8, <1>11, <2>2, <2>3, WriteData DEF buf
  <2>5. DataSent(m, Write(cut, packet, "EWritingData"), len)
    BY <1>3, <1>5, <1>10, <2>2, WriteData
  <2>6. DataSent(m, Write(d, packet, "EWritingData"), len)
    BY <1>3, <1>5, <1>11, <2>3, WriteData DEF buf
  <2> QED BY <2>1, <2>4, <2>5, <2>6
<1>12. CASE ~m.t.iWriteSetUp
  <2> HIDE DEF padded, cut, mute, buf
  <2>1. \/ PrepareWriteToHost(m, len) = Write(mute, zeros, "EWritingData")
        \/ PrepareWriteToHost(m, len) = pad
    <3>1. CASE len <= KBOTMaxBufSize
      <4>1. ~(len > KBOTMaxBufSize)
        BY <3>1 DEF KBOTMaxBufSize
      <4> QED BY <1>12, <3>1, <4>1 DEF PrepareWriteToHost, mute, zeros, none
    <3>2. CASE ~(len <= KBOTMaxBufSize)
      <4>1. len > KBOTMaxBufSize
        BY <3>2 DEF KBOTMaxBufSize
      <4> QED BY <1>12, <3>2, <4>1 DEF PrepareWriteToHost, zeros, none
    <3> QED BY <3>1, <3>2
  <2>2. TransportOnly(m, mute)
    BY <1>6, <1>9, TransportOnlyTwice
  <2>3. Sum(zeros, len) = len
    BY <1>4 DEF Sum
  <2>4. DataSent(m, Write(mute, zeros, "EWritingData"), len)
    BY <1>4, <1>6, <1>9, <2>2, <2>3, WriteData
  <2>5. DataSent(m, pad, len)
    <3>1. zeros \in Packets
      BY <1>4 DEF Packets
    <3> DEFINE put == [none EXCEPT !.ldd.in = IF m.bus = "Unconfigured" THEN NoPacket ELSE zeros]
    <3>a. /\ TransportOnly(none, put) /\ put.t = none.t /\ put.fault = none.fault
          /\ put.ldd.stalled = none.ldd.stalled
          /\ put.ldd.in = (IF m.bus = "Unconfigured" THEN NoPacket ELSE zeros)
      BY <1>7, <3>1 DEF TransportOnly, Inside, MscMemory, Ldd, Packets
    <3>b. pad = Block(put, "Padding")
      OBVIOUS
    <3> HIDE DEF put, pad
    <3>c. /\ TransportOnly(put, pad) /\ pad.t = put.t /\ pad.fault = put.fault
          /\ pad.thread = "Padding" /\ pad.ldd = put.ldd
      BY <3>a, <3>b, BlockEffect DEF TransportOnly, Inside, Threads
    <3>2. /\ TransportOnly(none, pad) /\ pad.t = none.t /\ pad.fault = none.fault
          /\ pad.thread = "Padding" /\ pad.ldd.stalled = none.ldd.stalled
          /\ pad.ldd.in = (IF m.bus = "Unconfigured" THEN NoPacket ELSE zeros)
      BY <3>a, <3>c, TransportOnlyTwice
    <3>3. TransportOnly(m, pad)
      BY <1>6, <3>2, TransportOnlyTwice
    <3> QED BY <1>6, <1>12, <3>2, <3>3 DEF DataSent, zeros
  <2> QED BY <2>1, <2>4, <2>5
<1> QED BY <1>11, <1>12

-----------------------------------------------------------------------------
\* RunL of the transport.

Inactive(m) == [m EXCEPT !.t.active = FALSE]
Unset(m) == [m EXCEPT !.t.iWriteSetUp = FALSE, !.t.iWriteBuf = NoBuffer]

\* RunL begins.
LEMMA InactiveEffect ==
  ASSUME NEW m \in MscMemory
  PROVE  /\ TransportOnly(m, Inactive(m)) /\ SameCommand(m, Inactive(m))
         /\ ~Inactive(m).t.active /\ Inactive(m).ldd = m.ldd
         /\ Inactive(m).thread = m.thread /\ Inactive(m).fault = m.fault
         /\ Inactive(m).t.iWriteSetUp = m.t.iWriteSetUp
BY DEF Inactive, TransportOnly, SameCommand, Inside, MscMemory, Transport

\* The reply has been sent.
LEMMA UnsetEffect ==
  ASSUME NEW m \in MscMemory
  PROVE  /\ TransportOnly(m, Unset(m)) /\ Unset(m).t.active = m.t.active
         /\ Unset(m).ldd = m.ldd /\ Unset(m).thread = m.thread /\ Unset(m).fault = m.fault
         /\ ~Unset(m).t.iWriteSetUp /\ Unset(m).t.iCbwTag = m.t.iCbwTag
         /\ Unset(m).t.iDataResidue = m.t.iDataResidue
         /\ Unset(m).t.iCmdStatus = m.t.iCmdStatus
BY ConstantTypes DEF Unset, TransportOnly, Inside, MscMemory, Transport

Outstanding(m, n, st) ==
  /\ n.thread = m.thread /\ n.t.active /\ n.t.iCurrentState = st
  /\ n.t.iStatus = (IF m.bus = "Unconfigured" THEN KErrGeneral ELSE Pending)
  /\ n.ldd.stalled = m.ldd.stalled
OnItsWay(m, n, packet) ==
  n.ldd.in = (IF m.bus = "Unconfigured" THEN NoPacket ELSE packet)

\* What the transport does next after an error, ...
Broken(m, n) ==
  /\ n.thread = m.thread /\ n.ldd = m.ldd
  /\ n.t.active /\ n.t.iStatus = KErrNone /\ n.t.iCurrentState = "EPermErr"
\* ... a command without data, ...
Said(m, n, cbw) ==
  /\ Outstanding(m, n, "ESendingCSW")
  /\ \E status \in CswStatuses :
       /\ OnItsWay(m, n, CswPacket(cbw.tag, 0, status))
       /\ n.t.iWriteSetUp => status = "EPhaseError"
\* ... one with data to the host, ...
Replying(m, n, cbw) ==
  /\ n.t.iCbwTag = cbw.tag /\ n.ldd.stalled = m.ldd.stalled
  /\ \/ /\ Outstanding(m, n, "EWritingData")
        /\ \E p \in DataPackets :
             /\ OnItsWay(m, n, p)
             /\ ~m.t.iWriteSetUp /\ n.t.iCmdStatus # "EPhaseError"
                  => Sum(p, n.t.iDataResidue) = cbw.len
     \/ /\ n.thread = "Padding" /\ ~n.t.active /\ ~n.t.iWriteSetUp
        /\ n.t.iDataResidue = cbw.len
        /\ OnItsWay(m, n, DataPacket(0, TRUE, "Data"))
\* ... and one with data from it.
Reading(m, n, cbw) ==
  /\ n.thread = "Discarding" /\ ~n.t.active /\ n.ldd = m.ldd
  /\ n.t.iDataResidue = cbw.len /\ n.t.iCbwTag = cbw.tag
Decoded(m, n) ==
  LET cbw == m.t.iCbwBuf IN
  \/ ~cbw.valid /\ Broken(m, n)
  \/ cbw.valid /\ cbw.len = 0 /\ Said(m, n, cbw)
  \/ cbw.valid /\ cbw.len # 0 /\ cbw.toHost /\ Replying(m, n, cbw)
  \/ cbw.valid /\ cbw.len # 0 /\ ~cbw.toHost /\ Reading(m, n, cbw)

\* The beginning of a command: what it says is remembered, and its data set up.
Begun(p, tag, status) ==
  [p EXCEPT !.t.iCbwTag = tag, !.t.iStallAllowed = TRUE, !.t.iCmdStatus = status]

\* The tag and the status of the command are remembered.
LEMMA BegunEffect ==
  ASSUME NEW p \in MscMemory, NEW tag \in 0..1, NEW status \in CswStatuses
  PROVE  /\ TransportOnly(p, Begun(p, tag, status)) /\ Begun(p, tag, status).ldd = p.ldd
         /\ Begun(p, tag, status).thread = p.thread /\ Begun(p, tag, status).fault = p.fault
         /\ Begun(p, tag, status).t.active = p.t.active
         /\ Begun(p, tag, status).t.iWriteSetUp = p.t.iWriteSetUp
         /\ Begun(p, tag, status).t.iWriteBuf = p.t.iWriteBuf
         /\ Begun(p, tag, status).t.iCbwTag = tag
         /\ Begun(p, tag, status).t.iCmdStatus = status
<1> DEFINE t == [p.t EXCEPT !.iCbwTag = tag, !.iStallAllowed = TRUE, !.iCmdStatus = status]
           d == Begun(p, tag, status)
<1>1. p.t \in Transport
  BY DEF MscMemory
<1>2. d = [p EXCEPT !.t = t]
  BY <1>1 DEF Begun, MscMemory, Transport
<1>3. /\ t \in Transport /\ t.iStarted = p.t.iStarted
      /\ t.iInterfaceConfigured = p.t.iInterfaceConfigured
      /\ t.iCbwTag = tag /\ t.iCmdStatus = status /\ t.iWriteBuf = p.t.iWriteBuf
      /\ t.iWriteSetUp = p.t.iWriteSetUp /\ t.active = p.t.active
  BY <1>1 DEF Transport
<1> HIDE DEF t, d
<1>4. TransportOnly(p, d)
  BY <1>2, <1>3, TransportChanged
<1>5. d.t = t /\ d.ldd = p.ldd /\ d.thread = p.thread /\ d.fault = p.fault
  BY <1>2 DEF MscMemory
<1>6. /\ TransportOnly(p, d) /\ d.ldd = p.ldd /\ d.thread = p.thread /\ d.fault = p.fault
      /\ d.t.active = p.t.active /\ d.t.iWriteSetUp = p.t.iWriteSetUp
      /\ d.t.iWriteBuf = p.t.iWriteBuf /\ d.t.iCbwTag = tag /\ d.t.iCmdStatus = status
  BY <1>3, <1>4, <1>5
<1> QED BY <1>6 DEF d

\* The buffer of an earlier command is stale.
LEMMA Stale ==
  ASSUME NEW m \in MscMemory, NEW e,
         e = [m EXCEPT !.t.iWriteBuf.fresh = FALSE, !.t.iCbwBuf = NoCbw]
  PROVE  /\ TransportOnly(m, e) /\ e.ldd = m.ldd /\ e.thread = m.thread /\ e.fault = m.fault
         /\ e.t.active = m.t.active /\ e.t.iWriteSetUp = m.t.iWriteSetUp
<1> DEFINE b == [m.t.iWriteBuf EXCEPT !.fresh = FALSE]
           t == [m.t EXCEPT !.iWriteBuf = b, !.iCbwBuf = NoCbw]
<1>1. m.t \in Transport
  BY DEF MscMemory
<1>2. b \in Buffer
  BY <1>1 DEF Transport, Buffer
<1>3. e = [m EXCEPT !.t = t]
  BY <1>1 DEF MscMemory, Transport
<1> HIDE DEF b
<1>4. /\ t \in Transport /\ t.iStarted = m.t.iStarted
      /\ t.iInterfaceConfigured = m.t.iInterfaceConfigured
      /\ t.iWriteSetUp = m.t.iWriteSetUp /\ t.active = m.t.active
  BY <1>1, <1>2, ConstantTypes DEF Transport
<1> HIDE DEF t
<1>5. TransportOnly(m, e)
  BY <1>3, <1>4, TransportChanged
<1>6. e.t = t /\ e.ldd = m.ldd /\ e.thread = m.thread /\ e.fault = m.fault
  BY <1>3 DEF MscMemory
<1> QED BY <1>4, <1>5, <1>6

\* A command wrapper ends in one of the four phases it can ask for.
LEMMA DecodeCBWEffect ==
  ASSUME NEW m \in MscMemory, ~m.t.active
  PROVE  TransportOnly(m, DecodeCBW(m)) /\ Decoded(m, DecodeCBW(m))
<1> DEFINE cbw == m.t.iCbwBuf
           e == [m EXCEPT !.t.iWriteBuf.fresh = FALSE, !.t.iCbwBuf = NoCbw]
           p == DecodePacket(e, cbw.cmd)
           status == IF SenseOk(p) THEN "ECommandPassed" ELSE "ECommandFailed"
           d == Begun(p, cbw.tag, status)
           z == [d EXCEPT !.t.iDataResidue = 0]
           n == DecodeCBW(m)
<1>1. cbw \in Cbw
  BY DEF MscMemory, Transport
<1>2. /\ cbw.valid \in BOOLEAN /\ cbw.toHost \in BOOLEAN
      /\ cbw.tag \in 0..1 /\ cbw.len \in Nat /\ cbw.cmd \in Command
  BY <1>1 DEF Cbw
<1>3. /\ TransportOnly(m, e) /\ e.ldd = m.ldd /\ e.thread = m.thread
      /\ e.t.active = m.t.active /\ e.t.iWriteSetUp = m.t.iWriteSetUp
  BY Stale
<1>4. n = CASE ~cbw.valid -> SetPermError(e)
            [] cbw.valid /\ cbw.len = 0 -> SendCSW(z, 0, StatusUnlessWrite(d))
            [] cbw.valid /\ cbw.len # 0 /\ cbw.toHost -> PrepareWriteToHost(d, cbw.len)
            [] OTHER -> PrepareReadFromHost(d, cbw.len)
  BY DEF DecodeCBW, Begun
<1> HIDE DEF cbw, e, n, z
<1>5. e \in MscMemory
  BY <1>3 DEF TransportOnly, Inside
<1>6. Replied(e, p)
  BY <1>2, <1>5, DecodePacketEffect
<1> HIDE DEF p
<1>7. p \in MscMemory
  BY <1>6 DEF Replied, TransportOnly, Inside
<1>8. status \in CswStatuses /\ status # "EPhaseError"
  BY DEF CswStatuses
<1> HIDE DEF status
<1>9. /\ TransportOnly(p, d) /\ d.ldd = p.ldd /\ d.thread = p.thread
      /\ d.t.active = p.t.active /\ d.t.iWriteSetUp = p.t.iWriteSetUp
      /\ d.t.iWriteBuf = p.t.iWriteBuf /\ d.t.iCbwTag = cbw.tag /\ d.t.iCmdStatus = status
  BY <1>2, <1>7, <1>8, BegunEffect
<1> HIDE DEF d
<1>10. TransportOnly(m, d)
  BY <1>3, <1>6, <1>9, TransportOnlyTwice DEF Replied
<1>11. /\ d.ldd = m.ldd /\ d.thread = m.thread /\ ~d.t.active
       /\ d.t.iWriteSetUp /\ ~m.t.iWriteSetUp => d.t.iWriteBuf.fresh
  BY <1>3, <1>6, <1>9 DEF Replied
<1>12. d \in MscMemory /\ d.bus = m.bus /\ e.bus = m.bus
  BY <1>3, <1>10 DEF TransportOnly, Inside
<1>13. CASE ~cbw.valid
  <2>1. n = SetPermError(e)
    BY <1>4, <1>13
  <2>2. /\ TransportOnly(e, n) /\ n.ldd = e.ldd /\ n.thread = e.thread
        /\ n.t.active /\ n.t.iStatus = KErrNone /\ n.t.iCurrentState = "EPermErr"
    BY <1>5, <2>1, SetPermErrorEffect
  <2>3. TransportOnly(m, n)
    BY <1>3, <2>2, TransportOnlyTwice
  <2> QED BY <1>3, <1>13, <2>2, <2>3 DEF Decoded, Broken, cbw, n
<1>14. CASE cbw.valid /\ cbw.len = 0
  <2> DEFINE st == StatusUnlessWrite(d)
  <2>1. n = SendCSW(z, 0, st)
    BY <1>4, <1>14
  <2>2. /\ TransportOnly(d, z) /\ z.ldd = d.ldd /\ z.thread = d.thread
        /\ z.t.iCbwTag = d.t.iCbwTag /\ z.t.active = d.t.active
        /\ z.t.iWriteSetUp = d.t.iWriteSetUp
    BY <1>12, ResidueChanged DEF z
  <2>3. st \in CswStatuses /\ (d.t.iWriteSetUp => st = "EPhaseError")
    BY <1>8, <1>9 DEF StatusUnlessWrite, CswStatuses
  <2> HIDE DEF st
  <2>4. TransportOnly(m, z)
    BY <1>10, <2>2, TransportOnlyTwice
  <2>5. z \in MscMemory /\ z.bus = m.bus
    BY <2>4 DEF TransportOnly, Inside
  <2>6. StatusSent(z, n, 0, st)
    BY <2>1, <2>3, <2>5, SendCSWEffect
  <2>7. /\ Requested(z, n, "ESendingCSW") 
        /\ OnItsWay(m, n, CswPacket(cbw.tag, 0, st))
    BY <1>9, <1>11, <2>2, <2>5, <2>6 DEF StatusSent, OnItsWay
  <2>8. TransportOnly(m, n)
    BY <2>4, <2>7, TransportOnlyTwice DEF Requested
  <2>9. Outstanding(m, n, "ESendingCSW") /\ (n.t.iWriteSetUp => st = "EPhaseError")
    BY <1>11, <2>2, <2>3, <2>5, <2>7 DEF Requested, Outstanding
  <2>10. Said(m, n, cbw)
    BY <2>3, <2>7, <2>9 DEF Said
  <2> QED BY <1>14, <2>8, <2>10 DEF Decoded, cbw, n
<1>15. CASE cbw.valid /\ cbw.len # 0 /\ cbw.toHost
  <2>1. n = PrepareWriteToHost(d, cbw.len)
    BY <1>4, <1>15
  <2>2. DataSent(d, n, cbw.len)
    BY <1>2, <1>12, <2>1, PrepareWriteToHostEffect
  <2>3. TransportOnly(m, n)
    BY <1>10, <2>2, TransportOnlyTwice DEF DataSent
  <2>4. n.t.iCbwTag = cbw.tag /\ n.ldd.stalled = m.ldd.stalled
    BY <1>9, <1>11, <2>2 DEF DataSent
  <2>5. CASE n.thread = d.thread /\ n.t.active
    <3>1. Outstanding(m, n, "EWritingData")
      BY <1>11, <1>12, <2>2, <2>4, <2>5 DEF DataSent, Outstanding
    <3>2. PICK q \in DataPackets :
            /\ n.ldd.in = (IF d.bus = "Unconfigured" THEN NoPacket ELSE q)
            /\ (d.t.iWriteSetUp => d.t.iWriteBuf.fresh) /\ n.t.iCmdStatus # "EPhaseError"
                 => Sum(q, n.t.iDataResidue) = cbw.len
      BY <1>11, <2>2, <2>5 DEF DataSent
    <3>3. OnItsWay(m, n, q)
      BY <1>12, <3>2 DEF OnItsWay
    <3>4. ~m.t.iWriteSetUp /\ n.t.iCmdStatus # "EPhaseError"
            => Sum(q, n.t.iDataResidue) = cbw.len
      BY <1>11, <3>2
    <3> QED BY <1>15, <2>3, <2>4, <3>1, <3>3, <3>4 DEF Decoded, Replying, cbw, n
  <2>6. CASE ~(n.thread = d.thread /\ n.t.active)
    <3>1. /\ n.thread = "Padding" /\ ~n.t.active /\ ~n.t.iWriteSetUp
          /\ n.t.iDataResidue = cbw.len /\ OnItsWay(m, n, DataPacket(0, TRUE, "Data"))
      BY <1>11, <1>12, <2>2, <2>6 DEF DataSent, OnItsWay
    <3> QED BY <1>15, <2>3, <2>4, <3>1 DEF Decoded, Replying, cbw, n
  <2> QED BY <2>5, <2>6
<1>16. CASE cbw.valid /\ cbw.len # 0 /\ ~cbw.toHost
  <2> DEFINE r == [d EXCEPT !.t.iDataResidue = cbw.len]
  <2>1. n = Block(r, "Discarding")
    BY <1>4, <1>16 DEF PrepareReadFromHost
  <2>2. /\ TransportOnly(d, r) /\ r.ldd = d.ldd /\ r.t.active = d.t.active
        /\ r.t.iCbwTag = d.t.iCbwTag /\ r.t.iDataResidue = cbw.len
    BY <1>2, <1>12, ResidueChanged
  <2> HIDE DEF r
  <2>3. TransportOnly(r, n) /\ n.t = r.t /\ n.thread = "Discarding" /\ n.ldd = r.ldd
    BY <2>1, <2>2, BlockEffect DEF TransportOnly, Inside, Threads
  <2>4. TransportOnly(m, n)
    BY <1>10, <2>2, <2>3, TransportOnlyTwice
  <2> QED BY <1>9, <1>11, <1>16, <2>2, <2>3, <2>4 DEF Decoded, Reading, cbw, n
<1> QED BY <1>2, <1>13, <1>14, <1>15, <1>16

\* RunL of the transport leaves its helpers alone.
LEMMA TransportRunLEffect ==
  ASSUME NEW m \in MscMemory
  PROVE  TransportOnly(m, TransportRunL(m))
<1> DEFINE d == Inactive(m)
           w == Unset(d)
           n == TransportRunL(m)
<1>1. /\ d \in MscMemory /\ TransportOnly(m, d) /\ ~d.t.active
  BY InactiveEffect DEF TransportOnly, Inside
<1>2. /\ w \in MscMemory /\ TransportOnly(m, w)
      /\ w.t.iDataResidue \in Nat /\ w.t.iCmdStatus \in CswStatuses
  <2>1. TransportOnly(d, w)
    BY <1>1, UnsetEffect
  <2>2. w \in MscMemory
    BY <2>1 DEF TransportOnly, Inside
  <2>3. w.t.iDataResidue \in Nat /\ w.t.iCmdStatus \in CswStatuses
    <3> HIDE DEF w
    <3> QED BY <2>2 DEF MscMemory, Transport
  <2> QED BY <1>1, <2>1, <2>2, <2>3, TransportOnlyTwice
<1>3. \/ n = SetPermError(d) \/ n = DecodeCBW(d) \/ n = ReadCBW(d) \/ n = StallIn(d, "Stalled")
      \/ n = StallIn(w, "StalledAfterData")
      \/ n = SendCSW(w, w.t.iDataResidue, w.t.iCmdStatus)
  BY DEF TransportRunL, Inactive, Unset
<1> HIDE DEF d, w
<1>4. TransportOnly(d, SetPermError(d)) /\ TransportOnly(d, DecodeCBW(d))
  BY <1>1, SetPermErrorEffect, DecodeCBWEffect
<1>5. TransportOnly(d, ReadCBW(d))
  BY <1>1, ReadCBWEffect DEF Read, Requested
<1>6. TransportOnly(d, StallIn(d, "Stalled")) /\ TransportOnly(w, StallIn(w, "StalledAfterData"))
  BY <1>1, <1>2, StallInEffect DEF Threads
<1>7. TransportOnly(w, SendCSW(w, w.t.iDataResidue, w.t.iCmdStatus))
  BY <1>2, NothingDone, SendCSWEffect DEF StatusSent, Requested
<1> QED BY <1>1, <1>2, <1>3, <1>4, <1>5, <1>6, <1>7, TransportOnlyTwice

\* So does a handler that goes on.
LEMMA ResumeEffect ==
  ASSUME NEW m \in MscMemory
  PROVE  TransportOnly(m, Resume(m))
<1> DEFINE d == Block(m, "Free")
<1>1. /\ d \in MscMemory /\ TransportOnly(m, d)
      /\ d.t.iDataResidue \in Nat /\ d.t.iCmdStatus \in CswStatuses
      /\ StatusUnlessWrite(d) \in CswStatuses
  BY BlockEffect DEF TransportOnly, Inside, Threads, MscMemory, Transport, StatusUnlessWrite,
                     CswStatuses
<1>2. \/ Resume(m) = d \/ Resume(m) = SendCSW(d, d.t.iDataResidue, d.t.iCmdStatus)
      \/ Resume(m) = SendCSW(d, d.t.iDataResidue, StatusUnlessWrite(d))
  BY DEF Resume
<1> HIDE DEF d
<1>3. ASSUME NEW s \in CswStatuses PROVE TransportOnly(d, SendCSW(d, d.t.iDataResidue, s))
  BY <1>1, NothingDone, SendCSWEffect DEF StatusSent, Requested
<1> QED BY <1>1, <1>2, <1>3, TransportOnlyTwice

-----------------------------------------------------------------------------
\* The device state, the requests on endpoint 0.

HwStarted(m) == [m EXCEPT !.t.iCurrentState = "ENone", !.t.iWriteSetUp = FALSE,
                          !.t.iWriteBuf = NoBuffer, !.t.iStarted = TRUE]

\* The reply of an earlier command is forgotten.
LEMMA HwStartedEffect ==
  ASSUME NEW m \in MscMemory
  PROVE  /\ Inside(m, HwStarted(m)) /\ HwStarted(m).c = m.c /\ HwStarted(m).n = m.n
         /\ HwStarted(m).ldd = m.ldd /\ HwStarted(m).thread = m.thread
         /\ HwStarted(m).fault = m.fault /\ HwStarted(m).ret = m.ret
         /\ HwStarted(m).t.active = m.t.active
         /\ ~HwStarted(m).t.iWriteSetUp
BY ConstantTypes DEF HwStarted, Inside, MscMemory, Transport, TransportStates

\* The device is configured, or has been reset.
LEMMA HwStartEffect ==
  ASSUME NEW m \in MscMemory, NEW discard \in BOOLEAN
  PROVE  Inside(m, HwStart(m, discard))
<1> DEFINE r == ReadEp0Data(m)
           d == HwStarted(r)
           f == [d EXCEPT !.fault = Raise(@, EmptyReadBuffer)]
<1>1. r \in MscMemory /\ Inside(m, r)
  BY ReadEp0DataEffect DEF Inside
<1>2. d \in MscMemory /\ Inside(m, d)
  <2>1. Inside(r, d)
    BY <1>1, HwStartedEffect
  <2> QED BY <1>1, <2>1, InsideTwice DEF Inside
<1>3. HwStart(m, discard) = f \/ HwStart(m, discard) = ReadCBW(d)
  BY DEF HwStart, HwStarted
<1> HIDE DEF d
<1>4. Inside(d, f)
  BY <1>2 DEF Inside, MscMemory, Raise, MscFaults
<1>5. Inside(d, ReadCBW(d))
  BY <1>2, ReadCBWEffect, NothingDone DEF Read, Requested, TransportOnly
<1> HIDE DEF f
<1> QED BY <1>2, <1>3, <1>4, <1>5, InsideTwice

\* The configuration is lost, or there is a reset.
LEMMA HwStopEffect ==
  ASSUME NEW m \in MscMemory
  PROVE  Inside(m, HwStop(m))
<1> DEFINE t == CancelTransport(m)
           c == CancelControl(t)
           n == [c EXCEPT !.t.iStarted = FALSE]
<1>1. t \in MscMemory /\ Inside(m, t)
  BY CancelTransportEffect DEF Inside, TransportOnly
<1>2. HwStop(m) = m \/ HwStop(m) = n
  BY DEF HwStop
<1> HIDE DEF t
<1>3. c \in MscMemory /\ Inside(m, c)
  BY <1>1, CancelControlEffect, InsideTwice DEF Inside
<1> HIDE DEF c
<1>4. Inside(c, n)
  BY <1>3 DEF Inside, MscMemory, Transport
<1> HIDE DEF n
<1> QED BY <1>2, <1>3, <1>4, NothingDone, InsideTwice DEF TransportOnly

\* RunL of the notifier.
LEMMA NotifierRunLEffect ==
  ASSUME NEW m \in MscMemory
  PROVE  Inside(m, NotifierRunL(m))
<1> DEFINE st == m.n.iDeviceState
           d == [m EXCEPT !.n.active = FALSE, !.n.iDeviceState = "None"]
           old == IF st = "AlternateSetting" THEN m.n.iOldDeviceState
                  ELSE IF st = "Suspended" THEN st ELSE "None"
           n == CASE st = "Configured" /\ m.n.iOldDeviceState # "Suspended" -> HwStart(d, FALSE)
                  [] st = "Unconfigured" -> HwStop(d)
                  [] OTHER -> d
           k == [n EXCEPT !.n.iOldDeviceState = old]
<1>1. d \in MscMemory /\ Inside(m, d)
  BY DEF Inside, MscMemory, Notifier, Reported, BusStates
<1>2. old \in {"None", "Suspended"}
  BY DEF MscMemory, Notifier
<1>3. n = HwStart(d, FALSE) \/ n = HwStop(d) \/ n = d
  OBVIOUS
<1>4. NotifierRunL(m) = ActivateNotifier(k)
  BY DEF NotifierRunL
<1> HIDE DEF d, n, old, k
<1>5. n \in MscMemory /\ Inside(m, n)
  <2>1. Inside(d, HwStart(d, FALSE)) /\ Inside(d, HwStop(d))
    BY <1>1, HwStartEffect, HwStopEffect
  <2>2. Inside(m, HwStart(d, FALSE)) /\ Inside(m, HwStop(d))
    BY <1>1, <2>1, InsideTwice
  <2>3. Inside(m, n)
    BY <1>1, <1>3, <2>2, Zenon
  <2> QED BY <2>3 DEF Inside
<1>6. k \in MscMemory /\ Inside(n, k)
  BY <1>2, <1>5 DEF Inside, MscMemory, Notifier, k
<1>7. Inside(k, ActivateNotifier(k))
  BY <1>6, ActivateNotifierEffect
<1> QED BY <1>4, <1>5, <1>6, <1>7, InsideTwice

\* A request on endpoint 0.
LEMMA DecodeEp0DataEffect ==
  ASSUME NEW m \in MscMemory
  PROVE  Inside(m, DecodeEp0Data(m))
<1> DEFINE a == [m EXCEPT !.c.active = TRUE, !.c.iStatus = Pending,
                          !.c.iCurrentState = "ESendMaxLun"]
           s == HwStop(m)
           r == ControllerReset(s)
           h == HwStart(r, TRUE)
<1>1. Inside(m, a)
  BY DEF Inside, MscMemory, Control, ControlStates, Sts
<1>2. s \in MscMemory /\ Inside(m, s)
  BY HwStopEffect DEF Inside
<1>3. \/ DecodeEp0Data(m) = a
      \/ DecodeEp0Data(m) \in {Answer(h, "Answered"), Answer(m, "Ignored")}
      \/ DecodeEp0Data(m) = ReadEp0Data(Answer(m, "None"))
      \/ DecodeEp0Data(m) = ReadEp0Data(Answer(m, "Ignored"))
  BY DEF DecodeEp0Data
<1> HIDE DEF a, s
<1>4. r \in MscMemory /\ Inside(s, r)
  BY <1>2, ConstantTypes DEF ControllerReset, Inside, MscMemory
<1> HIDE DEF r
<1>5. h \in MscMemory /\ Inside(m, h)
  BY <1>2, <1>4, HwStartEffect, InsideTwice DEF Inside
<1> HIDE DEF h
<1>6. Inside(m, Answer(h, "Answered")) /\ Inside(m, Answer(m, "Ignored"))
  BY <1>5, AnswerEffect, InsideTwice
<1>7. ASSUME NEW how \in {"None", "Ignored"} PROVE Inside(m, ReadEp0Data(Answer(m, how)))
  <2>1. Inside(m, Answer(m, how)) /\ Answer(m, how) \in MscMemory
    BY AnswerEffect DEF Inside
  <2>2. Inside(Answer(m, how), ReadEp0Data(Answer(m, how)))
    BY <2>1, ReadEp0DataEffect
  <2> QED BY <2>1, <2>2, InsideTwice
<1> QED BY <1>1, <1>3, <1>6, <1>7

\* RunL of the control interface.
LEMMA ControlRunLEffect ==
  ASSUME NEW m \in MscMemory
  PROVE  Inside(m, ControlRunL(m))
<1> DEFINE d == [m EXCEPT !.c.active = FALSE]
<1>1. d \in MscMemory /\ Inside(m, d)
  BY DEF Inside, MscMemory, Control
<1>2. ControlRunL(m) = DecodeEp0Data(d) \/ ControlRunL(m) = ReadEp0Data(d)
  BY DEF ControlRunL
<1> HIDE DEF d
<1>3. Inside(d, DecodeEp0Data(d)) /\ Inside(d, ReadEp0Data(d))
  BY <1>1, DecodeEp0DataEffect, ReadEp0DataEffect
<1> QED BY <1>1, <1>2, <1>3, InsideTwice

-----------------------------------------------------------------------------
\* USB Manager starts and stops the class.

\* The class controller's calls leave the thread, the bus and the driver alone, and
\* no object of the server is active after them that was not before.
Called(m, n) ==
  /\ n \in MscMemory /\ n.cc = m.cc /\ n.bus = m.bus /\ n.thread = m.thread /\ n.in = m.in
  /\ n.ldd = m.ldd
  /\ n.t.active => m.t.active
  /\ n.c.active => m.c.active
  /\ n.n.active => m.n.active

\* Calls one after the other.
LEMMA CalledTwice ==
  ASSUME NEW m, NEW n, NEW k, Called(m, n), Called(n, k) PROVE Called(m, k)
BY DEF Called

\* A call that returns at once.
LEMMA NotCalled == ASSUME NEW m \in MscMemory PROVE Called(m, m)
BY DEF Called

\* A call that returns an error and does nothing else.
LEMMA Returned ==
  ASSUME NEW m \in MscMemory, NEW e \in MscErrors
  PROVE  /\ Called(m, [m EXCEPT !.ret = e]) /\ [m EXCEPT !.ret = e].server = m.server
         /\ [m EXCEPT !.ret = e].ret = e
BY DEF Called, MscMemory

\* A session is opened only when there is none and the server runs.
LEMMA ConnectEffect ==
  ASSUME NEW m \in MscMemory, m.server.iSessionCount \in 0..1
  PROVE  /\ Called(m, Connect(m)) /\ Connect(m).ret \in MscErrors
         /\ Connect(m).server.iSessionCount \in 0..1
         /\ Connect(m).ret # KErrNone => Connect(m).server = m.server
         /\ Connect(m).ret = KErrNone =>
              /\ m.server.process # "Ending"
              /\ Connect(m).server = [process |-> m.server.process, iSessionCount |-> 1]
              /\ m.server.iSessionCount = 0
<1> DEFINE o == [m EXCEPT !.ret = KErrNone, !.server.iSessionCount = @ + 1]
<1>1. \/ Connect(m) = [m EXCEPT !.ret = KErrServerTerminated]
      \/ Connect(m) = [m EXCEPT !.ret = KErrInUse]
      \/ m.server.process # "Ending" /\ ~(m.server.iSessionCount > 0) /\ Connect(m) = o
  BY DEF Connect
<1>2. ASSUME m.server.process # "Ending", ~(m.server.iSessionCount > 0)
      PROVE  /\ Called(m, o) /\ o.ret = KErrNone /\ m.server.iSessionCount = 0
             /\ o.server = [process |-> m.server.process, iSessionCount |-> 1]
  <2>1. m.server \in Server /\ m.server.iSessionCount = 0
    BY <1>2 DEF MscMemory, Server
  <2>2. [m.server EXCEPT !.iSessionCount = @ + 1]
          = [process |-> m.server.process, iSessionCount |-> 1]
    BY <2>1 DEF Server
  <2> DEFINE s == [process |-> m.server.process, iSessionCount |-> 1]
  <2>3. s \in Server
    BY <2>1 DEF Server
  <2>4. o = [m EXCEPT !.ret = KErrNone, !.server = s]
    BY <2>2 DEF MscMemory
  <2> HIDE DEF s
  <2>5. Called(m, o) /\ o.ret = KErrNone /\ o.server = s
    BY <2>3, <2>4 DEF Called, MscMemory, MscErrors
  <2> QED BY <2>1, <2>5 DEF s
<1>3. /\ KErrServerTerminated \in MscErrors /\ KErrInUse \in MscErrors /\ KErrNone \in MscErrors
      /\ KErrServerTerminated # KErrNone /\ KErrInUse # KErrNone
  BY DEF MscErrors, KErrServerTerminated, KErrInUse, KErrNone
<1> HIDE DEF o
<1>4. ASSUME NEW e \in MscErrors, e # KErrNone, Connect(m) = [m EXCEPT !.ret = e]
      PROVE  /\ Called(m, Connect(m)) /\ Connect(m).ret = e /\ Connect(m).server = m.server
  BY <1>4, Returned
<1>5. CASE \E e \in MscErrors \ {KErrNone} : Connect(m) = [m EXCEPT !.ret = e]
  <2>1. PICK e \in MscErrors \ {KErrNone} : Connect(m) = [m EXCEPT !.ret = e]
    BY <1>5
  <2>2. Called(m, Connect(m)) /\ Connect(m).ret = e /\ Connect(m).server = m.server
    BY <1>4, <2>1
  <2>3. e \in MscErrors /\ e # KErrNone
    OBVIOUS
  <2> QED BY <2>2, <2>3
<1>6. CASE m.server.process # "Ending" /\ ~(m.server.iSessionCount > 0) /\ Connect(m) = o
  <2>1. /\ Called(m, o) /\ o.ret = KErrNone /\ m.server.iSessionCount = 0
        /\ o.server = [process |-> m.server.process, iSessionCount |-> 1]
    BY <1>2, <1>6
  <2>2. o.server.iSessionCount \in 0..1
    BY <2>1
  <2> QED BY <1>3, <1>6, <2>1, <2>2
<1> QED BY <1>1, <1>3, <1>5, <1>6

\* The unit is set up.
LEMMA SetupLogicalUnitEffect ==
  ASSUME NEW m \in MscMemory, m.in \in Answers
  PROVE  /\ Called(m, SetupLogicalUnit(m)) /\ SetupLogicalUnit(m).ret \in MscErrors
         /\ SetupLogicalUnit(m).server = m.server
<1>1. m.in.setup \in MscErrors
  BY DEF Answers
<1>2. ASSUME NEW s \in Scsi, NEW b \in BOOLEAN, NEW e \in MscErrors, NEW n,
             n = [m EXCEPT !.ret = e, !.image.iIsOpened = b, !.scsi = s]
      PROVE  Called(m, n) /\ n.ret \in MscErrors /\ n.server = m.server
  BY <1>2 DEF Called, MscMemory, Image
<1> DEFINE s == IF m.in.setup = KErrNone THEN NoProtocol ELSE m.scsi
           b == IF m.in.setup = KErrNone THEN FALSE ELSE m.image.iIsOpened
<1>3. s \in Scsi /\ b \in BOOLEAN
  BY ConstantTypes DEF MscMemory, Image
<1>4. SetupLogicalUnit(m) = [m EXCEPT !.ret = m.in.setup, !.image.iIsOpened = b, !.scsi = s]
  BY DEF SetupLogicalUnit
<1> HIDE DEF s, b
<1> QED BY <1>1, <1>2, <1>3, <1>4

\* The session is closed.
LEMMA CloseSessionEffect ==
  ASSUME NEW m \in MscMemory, m.server.iSessionCount = 1
  PROVE  /\ Called(m, CloseSession(m)) /\ CloseSession(m).ret = m.ret
         /\ CloseSession(m).server = [process |-> m.server.process, iSessionCount |-> 0]
<1> DEFINE s == [process |-> m.server.process, iSessionCount |-> 0]
<1>1. m.server \in Server
  BY DEF MscMemory
<1>2. s \in Server /\ [m.server EXCEPT !.iSessionCount = @ - 1] = s
  BY <1>1 DEF Server
<1>3. CloseSession(m) = [m EXCEPT !.server = s]
  BY <1>2 DEF CloseSession, MscMemory
<1> HIDE DEF s
<1>4. Called(m, CloseSession(m)) /\ CloseSession(m).ret = m.ret /\ CloseSession(m).server = s
  BY <1>2, <1>3 DEF Called, MscMemory
<1> QED BY <1>4 DEF s

\* A process has nothing active.
LEMMA NewProcessEffect ==
  ASSUME NEW m \in MscMemory
  PROVE  /\ Called(m, NewProcess(m))
         /\ NewProcess(m).server = [process |-> "Running", iSessionCount |-> 0]
<1> DEFINE s == [process |-> "Running", iSessionCount |-> 0]
           i == [m.image EXCEPT !.iIsOpened = FALSE]
<1>1. s \in Server /\ i \in Image
  <2>1. s \in Server
    BY DEF Server
  <2> HIDE DEF s
  <2>2. m.image \in Image
    BY DEF MscMemory
  <2>3. i \in Image
    BY <2>2 DEF Image
  <2> QED BY <2>1, <2>3
<1>2. ~InitTransport.active /\ ~InitControl.active /\ ~InitNotifier.active
  BY DEF InitTransport, InitControl, InitNotifier
<1>3. NewProcess(m) = [m EXCEPT !.server = s, !.t = InitTransport, !.c = InitControl,
                                !.n = InitNotifier, !.scsi = NoProtocol, !.image = i]
  BY DEF NewProcess, MscMemory
<1> HIDE DEF s, i
<1>4. Called(m, NewProcess(m)) /\ NewProcess(m).server = s
  BY <1>1, <1>2, <1>3, ConstantTypes DEF Called, MscMemory
<1> QED BY <1>4 DEF s

\* The server runs, or is still ending, if StartServer succeeds.
LEMMA StartServerEffect ==
  ASSUME NEW m \in MscMemory, m.in \in Answers, m.server.iSessionCount \in 0..1
  PROVE  /\ Called(m, StartServer(m)) /\ StartServer(m).server.iSessionCount \in 0..1
         /\ StartServer(m).ret = KErrNone => StartServer(m).server.process # "None"
<1>1. m.in.process \in MscErrors /\ KErrNone \in MscErrors
  BY DEF Answers, MscErrors
<1> DEFINE p == NewProcess(m)
<1>2. \/ m.server.process # "None" /\ StartServer(m) = [m EXCEPT !.ret = KErrNone]
      \/ StartServer(m) = [p EXCEPT !.ret = KErrNone]
      \/ m.in.process # KErrNone /\ StartServer(m) = [m EXCEPT !.ret = m.in.process]
  BY DEF StartServer
<1>3. /\ Called(m, p) /\ p \in MscMemory
      /\ p.server = [process |-> "Running", iSessionCount |-> 0]
  BY NewProcessEffect DEF Called
<1> HIDE DEF p
<1>4. CASE m.server.process # "None" /\ StartServer(m) = [m EXCEPT !.ret = KErrNone]
  <2>1. Called(m, StartServer(m)) /\ StartServer(m).server = m.server
    BY <1>1, <1>4, Returned
  <2> QED BY <1>4, <2>1
<1>5. CASE StartServer(m) = [p EXCEPT !.ret = KErrNone]
  <2>1. Called(p, StartServer(m)) /\ StartServer(m).server = p.server
    BY <1>1, <1>3, <1>5, Returned
  <2>2. p.server.iSessionCount \in 0..1 /\ p.server.process # "None"
    BY <1>3
  <2>3. Called(m, StartServer(m))
    BY <1>3, <2>1, CalledTwice
  <2> QED BY <2>1, <2>2, <2>3
<1>6. CASE m.in.process # KErrNone /\ StartServer(m) = [m EXCEPT !.ret = m.in.process]
  <2>1. /\ Called(m, StartServer(m)) /\ StartServer(m).server = m.server
        /\ StartServer(m).ret = m.in.process
    BY <1>1, <1>6, Returned
  <2> QED BY <1>6, <2>1
<1> QED BY <1>2, <1>4, <1>5, <1>6

\* The session that sets up the unit is closed again.
LEMMA SetupUnitsEffect ==
  ASSUME NEW m \in MscMemory, m.in \in Answers, m.server.iSessionCount \in 0..1
  PROVE  /\ Called(m, SetupUnits(m)) /\ SetupUnits(m).server.iSessionCount \in 0..1
         /\ SetupUnits(m).server.process = m.server.process
<1> DEFINE n == Connect(m)
           u == SetupLogicalUnit(n)
<1>1. /\ Called(m, n) /\ n.ret \in MscErrors
      /\ n.server.iSessionCount \in 0..1
      /\ n.ret # KErrNone => n.server = m.server
      /\ n.ret = KErrNone => n.server = [process |-> m.server.process, iSessionCount |-> 1]
  BY ConnectEffect
<1>2. SetupUnits(m) = IF n.ret # KErrNone THEN n ELSE CloseSession(u)
  BY DEF SetupUnits
<1> HIDE DEF n
<1>3. n \in MscMemory /\ n.in \in Answers
  BY <1>1 DEF Called
<1>4. Called(n, u) /\ u.server = n.server /\ u \in MscMemory
  BY <1>3, SetupLogicalUnitEffect DEF Called
<1> HIDE DEF u
<1>5. CASE n.ret # KErrNone
  BY <1>1, <1>2, <1>5
<1>6. CASE n.ret = KErrNone
  <2>1. u.server.iSessionCount = 1 /\ u.server.process = m.server.process
    BY <1>1, <1>4, <1>6
  <2>2. /\ Called(u, CloseSession(u))
        /\ CloseSession(u).server = [process |-> u.server.process, iSessionCount |-> 0]
    BY <1>4, <2>1, CloseSessionEffect
  <2>3. Called(m, CloseSession(u))
    BY <1>1, <1>4, <2>2, CalledTwice
  <2>4. CloseSession(u).server.iSessionCount \in 0..1
        /\ CloseSession(u).server.process = m.server.process
    BY <2>1, <2>2
  <2> QED BY <1>2, <1>6, <2>3, <2>4
<1> QED BY <1>5, <1>6

\* A session whose start succeeds has the driver open; otherwise nothing is done.
SessionStarted(m, n) ==
  /\ n \in MscMemory /\ n.server = m.server /\ n.cc = m.cc
  /\ \/ n.ret = KErrNone /\ n.ldd.open /\ n.t.iInterfaceConfigured
     \/ n.ret # KErrNone /\ Called(m, n)

\* The property is published.
LEMMA ShownEffect ==
  ASSUME NEW m \in MscMemory, NEW b \in BOOLEAN
  PROVE  Called(m, [m EXCEPT !.shown = b]) /\ [m EXCEPT !.shown = b].server = m.server
BY DEF Called, MscMemory

\* The driver is opened.
LEMMA OpenedEffect ==
  ASSUME NEW m \in MscMemory, NEW o, o = [m EXCEPT !.ldd.open = TRUE]
  PROVE  /\ o \in MscMemory /\ o.server = m.server /\ o.cc = m.cc /\ o.c = m.c
         /\ o.ldd.open
BY DEF MscMemory, Ldd

\* The interface is set up.
LEMMA ConfiguredEffect ==
  ASSUME NEW m \in MscMemory, NEW n,
         n = [m EXCEPT !.t.iInterfaceConfigured = TRUE, !.ret = KErrNone]
  PROVE  /\ n \in MscMemory /\ n.server = m.server /\ n.cc = m.cc
         /\ n.ret = KErrNone /\ n.ldd = m.ldd /\ n.t.iInterfaceConfigured
BY DEF MscMemory, Transport, MscErrors

\* The device is configured meanwhile.
LEMMA RacedEffect ==
  ASSUME NEW m \in MscMemory, NEW n,
         n = [m EXCEPT !.bus = "Configured", !.ldd.states = <<"Configured">>]
  PROVE  /\ n \in MscMemory /\ n.server = m.server /\ n.cc = m.cc /\ n.c = m.c
         /\ n.ldd.open = m.ldd.open
<1> DEFINE l == [m.ldd EXCEPT !.states = <<"Configured">>]
<1>1. m.ldd \in Ldd
  BY DEF MscMemory
<1>2. "Configured" \in Reported /\ "Configured" \in BusStates
  BY DEF Reported, BusStates
<1>3. <<"Configured">> \in Seq(Reported)
  BY <1>2
<1>4. l \in Ldd /\ l.open = m.ldd.open
  BY <1>1, <1>3 DEF Ldd
<1>5. n = [m EXCEPT !.bus = "Configured", !.ldd = l]
  BY DEF MscMemory
<1> HIDE DEF l
<1> QED BY <1>2, <1>4, <1>5 DEF MscMemory

\* A transport that is started has the driver open.
LEMMA TransportStartEffect ==
  ASSUME NEW m \in MscMemory, NEW raced \in BOOLEAN, m.in \in Answers,
         ~m.t.active, ~m.c.active, ~m.n.active
  PROVE  SessionStarted(m, TransportStart(m, raced))
<1> DEFINE a == [m EXCEPT !.ldd.open = TRUE]
           o == ActivateNotifier(a)
           r == IF raced THEN [o EXCEPT !.bus = "Configured", !.ldd.states = <<"Configured">>]
                ELSE o
           d == IF r.bus = "Configured" THEN HwStart(r, FALSE) ELSE r
           n == [d EXCEPT !.t.iInterfaceConfigured = TRUE, !.ret = KErrNone]
           f == [m EXCEPT !.ret = m.in.ldd]
<1>1. \/ m.in.ldd # KErrNone /\ TransportStart(m, raced) = f
      \/ TransportStart(m, raced) = n
  BY DEF TransportStart
<1>2. a \in MscMemory /\ a.server = m.server /\ a.cc = m.cc /\ a.ldd.open
  BY OpenedEffect
<1>3. m.in.ldd \in MscErrors
  BY DEF Answers
<1>4. Called(m, f) /\ f.server = m.server /\ f.ret = m.in.ldd
  BY <1>3, Returned
<1> HIDE DEF a, f
<1>5. o \in MscMemory /\ o.server = m.server /\ o.cc = m.cc /\ o.ldd.open
  BY <1>2, ActivateNotifierEffect DEF Inside
<1> HIDE DEF o
<1>6. r \in MscMemory /\ r.server = m.server /\ r.cc = m.cc /\ r.ldd.open
  <2> DEFINE c == [o EXCEPT !.bus = "Configured", !.ldd.states = <<"Configured">>]
  <2>1. c \in MscMemory /\ c.server = o.server /\ c.cc = o.cc /\ c.ldd.open = o.ldd.open
    BY <1>5, RacedEffect
  <2>2. r = c \/ r = o
    OBVIOUS
  <2> HIDE DEF c, r
  <2> QED BY <1>5, <2>1, <2>2
<1> HIDE DEF r
<1>7. d \in MscMemory /\ d.server = m.server /\ d.cc = m.cc /\ d.ldd.open
  <2>1. d = HwStart(r, FALSE) \/ d = r
    OBVIOUS
  <2>2. Inside(r, HwStart(r, FALSE))
    BY <1>6, HwStartEffect
  <2> HIDE DEF d
  <2> QED BY <1>6, <2>1, <2>2 DEF Inside
<1> HIDE DEF d
<1>8. /\ n \in MscMemory /\ n.server = d.server /\ n.cc = d.cc
      /\ n.ret = KErrNone /\ n.ldd = d.ldd /\ n.t.iInterfaceConfigured
  BY <1>7, ConfiguredEffect
<1> HIDE DEF n
<1>9. SessionStarted(m, n)
  BY <1>7, <1>8 DEF SessionStarted
<1>10. m.in.ldd # KErrNone => SessionStarted(m, f)
  BY <1>4 DEF SessionStarted, Called
<1> QED BY <1>1, <1>9, <1>10

\* A start of the class succeeds, and the server has one session and the driver is
\* open, or it fails, and the driver is as it was.
StartedOrNot(m, n) ==
  /\ n \in MscMemory
  /\ \/ /\ n.cc.iState = "EUsbServiceStarted"
        /\ n.ldd.open /\ n.t.iInterfaceConfigured
        /\ n.server = [process |-> "Running", iSessionCount |-> 1]
     \/ /\ n.cc.iState = "EUsbServiceIdle" /\ n.ldd = m.ldd /\ n.thread = m.thread
        /\ ~n.t.active /\ ~n.c.active /\ ~n.n.active
        /\ n.server.iSessionCount \in 0..1

\* The state of the class controller.
LEMMA ControllerState ==
  ASSUME NEW m \in MscMemory, NEW st \in {"EUsbServiceIdle", "EUsbServiceStarted"}, NEW n,
         n = [m EXCEPT !.cc.iState = st]
  PROVE  /\ n \in MscMemory /\ n.ldd = m.ldd /\ n.thread = m.thread /\ n.t = m.t
         /\ n.c = m.c /\ n.n = m.n /\ n.server = m.server /\ n.cc.iState = st
BY DEF MscMemory, ClassController

\* Start of the class controller.
LEMMA ClassControllerStartEffect ==
  ASSUME NEW m \in MscMemory, NEW raced \in BOOLEAN, m.in \in Answers,
         ~m.t.active, ~m.c.active, ~m.n.active,
         m.server.iSessionCount \in 0..1, m.cc.iState = "EUsbServiceIdle"
  PROVE  StartedOrNot(m, ClassControllerStart(m, raced))
<1> DEFINE served == StartServer(m)
           setup  == SetupUnits(served)
           opened == Connect(setup)
           shows  == [opened EXCEPT !.shown = TRUE]
           done   == TransportStart(shows, raced)
           n      == [done EXCEPT !.cc.iState = IF done.ret = KErrNone
                                                THEN "EUsbServiceStarted"
                                                ELSE "EUsbServiceIdle"]
<1>1. \/ ClassControllerStart(m, raced) = served
      \/ ClassControllerStart(m, raced) = setup
      \/ opened.ret # KErrNone /\ ClassControllerStart(m, raced) = opened
      \/ /\ served.ret = KErrNone /\ opened.ret = KErrNone
         /\ ClassControllerStart(m, raced) = n
  BY DEF ClassControllerStart, SessionStart
<1>2. /\ Called(m, served) /\ served.server.iSessionCount \in 0..1
      /\ served.ret = KErrNone => served.server.process # "None"
  BY StartServerEffect
<1> HIDE DEF served
<1>3. served \in MscMemory /\ served.in \in Answers
  BY <1>2 DEF Called
<1>4. /\ Called(served, setup) /\ setup.server.iSessionCount \in 0..1
      /\ setup.server.process = served.server.process
  BY <1>2, <1>3, SetupUnitsEffect
<1> HIDE DEF setup
<1>5. setup \in MscMemory /\ Called(m, setup)
  BY <1>2, <1>4, CalledTwice DEF Called
<1>6. /\ Called(setup, opened) /\ opened.server.iSessionCount \in 0..1
      /\ opened.ret = KErrNone =>
           /\ setup.server.process # "Ending"
           /\ opened.server = [process |-> setup.server.process, iSessionCount |-> 1]
  BY <1>4, <1>5, ConnectEffect
<1> HIDE DEF opened
<1>7. opened \in MscMemory /\ Called(m, opened)
  BY <1>5, <1>6, CalledTwice DEF Called
<1>8. /\ shows \in MscMemory /\ Called(m, shows) /\ shows.server = opened.server
  BY <1>7, ShownEffect, CalledTwice DEF Called
<1> HIDE DEF shows
<1>9. SessionStarted(shows, done)
  <2>1. shows.in \in Answers /\ ~shows.t.active /\ ~shows.c.active /\ ~shows.n.active
    BY <1>8 DEF Called
  <2> QED BY <1>8, <2>1, TransportStartEffect
<1> HIDE DEF done
<1>10. ASSUME NEW k, Called(m, k), k.server.iSessionCount \in 0..1 PROVE StartedOrNot(m, k)
  BY <1>10 DEF Called, StartedOrNot
<1>11. ASSUME served.ret = KErrNone, opened.ret = KErrNone PROVE StartedOrNot(m, n)
  <2>1. opened.server = [process |-> "Running", iSessionCount |-> 1]
    <3>1. setup.server.process \in {"None", "Running", "Ending"}
      BY <1>5 DEF MscMemory, Server
    <3>2. setup.server.process = "Running"
      BY <1>2, <1>4, <1>6, <1>11, <3>1
    <3> QED BY <1>6, <1>11, <3>2
  <2>2. CASE done.ret = KErrNone
    <3>1. n = [done EXCEPT !.cc.iState = "EUsbServiceStarted"]
      BY <2>2
    <3> HIDE DEF n
    <3>2. /\ n \in MscMemory /\ n.ldd = done.ldd /\ n.t = done.t /\ n.server = done.server
          /\ n.cc.iState = "EUsbServiceStarted"
      BY <1>9, <3>1, ControllerState DEF SessionStarted
    <3> QED BY <1>8, <1>9, <2>1, <2>2, <3>2 DEF SessionStarted, StartedOrNot
  <2>3. CASE done.ret # KErrNone
    <3>1. n = [done EXCEPT !.cc.iState = "EUsbServiceIdle"]
      BY <2>3
    <3> HIDE DEF n
    <3>2. /\ n \in MscMemory /\ n.ldd = done.ldd /\ n.thread = done.thread /\ n.t = done.t
          /\ n.c = done.c /\ n.n = done.n /\ n.server = done.server
          /\ n.cc.iState = "EUsbServiceIdle"
      BY <1>9, <3>1, ControllerState DEF SessionStarted
    <3>3. Called(m, done)
      BY <1>8, <1>9, <2>3, CalledTwice DEF SessionStarted
    <3>4. n.server.iSessionCount \in 0..1
      BY <1>8, <1>9, <2>1, <3>2 DEF SessionStarted
    <3> QED BY <3>2, <3>3, <3>4 DEF Called, StartedOrNot
  <2> QED BY <2>2, <2>3
<1> HIDE DEF n
<1> QED BY <1>1, <1>2, <1>4, <1>5, <1>6, <1>7, <1>10, <1>11

-----------------------------------------------------------------------------
\* A transport that is stopped has nothing with the driver.
LEMMA TransportStopEffect ==
  ASSUME NEW m \in MscMemory, m.t.iInterfaceConfigured
  PROVE  LET n == TransportStop(m) IN
         /\ n \in MscMemory /\ n.ldd = InitLdd /\ n.thread = m.thread /\ n.server = m.server
         /\ n.cc = m.cc /\ n.bus = m.bus
         /\ ~n.t.active /\ ~n.c.active /\ ~n.n.active
<1> DEFINE c == CancelControl(m)
           t == CancelTransport(c)
           d == [t EXCEPT !.n.active = FALSE]
           n == [d EXCEPT !.t.iInterfaceConfigured = FALSE, !.ldd = InitLdd]
<1>1. n = TransportStop(m)
  BY DEF TransportStop
<1>2. Inside(m, c) /\ c.c = InitControl /\ c.thread = m.thread
  BY CancelControlEffect
<1> HIDE DEF c
<1>3. c \in MscMemory
  BY <1>2 DEF Inside
<1>4. /\ t \in MscMemory /\ Inside(m, t) /\ ~t.t.active /\ t.c = InitControl
      /\ t.thread = m.thread
  BY <1>2, <1>3, CancelTransportEffect, InsideTwice DEF TransportOnly, Inside
<1> HIDE DEF t
<1>5. /\ d \in MscMemory /\ Inside(t, d) /\ d.t = t.t /\ d.c = t.c /\ d.thread = t.thread
      /\ ~d.n.active
  BY <1>4 DEF MscMemory, Notifier, Inside
<1> HIDE DEF d
<1>6. /\ n \in MscMemory /\ n.ldd = InitLdd /\ n.server = d.server /\ n.cc = d.cc
      /\ n.bus = d.bus /\ n.thread = d.thread /\ n.c = d.c /\ n.n = d.n
      /\ n.t.active = d.t.active
  BY <1>5, ConstantTypes DEF MscMemory, Transport
<1> HIDE DEF n
<1>7. ~InitControl.active
  BY DEF InitControl
<1>8. /\ n \in MscMemory /\ n.ldd = InitLdd /\ n.thread = m.thread /\ n.server = m.server
      /\ n.cc = m.cc /\ n.bus = m.bus
      /\ ~n.t.active /\ ~n.c.active /\ ~n.n.active
  BY <1>4, <1>5, <1>6, <1>7 DEF Inside
<1> QED BY <1>1, <1>8

\* The objects of a server that ends stay as active as they were.
LEMMA SessionShutdownEffect ==
  ASSUME NEW m \in MscMemory
  PROVE  LET n == SessionShutdown(m) IN
         /\ Called(m, n) /\ n.server.iSessionCount = m.server.iSessionCount
<1> DEFINE s == [m.server EXCEPT !.process = "Ending"]
           i == [m.image EXCEPT !.iIsOpened = FALSE]
           t == [InitTransport EXCEPT !.active = m.t.active]
           c == [InitControl EXCEPT !.active = m.c.active]
           o == [InitNotifier EXCEPT !.active = m.n.active]
<1>1. /\ m.server \in Server /\ m.image \in Image /\ m.t.active \in BOOLEAN
      /\ m.c.active \in BOOLEAN /\ m.n.active \in BOOLEAN
  BY DEF MscMemory, Transport, Control, Notifier
<1>2. s \in Server /\ s.iSessionCount = m.server.iSessionCount
  BY <1>1 DEF Server
<1>3. i \in Image
  BY <1>1 DEF Image
<1>4. t \in Transport /\ t.active = m.t.active
  BY <1>1, ConstantTypes DEF Transport
<1>5. c \in Control /\ c.active = m.c.active
  BY <1>1, ConstantTypes DEF Control
<1>6. o \in Notifier /\ o.active = m.n.active
  BY <1>1, ConstantTypes DEF Notifier
<1>7. SessionShutdown(m) = [m EXCEPT !.server = s, !.scsi = NoProtocol, !.image = i,
                                     !.t = t, !.c = c, !.n = o]
  BY DEF SessionShutdown, MscMemory
<1> HIDE DEF s, i, t, c, o
<1>8. Called(m, SessionShutdown(m)) /\ SessionShutdown(m).server = s
  BY <1>2, <1>3, <1>4, <1>5, <1>6, <1>7, ConstantTypes DEF Called, MscMemory
<1> QED BY <1>2, <1>8

\* A class that has been stopped.
Stopped(n) ==
  /\ n \in MscMemory /\ n.ldd = InitLdd
  /\ n.cc.iState = "EUsbServiceIdle" /\ n.server.iSessionCount = 0
  /\ ~n.t.active /\ ~n.c.active /\ ~n.n.active

\* Stop of the class controller.
LEMMA ClassControllerStopEffect ==
  ASSUME NEW m \in MscMemory, m.t.iInterfaceConfigured, m.server.iSessionCount = 1
  PROVE  Stopped(ClassControllerStop(m)) /\ ClassControllerStop(m).thread = m.thread
<1> DEFINE a == [m EXCEPT !.shown = FALSE, !.ret = KErrNone]
           t == TransportStop(a)
           s == SessionShutdown(t)
           k == CloseSession(s)
           n == [k EXCEPT !.cc = [iState |-> "EUsbServiceIdle", stopping |-> FALSE]]
<1>1. n = ClassControllerStop(m)
  BY DEF ClassControllerStop, SessionStop
<1>2. a \in MscMemory /\ a.t = m.t /\ a.server = m.server /\ a.thread = m.thread
  BY DEF MscMemory, MscErrors
<1> HIDE DEF a
<1>3. /\ t \in MscMemory /\ t.ldd = InitLdd /\ t.thread = a.thread /\ t.server = a.server
      /\ ~t.t.active /\ ~t.c.active /\ ~t.n.active
  BY <1>2, TransportStopEffect
<1> HIDE DEF t
<1>4. Called(t, s) /\ s.server.iSessionCount = 1
  BY <1>2, <1>3, SessionShutdownEffect
<1> HIDE DEF s
<1>5. Called(s, k) /\ k.server.iSessionCount = 0
  <2>1. s \in MscMemory
    BY <1>4 DEF Called
  <2>2. Called(s, k) /\ k.server = [process |-> s.server.process, iSessionCount |-> 0]
    BY <1>4, <2>1, CloseSessionEffect
  <2> HIDE DEF k
  <2>3. k.server.iSessionCount = 0
    BY <2>2
  <2> QED BY <2>2, <2>3
<1> HIDE DEF k
<1>6. Called(t, k)
  BY <1>4, <1>5, CalledTwice
<1>7. /\ k \in MscMemory /\ k.ldd = InitLdd /\ k.thread = m.thread
      /\ ~k.t.active /\ ~k.c.active /\ ~k.n.active
  BY <1>2, <1>3, <1>6 DEF Called
<1>8. /\ n \in MscMemory /\ n.ldd = k.ldd /\ n.thread = k.thread /\ n.server = k.server
      /\ n.t = k.t /\ n.c = k.c /\ n.n = k.n /\ n.cc.iState = "EUsbServiceIdle"
  BY <1>7 DEF MscMemory, ClassController
<1> HIDE DEF n
<1>9. Stopped(n) /\ n.thread = m.thread
  BY <1>5, <1>7, <1>8 DEF Stopped
<1> QED BY <1>1, <1>9
=============================================================================
