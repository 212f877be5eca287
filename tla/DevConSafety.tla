---------------------------- MODULE DevConSafety ----------------------------
(***************************************************************************)
(* Two theorems about usbdevcon, for every set of personalities, mapping   *)
(* of their ids, requests of the host and answers of the watcher:          *)
(* Ep0InStep and SuccessIsReal.                                            *)
(*                                                                         *)
(* A success that the host reads must come from the choice it made last.   *)
(* Between the two are the packet in the reader, the request of            *)
(* CSetPersonality, the bus that ends a request at any point, and the      *)
(* process that may end and come back: DevConInv says how they agree.      *)
(***************************************************************************)
EXTENDS DevConProperties, TLAPS

Code == Statuses \cup {KErrNotSupported}
ActiveObject == [active : BOOLEAN, iStatus : Code]
Packet == Request \cup {NoRequest}
Remote == [ iLastResult : Results, active : BOOLEAN, iStatus : Code,
            id : DeviceIds \cup {"none"} ]
Objects == [ timer : ActiveObject, watching : BOOLEAN, machine : MachineStates,
             reader : ActiveObject, writer : ActiveObject, packet : Packet,
             control : BOOLEAN, remote : Remote ]
Choice == {"none"} \cup {Mapping[i] : i \in HostIds}
Host == [request : Packet, pending : BOOLEAN, asked : Choice]

\* Type invariant.
Typed ==
  /\ process \in {"None", "Created", "Up"}
  /\ devcon \in Objects /\ host \in Host /\ starter \in Starter
  /\ bus \in BusStates /\ states \in Seq(BusStates \cup {"Alternate"})

\* The starter creates a process only when there is none.
OneProcess ==
  /\ process = "Created" => starter.iState = "WaitingRendezvous" /\ starter.iStatus = Pending
  /\ process = "Up" => \/ starter.iState = "WaitingRendezvous"
                       \/ starter.iState = "Running" /\ starter.iStatus = Pending
  /\ process # "Up" => devcon = InitDevCon

\* The objects on endpoint 0 are in step, and the timer runs only while they are stopped.
InStep(d) ==
  /\ d.reader.active <=> d.machine \in {"Setup", "Data"}
  /\ d.writer.active <=> d.machine = "Status"
  /\ d.control <=> d.machine # "None"
  /\ d.timer = Waits => d.machine = "None"

\* The request the host waits for is the one in the reader, and while it waits to be
\* read nothing is left of an earlier one.
RequestInStep ==
  /\ host.pending => host.request # NoRequest
  /\ host.request # NoRequest =>
       /\ \A i \in 1..Len(states) : states[i] = "Alternate"
       /\ host.request.name # "GetLastResult" => host.asked = "none"
       /\ devcon.control => ~Ready(devcon.timer)
       /\ host.pending => /\ Ready(devcon.reader) => devcon.reader.iStatus # KErrNone
                          /\ Ready(devcon.writer) => devcon.writer.iStatus # KErrNone
       /\ ~host.pending => /\ devcon.packet = host.request /\ devcon.control
                           /\ Ready(devcon.reader) => devcon.reader.iStatus = KErrNone
                           /\ ~Ready(devcon.writer)
  /\ devcon.packet # NoRequest /\ devcon.packet.name # "GetLastResult" => host.asked = "none"

\* The choice the host made is the one CSetPersonality is at, or has ended with.
ChoiceInStep ==
  host.asked # "none" =>
    /\ devcon.remote.active =>
         /\ devcon.remote.id = host.asked
         /\ devcon.remote.iStatus = KErrNone => running = host.asked
    /\ devcon.remote.iLastResult = "ESuccess" => running = host.asked

\* The inductive invariant.
DevConInv == Typed /\ OneProcess /\ InStep(devcon) /\ RequestInStep /\ ChoiceInStep

-----------------------------------------------------------------------------
\* The memory of a handler.
Mem == [ d : Objects, err : Code, answer : {"None", "Stall", "Status"}, in : [current : Code] ]

USE DEF Codes, Statuses, Code

\* An idle and a waiting request are typed; neither is ready.
LEMMA Requesting ==
  /\ Idle \in ActiveObject /\ Waits \in ActiveObject
  /\ ~Ready(Idle) /\ ~Ready(Waits) /\ ~Idle.active /\ Waits.active /\ Idle # Waits
BY DEF Idle, Waits, ActiveObject, Ready, Pending, KErrNone

\* What is not NoRequest is a request with a name.
LEMMA RequestNames ==
  ASSUME NEW r \in Packet
  PROVE  r # NoRequest <=> r \in Request
<1>1. \A q \in Request : q.name # "none"
  BY DEF Request
<1>2. NoRequest.name = "none"
  BY DEF NoRequest
<1> QED BY <1>1, <1>2 DEF Packet

\* A new process.
LEMMA InitDevConType ==
  /\ InitDevCon \in Objects /\ InStep(InitDevCon)
  /\ InitDevCon.packet = NoRequest /\ ~InitDevCon.control
  /\ ~Ready(InitDevCon.reader) /\ ~Ready(InitDevCon.writer) /\ ~Ready(InitDevCon.timer)
  /\ InitDevCon.timer # Waits /\ InitDevCon.reader # Waits /\ InitDevCon.writer # Waits
  /\ ~InitDevCon.timer.active /\ ~InitDevCon.remote.active
  /\ InitDevCon.remote.iLastResult # "ESuccess"
<1>1. InitRemote \in Remote /\ ~InitRemote.active /\ InitRemote.iLastResult # "ESuccess"
  BY DEF InitRemote, Remote, Results, KErrNone
<1>2. InitDevCon \in Objects
  BY <1>1, Requesting DEF InitDevCon, Objects, MachineStates, Packet
<1> QED BY <1>1, <1>2, Requesting DEF InitDevCon, InStep

\* MachineStop leaves nothing in the state machine, and the rest alone.
LEMMA MachineStops ==
  ASSUME NEW m \in Mem
  PROVE  /\ MachineStop(m) \in Mem /\ MachineStop(m).answer = m.answer
         /\ MachineStop(m).d.reader = Idle /\ MachineStop(m).d.writer = Idle
         /\ MachineStop(m).d.packet = NoRequest /\ MachineStop(m).d.machine = "None"
         /\ MachineStop(m).d.timer = m.d.timer /\ MachineStop(m).d.control = m.d.control
         /\ MachineStop(m).d.remote = m.d.remote /\ MachineStop(m).d.watching = m.d.watching
<1>1. m.d \in Objects /\ m = [d |-> m.d, err |-> m.err, answer |-> m.answer, in |-> m.in]
  BY DEF Mem
<1>2. [m.d EXCEPT !.reader = Idle, !.writer = Idle, !.packet = NoRequest, !.machine = "None"]
        \in Objects
  BY <1>1, Requesting DEF Objects, MachineStates, Packet
<1> QED BY <1>1, <1>2 DEF MachineStop, Mem, Objects

\* Read reads unless it does, and leaves the rest alone.
LEMMA Reads ==
  ASSUME NEW m \in Mem
  PROVE  /\ Read(m) \in Mem /\ Read(m).answer = m.answer
         /\ Read(m).d.reader = IF m.d.reader.active THEN m.d.reader ELSE Waits
         /\ Read(m).d.writer = m.d.writer /\ Read(m).d.packet = m.d.packet
         /\ Read(m).d.machine = m.d.machine
         /\ Read(m).d.timer = m.d.timer /\ Read(m).d.control = m.d.control
         /\ Read(m).d.remote = m.d.remote /\ Read(m).d.watching = m.d.watching
<1>1. m.d \in Objects
  BY DEF Mem
<1>2. [m.d EXCEPT !.reader = Waits] \in Objects
  BY <1>1, Requesting DEF Objects
<1> QED BY <1>1, <1>2 DEF Read, Mem, Objects

\* Write writes unless it does, and leaves the rest alone.
LEMMA Writes ==
  ASSUME NEW m \in Mem
  PROVE  /\ Write(m) \in Mem /\ Write(m).answer = m.answer
         /\ Write(m).d.writer = IF m.d.writer.active THEN m.d.writer ELSE Waits
         /\ Write(m).d.reader = m.d.reader /\ Write(m).d.packet = m.d.packet
         /\ Write(m).d.machine = m.d.machine
         /\ Write(m).d.timer = m.d.timer /\ Write(m).d.control = m.d.control
         /\ Write(m).d.remote = m.d.remote /\ Write(m).d.watching = m.d.watching
<1>1. m.d \in Objects
  BY DEF Mem
<1>2. [m.d EXCEPT !.writer = Waits] \in Objects
  BY <1>1, Requesting DEF Objects
<1> QED BY <1>1, <1>2 DEF Write, Mem, Objects

\* MachineStart reads a setup packet, with nothing left of what was before.
LEMMA MachineStarts ==
  ASSUME NEW m \in Mem,
         m.d.machine = "None" => ~m.d.reader.active /\ ~m.d.writer.active
  PROVE  /\ MachineStart(m) \in Mem /\ MachineStart(m).answer = m.answer
         /\ MachineStart(m).d.reader = Waits /\ ~MachineStart(m).d.writer.active
         /\ MachineStart(m).d.packet \in {m.d.packet, NoRequest}
         /\ m.d.machine # "None" => MachineStart(m).d.packet = NoRequest
         /\ MachineStart(m).d.machine = "Setup"
         /\ MachineStart(m).d.timer = m.d.timer /\ MachineStart(m).d.control = m.d.control
         /\ MachineStart(m).d.remote = m.d.remote
<1> DEFINE s == IF m.d.machine # "None" THEN MachineStop(m) ELSE m
           t == [s EXCEPT !.d.machine = "Setup"]
<1>1. /\ s \in Mem /\ ~s.d.reader.active /\ ~s.d.writer.active /\ s.answer = m.answer
      /\ s.d.packet \in {m.d.packet, NoRequest} /\ s.d.timer = m.d.timer
      /\ m.d.machine # "None" => s.d.packet = NoRequest
      /\ s.d.control = m.d.control /\ s.d.remote = m.d.remote
  BY MachineStops, Requesting
<1>2. s.d \in Objects
  BY <1>1 DEF Mem
<1>3. [s.d EXCEPT !.machine = "Setup"] \in Objects
  BY <1>2 DEF Objects, MachineStates
<1>4. /\ t \in Mem /\ t.d = [s.d EXCEPT !.machine = "Setup"] /\ t.answer = s.answer
  BY <1>1, <1>3 DEF Mem
<1>5. /\ t.d.reader = s.d.reader /\ t.d.writer = s.d.writer /\ t.d.packet = s.d.packet
      /\ t.d.machine = "Setup" /\ t.d.timer = s.d.timer /\ t.d.control = s.d.control
      /\ t.d.remote = s.d.remote
  BY <1>4, <1>2 DEF Objects
<1>6. MachineStart(m) = Read(t)
  BY DEF MachineStart
<1> HIDE DEF t, s
<1>7. /\ Read(t) \in Mem /\ Read(t).answer = t.answer
      /\ Read(t).d.reader = IF t.d.reader.active THEN t.d.reader ELSE Waits
      /\ Read(t).d.writer = t.d.writer /\ Read(t).d.packet = t.d.packet
      /\ Read(t).d.machine = t.d.machine /\ Read(t).d.timer = t.d.timer
      /\ Read(t).d.control = t.d.control /\ Read(t).d.remote = t.d.remote
  BY <1>4, Reads
<1> QED BY <1>1, <1>4, <1>5, <1>6, <1>7

-----------------------------------------------------------------------------
\* A request handled.

\* What a choice that is accepted leaves behind.
InProgress(r, id) ==
  r.active /\ r.iStatus = Pending /\ r.id = id /\ r.iLastResult = "EDataTransferInProgress"

\* Only GetAll and SetPersonality touch the result, and a choice that is accepted is
\* the one in progress.
LEMMA DoHandles ==
  ASSUME NEW n, n.remote \in Remote, n.err \in Code, NEW q \in Packet,
         n = [remote |-> n.remote, err |-> n.err, in |-> n.in]
  PROVE  /\ DoHandle(n, q).remote \in Remote /\ DoHandle(n, q).err \in Code
         /\ q.name \notin {"GetAllPersonalities", "SetPersonality"} =>
              DoHandle(n, q).remote = n.remote
         /\ q.name = "SetPersonality" /\ DoHandle(n, q).err = KErrNone =>
              InProgress(DoHandle(n, q).remote, Mapping[q.id])
<1> DEFINE R(x) == [n.remote EXCEPT !.iLastResult = x]
           S == [n.remote EXCEPT !.active = TRUE, !.iStatus = Pending, !.id = Mapping[q.id]]
           T == [S EXCEPT !.iLastResult = "EDataTransferInProgress"]
<1>1. \A x \in Results : R(x) \in Remote
  BY DEF Remote
<1>2. KErrNone # KErrGeneral /\ {KErrNone, KErrGeneral} \subseteq Code
  BY DEF KErrNone, KErrGeneral
<1>3. CASE q.name = "GetAllPersonalities"
  <2>1. DoHandle(n, q) = GetPersonalities(n, q)
    BY <1>3 DEF DoHandle
  <2>2. \/ /\ GetPersonalities(n, q).remote = R("ESuccess")
           /\ GetPersonalities(n, q).err = KErrNone
        \/ /\ GetPersonalities(n, q).remote = R("EUndefinedError")
           /\ GetPersonalities(n, q).err = KErrGeneral
    BY DEF GetPersonalities, Handled, Refused, Result
  <2> QED BY <1>3, <2>1, <2>2, <1>1, <1>2 DEF Results
<1>4. CASE q.name = "GetLastResult"
  <2>1. DoHandle(n, q) = GetLastResult(n, q)
    BY <1>4 DEF DoHandle
  <2>2. GetLastResult(n, q).remote = n.remote /\ GetLastResult(n, q).err \in {KErrNone, KErrGeneral}
    BY DEF GetLastResult, Handled, Refused
  <2> QED BY <1>4, <2>1, <2>2, <1>2
<1>5. CASE q.name = "SetPersonality"
  <2>1. DoHandle(n, q) = SetPersonalityL(n, q)
    BY <1>5 DEF DoHandle
  <2>2. Mapping[q.id] \in DeviceIds => T \in Remote /\ InProgress(T, Mapping[q.id])
    BY DEF Remote, Results, InProgress
  <2>3. \/ /\ SetPersonalityL(n, q).remote \in {R("EUndefinedError"), R("ENonExistingPersonality")}
           /\ SetPersonalityL(n, q).err = KErrGeneral
        \/ /\ SetPersonalityL(n, q).remote = T /\ SetPersonalityL(n, q).err = KErrNone
           /\ Mapping[q.id] \in DeviceIds
    BY DEF SetPersonalityL, SetPersonality, Handled, Refused, Result
  <2> HIDE DEF T
  <2> QED BY <1>5, <2>1, <2>2, <2>3, <1>1, <1>2 DEF Results
<1>6. CASE q.name \notin {"GetAllPersonalities", "GetLastResult", "SetPersonality"}
  BY <1>6, <1>2 DEF DoHandle, Refused
<1> QED BY <1>3, <1>4, <1>5, <1>6

\* What Handle and the answer that follows it do to the rest of the memory: nothing.
Frame(t, m) ==
  /\ t.d.reader = m.d.reader /\ t.d.writer = m.d.writer /\ t.d.packet = m.d.packet
  /\ t.d.machine = m.d.machine /\ t.d.timer = m.d.timer /\ t.d.control = m.d.control

\* Handle: see DoHandles.
LEMMA Handles ==
  ASSUME NEW m \in Mem, NEW q \in Packet
  PROVE  /\ Handle(m, q) \in Mem /\ Handle(m, q).answer = m.answer /\ Frame(Handle(m, q), m)
         /\ q.name \notin {"GetAllPersonalities", "SetPersonality"} =>
              Handle(m, q).d.remote = m.d.remote
         /\ q.name = "SetPersonality" /\ Handle(m, q).err = KErrNone =>
              InProgress(Handle(m, q).d.remote, Mapping[q.id])
<1> DEFINE n == [remote |-> m.d.remote, err |-> KErrNone, in |-> m.in]
           t == DoHandle(n, q)
<1>1. m.d \in Objects /\ m.d.remote \in Remote
  BY DEF Mem, Objects
<1>2. /\ n.remote = m.d.remote /\ n.err \in Code
      /\ n = [remote |-> n.remote, err |-> n.err, in |-> n.in]
  OBVIOUS
<1>3. /\ t.remote \in Remote /\ t.err \in Code
      /\ q.name \notin {"GetAllPersonalities", "SetPersonality"} => t.remote = m.d.remote
      /\ q.name = "SetPersonality" /\ t.err = KErrNone => InProgress(t.remote, Mapping[q.id])
  <2> HIDE DEF n
  <2> QED BY <1>1, <1>2, DoHandles
<1>4. Handle(m, q) = [m EXCEPT !.d.remote = t.remote, !.err = t.err]
  BY DEF Handle
<1> HIDE DEF t
<1>5. [m.d EXCEPT !.remote = t.remote] \in Objects
  BY <1>1, <1>3 DEF Objects
<1>6. /\ Handle(m, q) \in Mem /\ Handle(m, q).answer = m.answer /\ Handle(m, q).err = t.err
      /\ Handle(m, q).d = [m.d EXCEPT !.remote = t.remote]
  BY <1>4, <1>5, <1>3 DEF Mem
<1>7. Handle(m, q).d.remote = t.remote /\ Frame(Handle(m, q), m)
  BY <1>6, <1>1 DEF Objects, Frame
<1> QED BY <1>3, <1>6, <1>7

\* The answer: a status packet only when the request was handled.
LEMMA Answers ==
  ASSUME NEW m \in Mem
  PROVE  /\ Status(m) \in Mem /\ Frame(Status(m), m) /\ Status(m).d.remote = m.d.remote
         /\ Status(m).answer = IF m.err = KErrNone THEN "Status" ELSE "Stall"
BY DEF Status, Answer, Mem, Frame

\* Then the next setup packet is read.
LEMMA NextRequests ==
  ASSUME NEW m \in Mem, ~m.d.reader.active
  PROVE  /\ NextRequest(m) \in Mem /\ NextRequest(m).answer = m.answer
         /\ NextRequest(m).d.reader = Waits /\ NextRequest(m).d.writer = m.d.writer
         /\ NextRequest(m).d.packet = NoRequest /\ NextRequest(m).d.machine = "Setup"
         /\ NextRequest(m).d.timer = m.d.timer /\ NextRequest(m).d.control = m.d.control
         /\ NextRequest(m).d.remote = m.d.remote
<1> DEFINE t == [m EXCEPT !.d.machine = "Setup", !.d.packet = NoRequest]
<1>1. m.d \in Objects
  BY DEF Mem
<1>2. [m.d EXCEPT !.machine = "Setup", !.packet = NoRequest] \in Objects
  BY <1>1 DEF Objects, MachineStates, Packet
<1>3. /\ t \in Mem /\ t.answer = m.answer
      /\ t.d = [m.d EXCEPT !.machine = "Setup", !.packet = NoRequest]
  BY <1>2 DEF Mem
<1>4. /\ t.d.reader = m.d.reader /\ t.d.writer = m.d.writer /\ t.d.packet = NoRequest
      /\ t.d.machine = "Setup" /\ t.d.timer = m.d.timer /\ t.d.control = m.d.control
      /\ t.d.remote = m.d.remote
  BY <1>1, <1>3 DEF Objects
<1>5. NextRequest(m) = Read(t)
  BY DEF NextRequest
<1> HIDE DEF t
<1>6. /\ Read(t) \in Mem /\ Read(t).answer = t.answer
      /\ Read(t).d.reader = IF t.d.reader.active THEN t.d.reader ELSE Waits
      /\ Read(t).d.writer = t.d.writer /\ Read(t).d.packet = t.d.packet
      /\ Read(t).d.machine = t.d.machine /\ Read(t).d.timer = t.d.timer
      /\ Read(t).d.control = t.d.control /\ Read(t).d.remote = t.d.remote
  BY <1>3, Reads
<1> QED BY <1>3, <1>4, <1>5, <1>6

-----------------------------------------------------------------------------
\* The requests on endpoint 0 end.

\* After a read or a write that ended, the machine is in step, waits, and has kept what
\* is not its own.
After(t, m) ==
  /\ t \in Mem /\ InStep(t.d) /\ ~Ready(t.d.reader) /\ ~Ready(t.d.writer)
  /\ t.d.timer = m.d.timer /\ t.d.control = m.d.control

\* The reader and the writer clear their active flags first.
LEMMA Cleared ==
  ASSUME NEW m \in Mem
  PROVE  LET r == [m EXCEPT !.d.reader.active = FALSE]
             w == [m EXCEPT !.d.writer.active = FALSE] IN
         /\ r \in Mem /\ r.answer = m.answer /\ ~r.d.reader.active
         /\ r.d.writer = m.d.writer /\ r.d.packet = m.d.packet
         /\ r.d.machine = m.d.machine /\ r.d.timer = m.d.timer
         /\ r.d.control = m.d.control /\ r.d.remote = m.d.remote
         /\ w \in Mem /\ w.answer = m.answer /\ ~w.d.writer.active
         /\ w.d.reader = m.d.reader /\ w.d.packet = m.d.packet
         /\ w.d.machine = m.d.machine /\ w.d.timer = m.d.timer
         /\ w.d.control = m.d.control /\ w.d.remote = m.d.remote
<1>1. m.d \in Objects /\ m.d.reader \in ActiveObject /\ m.d.writer \in ActiveObject
  BY DEF Mem, Objects
<1>2. /\ [m.d.reader EXCEPT !.active = FALSE] \in ActiveObject
      /\ [m.d.writer EXCEPT !.active = FALSE] \in ActiveObject
      /\ ~[m.d.reader EXCEPT !.active = FALSE].active
      /\ ~[m.d.writer EXCEPT !.active = FALSE].active
  BY <1>1 DEF ActiveObject
<1>3. \A a \in ActiveObject :
        [m.d EXCEPT !.reader = a] \in Objects /\ [m.d EXCEPT !.writer = a] \in Objects
  BY <1>1 DEF Objects
<1> DEFINE a == [m.d.reader EXCEPT !.active = FALSE]
           b == [m.d.writer EXCEPT !.active = FALSE]
           r == [m EXCEPT !.d = [m.d EXCEPT !.reader = a]]
           w == [m EXCEPT !.d = [m.d EXCEPT !.writer = b]]
<1>4. /\ r = [m EXCEPT !.d.reader.active = FALSE]
      /\ w = [m EXCEPT !.d.writer.active = FALSE]
  BY <1>1 DEF Mem, Objects
<1> SUFFICES
         /\ r \in Mem /\ r.answer = m.answer /\ ~r.d.reader.active
         /\ r.d.writer = m.d.writer /\ r.d.packet = m.d.packet
         /\ r.d.machine = m.d.machine /\ r.d.timer = m.d.timer
         /\ r.d.control = m.d.control /\ r.d.remote = m.d.remote
         /\ w \in Mem /\ w.answer = m.answer /\ ~w.d.writer.active
         /\ w.d.reader = m.d.reader /\ w.d.packet = m.d.packet
         /\ w.d.machine = m.d.machine /\ w.d.timer = m.d.timer
         /\ w.d.control = m.d.control /\ w.d.remote = m.d.remote
  BY <1>4
<1> HIDE DEF a, b
<1>5. a \in ActiveObject /\ b \in ActiveObject /\ ~a.active /\ ~b.active
  BY <1>2 DEF a, b
<1> QED BY <1>1, <1>3, <1>5 DEF Mem, Objects

\* A request is answered only after it was handled, or keeps its data to come; a choice
\* is acknowledged only when it is in progress.
LEMMA ReadEnds ==
  ASSUME NEW m \in Mem, NEW q \in Packet, InStep(m.d), m.d.reader.active, m.answer = "None"
  PROVE  /\ After(ReadEP0(m, q), m)
         /\ ReadEP0(m, q).d.packet \in {m.d.packet, NoRequest}
         /\ ReadEP0(m, q).answer # "None" => ReadEP0(m, q).d.packet = NoRequest
         /\ ReadEP0(m, q).answer = "None" /\ m.d.reader.iStatus = KErrNone =>
              ReadEP0(m, q).d.packet = m.d.packet
         /\ m.d.reader.iStatus # KErrNone =>
              ReadEP0(m, q).answer = "None" /\ ReadEP0(m, q).d.remote = m.d.remote
         /\ q.name \notin {"GetAllPersonalities", "SetPersonality"} =>
              ReadEP0(m, q).d.remote = m.d.remote
         /\ q.name = "SetPersonality" /\ ReadEP0(m, q).answer = "Status" =>
              InProgress(ReadEP0(m, q).d.remote, Mapping[q.id])
<1> DEFINE d == [m EXCEPT !.d.reader.active = FALSE]
           h == Handle(d, q)
           s == Status(h)
           n == NextRequest(s)
           a == [d EXCEPT !.d.machine = "Data"]
           b == [h EXCEPT !.d.machine = "Status"]
<1>1. /\ d \in Mem /\ d.answer = "None" /\ ~d.d.reader.active /\ ~d.d.writer.active
      /\ d.d.machine \in {"Setup", "Data"} /\ d.d.packet = m.d.packet
      /\ d.d.timer = m.d.timer /\ d.d.timer # Waits /\ d.d.control = m.d.control
      /\ d.d.control /\ d.d.remote = m.d.remote
  BY Cleared DEF InStep
<1>2. /\ h \in Mem /\ h.answer = "None" /\ Frame(h, d)
      /\ q.name \notin {"GetAllPersonalities", "SetPersonality"} => h.d.remote = m.d.remote
      /\ q.name = "SetPersonality" /\ h.err = KErrNone => InProgress(h.d.remote, Mapping[q.id])
  <2> HIDE DEF d
  <2> QED BY <1>1, Handles
<1>3. /\ s \in Mem /\ Frame(s, h) /\ s.d.remote = h.d.remote
      /\ s.answer = IF h.err = KErrNone THEN "Status" ELSE "Stall"
  <2> HIDE DEF h
  <2> QED BY <1>2, Answers
<1>4. /\ n \in Mem /\ n.answer = s.answer /\ n.d.reader = Waits /\ n.d.writer = d.d.writer
      /\ n.d.packet = NoRequest /\ n.d.machine = "Setup" /\ n.d.timer = m.d.timer
      /\ n.d.control = m.d.control /\ n.d.remote = h.d.remote
  <2>1. ~s.d.reader.active /\ s.d.writer = d.d.writer /\ s.d.timer = m.d.timer
        /\ s.d.control = m.d.control
    BY <1>1, <1>2, <1>3 DEF Frame
  <2> HIDE DEF s
  <2> QED BY <2>1, <1>3, NextRequests
<1>5. /\ a \in Mem /\ Read(a).answer = "None" /\ Read(a) \in Mem /\ Read(a).d.reader = Waits
      /\ Read(a).d.writer = d.d.writer /\ Read(a).d.packet = m.d.packet
      /\ Read(a).d.machine = "Data" /\ Read(a).d.timer = m.d.timer
      /\ Read(a).d.control = m.d.control /\ Read(a).d.remote = m.d.remote
  <2> HIDE DEF d
  <2>1. d.d \in Objects
    BY <1>1 DEF Mem
  <2>2. [d.d EXCEPT !.machine = "Data"] \in Objects
    BY <2>1 DEF Objects, MachineStates
  <2>3. a \in Mem /\ a.answer = "None" /\ a.d = [d.d EXCEPT !.machine = "Data"]
    BY <2>2, <1>1 DEF Mem
  <2>4. /\ a.d.reader = d.d.reader /\ a.d.writer = d.d.writer /\ a.d.packet = d.d.packet
        /\ a.d.machine = "Data" /\ a.d.timer = d.d.timer /\ a.d.control = d.d.control
        /\ a.d.remote = d.d.remote
    BY <2>1, <2>3 DEF Objects
  <2> HIDE DEF a
  <2> QED BY <1>1, <2>3, <2>4, Reads
<1>6. /\ b \in Mem /\ Write(b).answer = "None" /\ Write(b) \in Mem /\ Write(b).d.writer = Waits
      /\ Write(b).d.reader = d.d.reader /\ Write(b).d.packet = m.d.packet
      /\ Write(b).d.machine = "Status" /\ Write(b).d.timer = m.d.timer
      /\ Write(b).d.control = m.d.control /\ Write(b).d.remote = h.d.remote
  <2>1. h.d.reader = d.d.reader /\ h.d.writer = d.d.writer /\ h.d.packet = m.d.packet
        /\ h.d.timer = m.d.timer /\ h.d.control = m.d.control
    BY <1>1, <1>2 DEF Frame
  <2> HIDE DEF h, d
  <2>2. h.d \in Objects
    BY <1>2 DEF Mem
  <2>3. [h.d EXCEPT !.machine = "Status"] \in Objects
    BY <2>2 DEF Objects, MachineStates
  <2>4. b \in Mem /\ b.answer = "None" /\ b.d = [h.d EXCEPT !.machine = "Status"]
    BY <2>3, <1>2 DEF Mem
  <2>5. /\ b.d.reader = h.d.reader /\ b.d.writer = h.d.writer /\ b.d.packet = h.d.packet
        /\ b.d.machine = "Status" /\ b.d.timer = h.d.timer /\ b.d.control = h.d.control
        /\ b.d.remote = h.d.remote
    BY <2>2, <2>4 DEF Objects
  <2> HIDE DEF b
  <2> QED BY <1>1, <2>1, <2>4, <2>5, Writes
<1>7. ProcessSetupPacket(d, q) \in {Read(a), Write(b), n}
  BY DEF ProcessSetupPacket
<1>8. /\ m.d.reader.iStatus # KErrNone => ReadEP0(m, q) = MachineStart(d)
      /\ m.d.reader.iStatus = KErrNone => ReadEP0(m, q) \in {Read(a), Write(b), n}
  <2>1. m.d.machine \in {"Setup", "Data"}
    BY DEF InStep
  <2> HIDE DEF d, a, b
  <2>2. ReadEP0(m, q) =
          CASE m.d.reader.iStatus # KErrNone -> MachineStart(d)
            [] m.d.reader.iStatus = KErrNone /\ m.d.machine = "Setup" -> ProcessSetupPacket(d, q)
            [] m.d.reader.iStatus = KErrNone /\ m.d.machine = "Data" -> n
            [] OTHER -> d
    BY DEF ReadEP0, d
  <2> HIDE DEF n
  <2> QED BY <2>1, <2>2, <1>7
<1> HIDE DEF d, h, s, n, a, b
<1>9. CASE m.d.reader.iStatus # KErrNone
  <2>1. /\ MachineStart(d) \in Mem /\ MachineStart(d).answer = "None"
        /\ MachineStart(d).d.reader = Waits /\ ~MachineStart(d).d.writer.active
        /\ MachineStart(d).d.packet = NoRequest /\ MachineStart(d).d.machine = "Setup"
        /\ MachineStart(d).d.timer = m.d.timer /\ MachineStart(d).d.control = m.d.control
        /\ MachineStart(d).d.remote = m.d.remote
    BY <1>1, MachineStarts
  <2>2. After(MachineStart(d), m)
    BY <2>1, <1>1, Requesting DEF After, InStep, Ready
  <2> QED BY <1>8, <1>9, <2>1, <2>2
<1>10. After(Read(a), m) /\ After(Write(b), m) /\ After(n, m)
  <2>1. After(Read(a), m)
    BY <1>1, <1>5, Requesting DEF After, InStep, Ready
  <2>2. After(Write(b), m)
    BY <1>1, <1>6, Requesting DEF After, InStep, Ready
  <2>3. After(n, m)
    BY <1>1, <1>4, Requesting DEF After, InStep, Ready
  <2> QED BY <2>1, <2>2, <2>3
<1>11. CASE m.d.reader.iStatus = KErrNone
  <2>1. CASE ReadEP0(m, q) = Read(a)
    BY <1>11, <2>1, <1>5, <1>10
  <2>2. CASE ReadEP0(m, q) = Write(b)
    BY <1>11, <2>2, <1>2, <1>6, <1>10
  <2>3. CASE ReadEP0(m, q) = n
    BY <1>11, <2>3, <1>2, <1>3, <1>4, <1>10
  <2> QED BY <1>8, <1>11, <2>1, <2>2, <2>3
<1> QED BY <1>9, <1>11

\* A write that ends leads to the next request.
LEMMA WriteEnds ==
  ASSUME NEW m \in Mem, InStep(m.d), m.d.writer.active
  PROVE  /\ After(WroteEP0(m), m) /\ WroteEP0(m).answer = m.answer
         /\ WroteEP0(m).d.packet = NoRequest /\ WroteEP0(m).d.remote = m.d.remote
<1> DEFINE d == [m EXCEPT !.d.writer.active = FALSE]
<1>1. /\ d \in Mem /\ d.answer = m.answer /\ ~d.d.reader.active /\ ~d.d.writer.active
      /\ d.d.machine = "Status" /\ d.d.packet = m.d.packet
      /\ d.d.timer = m.d.timer /\ d.d.timer # Waits /\ d.d.control = m.d.control
      /\ d.d.control /\ d.d.remote = m.d.remote
  BY Cleared DEF InStep
<1>2. WroteEP0(m) \in {MachineStart(d), NextRequest(d)}
  <2>1. m.d.machine = "Status"
    BY DEF InStep
  <2> QED BY <2>1 DEF WroteEP0
<1> HIDE DEF d
<1>3. CASE WroteEP0(m) = MachineStart(d)
  <2>1. /\ MachineStart(d) \in Mem /\ MachineStart(d).answer = m.answer
        /\ MachineStart(d).d.reader = Waits /\ ~MachineStart(d).d.writer.active
        /\ MachineStart(d).d.packet = NoRequest /\ MachineStart(d).d.machine = "Setup"
        /\ MachineStart(d).d.timer = m.d.timer /\ MachineStart(d).d.control = m.d.control
        /\ MachineStart(d).d.remote = m.d.remote
    BY <1>1, MachineStarts
  <2> QED BY <1>1, <1>3, <2>1, Requesting DEF After, InStep, Ready
<1>4. CASE WroteEP0(m) = NextRequest(d)
  <2>1. /\ NextRequest(d) \in Mem /\ NextRequest(d).answer = m.answer
        /\ NextRequest(d).d.reader = Waits /\ ~NextRequest(d).d.writer.active
        /\ NextRequest(d).d.packet = NoRequest /\ NextRequest(d).d.machine = "Setup"
        /\ NextRequest(d).d.timer = m.d.timer /\ NextRequest(d).d.control = m.d.control
        /\ NextRequest(d).d.remote = m.d.remote
    BY <1>1, NextRequests
  <2> QED BY <1>1, <1>4, <2>1, Requesting DEF After, InStep, Ready
<1> QED BY <1>2, <1>3, <1>4

-----------------------------------------------------------------------------
\* CUsbDevCon follows the bus.

\* What a state of the bus may change: all but the choice; an object that was not
\* ready does not become so, and the packet may be forgotten.
Followed(t, m) ==
  /\ t \in Mem /\ InStep(t.d) /\ t.answer = m.answer /\ t.d.remote = m.d.remote
  /\ ~m.d.timer.active => ~Ready(t.d.timer)
  /\ ~Ready(m.d.reader) => ~Ready(t.d.reader)
  /\ ~Ready(m.d.writer) => ~Ready(t.d.writer)
  /\ t.d.packet \in {m.d.packet, NoRequest}

\* Release stops the machine and gives the device control back.
LEMMA Releases ==
  ASSUME NEW m \in Mem, InStep(m.d)
  PROVE  /\ Followed(Release(m), m) /\ Release(m).d.machine = "None"
         /\ Release(m).d.timer = m.d.timer
<1>1. CASE m.d.machine = "None"
  BY <1>1, Requesting DEF Release, Followed, Ready
<1>2. CASE m.d.machine # "None"
  <2> DEFINE s == MachineStop(m)
             t == [s EXCEPT !.d.control = FALSE]
  <2>1. /\ s \in Mem /\ s.answer = m.answer /\ s.d.reader = Idle /\ s.d.writer = Idle
        /\ s.d.packet = NoRequest /\ s.d.machine = "None" /\ s.d.timer = m.d.timer
        /\ s.d.remote = m.d.remote
    BY MachineStops
  <2>2. Release(m) = t
    BY <1>2 DEF Release
  <2> HIDE DEF s
  <2>3. s.d \in Objects
    BY <2>1 DEF Mem
  <2>4. [s.d EXCEPT !.control = FALSE] \in Objects
    BY <2>3 DEF Objects
  <2>5. t \in Mem /\ t.answer = s.answer /\ t.d = [s.d EXCEPT !.control = FALSE]
    BY <2>1, <2>4 DEF Mem
  <2>6. /\ t.d.reader = Idle /\ t.d.writer = Idle /\ t.d.packet = NoRequest /\ ~t.d.control
        /\ t.d.machine = "None" /\ t.d.timer = m.d.timer /\ t.d.remote = m.d.remote
    BY <2>1, <2>3, <2>5 DEF Objects
  <2> HIDE DEF t
  <2> QED BY <2>1, <2>2, <2>5, <2>6, Requesting DEF Followed, InStep, Ready
<1> QED BY <1>1, <1>2

\* StopL releases, and starts the timer unless it is active.
LEMMA Stops ==
  ASSUME NEW m \in Mem, InStep(m.d)
  PROVE  Followed(StopL(m), m)
<1> DEFINE r == Release(m)
           t == [r EXCEPT !.d.timer = Waits]
<1>1. Followed(r, m) /\ r.d.machine = "None" /\ r.d.timer = m.d.timer
  BY Releases
<1>2. StopL(m) \in {r, t}
  BY DEF StopL
<1> HIDE DEF r
<1>3. r.d \in Objects
  BY <1>1 DEF Followed, Mem
<1>4. [r.d EXCEPT !.timer = Waits] \in Objects
  BY <1>3, Requesting DEF Objects
<1>5. t \in Mem /\ t.answer = r.answer /\ t.d = [r.d EXCEPT !.timer = Waits]
  BY <1>1, <1>4 DEF Followed, Mem
<1>6. /\ t.d.reader = r.d.reader /\ t.d.writer = r.d.writer /\ t.d.packet = r.d.packet
      /\ t.d.machine = "None" /\ t.d.control = r.d.control /\ t.d.timer = Waits
      /\ t.d.remote = r.d.remote
  BY <1>1, <1>3, <1>5 DEF Objects
<1> HIDE DEF t
<1>7. Followed(t, m)
  BY <1>1, <1>5, <1>6, Requesting DEF Followed, InStep
<1> QED BY <1>1, <1>2, <1>7

\* StartL takes device control and waits for a setup packet; a timer that runs is
\* cancelled.
LEMMA Starts ==
  ASSUME NEW m \in Mem, InStep(m.d)
  PROVE  Followed(StartL(m), m)
<1> DEFINE c == [m EXCEPT !.d.control = TRUE]
           t == IF m.d.machine = "None" THEN MachineStart(c) ELSE m
           x == IF t.d.timer = Waits THEN KErrCancel ELSE t.d.timer.iStatus
           u == [t EXCEPT !.d.timer.iStatus = x]
<1>1. m.d \in Objects
  BY DEF Mem
<1>2. [m.d EXCEPT !.control = TRUE] \in Objects
  BY <1>1 DEF Objects
<1>3. c \in Mem /\ c.answer = m.answer /\ c.d = [m.d EXCEPT !.control = TRUE]
  BY <1>2 DEF Mem
<1>4. /\ c.d.reader = m.d.reader /\ c.d.writer = m.d.writer /\ c.d.packet = m.d.packet
      /\ c.d.machine = m.d.machine /\ c.d.control /\ c.d.timer = m.d.timer
      /\ c.d.remote = m.d.remote
  BY <1>1, <1>3 DEF Objects
<1>5. /\ t \in Mem /\ t.answer = m.answer /\ t.d.remote = m.d.remote /\ t.d.control
      /\ t.d.timer = m.d.timer /\ t.d.machine # "None"
      /\ t.d.reader.active <=> t.d.machine \in {"Setup", "Data"}
      /\ t.d.writer.active <=> t.d.machine = "Status"
      /\ ~Ready(m.d.reader) => ~Ready(t.d.reader)
      /\ ~Ready(m.d.writer) => ~Ready(t.d.writer)
      /\ t.d.packet \in {m.d.packet, NoRequest}
  <2>1. CASE m.d.machine = "None"
    <3>1. ~c.d.reader.active /\ ~c.d.writer.active
      BY <2>1, <1>4 DEF InStep
    <3> HIDE DEF c
    <3>2. /\ MachineStart(c) \in Mem /\ MachineStart(c).answer = c.answer
          /\ MachineStart(c).d.reader = Waits /\ ~MachineStart(c).d.writer.active
          /\ MachineStart(c).d.packet \in {c.d.packet, NoRequest}
          /\ MachineStart(c).d.machine = "Setup"
          /\ MachineStart(c).d.timer = c.d.timer /\ MachineStart(c).d.control = c.d.control
          /\ MachineStart(c).d.remote = c.d.remote
      BY <1>3, <3>1, MachineStarts
    <3> QED BY <2>1, <3>2, <1>3, <1>4, Requesting DEF Ready
  <2>2. CASE m.d.machine # "None"
    BY <2>2 DEF InStep
  <2> QED BY <2>1, <2>2
<1>6. StartL(m) = u
  BY DEF StartL
<1> HIDE DEF t
<1>7. t.d \in Objects /\ t.d.timer \in ActiveObject
  BY <1>5 DEF Mem, Objects
<1> DEFINE k == [t.d.timer EXCEPT !.iStatus = x]
<1>8. k \in ActiveObject /\ k # Waits /\ (~t.d.timer.active => ~k.active)
  BY <1>7 DEF ActiveObject, Waits, KErrCancel, Pending
<1>9. [t.d EXCEPT !.timer = k] \in Objects
  BY <1>7, <1>8 DEF Objects
<1>10. u = [t EXCEPT !.d = [t.d EXCEPT !.timer = k]]
  BY <1>5, <1>7 DEF Mem, Objects
<1> HIDE DEF u, k
<1>11. u \in Mem /\ u.answer = t.answer /\ u.d = [t.d EXCEPT !.timer = k]
  BY <1>5, <1>9, <1>10 DEF Mem
<1>12. /\ u.d.reader = t.d.reader /\ u.d.writer = t.d.writer /\ u.d.packet = t.d.packet
       /\ u.d.machine = t.d.machine /\ u.d.control = t.d.control /\ u.d.timer = k
       /\ u.d.remote = t.d.remote
  BY <1>7, <1>11 DEF Objects
<1> QED BY <1>5, <1>6, <1>8, <1>11, <1>12 DEF Followed, InStep, Ready

\* ActAccordinglyToUsbState: see Followed.
LEMMA Follows ==
  ASSUME NEW m \in Mem, InStep(m.d), NEW st
  PROVE  Followed(ActAccordinglyToUsbState(m, st), m)
<1> DEFINE t == CASE st = "Undefined" -> StopL(m)
                  [] st = "Attached" -> m
                  [] st \in {"Suspended", "Powered"} -> Release(m)
                  [] OTHER -> StartL(m)
           u == [t EXCEPT !.d.watching = TRUE]
<1>1. Followed(m, m)
  BY DEF Followed, Ready
<1>2. Followed(t, m)
  BY <1>1, Stops, Releases, Starts
<1>3. ActAccordinglyToUsbState(m, st) = u
  BY DEF ActAccordinglyToUsbState
<1> HIDE DEF t
<1>4. t.d \in Objects
  BY <1>2 DEF Followed, Mem
<1>5. [t.d EXCEPT !.watching = TRUE] \in Objects
  BY <1>4 DEF Objects
<1>6. u \in Mem /\ u.answer = t.answer /\ u.d = [t.d EXCEPT !.watching = TRUE]
  BY <1>2, <1>5 DEF Followed, Mem
<1>7. /\ u.d.reader = t.d.reader /\ u.d.writer = t.d.writer /\ u.d.packet = t.d.packet
      /\ u.d.machine = t.d.machine /\ u.d.control = t.d.control /\ u.d.timer = t.d.timer
      /\ u.d.remote = t.d.remote
  BY <1>4, <1>6 DEF Objects
<1> HIDE DEF u
<1> QED BY <1>2, <1>3, <1>6, <1>7 DEF Followed, InStep

\* A new process follows the bus from the first.
LEMMA Constructs ==
  ASSUME NEW m \in Mem, NEW st
  PROVE  Followed(Construct(m, st), [m EXCEPT !.d = InitDevCon])
<1>1. [m EXCEPT !.d = InitDevCon] \in Mem /\ [m EXCEPT !.d = InitDevCon].d = InitDevCon
  BY InitDevConType DEF Mem
<1> QED BY <1>1, InitDevConType, Follows DEF Construct

-----------------------------------------------------------------------------
\* The steps of the process.

\* A running memory.
LEMMA MemoryType ==
  ASSUME Typed, NEW current \in {KErrNone, KErrGeneral}
  PROVE  Memory(current) \in Mem /\ Memory(current).d = devcon /\ Memory(current).answer = "None"
BY DEF Memory, Mem, Typed, KErrNone, KErrGeneral

\* The host after an answer is a host; only a request that was answered ends.
LEMMA AnsweredType ==
  ASSUME Typed, RequestInStep, NEW a \in {"None", "Stall", "Status", "Data"}
  PROVE  /\ Answered(a) \in Host
         /\ Answered(a) = host \/ (Answered(a).request = NoRequest /\ ~Answered(a).pending)
         /\ a = "None" => Answered(a) = host
         /\ host.request = NoRequest => Answered(a) = host
         /\ host.request # NoRequest /\ a # "None" => Answered(a).request = NoRequest
         /\ \/ Answered(a).asked = host.asked
            \/ /\ host.request # NoRequest /\ host.request.name = "SetPersonality"
               /\ a = "Status" /\ Answered(a).asked = Mapping[host.request.id]
<1>1. host \in Host /\ host.request \in Packet /\ host.asked \in Choice
  BY DEF Typed, Host
<1>2. CASE a = "None" \/ host.request = NoRequest
  BY <1>1, <1>2 DEF Answered
<1>3. CASE a # "None" /\ host.request # NoRequest
  <2>1. host.request \in Request
    BY <1>1, <1>3, RequestNames
  <2>2. Mapping[host.request.id] \in Choice
    BY <2>1 DEF Request, Choice
  <2> DEFINE x == IF host.request.name = "SetPersonality" /\ a = "Status"
                    THEN Mapping[host.request.id] ELSE host.asked
  <2>3. Answered(a) = [request |-> NoRequest, pending |-> FALSE, asked |-> x]
    BY <1>3 DEF Answered
  <2>4. x \in Choice
    BY <1>1, <2>2
  <2>5. Answered(a) \in Host
    <3> HIDE DEF x
    <3> QED BY <2>3, <2>4 DEF Host, Packet
  <2>6. Answered(a).request = NoRequest /\ ~Answered(a).pending /\ Answered(a).asked = x
    BY <2>3
  <2> QED BY <1>3, <2>5, <2>6
<1> QED BY <1>2, <1>3

\* A new state of the bus, or an alternate setting that leaves the watcher deaf.
LEMMA StateWatcherStep ==
  ASSUME DevConInv, RunStateWatcher
  PROVE  DevConInv'
<1> DEFINE t == ActAccordinglyToUsbState(Memory(KErrNone), Head(states))
<1>1. Typed /\ OneProcess /\ InStep(devcon) /\ RequestInStep /\ ChoiceInStep
  BY DEF DevConInv
<1>2. /\ process' = "Up" /\ process = "Up" /\ starter' = starter /\ bus' = bus
      /\ running' = running
  BY DEF RunStateWatcher, Up, Outside
<1>3. /\ states # << >> /\ states' = Tail(states) /\ states \in Seq(BusStates \cup {"Alternate"})
      /\ devcon \in Objects /\ host \in Host
  BY <1>1 DEF RunStateWatcher, Typed
<1>4. /\ Head(states) = states[1] /\ 1 \in 1..Len(states)
      /\ states' \in Seq(BusStates \cup {"Alternate"})
      /\ (\A i \in 1..Len(states) : states[i] = "Alternate") =>
           \A i \in 1..Len(states') : states'[i] = "Alternate"
  BY <1>3
<1>5. CASE Head(states) = "Alternate"
  <2>1. devcon' = [devcon EXCEPT !.watching = FALSE] /\ host' = host
    BY <1>5 DEF RunStateWatcher
  <2>2. /\ devcon' \in Objects /\ devcon'.reader = devcon.reader /\ devcon'.writer = devcon.writer
        /\ devcon'.packet = devcon.packet /\ devcon'.machine = devcon.machine
        /\ devcon'.timer = devcon.timer /\ devcon'.control = devcon.control
        /\ devcon'.remote = devcon.remote
    BY <1>3, <2>1 DEF Objects
  <2>3. InStep(devcon)'
    BY <1>1, <2>2 DEF InStep
  <2>4. RequestInStep'
    BY <1>1, <1>4, <2>1, <2>2 DEF RequestInStep, Ready
  <2>5. Typed'
    BY <1>1, <1>2, <1>4, <2>1, <2>2 DEF Typed
  <2> QED BY <1>1, <1>2, <2>1, <2>2, <2>3, <2>4, <2>5 DEF DevConInv, OneProcess, ChoiceInStep
<1>6. CASE Head(states) # "Alternate"
  <2>1. Memory(KErrNone) \in Mem /\ Memory(KErrNone).d = devcon /\ Memory(KErrNone).answer = "None"
    BY <1>1, MemoryType
  <2>2. Followed(t, Memory(KErrNone))
    BY <1>1, <2>1, Follows
  <2>3. devcon' = t.d /\ host' = host
    BY <1>6, <1>1, <2>1, <2>2, AnsweredType DEF RunStateWatcher, Becomes, Followed
  <2>4. /\ devcon' \in Objects /\ InStep(devcon)' /\ devcon'.remote = devcon.remote
        /\ devcon'.packet \in {devcon.packet, NoRequest}
    BY <2>1, <2>2, <2>3 DEF Followed, Mem
  <2>5. host.request = NoRequest
    BY <1>1, <1>4, <1>6 DEF RequestInStep
  <2>6. RequestInStep'
    BY <1>1, <2>3, <2>4, <2>5 DEF RequestInStep
  <2>7. Typed'
    BY <1>1, <1>2, <1>4, <2>3, <2>4 DEF Typed
  <2> QED BY <1>1, <1>2, <2>3, <2>4, <2>6, <2>7 DEF DevConInv, OneProcess, ChoiceInStep
<1> QED BY <1>5, <1>6

\* A read ended: the choice that is acknowledged to the host is the one in progress.
LEMMA ReaderStep ==
  ASSUME DevConInv, RunReader
  PROVE  DevConInv'
<1>1. Typed /\ OneProcess /\ InStep(devcon) /\ RequestInStep /\ ChoiceInStep
  BY DEF DevConInv
<1>2. /\ process' = "Up" /\ process = "Up" /\ starter' = starter /\ bus' = bus
      /\ running' = running /\ states' = states /\ devcon.reader.active
      /\ Ready(devcon.reader)
  BY DEF RunReader, Up, Outside, Ready
<1>3. PICK current \in {KErrNone, KErrGeneral} : Becomes(ReadEP0(Memory(current), devcon.packet))
  BY DEF RunReader
<1> DEFINE m == Memory(current)
           q == devcon.packet
           t == ReadEP0(m, q)
<1>4. m \in Mem /\ m.d = devcon /\ m.answer = "None" /\ q \in Packet
  BY <1>1, MemoryType DEF Typed, Objects
<1>5. devcon' = t.d /\ host' = Answered(t.answer)
  BY <1>3 DEF Becomes
<1> HIDE DEF m
<1>6. /\ After(t, m) /\ t.d.packet \in {devcon.packet, NoRequest}
      /\ t.answer # "None" => t.d.packet = NoRequest
      /\ t.answer = "None" /\ devcon.reader.iStatus = KErrNone => t.d.packet = devcon.packet
      /\ devcon.reader.iStatus # KErrNone => t.answer = "None" /\ t.d.remote = devcon.remote
      /\ q.name \notin {"GetAllPersonalities", "SetPersonality"} => t.d.remote = devcon.remote
      /\ q.name = "SetPersonality" /\ t.answer = "Status" =>
           InProgress(t.d.remote, Mapping[q.id])
  BY <1>1, <1>2, <1>4, ReadEnds
<1>7. t.answer \in {"None", "Stall", "Status", "Data"} /\ t.d \in Objects
  BY <1>6 DEF After, Mem
<1> HIDE DEF t
<1>8. /\ host' \in Host
      /\ host' = host \/ (host'.request = NoRequest /\ ~host'.pending)
      /\ t.answer = "None" => host' = host
      /\ host.request = NoRequest => host' = host
      /\ host.request # NoRequest /\ t.answer # "None" => host'.request = NoRequest
      /\ \/ host'.asked = host.asked
         \/ /\ host.request # NoRequest /\ host.request.name = "SetPersonality"
            /\ t.answer = "Status" /\ host'.asked = Mapping[host.request.id]
  BY <1>1, <1>5, <1>7, AnsweredType
<1>9. Typed'
  BY <1>1, <1>2, <1>5, <1>7, <1>8 DEF Typed
<1>10. InStep(devcon)'
  BY <1>5, <1>6 DEF After
<1>11. /\ devcon'.control = devcon.control /\ devcon'.timer = devcon.timer
       /\ ~Ready(devcon'.reader) /\ ~Ready(devcon'.writer)
  BY <1>4, <1>5, <1>6 DEF After
\* The request the host waits for, unless it has been answered.
<1>12. ASSUME host.request # NoRequest, ~host.pending
       PROVE  q = host.request /\ devcon.reader.iStatus = KErrNone
  BY <1>1, <1>2, <1>12 DEF RequestInStep
<1>13. ASSUME host.request # NoRequest, host.pending
       PROVE  t.answer = "None" /\ t.d.remote = devcon.remote
  BY <1>1, <1>2, <1>6, <1>13 DEF RequestInStep
<1>14. RequestInStep'
  <2>1. (host.pending => host.request # NoRequest)'
    BY <1>1, <1>8 DEF RequestInStep
  <2>2. ASSUME host'.request # NoRequest
        PROVE  host' = host /\ t.answer = "None"
    BY <1>8, <2>2
  <2>3. ASSUME devcon'.packet # NoRequest, devcon'.packet.name # "GetLastResult"
        PROVE  host'.asked = "none"
    <3>1. devcon'.packet = q /\ host.asked = "none"
      BY <1>1, <1>5, <1>6, <2>3 DEF RequestInStep
    <3>2. CASE host'.asked = host.asked
      BY <3>1, <3>2
    <3>3. CASE host'.asked # host.asked
      <4>1. host.request # NoRequest /\ t.answer = "Status"
        BY <1>8, <3>3
      <4> QED BY <4>1, <1>5, <1>6, <2>3
    <3> QED BY <3>2, <3>3
  <2>4. ASSUME host'.request # NoRequest, ~host'.pending
        PROVE  devcon'.packet = host'.request
    BY <2>2, <2>4, <1>5, <1>6, <1>12
  <2> QED BY <1>1, <1>2, <1>11, <2>1, <2>2, <2>3, <2>4 DEF RequestInStep
<1>15. ChoiceInStep'
  <2>1. CASE host'.asked = host.asked
    <3>1. ASSUME host.asked # "none"
          PROVE  t.d.remote = devcon.remote
      <4>1. q = NoRequest \/ q.name = "GetLastResult"
        BY <1>1, <3>1 DEF RequestInStep
      <4>2. q.name \notin {"GetAllPersonalities", "SetPersonality"}
        BY <4>1 DEF NoRequest
      <4> QED BY <4>2, <1>6
    <3> QED BY <2>1, <3>1, <1>1, <1>2, <1>5 DEF ChoiceInStep
  <2>2. CASE host'.asked # host.asked
    <3>1. /\ host.request # NoRequest /\ host.request.name = "SetPersonality"
          /\ t.answer = "Status" /\ host'.asked = Mapping[host.request.id]
      BY <1>8, <2>2
    <3>2. q = host.request
      BY <3>1, <1>12, <1>13
    <3>3. InProgress(devcon'.remote, host'.asked)
      BY <3>1, <3>2, <1>5, <1>6
    <3> QED BY <3>3 DEF InProgress, ChoiceInStep, Pending, KErrNone
  <2> QED BY <2>1, <2>2
<1> QED BY <1>1, <1>2, <1>9, <1>10, <1>14, <1>15 DEF DevConInv, OneProcess

\* A write ended.
LEMMA WriterStep ==
  ASSUME DevConInv, RunWriter
  PROVE  DevConInv'
<1>1. Typed /\ OneProcess /\ InStep(devcon) /\ RequestInStep /\ ChoiceInStep
  BY DEF DevConInv
<1>2. /\ process' = "Up" /\ process = "Up" /\ starter' = starter /\ bus' = bus
      /\ running' = running /\ states' = states /\ devcon.writer.active
      /\ Ready(devcon.writer) /\ Becomes(WroteEP0(Memory(KErrNone)))
  BY DEF RunWriter, Up, Outside, Ready
<1> DEFINE m == Memory(KErrNone)
           t == WroteEP0(m)
<1>3. m \in Mem /\ m.d = devcon /\ m.answer = "None"
  BY <1>1, MemoryType
<1>4. devcon' = t.d /\ host' = Answered(t.answer)
  BY <1>2 DEF Becomes
<1> HIDE DEF m
<1>5. After(t, m) /\ t.answer = "None" /\ t.d.packet = NoRequest /\ t.d.remote = devcon.remote
  BY <1>1, <1>2, <1>3, WriteEnds
<1> HIDE DEF t
<1>6. host' = host
  BY <1>1, <1>4, <1>5, AnsweredType
<1>7. /\ devcon' \in Objects /\ InStep(devcon)' /\ devcon'.control = devcon.control
      /\ devcon'.timer = devcon.timer /\ devcon'.packet = NoRequest
      /\ devcon'.remote = devcon.remote
      /\ ~Ready(devcon'.reader) /\ ~Ready(devcon'.writer)
  BY <1>3, <1>4, <1>5 DEF After, Mem
<1>8. RequestInStep'
  BY <1>1, <1>2, <1>6, <1>7 DEF RequestInStep
<1> QED BY <1>1, <1>2, <1>6, <1>7, <1>8 DEF DevConInv, Typed, OneProcess, ChoiceInStep

\* The choice ended.
LEMMA SetPersonalityStep ==
  ASSUME DevConInv, RunSetPersonality
  PROVE  DevConInv'
<1>1. Typed /\ OneProcess /\ InStep(devcon) /\ RequestInStep /\ ChoiceInStep
  BY DEF DevConInv
<1>2. /\ process' = "Up" /\ process = "Up" /\ starter' = starter /\ bus' = bus
      /\ running' = running /\ states' = states /\ host' = host /\ Ready(devcon.remote)
      /\ devcon' = [devcon EXCEPT !.remote = SetPersonalityRunL([remote |-> @]).remote]
  BY DEF RunSetPersonality, Up, Outside
<1>3. devcon \in Objects /\ devcon.remote \in Remote
  BY <1>1 DEF Typed, Objects
<1> DEFINE r == SetPersonalityRunL([remote |-> devcon.remote]).remote
           code == CASE devcon.remote.iStatus = KErrNone -> "ESuccess"
                     [] devcon.remote.iStatus = KErrNotFound -> "ENonExistingPersonality"
                     [] devcon.remote.iStatus = KErrNotSupported -> "EFeatureIsNotSupported"
                     [] OTHER -> "EUndefinedError"
<1>4. code \in Results /\ (code = "ESuccess" => devcon.remote.iStatus = KErrNone)
  BY DEF Results
<1>5. r = [devcon.remote EXCEPT !.active = FALSE, !.iLastResult = code]
  <2> HIDE DEF code
  <2>1. SetPersonalityRunL([remote |-> devcon.remote])
          = Result([[remote |-> devcon.remote] EXCEPT !.remote.active = FALSE], code)
    BY DEF SetPersonalityRunL, code
  <2> QED BY <2>1, <1>3 DEF Result, Remote
<1> HIDE DEF code
<1>6. r \in Remote /\ ~r.active /\ r.iLastResult = code
  BY <1>3, <1>4, <1>5 DEF Remote
<1>7. devcon' = [devcon EXCEPT !.remote = r]
  BY <1>2
<1> HIDE DEF r
<1>8. /\ devcon' \in Objects /\ devcon'.reader = devcon.reader /\ devcon'.writer = devcon.writer
      /\ devcon'.packet = devcon.packet /\ devcon'.machine = devcon.machine
      /\ devcon'.timer = devcon.timer /\ devcon'.control = devcon.control
      /\ devcon'.remote = r
  BY <1>3, <1>6, <1>7 DEF Objects
<1>9. ChoiceInStep'
  BY <1>1, <1>2, <1>4, <1>6, <1>8 DEF ChoiceInStep, Ready
<1>10. RequestInStep'
  BY <1>1, <1>2, <1>8 DEF RequestInStep
<1> QED BY <1>1, <1>2, <1>8, <1>9, <1>10 DEF DevConInv, Typed, OneProcess, InStep

\* The timer ended, and with it the process unless it was cancelled.
LEMMA TimerStep ==
  ASSUME DevConInv, RunTimer
  PROVE  DevConInv'
<1>1. Typed /\ OneProcess /\ InStep(devcon) /\ RequestInStep /\ ChoiceInStep
  BY DEF DevConInv
<1>2. /\ process = "Up" /\ bus' = bus /\ running' = running /\ host' = host
      /\ Ready(devcon.timer)
  BY DEF RunTimer, Up
<1>3. host.request # NoRequest => host.pending /\ ~devcon.control
  BY <1>1, <1>2 DEF RequestInStep
<1>4. CASE devcon.timer.iStatus = KErrNone
  <2>1. /\ process' = "None" /\ devcon' = InitDevCon /\ states' = << >>
        /\ starter' = [starter EXCEPT !.iStatus = KErrNone]
    BY <1>4 DEF RunTimer
  <2>2. starter' \in Starter
    BY <1>1, <2>1 DEF Typed, Starter
  <2>3. Typed'
    BY <1>1, <1>2, <2>1, <2>2, InitDevConType DEF Typed
  <2>4. RequestInStep'
    BY <1>1, <1>2, <1>3, <2>1, InitDevConType DEF RequestInStep
  <2> QED BY <1>1, <1>2, <2>1, <2>3, <2>4, InitDevConType DEF DevConInv, OneProcess, ChoiceInStep
<1>5. CASE devcon.timer.iStatus # KErrNone
  <2>1. /\ devcon' = [devcon EXCEPT !.timer.active = FALSE]
        /\ process' = process /\ states' = states /\ starter' = starter
    BY <1>5 DEF RunTimer
  <2>2. devcon \in Objects /\ devcon.timer \in ActiveObject
    BY <1>1 DEF Typed, Objects
  <2> DEFINE k == [devcon.timer EXCEPT !.active = FALSE]
  <2>3. k \in ActiveObject /\ ~k.active
    BY <2>2 DEF ActiveObject
  <2>4. devcon' = [devcon EXCEPT !.timer = k]
    BY <2>1, <2>2 DEF Objects
  <2> HIDE DEF k
  <2>5. /\ devcon' \in Objects /\ devcon'.reader = devcon.reader /\ devcon'.writer = devcon.writer
        /\ devcon'.packet = devcon.packet /\ devcon'.machine = devcon.machine
        /\ devcon'.timer = k /\ devcon'.control = devcon.control
        /\ devcon'.remote = devcon.remote
    BY <2>2, <2>3, <2>4 DEF Objects
  <2>6. InStep(devcon)'
    BY <1>1, <2>3, <2>5, Requesting DEF InStep
  <2>7. RequestInStep'
    BY <1>1, <1>2, <2>1, <2>3, <2>5 DEF RequestInStep, Ready
  <2> QED BY <1>1, <1>2, <2>1, <2>5, <2>6, <2>7 DEF DevConInv, Typed, OneProcess, ChoiceInStep
<1> QED BY <1>4, <1>5

\* The process comes up.
LEMMA ProcessStep ==
  ASSUME DevConInv, ProcessStarts
  PROVE  DevConInv'
<1>1. Typed /\ OneProcess /\ InStep(devcon) /\ RequestInStep /\ ChoiceInStep
  BY DEF DevConInv
<1>2. /\ process = "Created" /\ process' = "Up" /\ bus' = bus /\ running' = running
      /\ states' = << >> /\ starter' = [starter EXCEPT !.iStatus = KErrNone]
      /\ Becomes(Construct(Memory(KErrNone), bus))
  BY DEF ProcessStarts
<1> DEFINE m == Memory(KErrNone)
           i == [m EXCEPT !.d = InitDevCon]
           t == Construct(m, bus)
<1>3. m \in Mem /\ m.answer = "None"
  BY <1>1, MemoryType
<1>4. devcon' = t.d /\ host' = Answered(t.answer)
  BY <1>2 DEF Becomes
<1> HIDE DEF m
<1>5. Followed(t, i) /\ i.d = InitDevCon /\ i.answer = "None"
  BY <1>3, Constructs DEF Mem
<1> HIDE DEF t, i
<1>6. host' = host
  BY <1>1, <1>4, <1>5, AnsweredType DEF Followed
<1>7. /\ devcon' \in Objects /\ InStep(devcon)' /\ ~Ready(devcon'.timer)
      /\ ~Ready(devcon'.reader) /\ ~Ready(devcon'.writer) /\ devcon'.packet = NoRequest
      /\ ~devcon'.remote.active /\ devcon'.remote.iLastResult # "ESuccess"
  BY <1>4, <1>5, InitDevConType DEF Followed, Mem
<1>8. devcon = InitDevCon /\ starter.iState = "WaitingRendezvous"
  BY <1>1, <1>2 DEF OneProcess
<1>9. host.request # NoRequest => host.pending
  BY <1>1, <1>8, InitDevConType DEF RequestInStep
<1>10. RequestInStep'
  BY <1>1, <1>2, <1>6, <1>7, <1>9 DEF RequestInStep
<1>11. starter' \in Starter /\ starter'.iState = "WaitingRendezvous"
  BY <1>1, <1>2, <1>8 DEF Typed, Starter
<1>12. Typed'
  BY <1>1, <1>2, <1>6, <1>7, <1>11 DEF Typed
<1> QED BY <1>2, <1>7, <1>10, <1>11, <1>12 DEF DevConInv, OneProcess, ChoiceInStep

-----------------------------------------------------------------------------
\* The starter.

\* A step that leaves usbdevcon, the bus and the host alone.
LEMMA StarterFrame ==
  ASSUME DevConInv, UNCHANGED << devcon, bus, states, host, running >>,
         process' \in {"None", "Created", "Up"}, starter' \in Starter, OneProcess'
  PROVE  DevConInv'
BY DEF DevConInv, Typed, InStep, RequestInStep, ChoiceInStep

\* Start waits for the rendezvous of a new process when it was idle.
LEMMA StarterStarts ==
  ASSUME NEW m, m.starter \in Starter, m.in.process = KErrNone,
         m = [starter |-> m.starter, fault |-> m.fault, in |-> m.in]
  PROVE  /\ StarterStart(m).starter \in Starter
         /\ m.starter.iState # "Idle" =>
              /\ StarterStart(m).starter.iState = m.starter.iState
              /\ StarterStart(m).starter.iStatus = m.starter.iStatus
         /\ m.starter.iState = "Idle" =>
              /\ StarterStart(m).starter.iState = "WaitingRendezvous"
              /\ StarterStart(m).starter.iStatus = Pending
<1>1. CASE m.starter.iState # "Idle"
  BY <1>1 DEF StarterStart, Starter
<1>2. CASE m.starter.iState = "Idle"
  <2>1. StarterStart(m).starter
          = [m.starter EXCEPT !.iStarted = TRUE, !.iState = "WaitingRendezvous",
                              !.active = TRUE, !.iStatus = Pending]
    BY <1>2 DEF StarterStart, StarterWaits, Starter
  <2> QED BY <1>2, <2>1 DEF Starter, StarterStates
<1> QED BY <1>1, <1>2

\* The cable: a process is created only when the starter was idle.
LEMMA CableStep ==
  ASSUME DevConInv, CableReported
  PROVE  DevConInv'
<1>1. Typed /\ OneProcess
  BY DEF DevConInv
<1>2. UNCHANGED << devcon, bus, states, host, running >>
  BY DEF CableReported
<1> DEFINE m == StarterMemory
<1>3. /\ m.starter = starter /\ m.in.process = KErrNone /\ starter \in Starter
      /\ m = [starter |-> m.starter, fault |-> m.fault, in |-> m.in]
  BY <1>1 DEF StarterMemory, Typed
<1> HIDE DEF m
<1>4. CASE StarterBecomes(StarterStart(m))
  <2> DEFINE t == StarterStart(m).starter
  <2>1. starter' = t
    BY <1>4 DEF StarterBecomes
  <2>2. process' = IF t.iState = "WaitingRendezvous" /\ starter.iState # "WaitingRendezvous"
                     THEN "Created" ELSE process
    BY <1>4 DEF StarterBecomes
  <2>3. /\ t \in Starter
        /\ starter.iState # "Idle" => t.iState = starter.iState /\ t.iStatus = starter.iStatus
        /\ starter.iState = "Idle" => t.iState = "WaitingRendezvous" /\ t.iStatus = Pending
    BY <1>3, StarterStarts
  <2> HIDE DEF t
  <2>4. OneProcess' /\ process' \in {"None", "Created", "Up"}
    BY <1>1, <1>2, <2>1, <2>2, <2>3 DEF OneProcess, Typed
  <2> QED BY <1>2, <2>1, <2>3, <2>4, StarterFrame
<1>5. CASE StarterBecomes(StopRestarting(m))
  <2>1. StopRestarting(m).starter = [starter EXCEPT !.iStarted = FALSE]
    BY <1>3 DEF StopRestarting
  <2>2. /\ starter' \in Starter /\ starter'.iState = starter.iState
        /\ starter'.iStatus = starter.iStatus
    BY <1>3, <1>5, <2>1 DEF StarterBecomes, Starter
  <2>3. process' = process
    BY <1>3, <1>5, <2>1 DEF StarterBecomes, Starter
  <2> QED BY <1>1, <1>2, <2>2, <2>3, StarterFrame DEF OneProcess, Typed
<1> QED BY <1>4, <1>5 DEF CableReported, m

\* The starter hears of the rendezvous or of the end of the process.
LEMMA StarterStep ==
  ASSUME DevConInv, RunStarter
  PROVE  DevConInv'
<1>1. Typed /\ OneProcess
  BY DEF DevConInv
<1>2. UNCHANGED << devcon, bus, states, host, running >> /\ Ready(starter)
  BY DEF RunStarter
<1> DEFINE m == StarterMemory
           t == StarterRunL(m)
           n == IF t.starter.iState = "Running" /\ process = "None"
                  THEN [t EXCEPT !.starter.iStatus = KErrNone] ELSE t
           d == [m EXCEPT !.starter.active = FALSE]
           i == [d EXCEPT !.starter.iState = "Idle"]
<1>3. /\ m.starter = starter /\ m.in.process = KErrNone /\ starter \in Starter
      /\ m = [starter |-> m.starter, fault |-> m.fault, in |-> m.in]
  BY <1>1 DEF StarterMemory, Typed
<1>4. StarterBecomes(n)
  BY DEF RunStarter
<1> HIDE DEF m
<1>5. process = "Up" => starter.iState = "WaitingRendezvous"
  BY <1>1, <1>2 DEF OneProcess, Ready
<1>6. process # "Created"
  BY <1>1, <1>2 DEF OneProcess, Ready
<1>7. CASE starter.iState = "WaitingRendezvous"
  <2>1. t.starter = [starter EXCEPT !.iState = "Running", !.active = TRUE, !.iStatus = Pending]
    BY <1>3, <1>7 DEF StarterRunL, StarterWaits, Starter
  <2>2. t = [starter |-> t.starter, fault |-> t.fault, in |-> t.in]
    BY <1>3, <1>7 DEF StarterRunL, StarterWaits
  <2> HIDE DEF t
  <2>3. t.starter \in Starter /\ t.starter.iState = "Running" /\ t.starter.iStatus = Pending
    BY <1>3, <2>1 DEF Starter, StarterStates
  <2>4. /\ n.starter \in Starter /\ n.starter.iState = "Running"
        /\ process # "None" => n.starter.iStatus = Pending
    BY <2>2, <2>3 DEF Starter
  <2>5. starter' = n.starter /\ process' = process
    BY <1>4, <2>4 DEF StarterBecomes
  <2>6. OneProcess'
    BY <1>1, <1>2, <1>6, <2>4, <2>5 DEF OneProcess, Typed
  <2> QED BY <1>1, <1>2, <2>4, <2>5, <2>6, StarterFrame DEF Typed
<1>8. CASE starter.iState = "Idle"
  <2>1. t = d
    BY <1>3, <1>8 DEF StarterRunL
  <2>2. d.starter \in Starter /\ d.starter.iState = "Idle"
    BY <1>3, <1>8 DEF Starter
  <2>3. n = d
    BY <2>1, <2>2
  <2>4. starter' = d.starter /\ process' = process
    BY <1>4, <2>2, <2>3 DEF StarterBecomes
  <2>5. process = "None" /\ devcon = InitDevCon
    BY <1>1, <1>5, <1>6, <1>8 DEF OneProcess, Typed
  <2> QED BY <1>2, <2>2, <2>4, <2>5, StarterFrame DEF OneProcess
<1>9. CASE starter.iState = "Running"
  <2>1. process = "None" /\ devcon = InitDevCon
    BY <1>1, <1>5, <1>6, <1>9 DEF OneProcess, Typed
  <2>2. /\ i.starter \in Starter /\ i.starter.iState = "Idle" /\ i.in.process = KErrNone
        /\ i = [starter |-> i.starter, fault |-> i.fault, in |-> i.in]
    <3> DEFINE M == [starter : Starter, fault : {fault}, in : {[process |-> KErrNone]}]
    <3>1. m \in M
      BY <1>3 DEF m, StarterMemory
    <3>2. d \in M
      <4>1. [m.starter EXCEPT !.active = FALSE] \in Starter
        BY <1>3 DEF Starter
      <4> QED BY <3>1, <4>1
    <3> HIDE DEF d
    <3>3. [d.starter EXCEPT !.iState = "Idle"] \in Starter
      BY <3>2 DEF Starter, StarterStates
    <3>4. i \in M /\ i.starter = [d.starter EXCEPT !.iState = "Idle"]
      BY <3>2, <3>3
    <3>5. i.starter.iState = "Idle"
      BY <3>2, <3>4 DEF Starter
    <3> HIDE DEF i
    <3> QED BY <3>4, <3>5
  <2>3. t \in {StarterStart(i), i}
    BY <1>3, <1>9 DEF StarterRunL
  <2> HIDE DEF i
  <2>4. /\ StarterStart(i).starter \in Starter
        /\ StarterStart(i).starter.iState = "WaitingRendezvous"
        /\ StarterStart(i).starter.iStatus = Pending
    BY <2>2, StarterStarts
  <2> HIDE DEF t
  <2>5. n = t
    BY <2>2, <2>3, <2>4
  <2>6. /\ starter' \in Starter
        /\ starter'.iState = "Idle" \/ (starter'.iState = "WaitingRendezvous" /\ starter'.iStatus = Pending)
    BY <1>4, <2>2, <2>3, <2>4, <2>5 DEF StarterBecomes
  <2>7. process' = IF starter'.iState = "WaitingRendezvous" THEN "Created" ELSE process
    BY <1>4, <1>9, <2>5 DEF StarterBecomes
  <2> QED BY <1>2, <2>1, <2>6, <2>7, StarterFrame DEF OneProcess
<1> QED BY <1>3, <1>7, <1>8, <1>9 DEF Starter, StarterStates

-----------------------------------------------------------------------------
\* The bus, the host, the driver and the watcher.

\* What a step outside the process does to a request on endpoint 0: its status.
LEMMA CompletedType ==
  ASSUME devcon \in Objects, NEW a \in Code, NEW b \in Code
  PROVE  LET d == [devcon EXCEPT !.reader.iStatus = a, !.writer.iStatus = b] IN
         /\ d \in Objects /\ d.reader.active = devcon.reader.active
         /\ d.reader.iStatus = a /\ d.writer.iStatus = b
         /\ d.writer.active = devcon.writer.active /\ d.packet = devcon.packet
         /\ d.machine = devcon.machine /\ d.timer = devcon.timer
         /\ d.control = devcon.control /\ d.remote = devcon.remote
<1> DEFINE r == [devcon.reader EXCEPT !.iStatus = a]
           w == [devcon.writer EXCEPT !.iStatus = b]
           d == [devcon EXCEPT !.reader = r, !.writer = w]
<1>1. devcon.reader \in ActiveObject /\ devcon.writer \in ActiveObject
  BY DEF Objects
<1>2. /\ r \in ActiveObject /\ r.active = devcon.reader.active /\ r.iStatus = a
      /\ w \in ActiveObject /\ w.active = devcon.writer.active /\ w.iStatus = b
  BY <1>1 DEF ActiveObject
<1>3. d = [devcon EXCEPT !.reader.iStatus = a, !.writer.iStatus = b]
  BY DEF Objects
<1> HIDE DEF r, w
<1>4. /\ d \in Objects /\ d.reader = r /\ d.writer = w /\ d.packet = devcon.packet
      /\ d.machine = devcon.machine /\ d.timer = devcon.timer
      /\ d.control = devcon.control /\ d.remote = devcon.remote
  BY <1>2 DEF Objects
<1> QED BY <1>2, <1>3, <1>4

\* A new state of the bus ends the request of the host.
LEMMA BusStep ==
  ASSUME DevConInv, BusChanges
  PROVE  DevConInv'
<1>1. Typed /\ OneProcess /\ InStep(devcon) /\ RequestInStep /\ ChoiceInStep
  BY DEF DevConInv
<1>2. PICK s \in BusNext[bus] \cup {"Undefined"} : BusGoesTo(s)
  BY DEF BusChanges
<1> DEFINE a == IF devcon.reader = Waits /\ devcon.machine = "Data" THEN KErrGeneral
                ELSE devcon.reader.iStatus
           b == IF devcon.writer = Waits THEN KErrGeneral ELSE devcon.writer.iStatus
<1>3. /\ bus' = s /\ process' = process /\ starter' = starter /\ running' = running
      /\ host' = [host EXCEPT !.request = NoRequest, !.pending = FALSE]
      /\ devcon' = [devcon EXCEPT !.reader.iStatus = a, !.writer.iStatus = b]
      /\ states' = IF Up /\ devcon.watching THEN Append(states, s) ELSE states
  BY <1>2 DEF BusGoesTo
<1>4. s \in BusStates
  BY <1>1, <1>2 DEF Typed, BusStates, BusNext
<1>5. devcon \in Objects /\ devcon.reader \in ActiveObject /\ devcon.writer \in ActiveObject
  BY <1>1 DEF Typed, Objects
<1>6. a \in Code /\ b \in Code
  BY <1>5 DEF ActiveObject
<1> HIDE DEF a, b
<1>7. /\ devcon' \in Objects /\ devcon'.reader.active = devcon.reader.active
      /\ devcon'.writer.active = devcon.writer.active /\ devcon'.packet = devcon.packet
      /\ devcon'.machine = devcon.machine /\ devcon'.timer = devcon.timer
      /\ devcon'.control = devcon.control /\ devcon'.remote = devcon.remote
  BY <1>3, <1>5, <1>6, CompletedType
<1>8. /\ host' \in Host /\ host'.request = NoRequest /\ ~host'.pending
      /\ host'.asked = host.asked
  BY <1>1, <1>3 DEF Typed, Host, Packet
<1>9. states' \in Seq(BusStates \cup {"Alternate"})
  BY <1>1, <1>3, <1>4 DEF Typed
<1>10. process # "Up" => devcon' = InitDevCon
  <2>1. ASSUME devcon = InitDevCon
        PROVE  devcon' = InitDevCon
    <3>1. a = devcon.reader.iStatus /\ b = devcon.writer.iStatus
      BY <2>1, InitDevConType DEF a, b
    <3> QED BY <1>3, <1>5, <2>1, <3>1 DEF Objects, ActiveObject
  <2> QED BY <1>1, <2>1 DEF OneProcess
<1>11. Typed'
  BY <1>1, <1>3, <1>4, <1>7, <1>8, <1>9 DEF Typed
<1>12. RequestInStep'
  BY <1>1, <1>7, <1>8 DEF RequestInStep
<1>13. OneProcess'
  BY <1>1, <1>3, <1>10 DEF OneProcess
<1> QED BY <1>1, <1>3, <1>7, <1>8, <1>11, <1>12, <1>13 DEF DevConInv, InStep, ChoiceInStep

\* An alternate setting is told.
LEMMA AlternateStep ==
  ASSUME DevConInv, AlternateSetting
  PROVE  DevConInv'
<1>1. Typed /\ OneProcess /\ InStep(devcon) /\ RequestInStep /\ ChoiceInStep
  BY DEF DevConInv
<1>2. /\ UNCHANGED << process, starter, bus, running, devcon, host >>
      /\ states' = Append(states, "Alternate")
  BY DEF AlternateSetting, Outside
<1>3. states \in Seq(BusStates \cup {"Alternate"})
  BY <1>1 DEF Typed
<1>4. states' \in Seq(BusStates \cup {"Alternate"})
  BY <1>2, <1>3
<1>5. (\A i \in 1..Len(states) : states[i] = "Alternate") =>
        \A i \in 1..Len(states') : states'[i] = "Alternate"
  BY <1>2, <1>3
<1>6. RequestInStep'
  BY <1>1, <1>2, <1>5 DEF RequestInStep
<1> QED BY <1>1, <1>2, <1>4, <1>6 DEF DevConInv, Typed, OneProcess, InStep, ChoiceInStep

\* The host asks when the process is done with what there was before.
LEMMA AskStep ==
  ASSUME DevConInv, HostAsks
  PROVE  DevConInv'
<1>1. Typed /\ OneProcess /\ InStep(devcon) /\ RequestInStep /\ ChoiceInStep
  BY DEF DevConInv
<1>2. UNCHANGED << process, starter, bus, running, devcon, states >> /\ Settled
  BY DEF HostAsks, Outside
<1>3. PICK r \in Requests :
        host' = [request |-> r, pending |-> TRUE,
                 asked |-> IF r.name = "GetLastResult" THEN host.asked ELSE "none"]
  BY DEF HostAsks
<1>4. r \in Request /\ r \in Packet /\ r # NoRequest
  BY DevConAssumption, RequestNames DEF Packet
<1> DEFINE x == IF r.name = "GetLastResult" THEN host.asked ELSE "none"
<1>5. x \in Choice /\ x \in {host.asked, "none"}
  BY <1>1 DEF Typed, Host, Choice
<1>6. r.name # "GetLastResult" => x = "none"
  OBVIOUS
<1> HIDE DEF x
<1>7. /\ host' \in Host /\ host'.request = r /\ host'.pending /\ host'.asked = x
  BY <1>3, <1>4, <1>5 DEF Host, x
<1>8. RequestInStep'
  BY <1>1, <1>2, <1>4, <1>5, <1>6, <1>7 DEF RequestInStep, Settled
<1> QED BY <1>1, <1>2, <1>5, <1>7, <1>8 DEF DevConInv, Typed, OneProcess, InStep, ChoiceInStep

\* The setup packet arrives, or ends what is left of an earlier request, or nobody has
\* device control to answer it.
LEMMA SetupStep ==
  ASSUME DevConInv, SetupArrives
  PROVE  DevConInv'
<1>1. Typed /\ OneProcess /\ InStep(devcon) /\ RequestInStep /\ ChoiceInStep
  BY DEF DevConInv
<1>2. UNCHANGED << process, starter, bus, running, states >> /\ host.pending
  BY DEF SetupArrives, Outside
<1>3. /\ devcon \in Objects /\ devcon.reader \in ActiveObject /\ devcon.writer \in ActiveObject
      /\ host \in Host /\ host.request \in Packet /\ host.request # NoRequest
      /\ {KErrNone, KErrGeneral, devcon.reader.iStatus, devcon.writer.iStatus} \subseteq Code
  BY <1>1, <1>2 DEF Typed, Objects, Host, ActiveObject, RequestInStep
<1>4. devcon.reader = Waits \/ devcon.writer = Waits => process = "Up"
  BY <1>1, InitDevConType DEF OneProcess
<1>5. CASE /\ devcon.control /\ devcon.machine = "Setup" /\ devcon.reader = Waits
           /\ devcon' = [devcon EXCEPT !.reader.iStatus = KErrNone, !.packet = host.request]
           /\ host' = [host EXCEPT !.pending = FALSE]
  <2> DEFINE d == [devcon EXCEPT !.reader.iStatus = KErrNone,
                                 !.writer.iStatus = devcon.writer.iStatus]
  <2>1. /\ d \in Objects /\ d.reader.active = devcon.reader.active
        /\ d.reader.iStatus = KErrNone /\ d.writer.iStatus = devcon.writer.iStatus
        /\ d.writer.active = devcon.writer.active /\ d.packet = devcon.packet
        /\ d.machine = devcon.machine /\ d.timer = devcon.timer
        /\ d.control = devcon.control /\ d.remote = devcon.remote
    BY <1>3, CompletedType
  <2>2. devcon' = [d EXCEPT !.packet = host.request]
    BY <1>3, <1>5 DEF Objects, ActiveObject
  <2> HIDE DEF d
  <2>3. /\ devcon' \in Objects /\ devcon'.reader = d.reader /\ devcon'.writer = d.writer
        /\ devcon'.packet = host.request /\ devcon'.machine = d.machine
        /\ devcon'.timer = d.timer /\ devcon'.control = d.control /\ devcon'.remote = d.remote
    BY <1>3, <2>1, <2>2 DEF Objects
  <2>4. /\ host' \in Host /\ host'.request = host.request /\ ~host'.pending
        /\ host'.asked = host.asked
    BY <1>3, <1>5 DEF Host
  <2>5. InStep(devcon)'
    BY <1>1, <2>1, <2>3 DEF InStep
  <2>6. ~devcon.writer.active
    BY <1>1, <1>5 DEF InStep
  <2>7. RequestInStep'
    BY <1>1, <1>2, <1>3, <1>5, <2>1, <2>3, <2>4, <2>6 DEF RequestInStep, Ready
  <2>8. ChoiceInStep'
    BY <1>1, <1>2, <2>1, <2>3, <2>4 DEF ChoiceInStep
  <2>9. Typed'
    BY <1>1, <1>2, <2>3, <2>4 DEF Typed
  <2>10. OneProcess'
    BY <1>1, <1>2, <1>4, <1>5 DEF OneProcess
  <2> QED BY <2>5, <2>7, <2>8, <2>9, <2>10 DEF DevConInv
<1>6. CASE /\ \/ /\ devcon.machine = "Data" /\ devcon.reader = Waits
                 /\ devcon' = [devcon EXCEPT !.reader.iStatus = KErrGeneral]
              \/ /\ devcon.writer = Waits
                 /\ devcon' = [devcon EXCEPT !.writer.iStatus = KErrGeneral]
           /\ host' = host
  <2>1. PICK a \in Code, b \in Code :
          /\ devcon' = [devcon EXCEPT !.reader.iStatus = a, !.writer.iStatus = b]
          /\ a \in {devcon.reader.iStatus, KErrGeneral}
          /\ b \in {devcon.writer.iStatus, KErrGeneral}
    <3>1. CASE devcon' = [devcon EXCEPT !.reader.iStatus = KErrGeneral]
      <4>1. devcon' = [devcon EXCEPT !.reader.iStatus = KErrGeneral,
                                     !.writer.iStatus = devcon.writer.iStatus]
        BY <3>1, <1>3 DEF Objects, ActiveObject
      <4> QED BY <4>1, <1>3
    <3>2. CASE devcon' = [devcon EXCEPT !.writer.iStatus = KErrGeneral]
      <4>1. devcon' = [devcon EXCEPT !.reader.iStatus = devcon.reader.iStatus,
                                     !.writer.iStatus = KErrGeneral]
        BY <3>2, <1>3 DEF Objects, ActiveObject
      <4> QED BY <4>1, <1>3
    <3> QED BY <1>6, <3>1, <3>2
  <2>2. /\ devcon' \in Objects /\ devcon'.reader.active = devcon.reader.active
        /\ devcon'.reader.iStatus = a /\ devcon'.writer.iStatus = b
        /\ devcon'.writer.active = devcon.writer.active /\ devcon'.packet = devcon.packet
        /\ devcon'.machine = devcon.machine /\ devcon'.timer = devcon.timer
        /\ devcon'.control = devcon.control /\ devcon'.remote = devcon.remote
    BY <1>3, <2>1, CompletedType
  <2>3. RequestInStep'
    <3>1. KErrGeneral # KErrNone /\ KErrGeneral # Pending
      BY DEF KErrGeneral, KErrNone, Pending
    <3>2. /\ Ready(devcon'.reader) => devcon'.reader.iStatus # KErrNone
          /\ Ready(devcon'.writer) => devcon'.writer.iStatus # KErrNone
      BY <1>1, <1>2, <1>3, <2>1, <2>2, <3>1 DEF RequestInStep, Ready
    <3>3. Ready(devcon.timer)' = Ready(devcon.timer)
      BY <2>2
    <3> QED BY <1>1, <1>2, <1>3, <1>6, <2>2, <3>2, <3>3 DEF RequestInStep
  <2>4. Typed' /\ OneProcess'
    BY <1>1, <1>2, <1>4, <1>6, <2>2 DEF Typed, OneProcess
  <2> QED BY <1>1, <1>2, <1>6, <2>2, <2>3, <2>4 DEF DevConInv, InStep, ChoiceInStep
<1>7. CASE ~devcon.control /\ host' = Answered("Stall") /\ devcon' = devcon
  <2>1. /\ host' \in Host /\ host'.request = NoRequest /\ host'.asked = host.asked
        /\ ~host'.pending
    BY <1>1, <1>3, <1>7, AnsweredType
  <2>2. RequestInStep'
    BY <1>1, <1>7, <2>1 DEF RequestInStep
  <2> QED BY <1>1, <1>2, <1>7, <2>1, <2>2 DEF DevConInv, Typed, OneProcess, InStep, ChoiceInStep
<1> QED BY <1>5, <1>6, <1>7 DEF SetupArrives

\* The data arrives.
LEMMA DataStep ==
  ASSUME DevConInv, DataArrives
  PROVE  DevConInv'
<1>1. Typed /\ OneProcess /\ InStep(devcon) /\ RequestInStep /\ ChoiceInStep
  BY DEF DevConInv
<1>2. /\ UNCHANGED << process, starter, bus, running, states, host >>
      /\ host.request # NoRequest /\ ~host.pending /\ devcon.reader = Waits
      /\ devcon' = [devcon EXCEPT !.reader.iStatus = KErrNone]
  BY DEF DataArrives, Outside
<1>3. /\ devcon \in Objects /\ devcon.reader \in ActiveObject /\ devcon.writer \in ActiveObject
      /\ {KErrNone, devcon.writer.iStatus} \subseteq Code
  BY <1>1 DEF Typed, Objects, ActiveObject
<1>4. devcon' = [devcon EXCEPT !.reader.iStatus = KErrNone,
                               !.writer.iStatus = devcon.writer.iStatus]
  BY <1>2, <1>3 DEF Objects, ActiveObject
<1>5. /\ devcon' \in Objects /\ devcon'.reader.active = devcon.reader.active
      /\ devcon'.reader.iStatus = KErrNone /\ devcon'.writer.iStatus = devcon.writer.iStatus
      /\ devcon'.writer.active = devcon.writer.active /\ devcon'.packet = devcon.packet
      /\ devcon'.machine = devcon.machine /\ devcon'.timer = devcon.timer
      /\ devcon'.control = devcon.control /\ devcon'.remote = devcon.remote
  BY <1>3, <1>4, CompletedType
<1>6. RequestInStep'
  BY <1>1, <1>2, <1>5 DEF RequestInStep, Ready
<1>7. process = "Up"
  BY <1>1, <1>2, InitDevConType DEF OneProcess
<1> QED BY <1>1, <1>2, <1>5, <1>6, <1>7 DEF DevConInv, Typed, OneProcess, InStep, ChoiceInStep

\* The answer is read.
LEMMA ReadStep ==
  ASSUME DevConInv, DataIsRead
  PROVE  DevConInv'
<1>1. Typed /\ OneProcess /\ InStep(devcon) /\ RequestInStep /\ ChoiceInStep
  BY DEF DevConInv
<1>2. /\ UNCHANGED << process, starter, bus, running, states >>
      /\ host.request # NoRequest /\ ~host.pending /\ devcon.writer = Waits
      /\ devcon' = [devcon EXCEPT !.writer.iStatus = KErrNone] /\ host' = Answered("Data")
  BY DEF DataIsRead, Outside
<1>3. /\ devcon \in Objects /\ devcon.reader \in ActiveObject /\ devcon.writer \in ActiveObject
      /\ {KErrNone, devcon.reader.iStatus} \subseteq Code
  BY <1>1 DEF Typed, Objects, ActiveObject
<1>4. devcon' = [devcon EXCEPT !.reader.iStatus = devcon.reader.iStatus,
                               !.writer.iStatus = KErrNone]
  BY <1>2, <1>3 DEF Objects, ActiveObject
<1>5. /\ devcon' \in Objects /\ devcon'.reader.active = devcon.reader.active
      /\ devcon'.writer.active = devcon.writer.active /\ devcon'.packet = devcon.packet
      /\ devcon'.machine = devcon.machine /\ devcon'.timer = devcon.timer
      /\ devcon'.control = devcon.control /\ devcon'.remote = devcon.remote
  BY <1>3, <1>4, CompletedType
<1>6. /\ host' \in Host /\ host'.request = NoRequest /\ ~host'.pending
      /\ host'.asked = host.asked
  BY <1>1, <1>2, AnsweredType
<1>7. RequestInStep'
  BY <1>1, <1>5, <1>6 DEF RequestInStep
<1>8. process = "Up"
  BY <1>1, <1>2, InitDevConType DEF OneProcess
<1> QED BY <1>1, <1>2, <1>5, <1>6, <1>7, <1>8 DEF DevConInv, Typed, OneProcess, InStep, ChoiceInStep

\* The watcher answers, and runs the personality if it was not refused.
LEMMA WatcherStep ==
  ASSUME DevConInv, WatcherAnswers
  PROVE  DevConInv'
<1>1. Typed /\ OneProcess /\ InStep(devcon) /\ RequestInStep /\ ChoiceInStep
  BY DEF DevConInv
<1>2. UNCHANGED << process, starter, bus, states, host >> /\ devcon.remote.active
  BY DEF WatcherAnswers
<1>3. PICK code \in SetAnswers :
        /\ devcon' = [devcon EXCEPT !.remote.iStatus = code]
        /\ running' = IF code = KErrNone THEN devcon.remote.id ELSE running
  BY DEF WatcherAnswers
<1> DEFINE r == [devcon.remote EXCEPT !.iStatus = code]
<1>4. devcon \in Objects /\ devcon.remote \in Remote /\ code \in Code
  BY <1>1, DevConAssumption DEF Typed, Objects
<1>5. /\ r \in Remote /\ r.active = devcon.remote.active /\ r.iStatus = code
      /\ r.id = devcon.remote.id /\ r.iLastResult = devcon.remote.iLastResult
  BY <1>4 DEF Remote
<1>6. devcon' = [devcon EXCEPT !.remote = r]
  BY <1>3, <1>4 DEF Objects
<1> HIDE DEF r
<1>7. /\ devcon' \in Objects /\ devcon'.reader = devcon.reader /\ devcon'.writer = devcon.writer
      /\ devcon'.packet = devcon.packet /\ devcon'.machine = devcon.machine
      /\ devcon'.timer = devcon.timer /\ devcon'.control = devcon.control
      /\ devcon'.remote = r
  BY <1>4, <1>5, <1>6 DEF Objects
<1>8. ChoiceInStep'
  BY <1>1, <1>2, <1>3, <1>5, <1>7 DEF ChoiceInStep
<1>9. RequestInStep'
  BY <1>1, <1>2, <1>7 DEF RequestInStep
<1>10. process = "Up"
  BY <1>1, <1>2, InitDevConType DEF OneProcess
<1> QED BY <1>1, <1>2, <1>7, <1>8, <1>9, <1>10 DEF DevConInv, Typed, OneProcess, InStep

\* The shutdown timer expires.
LEMMA ExpiryStep ==
  ASSUME DevConInv, TimerExpires
  PROVE  DevConInv'
<1>1. Typed /\ OneProcess /\ InStep(devcon) /\ RequestInStep /\ ChoiceInStep
  BY DEF DevConInv
<1>2. /\ UNCHANGED << process, starter, bus, running, states, host >>
      /\ devcon.timer = Waits
      /\ devcon' = [devcon EXCEPT !.timer.iStatus = KErrNone]
  BY DEF TimerExpires, Outside
<1> DEFINE k == [devcon.timer EXCEPT !.iStatus = KErrNone]
<1>3. devcon \in Objects /\ devcon.timer \in ActiveObject
  BY <1>1 DEF Typed, Objects
<1>4. k \in ActiveObject /\ k # Waits
  BY <1>3 DEF ActiveObject, Waits, KErrNone, Pending
<1>5. devcon' = [devcon EXCEPT !.timer = k]
  BY <1>2, <1>3 DEF Objects
<1> HIDE DEF k
<1>6. /\ devcon' \in Objects /\ devcon'.reader = devcon.reader /\ devcon'.writer = devcon.writer
      /\ devcon'.packet = devcon.packet /\ devcon'.machine = devcon.machine
      /\ devcon'.timer = k /\ devcon'.control = devcon.control /\ devcon'.remote = devcon.remote
  BY <1>3, <1>4, <1>5 DEF Objects
<1>7. ~devcon.control /\ devcon # InitDevCon
  BY <1>1, <1>2, InitDevConType DEF InStep
<1>8. RequestInStep'
  BY <1>1, <1>2, <1>6, <1>7 DEF RequestInStep
<1>9. InStep(devcon)'
  BY <1>1, <1>4, <1>6 DEF InStep
<1> QED BY <1>1, <1>2, <1>6, <1>7, <1>8, <1>9 DEF DevConInv, Typed, OneProcess, ChoiceInStep

-----------------------------------------------------------------------------
\* The theorems.

\* DevConInv holds at the start.
LEMMA DevConInit == Init => DevConInv
<1> SUFFICES ASSUME Init
             PROVE  DevConInv
  OBVIOUS
<1>1. host = InitHost /\ host \in Host
  BY DEF Init, InitHost, Host, Packet, Choice
<1>2. starter \in Starter
  BY DEF Init, InitStarter, Starter, StarterStates
<1>3. Typed
  BY <1>1, <1>2, InitDevConType DEF Init, Typed, BusStates
<1>4. RequestInStep
  BY <1>1, InitDevConType DEF Init, InitHost, RequestInStep
<1>5. OneProcess /\ InStep(devcon) /\ ChoiceInStep
  BY <1>1, InitDevConType DEF Init, InitHost, OneProcess, ChoiceInStep
<1> QED BY <1>3, <1>4, <1>5 DEF DevConInv

\* DevConInv is an invariant of usbdevcon.
THEOREM DevConInvariant == Spec => []DevConInv
<1>1. DevConInv /\ UNCHANGED vars => DevConInv'
  BY DEF DevConInv, Typed, OneProcess, InStep, RequestInStep, ChoiceInStep, vars
<1>2. DevConInv /\ [Next]_vars => DevConInv'
  BY <1>1, StateWatcherStep, ReaderStep, WriterStep, SetPersonalityStep, TimerStep,
     ProcessStep, CableStep, StarterStep, BusStep, AlternateStep, AskStep, SetupStep,
     DataStep, ReadStep, WatcherStep, ExpiryStep
     DEF Next, Others, Transfers
<1> QED BY <1>2, DevConInit, PTL DEF Spec

\* The state machine on endpoint 0 is in step with its requests and with device control,
\* whatever the bus, the host and the timer do.
THEOREM Ep0StaysInStep == Spec => []Ep0InStep
<1>1. DevConInv => Ep0InStep
  BY DEF DevConInv, InStep, Ep0InStep
<1> QED BY <1>1, DevConInvariant, PTL

\* The host is told of a success only when the personality it chose runs.
THEOREM NoFalseSuccess == Spec => []SuccessIsReal
<1>1. DevConInv => SuccessIsReal
  BY DEF DevConInv, ChoiceInStep, SuccessIsReal
<1> QED BY <1>1, DevConInvariant, PTL

=============================================================================
