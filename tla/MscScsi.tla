------------------------------ MODULE MscScsi ------------------------------
(***************************************************************************)
(* CScsiProtocol and CFileSystemImage: the SCSI commands of the read-only  *)
(* CD image that the phone shows to a host, and the sense data kept for    *)
(* the next REQUEST SENSE.                                                 *)
(*                                                                         *)
(* Operators on the memory m of a handler: m.scsi the protocol, m.image    *)
(* the image file, m.t the transport the reply is set up in, m.in the      *)
(* answers of the file server.  A command c = [op, len, ok] is what the    *)
(* code reads of a command block: the allocation length or the number of   *)
(* blocks, and whether the fields it checks are acceptable.                *)
(***************************************************************************)
EXTENDS Integers, ActiveObjects

Min2(a, b) == IF a < b THEN a ELSE b

KDefaultBlockSize == 2048
KMaxBlocks == 64            \* KMaxBufSize, in blocks
WordBlocks == 2097152       \* 2^32 bytes, in blocks: bLength of READ(12) is a TUint32

\* What each command that replies has to say, in bytes.
ReplyLength == [ RequestSense |-> 18, Inquiry |-> 36, ModeSense |-> 4, ModeSense10 |-> 58,
                 ReadCapacity |-> 8, ReadTOC |-> 20, GetConfiguration |-> 76 ]
Reads == { "Read10", "Read12" }
NeedsImage == Reads \cup { "TestUnitReady", "StartStopUnit", "PreventMediaRemoval",
                           "ReadCapacity", "ReadTOC", "GetConfiguration" }
Ops == NeedsImage \cup DOMAIN ReplyLength \cup { "Unknown" }

Senses  == { "NoSense", "NotReady", "IllegalRequest" }
Scsi    == [ sense : Senses ]
Image   == [ blocks : Nat, iIsOpened : BOOLEAN ]

\* What SetupWriteData hands to the transport: how many bytes, whether they are
\* of the command decoded last, and the sense they report if they are sense data.
Buffer   == [ len : Nat, fresh : BOOLEAN, reports : Senses \cup {"Data"} ]
NoBuffer == [ len |-> 0, fresh |-> FALSE, reports |-> "Data" ]

SetupWriteData(m, len, reports) ==
  [m EXCEPT !.t.iWriteSetUp = TRUE,
            !.t.iWriteBuf = [len |-> len, fresh |-> TRUE, reports |-> reports]]

SetSense(m, sense) == [m EXCEPT !.scsi.sense = sense]
SenseOk(m) == m.scsi.sense = "NoSense"

\* How the server's process ends: a descriptor indexed past its length, and
\* "Buffer size is zero", both in any build.
IndexOutOfRange == "descriptor indexed past its end"
EmptyReadBuffer == "Buffer size is zero"
KErrServerTerminated == "KErrServerTerminated"
KErrServerBusy == "KErrServerBusy"
MscFaults == { NoFault, IndexOutOfRange, EmptyReadBuffer }
IndexPanic(m) == [m EXCEPT !.fault = Raise(@, IndexOutOfRange)]

-----------------------------------------------------------------------------
\* CFileSystemImage.  The file stays open until the host ejects the medium.
ImageOpen(m) ==
  IF m.image.iIsOpened THEN m ELSE [m EXCEPT !.image.iIsOpened = (m.in.open = KErrNone)]
ImageClose(m) == [m EXCEPT !.image.iIsOpened = FALSE]

\* GetCheckFs: opens the image, or says that there is no medium.
GetCheckFs(m) ==
  LET n == ImageOpen(m) IN IF n.image.iIsOpened THEN n ELSE SetSense(n, "NotReady")

\* REQUEST SENSE reports the sense data and clears it.
HandleRequestSense(m, c) ==
  SetSense(SetupWriteData(m, Min2(c.len, ReplyLength.RequestSense), m.scsi.sense), "NoSense")

\* READ(10) and READ(12).  The length in bytes wraps for READ(12) only: LEN of
\* READ(10) has 16 bits.
HandleRead(m, c) ==
  LET blocks == IF c.op = "Read12" THEN c.len % WordBlocks ELSE c.len IN
  CASE c.len = 0 -> m
    [] c.len # 0 /\ blocks > Min2(m.image.blocks, KMaxBlocks) -> SetSense(m, "IllegalRequest")
    [] c.len # 0 /\ blocks <= Min2(m.image.blocks, KMaxBlocks) /\ m.in.read # KErrNone ->
         SetSense(m, "NotReady")
    [] OTHER -> SetupWriteData(m, blocks * KDefaultBlockSize, "Data")

\* READ TOC and GET CONFIGURATION say nothing when asked for no bytes; READ TOC
\* writes the four bytes of its header and MODE SENSE(10) its second byte into a
\* reply already cut to the length asked for.
HandleSized(m, c) ==
  CASE c.len = 0 /\ c.op \in {"ReadTOC", "GetConfiguration"} -> m
    [] \/ c.op = "ReadTOC" /\ c.len \in 1..3
       \/ c.op = "ModeSense10" /\ c.len < 2 -> IndexPanic(m)
    [] OTHER -> SetupWriteData(m, Min2(c.len, ReplyLength[c.op]), "Data")

\* START STOP UNIT: ok is FALSE for an eject, which only closes the file; the
\* next command opens it again.
HandleStartStopUnit(m, c) == IF c.ok THEN m ELSE ImageClose(m)

\* The handler of one command, for which the image is there if it is needed.
Handle(m, c) ==
  CASE c.op = "RequestSense" -> HandleRequestSense(m, c)
    [] c.op = "StartStopUnit" -> HandleStartStopUnit(m, c)
    [] c.op = "TestUnitReady" -> m
    [] c.op = "Unknown" -> SetSense(m, "IllegalRequest")
    [] c.op \in Ops \ {"RequestSense", "StartStopUnit", "TestUnitReady", "Unknown"} /\ ~c.ok ->
         SetSense(m, "IllegalRequest")
    [] c.op = "PreventMediaRemoval" /\ c.ok -> m
    [] c.op \in Reads /\ c.ok -> HandleRead(m, c)
    [] c.op \in {"ModeSense", "ReadCapacity"} /\ c.ok ->
         SetupWriteData(m, ReplyLength[c.op], "Data")
    [] OTHER -> HandleSized(m, c)

\* Mutant: REQUEST SENSE clears the sense data it is asked for.
DecodePacketClears(m, c) ==
  LET d == SetSense(m, "NoSense")
      n == IF c.op \in NeedsImage THEN GetCheckFs(d) ELSE d
  IN IF c.op \in NeedsImage /\ ~SenseOk(n) THEN n ELSE Handle(n, c)

\* DecodePacket: the sense data describes the last command but REQUEST SENSE.
DecodePacket(m, c) ==
  LET d == IF c.op = "RequestSense" THEN m ELSE SetSense(m, "NoSense")
      n == IF c.op \in NeedsImage THEN GetCheckFs(d) ELSE d
  IN IF c.op \in NeedsImage /\ ~SenseOk(n) THEN n ELSE Handle(n, c)

=============================================================================
