------------------------------- MODULE MCMsc -------------------------------
(* Small instances of MscProperties for TLC. *)
EXTENDS MscProperties

In(op, len, ok, hostLen) == [ valid |-> TRUE, len |-> hostLen, toHost |-> TRUE,
                              cmd |-> [op |-> op, len |-> len, ok |-> ok] ]
Out(op, len, ok, hostLen) == [In(op, len, ok, hostLen) EXCEPT !.toHost = FALSE]

Corrupt == [Out("Unknown", 0, TRUE, 512) EXCEPT !.valid = FALSE]
\* The cases of the bulk-only transport that the code tells apart.
Agreeing == { In("TestUnitReady", 0, TRUE, 0), In("RequestSense", 18, TRUE, 18),
              In("Inquiry", 36, TRUE, 36), In("Read10", 1, TRUE, 2048),
              In("GetConfiguration", 76, TRUE, 76), In("ModeSense10", 58, TRUE, 58) }
Disagreeing == { In("Inquiry", 36, TRUE, 18), In("Inquiry", 36, TRUE, 64),
                 In("Read10", 1, TRUE, 4096), In("Read10", 1, TRUE, 0), In("Read10", 3, TRUE, 4096),
                 In("Read12", WordBlocks, TRUE, 4096), In("ReadTOC", 0, TRUE, 18),
                 In("ReadCapacity", 0, FALSE, 18), In("ModeSense", 4, FALSE, 18),
                 Out("Read10", 1, TRUE, 18), Out("Unknown", 0, TRUE, 18),
                 Out("PreventMediaRemoval", 0, FALSE, 0) }
Ejecting == { In("StartStopUnit", 0, FALSE, 0) }
AllCases == Agreeing \cup Disagreeing \cup Ejecting \cup {Corrupt}
Good == [open |-> KErrNone, read |-> KErrNone, ldd |-> KErrNone, setup |-> KErrNone,
         process |-> KErrNone]
AlwaysGood == {Good}
SomeFail == {Good, [Good EXCEPT !.open = KErrNotFound], [Good EXCEPT !.ldd = KErrGeneral]}
SomeEp0 == {"GetMaxLun", "BadReset", "Unknown", "Short"}
NoRaces == {FALSE}
AnyRace == BOOLEAN
=============================================================================
