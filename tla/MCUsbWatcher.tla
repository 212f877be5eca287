---------------------------- MODULE MCUsbWatcher ----------------------------
(* Small instances of UsbWatcherProperties for TLC. *)
EXTENDS UsbWatcherProperties

CONSTANTS pa, pb, pc, s1, s2

TwoPersonalities   == {pa, pb}
ThreePersonalities == {pa, pb, pc}
OneSession  == {s1}
TwoSessions == {s1, s2}

SomeBusStates == {"Undefined", "Powered", "Configured"}
PlugOnly      == {"Undefined", "Powered"}
NormalOnly    == {"Normal"}
WakesUp       == {"Other", "Normal"}
AllGlobal     == AllGlobalStates
NeverLocked   == {"Off"}
MostBusStates == {"Undefined", "Powered", "Address", "Configured", "Suspended"}
BDevice       == {FALSE}
BothPlugs     == {TRUE, FALSE}
NoClients     == {}
Good == [disk |-> KErrNone, plugin |-> KErrNone, process |-> KErrGeneral]
AlwaysGood    == {Good}
WithDevCon    == {Good, [Good EXCEPT !.process = KErrNone], [Good EXCEPT !.plugin = KErrGeneral]}
DiskFull      == {Good, [Good EXCEPT !.disk = KErrDiskFull]}
SetOnly == {"Set"}
Changes == {"Set", "CancelSet", "SetPrevious", "SetPreviousSync", "CancelSetPrevious", "Close"}
AllOperations == Changes \cup {"OnDisconnect"}
Blocking == {FALSE}
AnyBlocking == {TRUE, FALSE}
StartMayFail == {KErrNone, KErrGeneral}
StartsWell   == {KErrNone}
ConfirmOrNot == {KErrNone, KErrInUse}
Deferred == {"PrepareStart", "PrepareStop", "FinishStop"}
Empty == {}
JustB == {pb}
=============================================================================
