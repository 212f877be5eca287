---------------------------- MODULE MCOtgWatcher ----------------------------
(* Small instances of OtgProperties for TLC. *)
EXTENDS OtgProperties

Good == [driverLoading |-> KErrNone, busFailures |-> 0, clear |-> KErrNone, queries |-> 6]
AlwaysGood == {Good}
SomeFail == {Good, [Good EXCEPT !.driverLoading = KErrGeneral],
             [Good EXCEPT !.busFailures = MaxTrial],
             [Good EXCEPT !.busFailures = 1, !.clear = KErrGeneral],
             [Good EXCEPT !.queries = 0], [Good EXCEPT !.queries = 1]}

Attaches(error) == [error |-> error, otg |-> FALSE]
AnyDevice == [error : AttachErrors, otg : BOOLEAN]
SomeDevices == {Attaches("None"), Attaches("BadPower"), Attaches("Unsupported")}
AnyLoad == AllLoadResults
SomeLoads == {"Partial", "Failure"}
AnyMessage == AllMessages
GoodDevices == AllMessages \ {"BadDeviceAttached"}
SomeMessages == {"BadHubPosition", "SrpReceived", "BadDeviceAttached", "BadDeviceDetached"}
StartsWell == {KErrNone}
StartRunsOut == {KErrNone, KErrNoMemory}
StopMayFail == {KErrNone, KErrGeneral}
ToIdle == {"Idle"}
AnyFailure == {"Idle", "FatalError"}
NoRaces == {}
OnlyOtherClient == {"OtherClient"}
=============================================================================
