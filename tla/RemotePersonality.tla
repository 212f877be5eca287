------------------------- MODULE RemotePersonality -------------------------
(***************************************************************************)
(* CRemotePersonalityHandler and CSetPersonality: the plugin of usbdevcon  *)
(* through which a host reads the personalities of the phone, chooses one  *)
(* and asks what became of its choice.                                     *)
(*                                                                         *)
(* Operators on m.remote; m.err is what Handle returns; m.in.current is    *)
(* the answer of USB Manager to GetCurrentPersonalityId.  Not modelled:    *)
(* the bytes of the answers and the string descriptors.                    *)
(***************************************************************************)
EXTENDS ActiveObjects

CONSTANTS
  DeviceIds,  \* personalities the phone supports
  HostIds,    \* ids a host may choose
  Mapping     \* the device's id for each of them; the identity on new platforms

KErrNotSupported == "KErrNotSupported"

ASSUME RemoteAssumption == DOMAIN Mapping = HostIds

Results == { "ESuccess", "EUndefinedError", "ENonExistingPersonality",
             "EFeatureIsNotSupported", "EDataTransferInProgress" }

\* The result the host may ask for, and CSetPersonality with the id it asked
\* the watcher for.
InitRemote == [ iLastResult |-> "EUndefinedError", active |-> FALSE,
                iStatus |-> KErrNone, id |-> "none" ]

Refused(m) == [m EXCEPT !.err = KErrGeneral]
Handled(m) == [m EXCEPT !.err = KErrNone]
Result(m, r) == [m EXCEPT !.remote.iLastResult = r]

\* CSetPersonality::SetPersonality: an older choice is cancelled first.
SetPersonality(m, id) ==
  [m EXCEPT !.remote.active = TRUE, !.remote.iStatus = Pending, !.remote.id = id]

\* GetPersonalitiesL
GetPersonalities(m, request) ==
  IF request.plain /\ m.in.current = KErrNone
    THEN Handled(Result(m, "ESuccess"))
    ELSE Refused(Result(m, "EUndefinedError"))

\* GetLastResultL
GetLastResult(m, request) == IF request.plain THEN Handled(m) ELSE Refused(m)

\* Mutant: the result of an earlier choice is left to be read.
SetPersonalityLKeeps(m, request) ==
  IF ~request.plain \/ request.length THEN Refused(m)
  ELSE IF Mapping[request.id] \in DeviceIds
    THEN Handled(SetPersonality(m, Mapping[request.id]))
    ELSE Refused(Result(m, "ENonExistingPersonality"))

\* SetPersonalityL, from DoHandleL: no data, and an id the phone supports.
SetPersonalityL(m, request) ==
  IF ~request.plain \/ request.length THEN Refused(Result(m, "EUndefinedError"))
  ELSE IF Mapping[request.id] \in DeviceIds
    THEN Handled(Result(SetPersonality(m, Mapping[request.id]), "EDataTransferInProgress"))
    ELSE Refused(Result(m, "ENonExistingPersonality"))

\* DoHandleL
DoHandle(m, request) ==
  CASE request.name = "GetAllPersonalities" -> GetPersonalities(m, request)
    [] request.name = "GetLastResult" -> GetLastResult(m, request)
    [] request.name = "SetPersonality" -> SetPersonalityL(m, request)
    [] OTHER -> Refused(m)

\* Mutant: an answer the host may not be told leaves the choice in progress.
SetPersonalityRunLPartly(m) ==
  LET d == [m EXCEPT !.remote.active = FALSE] IN
  IF m.remote.iStatus = KErrNone THEN Result(d, "ESuccess") ELSE d

\* CSetPersonality::RunL and SetPersonalityCallBack
SetPersonalityRunL(m) ==
  Result([m EXCEPT !.remote.active = FALSE],
         CASE m.remote.iStatus = KErrNone -> "ESuccess"
           [] m.remote.iStatus = KErrNotFound -> "ENonExistingPersonality"
           [] m.remote.iStatus = KErrNotSupported -> "EFeatureIsNotSupported"
           [] OTHER -> "EUndefinedError")

=============================================================================
