--------------------------- MODULE ActiveObjects ---------------------------
(***************************************************************************)
(* Vocabulary of the Symbian active objects every component of the engines *)
(* is built from.  A component derived from CActive has a request status   *)
(* (iStatus) and a flag saying that a request is outstanding (active).     *)
(* The scheduler of the single thread runs one RunL at a time, to          *)
(* completion, and only for an object that is active and whose status is   *)
(* no longer KRequestPending.                                              *)
(***************************************************************************)

\* Values of a TRequestStatus and of the error codes the components tell apart.
Pending      == "KRequestPending"
KErrNone     == "KErrNone"
KErrGeneral  == "KErrGeneral"
KErrCancel   == "KErrCancel"
KErrNotFound == "KErrNotFound"
KErrAccessDenied == "KErrAccessDenied"
KErrDiskFull == "KErrDiskFull"
KErrInUse    == "KErrInUse"

Codes == { KErrNone, KErrGeneral, KErrCancel, KErrNotFound,
           KErrAccessDenied, KErrDiskFull, KErrInUse }
Statuses == Codes \cup { Pending }

\* An active object's request part: [active |-> BOOLEAN, iStatus |-> status].
\* CActiveScheduler runs the object's RunL exactly in these states.
Ready(ao) == ao.active /\ ao.iStatus # Pending

\* How the process ends when an active object is misused: SetActive() on an
\* object that is already active (E32USER-CBase 42), a completion through a
\* NULL TRequestStatus pointer, and a Cancel() waiting for a request nobody
\* is going to complete.
NoFault        == "none"
SetActiveTwice == "SetActive on an active object"
NullRequest    == "completion of a NULL request"
CancelHangs    == "Cancel waits forever"
\* The first fault ends the process; whatever the handler would do next is void.
Raise(sofar, f) == IF sofar = NoFault THEN f ELSE sofar

Faults == { NoFault, SetActiveTwice, NullRequest, CancelHangs }

=============================================================================
