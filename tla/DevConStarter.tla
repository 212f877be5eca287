---------------------------- MODULE DevConStarter ----------------------------
(***************************************************************************)
(* CUsbDevConStarter: keeps the usbdevcon process running while a          *)
(* personality is in use.  It waits first for the process's rendezvous and *)
(* then for its termination, and restarts it unless it was told not to or  *)
(* the process ended with an error.                                        *)
(*                                                                         *)
(* Operators on m.starter; m.in.process is the answer to RProcess::Create. *)
(* External: the usbdevcon process itself.                                 *)
(***************************************************************************)
EXTENDS ActiveObjects

StarterStates == { "Idle", "WaitingRendezvous", "Running" }

Starter == [ iState : StarterStates, iStarted : BOOLEAN,
             active : BOOLEAN, iStatus : Statuses ]

InitStarter == [ iState |-> "Idle", iStarted |-> FALSE,
                 active |-> FALSE, iStatus |-> KErrNone ]

\* A request on the process, and SetActive().
StarterWaits(m, s) ==
  [m EXCEPT !.starter.iState = s, !.starter.active = TRUE,
            !.starter.iStatus = Pending,
            !.fault = IF m.starter.active THEN Raise(@, SetActiveTwice) ELSE @]

\* Start(): nothing to create when the process is already on its way.
StarterStart(m) ==
  LET t == [m EXCEPT !.starter.iStarted = TRUE] IN
  CASE m.starter.iState # "Idle" -> t
    [] m.starter.iState = "Idle" /\ m.in.process = KErrNone ->
         StarterWaits(t, "WaitingRendezvous")
    [] OTHER -> [m EXCEPT !.starter.iStarted = FALSE]

StopRestarting(m) == [m EXCEPT !.starter.iStarted = FALSE]

\* Mutant: the status is stored where the state belongs.
StarterRunLMixed(m) ==
  [m EXCEPT !.starter.active = FALSE, !.starter.iState = m.starter.iStatus]

\* RunL, after the scheduler has cleared the active flag.  The status of the
\* rendezvous is not looked at; the process's exit reason decides a restart.
StarterRunL(m) ==
  LET d == [m EXCEPT !.starter.active = FALSE] IN
  CASE m.starter.iState = "WaitingRendezvous" -> StarterWaits(d, "Running")
    [] m.starter.iState = "Running" ->
         LET i == [d EXCEPT !.starter.iState = "Idle"]
         IN IF i.starter.iStarted /\ i.starter.iStatus = KErrNone
              THEN StarterStart(i) ELSE i
    [] m.starter.iState = "Idle" -> d

=============================================================================
