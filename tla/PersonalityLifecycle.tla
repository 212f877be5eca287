----------------------- MODULE PersonalityLifecycle -----------------------
(***************************************************************************)
(* What CUsbActivePersonalityHandler promises about the two things it      *)
(* controls: the plugin of a personality, which sets up what the           *)
(* personality needs, and the personality itself in USB Manager.           *)
(*                                                                         *)
(* USB is brought up only for the personality whose plugin is loaded and   *)
(* prepared, and a loaded plugin is replaced or unloaded only with USB     *)
(* going down, with one exception: what is cancelled while the plugin      *)
(* prepares it leaves USB as it is.  A stop cancelled there leaves the     *)
(* personality up without its plugin, until the next one that is started   *)
(* is brought up in its place or goes down.                                *)
(***************************************************************************)
CONSTANTS Personalities, None

VARIABLES loaded,    \* the personality whose plugin is loaded, or None
          up,        \* the personality USB Manager runs, or None
          preparing  \* is the plugin preparing a start or a stop?

lifecycleVars == << loaded, up, preparing >>

LifecycleInit == loaded = None /\ up = None /\ ~preparing

\* A plugin that prepares is dropped without a word to USB Manager.
LeaveOrTakeDown == up' = None \/ ((loaded = None \/ preparing) /\ up' = up)

Load(p)  == loaded # p /\ loaded' = p /\ preparing' /\ LeaveOrTakeDown
Unload   == loaded # None /\ loaded' = None /\ ~preparing' /\ LeaveOrTakeDown
BringUp  == loaded # None /\ up' = loaded /\ preparing /\ ~preparing' /\ UNCHANGED loaded
TakeDown == up # None /\ up' = None /\ preparing' \in BOOLEAN /\ UNCHANGED loaded
Prepare  == loaded # None /\ ~preparing /\ preparing' /\ UNCHANGED << loaded, up >>
Proceed  == loaded # None /\ preparing /\ ~preparing' /\ UNCHANGED << loaded, up >>

LifecycleNext == \/ \E p \in Personalities : Load(p)
                 \/ Unload \/ BringUp \/ TakeDown \/ Prepare \/ Proceed

LifecycleSpec == LifecycleInit /\ [][LifecycleNext]_lifecycleVars

=============================================================================
