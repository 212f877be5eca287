------------------------ MODULE MscPersonalitySystem ------------------------
(***************************************************************************)
(* The plugin of the mass-storage personality, with the watcher that calls *)
(* it, the file server that mounts and dismounts, and the applications     *)
(* that hold files open on the drives.                                     *)
(*                                                                         *)
(* The watcher is what PersonalityHandler and UsbWatcher show of it: it    *)
(* creates the plugin when the cable is connected or the personality       *)
(* chosen, tells it of Address only while the personality is started, ends *)
(* it at a disconnection or a switch, and deletes it wherever it is when   *)
(* the cable comes back before the end.                                    *)
(***************************************************************************)
EXTENDS MscPersonality

CONSTANTS
  Drives,            \* removable drives the phone may have, by letter
  Systems,           \* what may be mounted on them before the connection
  Faulty,            \* drives that the file server may fail to mount or dismount
  DismountAnswers    \* answers to an orderly dismount; none may ever come

ASSUME PersonalityAssumption ==
  /\ Drives \subseteq Nat /\ IsFiniteSet(Drives)
  /\ Systems \subseteq FileSystems \ {"MassStorage"}
  /\ Faulty \subseteq Drives
  /\ DismountAnswers \subseteq Codes

VARIABLES
  plugin,      \* the plugin, as InitPlugin while it does not exist
  fs,          \* file system mounted on each drive
  note,        \* the query of a missing memory card is queued or shown
  watcher,     \* how far the watcher is with the personality
  bus,         \* state of the device
  drives,      \* the removable drives: [home, encrypting]
  allowed,     \* the global state and the lock allow mounting
  fault,       \* how the process ended, NoFault while it runs
  told,        \* drives reported as being encrypted when they were last collected,
               \* as long as that goes on
  lost         \* drives taken by force when they had already been put back, until they
               \* are put back again

vars == << plugin, fs, note, watcher, bus, drives, allowed, fault, told, lost >>
outside == << bus, drives, allowed, told >>

\* Idle: no plugin.  Finished: stopped and about to be deleted.
Phases == { "Idle", "Starting", "Started", "Stopping", "Finished" }
BusStates == { "Undefined", "Powered", "Address", "Configured" }

Running == fault = NoFault

\* What the file server and the encryption server answer in one call.
Answers == [ msfs : BOOLEAN, encrypting : SUBSET drives.encrypting,
             undismounted : SUBSET Faulty, unmounted : SUBSET Faulty ]

Memory(a) ==
  [ p |-> plugin, fs |-> fs, note |-> note, fault |-> fault,
    in |-> [ present |-> { d \in Drives : drives.home[d] # "None" },
             encrypting |-> a.encrypting, msfs |-> a.msfs,
             undismounted |-> a.undismounted, unmounted |-> a.unmounted,
             mayMount |-> allowed ] ]

\* A call that asks nothing but which drives are being encrypted, and one that asks nothing.
Asking(reported) == Memory([ msfs |-> TRUE, encrypting |-> reported,
                             undismounted |-> {}, unmounted |-> {} ])
Now == Asking({})

\* A call that mounts and dismounts: the file server's part of the answers is free.
Files == { a \in Answers : a.msfs /\ a.encrypting = {} }

\* CUsbPersonalityNotifier::CancelAll or CancelQuery(KQueriesNotifier), by the handler.
NoQuery(m) == [m EXCEPT !.note = FALSE]

Becomes(m) ==
  /\ plugin' = m.p /\ fs' = m.fs /\ note' = m.note /\ fault' = m.fault
  /\ lost' = { d \in lost : m.fs[d] # drives.home[d] }

Init ==
  /\ plugin = InitPlugin /\ note = FALSE /\ fault = NoFault
  /\ watcher = "Idle" /\ bus = "Undefined" /\ allowed \in BOOLEAN
  /\ told = {} /\ lost = {}
  /\ \E home \in [Drives -> Systems \cup {"None"}], busy \in SUBSET Drives :
        /\ fs = home
        /\ drives = [home |-> home, encrypting |-> busy]

\* An application has refused and the timer that forces it off is still running.
Refused == plugin.timer /\ ~plugin.active

-----------------------------------------------------------------------------
\* The watcher.

\* HandlerStart: the plugin is created and told to prepare the start.
Load ==
  /\ Running /\ watcher = "Idle" /\ bus # "Undefined"
  /\ \E a \in Answers : Becomes(PreparePersonalityStart(NoQuery(Memory(a))))
  /\ watcher' = "Starting"
  /\ UNCHANGED outside

\* USB Manager has started the personality, FinishPersonalityStart is answered and
\* the watcher is in EUsbStarted; or it has not, and the plugin is told to stop.
StartEnds ==
  /\ Running /\ watcher = "Starting"
  /\ \/ watcher' = "Started" /\ UNCHANGED << plugin, fs, note, fault, lost >>
     \/ watcher' = "Stopping" /\ Becomes(PreparePersonalityStop(Now))
  /\ UNCHANGED outside

\* A switch to another personality, confirmed by the plugin in the call.
Switch ==
  /\ Running /\ watcher = "Started"
  /\ Becomes(PreparePersonalityStop(Now))
  /\ watcher' = "Stopping"
  /\ UNCHANGED outside

\* USB Manager has stopped the personality.
StopEnds ==
  /\ Running /\ watcher = "Stopping"
  /\ \E a \in Files : Becomes(FinishPersonalityStop(Memory(a)))
  /\ watcher' = "Finished"
  /\ UNCHANGED outside

\* The handler completed FinishPersonalityStop in the call and is older than the
\* plugin and its timer, which have its priority: it runs before them.
Delete ==
  /\ Running /\ watcher = "Finished"
  /\ \E a \in Files : Becomes(DeletePlugin(Memory(a)))
  /\ watcher' = "Idle"
  /\ UNCHANGED outside

\* The cable is connected: a start or a stop that goes on is cancelled first,
\* which deletes the plugin, and the watcher starts the personality again.
Connect ==
  /\ Running /\ watcher # "Finished" /\ bus = "Undefined" /\ bus' = "Powered"
  /\ \E a \in Answers :
       LET m == NoQuery(Memory(a)) IN
       Becomes(PreparePersonalityStart(IF watcher = "Idle" THEN m ELSE DeletePlugin(m)))
  /\ watcher' = "Starting"
  /\ UNCHANGED << drives, allowed, told >>

\* The cable is disconnected: the plugin hears of it and is told to stop; a start
\* that goes on is cancelled, which deletes the plugin.
Disconnect ==
  /\ Running /\ watcher # "Finished"
  /\ bus # "Undefined" /\ bus' = "Undefined"
  /\ \E a \in Files :
       LET m == UndefinedNotify(NoQuery(Memory(a))) IN
       \/ watcher = "Started" /\ watcher' = "Stopping" /\ Becomes(PreparePersonalityStop(m))
       \/ watcher = "Starting" /\ watcher' = "Idle" /\ Becomes(DeletePlugin(m))
       \/ watcher = "Stopping" /\ watcher' = watcher /\ Becomes(m)
       \/ watcher = "Idle" /\ UNCHANGED << watcher, plugin, fs, note, fault, lost >>
  /\ UNCHANGED << drives, allowed, told >>

\* The host addresses the device, resets it or wakes it up in its address state.
Addressed ==
  /\ Running /\ watcher # "Finished" /\ bus \in {"Powered", "Address", "Configured"}
  /\ bus' = "Address"
  /\ IF watcher = "Started"
       THEN \E reported \in SUBSET drives.encrypting :
              /\ Becomes(AddressNotify(Asking(reported)))
              /\ told' = IF plugin.iMountChanged THEN told ELSE Asked \cap reported
       ELSE UNCHANGED << plugin, fs, note, fault, told, lost >>
  /\ UNCHANGED << watcher, drives, allowed >>

\* Configured, which the plugin does nothing about.
Configured ==
  /\ Running /\ bus = "Address" /\ bus' = "Configured"
  /\ UNCHANGED << plugin, fs, note, watcher, drives, allowed, fault, told, lost >>

-----------------------------------------------------------------------------
\* The scheduler.  A plugin about to be deleted does not run any more.

RunPlugin ==
  /\ Running /\ watcher # "Finished" /\ Ready(plugin)
  /\ \E a \in Files : Becomes(PluginRunL(Memory(a)))
  /\ UNCHANGED << watcher, outside >>

RunTimer ==
  /\ Running /\ watcher # "Finished" /\ plugin.timer
  /\ Becomes(TimerRunL(Now))
  /\ UNCHANGED << watcher, outside >>

-----------------------------------------------------------------------------
\* The file server and the phone.

Requested == plugin.active /\ plugin.iStatus = Pending
Dismounting == plugin.iDrives[plugin.iDriveIndex + 1]

Dismounted(answer) ==
  /\ plugin' = [plugin EXCEPT !.iStatus = answer]
  /\ fs' = IF answer = KErrNone THEN [fs EXCEPT ![Dismounting] = "None"] ELSE fs
  /\ lost' = IF answer = KErrNone /\ ~plugin.iMountChanged THEN lost \cup {Dismounting}
                                                          ELSE lost
  /\ UNCHANGED << note, watcher, outside, fault >>

\* The applications let go of the drive, or one of them refuses.
DismountAnswered ==
  /\ Running /\ Requested /\ plugin.iMscState = "Mounting"
  /\ \E answer \in DismountAnswers : Dismounted(answer)

\* A forced dismount always ends; it may fail only where the file server is at fault.
ForcedDismountAnswered ==
  /\ Running /\ Requested /\ plugin.iMscState = "ForciblyDismounting"
  /\ \/ Dismounted(KErrNone)
     \/ Dismounting \in Faulty /\ Dismounted(KErrInUse)

\* Encryption begins or ends; it begins only where FAT is mounted.
EncryptionChanges ==
  /\ Running
  /\ \E d \in Drives :
       \/ /\ d \in drives.encrypting
          /\ drives' = [drives EXCEPT !.encrypting = @ \ {d}] /\ told' = told \ {d}
       \/ /\ d \notin drives.encrypting /\ fs[d] = "Fat"
          /\ drives' = [drives EXCEPT !.encrypting = @ \cup {d}] /\ told' = told
  /\ UNCHANGED << plugin, fs, note, watcher, bus, allowed, fault, lost >>

\* The phone leaves charging mode, or is locked or unlocked in it.
PermissionChanges ==
  /\ Running /\ allowed' = ~allowed
  /\ UNCHANGED << plugin, fs, note, watcher, bus, drives, fault, told, lost >>

-----------------------------------------------------------------------------
Progress == RunPlugin \/ ForcedDismountAnswered

Next ==
  \/ Load \/ StartEnds \/ Switch \/ StopEnds \/ Delete
  \/ Connect \/ Disconnect \/ Addressed \/ Configured
  \/ RunPlugin \/ RunTimer
  \/ DismountAnswered \/ ForcedDismountAnswered
  \/ EncryptionChanges \/ PermissionChanges

Spec == Init /\ [][Next]_vars

\* The scheduler runs what is ready, the timer expires and the file server answers a
\* forced dismount.
FairSpec == Spec /\ WF_vars(Progress) /\ WF_vars(RunTimer)

=============================================================================
