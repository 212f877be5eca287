--------------------------- MODULE MscPersonality ---------------------------
(***************************************************************************)
(* CUsbActiveMscHandler, the plugin of the mass-storage personality: when  *)
(* the host has addressed the device it takes the FAT file system off      *)
(* every removable drive, one at a time, giving the applications five      *)
(* seconds before it forces them off, and then mounts the mass-storage     *)
(* file system; at the end of the connection it puts FAT back.             *)
(*                                                                         *)
(* Every method is an operator from the memory m of the process to the     *)
(* memory after it: m.p is the plugin with its dismount timer, m.fs the    *)
(* file system of each drive, m.note whether the "no memory card" query is *)
(* queued or shown, m.fault how the process ended.  m.in is what the       *)
(* outside answers in the call: the drives present, those reported as      *)
(* being encrypted, whether the file server loads the mass-storage file    *)
(* system, the drives on which it fails to dismount and to mount one, and  *)
(* whether the global state and the lock of the phone allow mounting.      *)
(***************************************************************************)
EXTENDS ActiveObjects, Integers, Sequences, SequencesExt, FiniteSets

MscStates == { "Idle", "Starting", "Stopping", "Mounting", "ForciblyDismounting",
               "FileTransfer" }
\* The states in which the drives are being taken.
Taking == { "Mounting", "ForciblyDismounting" }
FileSystems == { "Fat", "MassStorage", "None", "Other" }

InitPlugin == [ iMscState |-> "Idle", active |-> FALSE, iStatus |-> KErrNone,
                iDrives |-> <<>>, iDriveIndex |-> 0, iMountChanged |-> FALSE,
                iMsfsAdded |-> FALSE, iIsQueryNoteShown |-> FALSE, timer |-> FALSE ]

\* CActive::SetActive() of the plugin, with status st.
PluginActive(m, st) ==
  [m EXCEPT !.p.active = TRUE, !.p.iStatus = st,
            !.fault = IF m.p.active THEN Raise(@, SetActiveTwice) ELSE @]

\* CUsbMscPersonalityTimer::Start
TimerStart(m) ==
  [m EXCEPT !.p.timer = TRUE, !.fault = IF m.p.timer THEN Raise(@, SetActiveTwice) ELSE @]

\* The drive whose turn it is: iDrives counts from 0.
Drive(m) == m.p.iDrives[m.p.iDriveIndex + 1]

\* DismountFat: a drive without FAT completes the plugin's own request with an error.
DismountFat(m) ==
  LET t == IF m.fs[Drive(m)] = "Fat" THEN TimerStart(PluginActive(m, Pending))
           ELSE PluginActive(m, KErrNotFound)
  IN [t EXCEPT !.p.iMscState = "Mounting"]

\* TryMountMassStorage: the file server gives a drive one file system, that it knows;
\* an error is only logged.
MountOne(m, d) ==
  IF m.fs[d] = "None" /\ m.p.iMsfsAdded /\ d \notin m.in.unmounted
    THEN "MassStorage" ELSE m.fs[d]

\* Mutant: the loop ends one drive early.
MountMassStorageButFirst(m) ==
  [m EXCEPT !.fs = [d \in DOMAIN m.fs |->
     IF m.in.mayMount /\ d \in ToSet(Tail(m.p.iDrives)) THEN MountOne(m, d) ELSE m.fs[d]]]

\* MountMassStorage, unless the phone is not in its normal state and locked.
MountMassStorage(m) ==
  [m EXCEPT !.fs = [d \in DOMAIN m.fs |->
     IF m.in.mayMount /\ d \in ToSet(m.p.iDrives) THEN MountOne(m, d) ELSE m.fs[d]]]

\* StartDismountFat: the next drive, or the end of the mounting.
StartDismountFat(m) ==
  LET t == [m EXCEPT !.p.iMountChanged = TRUE] IN
  IF m.p.iDriveIndex = 0
    THEN [MountMassStorage(t) EXCEPT !.p.iMscState = "FileTransfer"]
    ELSE DismountFat([t EXCEPT !.p.iDriveIndex = @ - 1])

\* The drives of S in the order of their letters, as the loop of GetDrives finds them.
InLetterOrder(S) ==
  LET n == Cardinality(S) IN
  CHOOSE s \in [1..n -> S] : \A i, j \in 1..n : i < j => s[i] < s[j]

\* The drives whose encryption is asked about: EDriveE and EDriveF, where EDriveA is 0.
Asked == {4, 5}

\* Mutant: a drive that is being encrypted is taken as well.
GetDrivesEncrypted(m) ==
  LET found == InLetterOrder(m.in.present) IN
  [m EXCEPT !.p.iDrives = found,
            !.p.iIsQueryNoteShown = @ \/ found = <<>>, !.note = @ \/ found = <<>>]

\* GetDrives: the removable drives, without E and F while they are reported as being
\* encrypted (an error of that question counts as no); a query when there is none.
GetDrives(m) ==
  LET found == InLetterOrder(m.in.present \ (Asked \cap m.in.encrypting)) IN
  [m EXCEPT !.p.iDrives = found,
            !.p.iIsQueryNoteShown = @ \/ found = <<>>, !.note = @ \/ found = <<>>]

\* NotifyDismountCancel is answered, by a dismount that is just over or by KErrCancel.
DoCancel(m) ==
  LET t == IF m.p.iMscState # "ForciblyDismounting" THEN [m EXCEPT !.note = FALSE] ELSE m IN
  IF m.p.iMscState \in Taking
    THEN [t EXCEPT !.p.timer = FALSE]
    ELSE [t EXCEPT !.fault = IF m.p.iStatus = Pending THEN Raise(@, CancelHangs) ELSE @]

\* CActive::Cancel() of the plugin.
PluginCancel(m) == IF m.p.active THEN [DoCancel(m) EXCEPT !.p.active = FALSE] ELSE m

\* TryDismountMassStorage (three times while the drive is in use, then by force)
\* and TryMountFat: only a drive left without a file system is given FAT, and neither
\* error is acted on.
RestoreOne(m, d) ==
  LET left == IF m.fs[d] = "MassStorage" /\ d \notin m.in.undismounted
                THEN "None" ELSE m.fs[d]
  IN IF left = "None" /\ d \notin m.in.unmounted THEN "Fat" ELSE left

\* Mutant: FAT is put back only on the drives the host has seen.
UnmountMassStorageOnly(m) ==
  LET t == PluginCancel(m) IN
  [t EXCEPT !.p.iMountChanged = FALSE,
            !.fs = [d \in DOMAIN t.fs |->
               IF d \in ToSet(t.p.iDrives) /\ t.fs[d] # "None" THEN RestoreOne(t, d)
                                                               ELSE t.fs[d]]]

UnmountMassStorage(m) ==
  LET t == PluginCancel(m) IN
  [t EXCEPT !.p.iMountChanged = FALSE,
            !.fs = [d \in DOMAIN t.fs |->
               IF d \in ToSet(t.p.iDrives) THEN RestoreOne(t, d) ELSE t.fs[d]]]

UnmountIfChanged(m) == IF m.p.iMountChanged THEN UnmountMassStorage(m) ELSE m

-----------------------------------------------------------------------------
\* What CUsbActivePersonalityHandler calls.  Every request is completed in the call.

\* NewL and PreparePersonalityStart, which adds the mass-storage file system.
PreparePersonalityStart(m) ==
  [m EXCEPT !.p = [InitPlugin EXCEPT !.iMscState = "Starting", !.iMsfsAdded = m.in.msfs]]

\* Mutant: a mounting that goes on is not cancelled.
PreparePersonalityStopOn(m) == [m EXCEPT !.p.iMscState = "Stopping"]

PreparePersonalityStop(m) == [PluginCancel(m) EXCEPT !.p.iMscState = "Stopping"]

FinishPersonalityStop(m) ==
  LET t == UnmountIfChanged(PluginCancel(m)) IN
  [t EXCEPT !.p.iMsfsAdded = FALSE, !.p.iIsQueryNoteShown = FALSE, !.p.iMscState = "Idle",
            !.note = @ /\ ~t.p.iIsQueryNoteShown]

\* The destructor, which also stops the timer.
DeletePlugin(m) == [PluginCancel(UnmountIfChanged(m)) EXCEPT !.p = InitPlugin]

\* StateChangeNotify(EUsbDeviceStateAddress), unless a mounting is ongoing.
AddressNotify(m) ==
  IF m.p.iMountChanged THEN m ELSE
  LET t == GetDrives(m) IN
  IF t.p.iDrives = <<>> THEN t
  ELSE StartDismountFat([t EXCEPT !.p.iDriveIndex = Len(t.p.iDrives)])

\* StateChangeNotify(EUsbDeviceStateUndefined)
UndefinedNotify(m) ==
  IF m.p.iMountChanged THEN [UnmountMassStorage(m) EXCEPT !.p.iMscState = "Idle"] ELSE m

-----------------------------------------------------------------------------
\* RunL: an error of an orderly dismount is left to the timer.
PluginRunL(m) ==
  LET d == [m EXCEPT !.p.active = FALSE] IN
  CASE m.p.iMscState = "Mounting" /\ m.p.iStatus = KErrNone ->
         StartDismountFat([d EXCEPT !.p.timer = FALSE])
    [] m.p.iMscState = "ForciblyDismounting" -> StartDismountFat([d EXCEPT !.p.iMscState = "Mounting"])
    [] OTHER -> d


\* The timer's RunL: ForciblyDismountFat
TimerRunL(m) ==
  PluginActive(PluginCancel([m EXCEPT !.p.timer = FALSE, !.p.iMscState = "ForciblyDismounting"]),
               Pending)

=============================================================================
