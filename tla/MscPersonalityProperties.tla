---------------------- MODULE MscPersonalityProperties ----------------------
(* What the plugin of the mass-storage personality is for. *)
EXTENDS MscPersonalitySystem

Plugin == [ iMscState : MscStates, active : BOOLEAN, iStatus : Statuses,
            iDrives : Seq(Drives), iDriveIndex : Nat, iMountChanged : BOOLEAN,
            iMsfsAdded : BOOLEAN, iIsQueryNoteShown : BOOLEAN, timer : BOOLEAN ]

\* Every variable keeps its type, and the drive whose turn it is is one of iDrives.
TypeOK ==
  /\ plugin \in Plugin /\ plugin.iDriveIndex <= Len(plugin.iDrives)
  /\ (Requested \/ plugin.timer) => plugin.iDriveIndex < Len(plugin.iDrives)
  /\ fs \in [Drives -> FileSystems] /\ note \in BOOLEAN
  /\ watcher \in Phases /\ bus \in BusStates /\ allowed \in BOOLEAN /\ fault \in Faults
  /\ drives \in [home : [Drives -> FileSystems], encrypting : SUBSET Drives]
  /\ told \subseteq Drives /\ lost \subseteq Drives

TakesDrives == plugin.iMscState \in Taking

\* When the plugin is gone, however it went - stopped, cancelled in a start or a stop,
\* deleted for a cable that came back - every drive has the file system it had before
\* (FinishPersonalityStop, the destructor, UnmountMassStorage), and no query of this
\* personality waits for the user.  Two kinds of drives are excepted: those the file
\* server fails to dismount or mount, where the code only logs the error, and the one
\* that the timer of a refused dismount took by force after UnmountMassStorage had put
\* the drives back, because a stop does not stop that timer.
HomeAgain ==
  watcher = "Idle" => /\ \A d \in Drives \ (Faulty \cup lost) : fs[d] = drives.home[d]
                      /\ ~note

\* Once the plugin has been told to stop, or the cable is out, nothing more is
\* dismounted and nothing mounted for the host ("Mounting may be ongoing",
\* PreparePersonalityStop), as long as the timer of a refused dismount does not expire.
\* It goes on to run only if the stop came between the refusal and the timer, and is
\* the only thing that can make a stopped plugin take drives again.
StopEndsMounting ==
  [][ /\ (watcher \in {"Stopping", "Finished", "Idle"} /\ watcher' = watcher /\ ~TakesDrives)
           => /\ \A d \in Drives \ Faulty : fs'[d] \in {fs[d], drives.home[d]}
              /\ TakesDrives' => plugin.timer
      /\ (watcher # "Stopping" /\ watcher' = "Stopping" /\ plugin'.timer) => Refused ]_vars

\* When the mounting ends in a started personality, the host gets every drive that the
\* file server lets go and mounts.
AllDrivesServed ==
  [][ (watcher = "Started" /\ plugin.iMscState # "FileTransfer"
         /\ plugin'.iMscState = "FileTransfer" /\ allowed /\ plugin.iMsfsAdded)
        => \A d \in ToSet(plugin'.iDrives) \ Faulty : fs'[d] = "MassStorage" ]_vars

\* No file system is taken off drive E or F once the plugin has been told that it is
\* being encrypted or decrypted, until that ends ("will corrupt the card, so it must be
\* prevented", GetDrives), not even by a timer that outlives the stop.  Nothing protects
\* the other drives, nor a drive about which the question failed or whose encryption
\* begins after it was asked.
EncryptedStays == [][ \A d \in told : fs[d] = "Fat" => fs'[d] = "Fat" ]_vars

\* Taking the drives ends, whatever the applications do: the host gets them or the
\* plugin is told to stop.  The one thing that keeps it from ending is a drive that has
\* no FAT when its turn comes: DismountFat says it continues to the next drive, and
\* RunL waits for a timer that does not run.
WithoutFat == /\ plugin.iMscState = "Mounting" /\ ~plugin.active /\ ~plugin.timer
              /\ fs[Dismounting] # "Fat"

=============================================================================
