------------------------ MODULE MscPersonalitySafety ------------------------
(***************************************************************************)
(* What the mass-storage personality keeps, for any number of drives, any  *)
(* file systems mounted on them before, any drives that are being          *)
(* encrypted or at which the file server fails, and every order of cables, *)
(* switches, answers and timers, the stop between a refusal and its timer  *)
(* included:                                                               *)
(*                                                                         *)
(*   - every drive has its file system back when the plugin is gone, but   *)
(*     for the faulty ones and one taken by such a timer after the return; *)
(*   - after the end nothing is dismounted or mounted but by that timer;   *)
(*   - at the end of the mounting the host gets what was let go;           *)
(*   - a drive the plugin was told is being encrypted keeps FAT;           *)
(*   - the plugin misuses no active object.                                *)
(*                                                                         *)
(* Attended is the inductive invariant of the plugin's memory.             *)
(***************************************************************************)
EXTENDS MscPersonalityProperties, FiniteSetTheorems, WellFoundedInduction, TLAPS

-----------------------------------------------------------------------------
(* The list of drives: InLetterOrder enumerates a finite set of letters.   *)

Before == { ss \in Nat \X Nat : ss[1] < ss[2] }

\* The order of the natural numbers, as the set of pairs [Before], is well founded.
LEMMA BeforeWellFounded == IsWellFoundedOn(Before, Nat)
<1>1. OpToRel(<, Nat) = Before
  BY Zenon DEF OpToRel, Before
<1> QED BY <1>1, NatLessThanWellFounded, Zenon

\* A set of naturals that is not empty has a least element.
LEMMA Least ==
  ASSUME NEW S \in SUBSET Nat, S # {}
  PROVE  \E n \in S : \A m \in S : n <= m
<1>1. PICK n \in S : \A m \in S : << m, n >> \notin Before
  BY BeforeWellFounded, WFMin
<1>2. ASSUME NEW m \in S PROVE n <= m
  <2>1. n \in Nat /\ m \in Nat
    OBVIOUS
  <2>2. << m, n >> \notin Before
    BY <1>1, Zenon
  <2>3. \A x, y \in Nat : << x, y >> \notin Before => ~(x < y)
    BY DEF Before
  <2> QED BY <2>1, <2>2, <2>3
<1> QED BY <1>2

Rising(s, n) == \A i, j \in 1..n : i < j => s[i] < s[j]

\* Every finite set of letters can be put in order, by its least element and the rest.
LEMMA OrderExists ==
  ASSUME NEW S \in SUBSET Nat, IsFiniteSet(S)
  PROVE  \E s \in [1..Cardinality(S) -> S] : Rising(s, Cardinality(S))
<1> DEFINE Orderly(n) == \A T \in SUBSET Nat :
                           IsFiniteSet(T) /\ Cardinality(T) = n
                             => \E s \in [1..n -> T] : Rising(s, n)
           Bad == { n \in Nat : ~Orderly(n) }
<1>1. ASSUME Bad # {} PROVE FALSE
  <2>1. PICK n \in Bad : \A m \in Bad : n <= m
    <3> HIDE DEF Orderly
    <3> QED BY <1>1, Least
  <2>2. PICK T \in SUBSET Nat : /\ IsFiniteSet(T) /\ Cardinality(T) = n
                                /\ ~ \E s \in [1..n -> T] : Rising(s, n)
    OBVIOUS
  <2>3. T # {}
    <3> SUFFICES ASSUME T = {} PROVE FALSE
      OBVIOUS
    <3>1. n = 0
      BY <2>2, FS_EmptySet
    <3>2. [i \in 1..0 |-> 0] \in [1..0 -> {}] /\ Rising([i \in 1..0 |-> 0], 0)
      BY DEF Rising
    <3> QED BY <2>2, <3>1, <3>2
  <2>4. PICK x \in T : \A y \in T : x <= y
    BY <2>3, Least
  <2>5. /\ IsFiniteSet(T \ {x}) /\ Cardinality(T \ {x}) = n - 1
        /\ n - 1 \in Nat /\ T \ {x} \in SUBSET Nat
    <3>1. IsFiniteSet(T \ {x}) /\ Cardinality(T \ {x}) = n - 1
      BY <2>2, FS_RemoveElement
    <3>2. n - 1 \in Nat
      BY <3>1, FS_CardinalityType
    <3> QED BY <3>1, <3>2
  <2>6. Orderly(n - 1)
    <3> HIDE DEF Orderly
    <3> QED BY <2>1, <2>5
  <2>7. PICK s \in [1..(n - 1) -> T \ {x}] : Rising(s, n - 1)
    BY <2>5, <2>6
  <2> DEFINE u == [i \in 1..n |-> IF i = 1 THEN x ELSE s[i - 1]]
  <2>8. u \in [1..n -> T]
    BY <2>5
  <2>9. Rising(u, n)
    <3> SUFFICES ASSUME NEW i \in 1..n, NEW j \in 1..n, i < j PROVE u[i] < u[j]
      BY DEF Rising
    <3>1. j - 1 \in 1..(n - 1) /\ u[j] = s[j - 1] /\ s[j - 1] \in T \ {x}
      BY <2>5
    <3>2. CASE i = 1
      <4>1. u[i] = x /\ x <= u[j] /\ x # u[j] /\ x \in Nat /\ u[j] \in Nat
        BY <2>4, <3>1, <3>2
      <4> QED BY <4>1
    <3>3. CASE i # 1
      <4>1. i - 1 \in 1..(n - 1) /\ u[i] = s[i - 1] /\ i - 1 < j - 1
        BY <2>5, <3>3
      <4> QED BY <2>7, <3>1, <4>1 DEF Rising
    <3> QED BY <3>2, <3>3
  <2> QED BY <2>2, <2>8, <2>9
<1>2. Cardinality(S) \in Nat
  BY FS_CardinalityType
<1> QED BY <1>1, <1>2

\* InLetterOrder(S) is a sequence with every member of S once.
LEMMA LettersListed ==
  ASSUME NEW S \in SUBSET Nat, IsFiniteSet(S)
  PROVE  /\ InLetterOrder(S) \in Seq(S)
         /\ ToSet(InLetterOrder(S)) = S
         /\ IsInjective(InLetterOrder(S))
<1> DEFINE n == Cardinality(S)
           s == InLetterOrder(S)
<1>1. n \in Nat
  BY FS_CardinalityType
<1>2. s \in [1..n -> S] /\ Rising(s, n)
  BY OrderExists DEF InLetterOrder, Rising
<1>3. IsInjective(s)
  <2> SUFFICES ASSUME NEW i \in 1..n, NEW j \in 1..n, s[i] = s[j] PROVE i = j
    BY <1>2 DEF IsInjective
  <2> HIDE DEF s, n
  <2>1. s[i] \in Nat /\ s[j] \in Nat /\ ~(s[i] < s[j]) /\ ~(s[j] < s[i])
    <3>1. s[i] \in S /\ s[j] \in S
      BY <1>2
    <3>2. s[i] \in Nat
      BY <3>1
    <3> QED BY <3>2
  <2>2. ~(i < j) /\ ~(j < i)
    BY <1>2, <2>1 DEF Rising
  <2> QED BY <1>1, <2>2
<1>4. s \in Surjection(1..n, S)
  <2>1. s \in Injection(1..n, S)
    BY <1>2, <1>3 DEF Injection
  <2>2. Cardinality(1..n) = n
    BY <1>1, FS_Interval
  <2> QED BY <2>1, <2>2, FS_Injection
<1> HIDE DEF s
<1>5. ToSet(s) = S
  BY <1>2, <1>4 DEF ToSet, Surjection
<1>6. s \in Seq(S)
  BY <1>1, <1>2
<1> QED BY <1>3, <1>5, <1>6 DEF s

-----------------------------------------------------------------------------
(* The invariant, of the plugin's memory m, the drives d of the phone and  *)
(* the drives l that are lost.                                             *)

DriveStates == [home : [Drives -> Systems \cup {"None"}], encrypting : SUBSET Drives]

Outside == [present : SUBSET Drives, encrypting : SUBSET Drives, msfs : BOOLEAN,
            undismounted : SUBSET Faulty, unmounted : SUBSET Faulty, mayMount : BOOLEAN]

Memories == [p : Plugin, fs : [Drives -> FileSystems], note : BOOLEAN, fault : Faults,
             in : Outside]

Aware(m, d) == m.in.present = { x \in Drives : d.home[x] # "None" }

\* A drive has what it had, or had FAT and is being taken, lost or faulty.
Kept(m, d, l) == \A x \in Drives :
  \/ m.fs[x] = d.home[x]
  \/ /\ d.home[x] = "Fat" /\ m.fs[x] \in {"None", "MassStorage"}
     /\ x \in Faulty \cup l \/ (m.p.iMountChanged /\ x \in ToSet(m.p.iDrives))

\* The list has each drive once, and only drives that are present.
ListGood(m, d) == /\ IsInjective(m.p.iDrives)
                  /\ \A x \in ToSet(m.p.iDrives) : d.home[x] # "None"

\* The file server has let go of a drive, unless it is faulty.
LetGo(m, x) == m.fs[x] = "None" \/ x \in Faulty

\* The mounting has passed the drives of the list after the k-th.
Passed(m, k) == \A i \in 1..Len(m.p.iDrives) : i > k => LetGo(m, m.p.iDrives[i])

\* The plugin waits for a drive of its list, and for the timer not by force.
Waiting(p) == /\ p.active => p.iMscState \in Taking
              /\ p.timer \/ p.iMscState \in Taking => p.iDriveIndex < Len(p.iDrives)
              /\ p.iMscState = "Mounting" => p.iMountChanged
              /\ p.iMscState = "ForciblyDismounting" => ~p.timer

\* The drive that is asked for had FAT.
Turn(m, d) == m.p.timer \/ (m.p.active /\ m.p.iStatus = Pending) => d.home[Drive(m)] = "Fat"

Attended(m, d, l) ==
  /\ m.fault = NoFault
  /\ Kept(m, d, l) /\ ListGood(m, d) /\ Waiting(m.p) /\ Turn(m, d)
  /\ m.note => m.p.iIsQueryNoteShown

\* A plugin that has not been told to stop takes one drive after the other, and an
\* answer is about the drive whose turn it is.
OnTime(m) ==
  /\ m.p.timer => m.p.iMscState \in Taking
  /\ m.p.iMscState \in Taking => m.p.iMountChanged /\ Passed(m, m.p.iDriveIndex + 1)
  /\ (/\ m.p.active
      /\ \/ m.p.iMscState = "Mounting" /\ m.p.iStatus = KErrNone
         \/ m.p.iMscState = "ForciblyDismounting" /\ m.p.iStatus # Pending)
        => LetGo(m, Drive(m))

\* How far the plugin is in each phase of the watcher.
InPhase(m, w) ==
  /\ w = "Idle" => m.p = InitPlugin /\ ~m.note
  /\ w = "Starting" => m.p.iMscState = "Starting" /\ ~m.p.iMountChanged /\ ~m.p.timer
  /\ w = "Started" => OnTime(m)
  /\ w = "Finished" => ~m.p.iMountChanged /\ ~m.note /\ m.p.iMscState \notin Taking

\* No drive of the list is one the plugin was told to leave.
Spared(m, t) == \A x \in ToSet(m.p.iDrives) : x \notin t

Around == /\ drives \in DriveStates /\ watcher \in Phases
          /\ bus \in BusStates /\ allowed \in BOOLEAN /\ told \subseteq Drives
Variables == Around /\ lost \subseteq Drives

PersonalityInv ==
  /\ Variables
  /\ Now \in Memories
  /\ Attended(Now, drives, lost)
  /\ InPhase(Now, watcher)
  /\ Spared(Now, told)

-----------------------------------------------------------------------------
(* What each method of the plugin does to the invariant.                   *)

\* What a step of the plugin never does: FAT stays, and a drive that is not faulty is
\* only put back.
FatStays(m, n) == \A x \in Drives : m.fs[x] = "Fat" => n.fs[x] = "Fat"
Restores(m, n, d) ==
  FatStays(m, n) /\ \A x \in Drives \ Faulty : n.fs[x] \in {m.fs[x], d.home[x]}

\* A personality that has just been constructed is in range.
LEMMA InitPluginType == InitPlugin \in Plugin
BY DEF InitPlugin, Plugin, MscStates, Statuses, Codes, KErrNone, Pending

\* The invariant speaks of the members the plugin changes.
LEMMA SameAttended ==
  ASSUME NEW m \in Memories, NEW n, NEW d, NEW l,
         n.p = m.p, n.fs = m.fs, n.note = m.note, n.fault = m.fault, Attended(m, d, l)
  PROVE  Attended(n, d, l)
BY DEF Attended, Kept, ListGood, Turn, Drive

\* So do the phases.
LEMMA SameInPhase ==
  ASSUME NEW m, NEW n, NEW w, n.p = m.p, n.fs = m.fs, n.note = m.note, InPhase(m, w)
  PROVE  InPhase(n, w)
BY DEF InPhase, OnTime, Passed, LetGo, Drive

\* A drive that is back is not lost any more.
LEMMA FoundAgain ==
  ASSUME NEW m, NEW d, NEW l, Attended(m, d, l)
  PROVE  Attended(m, d, { x \in l : m.fs[x] # d.home[x] })
BY DEF Attended, Kept

\* A plugin that takes no drives, and has taken none that is not back, lost or faulty.
LEMMA RestAttended ==
  ASSUME NEW m, NEW d, NEW l, m.fault = NoFault, Kept(m, d, l), ListGood(m, d),
         ~m.p.active, m.p.iMscState \notin Taking,
         m.p.timer => m.p.iDriveIndex < Len(m.p.iDrives) /\ d.home[Drive(m)] = "Fat",
         m.note => m.p.iIsQueryNoteShown
  PROVE  Attended(m, d, l)
BY DEF Attended, Waiting, Turn, Taking

\* The plugin after CActive::Cancel(), which also stops the timer of what it waited for.
Cancelled(p) == IF p.active THEN [p EXCEPT !.active = FALSE, !.timer = FALSE] ELSE p

\* Cancel leaves the personality's record in range, whatever its state machine was doing.
LEMMA CancelledType ==
  ASSUME NEW p \in Plugin
  PROVE  /\ Cancelled(p) \in Plugin /\ ~Cancelled(p).active
         /\ Cancelled(p).timer => p.timer /\ ~p.active
         /\ Cancelled(p).iMscState = p.iMscState /\ Cancelled(p).iDrives = p.iDrives
         /\ Cancelled(p).iDriveIndex = p.iDriveIndex
         /\ Cancelled(p).iMountChanged = p.iMountChanged
         /\ Cancelled(p).iMsfsAdded = p.iMsfsAdded
         /\ Cancelled(p).iIsQueryNoteShown = p.iIsQueryNoteShown
BY DEF Cancelled, Plugin

\* Cancel leaves a personality that waits for nothing, whose drives are all attended.
LEMMA CancelAttended ==
  ASSUME NEW m \in Memories, NEW d, NEW l, Attended(m, d, l)
  PROVE  LET n == PluginCancel(m) IN
         /\ n \in Memories /\ Attended(n, d, l) /\ n.p = Cancelled(m.p)
         /\ n.fs = m.fs /\ n.in = m.in /\ n.note \in {m.note, FALSE}
<1>1. CASE ~m.p.active
  BY <1>1 DEF PluginCancel, Cancelled, Memories
<1>2. CASE m.p.active
  <2> DEFINE k == [m EXCEPT !.p.active = FALSE, !.p.timer = FALSE]
             n == IF m.p.iMscState = "ForciblyDismounting" THEN k ELSE [k EXCEPT !.note = FALSE]
  <2>1. PluginCancel(m) = n
    <3>1. m.p.iMscState \in Taking
      BY <1>2 DEF Attended, Waiting
    <3> QED BY <1>2, <3>1 DEF PluginCancel, DoCancel, Memories
  <2>2. k.p = Cancelled(m.p) /\ k = [m EXCEPT !.p = Cancelled(m.p)]
    BY <1>2 DEF Memories, Plugin, Cancelled
  <2>3. n \in Memories /\ n.p = Cancelled(m.p)
        /\ n.fs = m.fs /\ n.in = m.in /\ n.note \in {m.note, FALSE} /\ n.fault = m.fault
    <3> HIDE DEF k
    <3> QED BY <2>2, CancelledType DEF Memories
  <2> HIDE DEF n
  <2>4. Attended(n, d, l)
    <3>1. Kept(n, d, l) /\ ListGood(n, d) /\ Waiting(n.p)
      BY <1>2, <2>3, CancelledType DEF Attended, Kept, ListGood, Waiting, Memories
    <3>2. Turn(n, d)
      BY <1>2, <2>3, CancelledType DEF Attended, Turn, Memories
    <3> QED BY <2>3, <3>1, <3>2, CancelledType DEF Attended, Memories
  <2> QED BY <2>1, <2>3, <2>4
<1> QED BY <1>1, <1>2

\* What the file server gives back to one drive.
LEMMA RestoreOneGives ==
  ASSUME NEW m \in Memories, NEW x \in Drives, m.fs[x] \in FileSystems
  PROVE  /\ RestoreOne(m, x) \in {m.fs[x], "None", "Fat"}
         /\ m.fs[x] \notin {"None", "MassStorage"} => RestoreOne(m, x) = m.fs[x]
         /\ x \notin Faulty /\ m.fs[x] \in {"None", "MassStorage"} => RestoreOne(m, x) = "Fat"
<1>1. m.in.undismounted \subseteq Faulty /\ m.in.unmounted \subseteq Faulty
  BY DEF Memories, Outside
<1> QED BY <1>1 DEF RestoreOne

\* After UnmountMassStorage no drive is being taken, and those of the list are back
\* unless they are faulty.
LEMMA UnmountHome ==
  ASSUME NEW m \in Memories, NEW d \in DriveStates, NEW l, Attended(m, d, l)
  PROVE  LET n == UnmountMassStorage(m) IN
         /\ n \in Memories /\ Kept(n, d, l) /\ Restores(m, n, d) /\ n.in = m.in
         /\ n.p = [Cancelled(m.p) EXCEPT !.iMountChanged = FALSE]
         /\ n.note \in {m.note, FALSE} /\ n.fault = NoFault
<1> DEFINE t == PluginCancel(m)
           n == UnmountMassStorage(m)
           restored == [x \in DOMAIN t.fs |->
                          IF x \in ToSet(t.p.iDrives) THEN RestoreOne(t, x) ELSE t.fs[x]]
<1>1. /\ t \in Memories /\ Attended(t, d, l) /\ t.in = m.in /\ t.note \in {m.note, FALSE}
      /\ t.p = Cancelled(m.p) /\ t.fs = m.fs
  BY CancelAttended
<1>2. n = [t EXCEPT !.p.iMountChanged = FALSE, !.fs = restored]
  BY DEF UnmountMassStorage
<1> HIDE DEF t, n
<1>3. \A x \in Drives : restored[x] = IF x \in ToSet(t.p.iDrives) THEN RestoreOne(t, x) ELSE t.fs[x]
  BY <1>1 DEF Memories
<1>4. restored \in [Drives -> FileSystems]
  <2>1. \A x \in Drives : t.fs[x] \in FileSystems
    BY <1>1 DEF Memories
  <2>2. \A x \in Drives : RestoreOne(t, x) \in FileSystems
    BY <2>1 DEF RestoreOne, FileSystems
  <2>3. DOMAIN t.fs = Drives
    BY <1>1 DEF Memories
  <2> QED BY <2>1, <2>2, <2>3
<1>5. ASSUME NEW x \in Drives
      PROVE  /\ \/ restored[x] = d.home[x]
                \/ /\ d.home[x] = "Fat" /\ restored[x] \in {"None", "MassStorage"}
                   /\ x \in Faulty \cup l
             /\ t.fs[x] = "Fat" => restored[x] = "Fat"
             /\ x \notin Faulty => restored[x] \in {t.fs[x], d.home[x]}
  <2>1. t.fs[x] \in FileSystems
    BY <1>1 DEF Memories
  <2>2. CASE x \notin ToSet(t.p.iDrives)
    BY <1>1, <1>3, <2>2 DEF Attended, Kept
  <2>3. CASE x \in ToSet(t.p.iDrives)
    <3>1. d.home[x] \notin {"None", "MassStorage"}
      <4>1. d.home[x] # "None"
        BY <1>1, <2>3 DEF Attended, ListGood
      <4>2. d.home[x] \in Systems \cup {"None"} /\ "MassStorage" \notin Systems \cup {"None"}
        BY PersonalityAssumption DEF DriveStates
      <4> QED BY <4>1, <4>2
    <3>2. t.fs[x] = d.home[x] \/ (d.home[x] = "Fat" /\ t.fs[x] \in {"None", "MassStorage"})
      BY <1>1 DEF Attended, Kept
    <3>3. restored[x] = RestoreOne(t, x)
      BY <1>3, <2>3
    <3> HIDE DEF restored
    <3>4. /\ restored[x] \in {t.fs[x], "None", "Fat"}
          /\ t.fs[x] \notin {"None", "MassStorage"} => restored[x] = t.fs[x]
          /\ x \notin Faulty /\ t.fs[x] \in {"None", "MassStorage"} => restored[x] = "Fat"
      BY <1>1, <2>1, <3>3, RestoreOneGives
    <3> QED BY <3>1, <3>2, <3>4
  <2> QED BY <2>2, <2>3
<1> HIDE DEF restored
<1>6. n.p = [Cancelled(m.p) EXCEPT !.iMountChanged = FALSE] /\ n.p \in Plugin
  BY <1>1, <1>2 DEF Memories, Plugin
<1>7. n = [t EXCEPT !.p = n.p, !.fs = restored]
  BY <1>1, <1>2, <1>6 DEF Memories
<1>8. t.fault = NoFault
  BY <1>1 DEF Attended
<1>9. n \in Memories /\ n.fs = restored /\ n.in = t.in /\ n.note = t.note /\ n.fault = t.fault
  BY <1>1, <1>4, <1>6, <1>7 DEF Memories
<1>10. Kept(n, d, l)
  BY <1>5, <1>9 DEF Kept
<1>11. Restores(m, n, d)
  BY <1>1, <1>5, <1>9 DEF Restores, FatStays
<1> QED BY <1>1, <1>6, <1>8, <1>9, <1>10, <1>11 DEF n

\* The destructor: wherever the plugin is, the drives come back.
LEMMA DeletedHome ==
  ASSUME NEW m \in Memories, NEW d \in DriveStates, NEW l, Attended(m, d, l)
  PROVE  LET n == DeletePlugin(m) IN
         /\ n \in Memories /\ n.p = InitPlugin /\ Kept(n, d, l) /\ Restores(m, n, d)
         /\ n.note \in {m.note, FALSE} /\ n.fault = NoFault /\ n.in = m.in
<1> DEFINE k == PluginCancel(UnmountIfChanged(m))
           n == DeletePlugin(m)
<1>1. /\ k \in Memories /\ Kept(k, d, l) /\ ~k.p.iMountChanged /\ Restores(m, k, d)
      /\ k.in = m.in /\ k.note \in {m.note, FALSE} /\ k.fault = NoFault
  <2>1. CASE m.p.iMountChanged
    <3> DEFINE u == UnmountMassStorage(m)
    <3>1. /\ u \in Memories /\ Kept(u, d, l) /\ Restores(m, u, d) /\ u.in = m.in
          /\ u.note \in {m.note, FALSE}
          /\ u.fault = NoFault /\ u.p = [Cancelled(m.p) EXCEPT !.iMountChanged = FALSE]
      BY UnmountHome
    <3>2. ~u.p.active /\ ~u.p.iMountChanged
      BY <3>1 DEF Cancelled, Memories, Plugin
    <3>3. k = u
      BY <2>1, <3>2 DEF UnmountIfChanged, PluginCancel
    <3> QED BY <3>1, <3>2, <3>3
  <2>2. CASE ~m.p.iMountChanged
    <3>1. k = PluginCancel(m)
      BY <2>2 DEF UnmountIfChanged
    <3>2. /\ k \in Memories /\ Attended(k, d, l) /\ k.fs = m.fs /\ k.in = m.in
          /\ k.note \in {m.note, FALSE} /\ k.p = Cancelled(m.p)
      BY <3>1, CancelAttended
    <3>3. ~k.p.iMountChanged
      BY <2>2, <3>2, CancelledType DEF Memories
    <3> HIDE DEF k
    <3> QED BY <3>2, <3>3 DEF Attended, Restores, FatStays
  <2> QED BY <2>1, <2>2
<1>2. n = [k EXCEPT !.p = InitPlugin]
  BY DEF DeletePlugin
<1> HIDE DEF k, n
<1>3. /\ n \in Memories /\ n.p = InitPlugin /\ n.fs = k.fs /\ n.in = k.in /\ n.note = k.note
      /\ n.fault = k.fault
  BY <1>1, <1>2, InitPluginType DEF Memories
<1>4. Kept(n, d, l) /\ Restores(m, n, d)
  BY <1>1, <1>3 DEF Kept, Restores, FatStays
<1> QED BY <1>1, <1>3, <1>4 DEF n

\* A plugin just made, in a phone in which no drive is being taken.
LEMMA StartAttended ==
  ASSUME NEW m \in Memories, NEW d \in DriveStates, NEW l, Kept(m, d, l),
         ~m.p.iMountChanged, ~m.note, m.fault = NoFault
  PROVE  LET n == PreparePersonalityStart(m) IN
         /\ n \in Memories /\ Attended(n, d, l) /\ InPhase(n, "Starting")
         /\ n.fs = m.fs /\ n.p.iDrives = <<>>
<1> DEFINE q == [InitPlugin EXCEPT !.iMscState = "Starting", !.iMsfsAdded = m.in.msfs]
           n == PreparePersonalityStart(m)
<1>1. /\ q \in Plugin /\ ~q.active /\ ~q.timer /\ q.iMscState = "Starting"
      /\ ~q.iMountChanged /\ q.iDrives = <<>>
  BY InitPluginType DEF InitPlugin, Memories, Outside, Plugin, MscStates
<1>2. n = [m EXCEPT !.p = q]
  BY DEF PreparePersonalityStart
<1> HIDE DEF q, n
<1>3. n \in Memories /\ n.p = q /\ n.fs = m.fs /\ ~n.note /\ n.fault = NoFault
  BY <1>1, <1>2 DEF Memories
<1>4. ListGood(n, d) /\ Kept(n, d, l)
  BY <1>1, <1>3 DEF ListGood, IsInjective, ToSet, Kept
<1>5. Attended(n, d, l)
  BY <1>1, <1>3, <1>4, RestAttended DEF Taking
<1> QED BY <1>1, <1>3, <1>5 DEF InPhase, n

\* PrepareStop cancels what the plugin waits for; the timer of a refusal goes on.
LEMMA PrepareStopAttended ==
  ASSUME NEW m \in Memories, NEW d \in DriveStates, NEW l, Attended(m, d, l)
  PROVE  LET n == PreparePersonalityStop(m) IN
         /\ n \in Memories /\ Attended(n, d, l) /\ n.fs = m.fs /\ n.p.iMscState = "Stopping"
         /\ n.p.timer => m.p.timer /\ ~m.p.active
         /\ n.p.iDrives = m.p.iDrives
<1> DEFINE c == PluginCancel(m)
           n == PreparePersonalityStop(m)
<1>1. /\ c \in Memories /\ Attended(c, d, l) /\ c.fs = m.fs /\ c.p = Cancelled(m.p)
  BY CancelAttended
<1>2. n = [c EXCEPT !.p.iMscState = "Stopping"]
  BY DEF PreparePersonalityStop
<1> HIDE DEF c, n
<1> DEFINE q == [c.p EXCEPT !.iMscState = "Stopping"]
<1>3. /\ q \in Plugin /\ ~q.active /\ q.iMscState = "Stopping"
      /\ (q.timer => m.p.timer /\ ~m.p.active)
      /\ q.timer = c.p.timer /\ q.iDriveIndex = c.p.iDriveIndex
      /\ q.iDrives = c.p.iDrives /\ q.iMountChanged = c.p.iMountChanged
      /\ q.iIsQueryNoteShown = c.p.iIsQueryNoteShown /\ c.p.iDrives = m.p.iDrives
  <2>1. /\ c.p \in Plugin /\ ~c.p.active
        /\ c.p.timer => m.p.timer /\ ~m.p.active
        /\ c.p.iDrives = m.p.iDrives
    BY <1>1, CancelledType DEF Memories
  <2>2. /\ q \in Plugin /\ q.active = c.p.active /\ q.iMscState = "Stopping"
        /\ q.timer = c.p.timer /\ q.iDriveIndex = c.p.iDriveIndex
        /\ q.iDrives = c.p.iDrives /\ q.iMountChanged = c.p.iMountChanged
        /\ q.iIsQueryNoteShown = c.p.iIsQueryNoteShown
    BY <2>1 DEF Plugin, MscStates
  <2> HIDE DEF q
  <2> QED BY <2>1, <2>2
<1>4. n = [c EXCEPT !.p = q]
  BY <1>1, <1>2 DEF Memories
<1> HIDE DEF q
<1>5. n \in Memories /\ n.p = q /\ n.fs = c.fs /\ n.note = c.note /\ n.fault = c.fault
  BY <1>1, <1>3, <1>4 DEF Memories
<1>6. Kept(n, d, l) /\ ListGood(n, d) /\ Drive(n) = Drive(c)
  BY <1>1, <1>3, <1>5 DEF Attended, Kept, ListGood, Drive
<1>7. n.p.timer => n.p.iDriveIndex < Len(n.p.iDrives) /\ d.home[Drive(n)] = "Fat"
  BY <1>1, <1>3, <1>5, <1>6 DEF Attended, Waiting, Turn
<1>8. Attended(n, d, l)
  BY <1>1, <1>3, <1>5, <1>6, <1>7, RestAttended DEF Attended, Taking
<1> QED BY <1>1, <1>3, <1>5, <1>8 DEF n

\* The end of a stop brings the drives back and takes the query down.
LEMMA FinishStopAttended ==
  ASSUME NEW m \in Memories, NEW d \in DriveStates, NEW l, Attended(m, d, l)
  PROVE  LET n == FinishPersonalityStop(m) IN
         /\ n \in Memories /\ Attended(n, d, l) /\ Restores(m, n, d) /\ InPhase(n, "Finished")
         /\ n.p.iDrives = m.p.iDrives /\ n.p.iMscState = "Idle"
<1> DEFINE c == PluginCancel(m)
           t == UnmountIfChanged(c)
           n == FinishPersonalityStop(m)
<1>1. /\ c \in Memories /\ Attended(c, d, l) /\ c.fs = m.fs /\ c.p = Cancelled(m.p)
  BY CancelAttended
<1>2. /\ c.p \in Plugin /\ ~c.p.active /\ c.p.iDrives = m.p.iDrives
      /\ Cancelled(c.p) = c.p
  <2>1. /\ c.p \in Plugin /\ ~c.p.active /\ c.p.iDrives = m.p.iDrives
    BY <1>1, CancelledType DEF Memories
  <2> HIDE DEF c
  <2> QED BY <2>1 DEF Cancelled
<1> HIDE DEF c
<1>3. /\ t \in Memories /\ Kept(t, d, l) /\ Restores(m, t, d) /\ t.note \in {c.note, FALSE}
      /\ t.fault = NoFault /\ t.p = [c.p EXCEPT !.iMountChanged = FALSE]
  <2>1. CASE c.p.iMountChanged
    <3>1. t = UnmountMassStorage(c)
      BY <2>1 DEF UnmountIfChanged
    <3>2. /\ t \in Memories /\ Kept(t, d, l) /\ Restores(c, t, d)
          /\ t.p = [c.p EXCEPT !.iMountChanged = FALSE]
          /\ t.note \in {c.note, FALSE} /\ t.fault = NoFault
      BY <1>1, <1>2, <3>1, UnmountHome
    <3> HIDE DEF t
    <3> QED BY <1>1, <3>2 DEF Restores, FatStays
  <2>2. CASE ~c.p.iMountChanged
    <3>1. [c.p EXCEPT !.iMountChanged = FALSE] = c.p
      BY <1>2, <2>2 DEF Plugin
    <3>2. t = c
      BY <2>2 DEF UnmountIfChanged
    <3> HIDE DEF t
    <3> QED BY <1>1, <3>1, <3>2 DEF Attended, Restores, FatStays
  <2> QED BY <2>1, <2>2
<1>4. n = [t EXCEPT !.p.iMsfsAdded = FALSE, !.p.iIsQueryNoteShown = FALSE,
                    !.p.iMscState = "Idle", !.note = @ /\ ~t.p.iIsQueryNoteShown]
  BY DEF FinishPersonalityStop, c
<1> HIDE DEF t, n
<1> DEFINE q == [t.p EXCEPT !.iMsfsAdded = FALSE, !.iIsQueryNoteShown = FALSE,
                            !.iMscState = "Idle"]
<1>5. /\ q \in Plugin /\ q.active = c.p.active /\ q.timer = c.p.timer /\ q.iMscState = "Idle"
      /\ q.iDrives = c.p.iDrives /\ q.iDriveIndex = c.p.iDriveIndex
      /\ ~q.iMountChanged /\ ~q.iIsQueryNoteShown
  BY <1>2, <1>3 DEF Plugin, MscStates
<1>6. t.note => t.p.iIsQueryNoteShown
  BY <1>1, <1>2, <1>3 DEF Attended, Plugin
<1>7. n = [t EXCEPT !.p = q, !.note = FALSE]
  BY <1>3, <1>4, <1>6 DEF Memories
<1> HIDE DEF q
<1>8. n \in Memories /\ n.p = q /\ n.fs = t.fs /\ ~n.note /\ n.fault = NoFault
  BY <1>3, <1>5, <1>7 DEF Memories
<1>9. ListGood(n, d) /\ Drive(n) = Drive(c)
  BY <1>1, <1>5, <1>8 DEF Attended, ListGood, Drive
<1>10. Kept(n, d, l) /\ Restores(m, n, d)
  <2>1. ~t.p.iMountChanged
    BY <1>2, <1>3 DEF Plugin
  <2> QED BY <1>3, <1>8, <2>1 DEF Kept, Restores, FatStays
<1>11. n.p.timer => n.p.iDriveIndex < Len(n.p.iDrives) /\ d.home[Drive(n)] = "Fat"
  BY <1>1, <1>5, <1>8, <1>9 DEF Attended, Waiting, Turn
<1>12. Attended(n, d, l)
  BY <1>2, <1>5, <1>8, <1>9, <1>10, <1>11, RestAttended DEF Taking
<1>13. InPhase(n, "Finished")
  BY <1>5, <1>8 DEF InPhase, Taking
<1> QED BY <1>2, <1>5, <1>8, <1>10, <1>12, <1>13 DEF n

\* The end of the connection brings the drives back.
LEMMA UndefinedAttended ==
  ASSUME NEW m \in Memories, NEW d \in DriveStates, NEW l, Attended(m, d, l)
  PROVE  LET n == UndefinedNotify(m) IN
         /\ n \in Memories /\ Attended(n, d, l) /\ Restores(m, n, d)
         /\ n.note \in {m.note, FALSE} /\ n.p.iDrives = m.p.iDrives
         /\ n.p.iMscState \in {m.p.iMscState, "Idle"}
         /\ n.p.timer => m.p.timer /\ (~m.p.active \/ n.p.active)
         /\ n.p.iMscState \in Taking => m.p.iMscState \in Taking
<1> DEFINE u == UnmountMassStorage(m)
           n == UndefinedNotify(m)
<1>1. CASE ~m.p.iMountChanged
  BY <1>1 DEF UndefinedNotify, Restores, FatStays
<1>2. CASE m.p.iMountChanged
  <2> DEFINE q == [u.p EXCEPT !.iMscState = "Idle"]
             k == Cancelled(m.p)
  <2>1. /\ u \in Memories /\ Kept(u, d, l) /\ Restores(m, u, d) /\ u.note \in {m.note, FALSE}
        /\ u.fault = NoFault /\ u.p = [k EXCEPT !.iMountChanged = FALSE]
    BY UnmountHome
  <2>2. n = [u EXCEPT !.p.iMscState = "Idle"]
    BY <1>2 DEF UndefinedNotify
  <2> HIDE DEF u, n
  <2>3. /\ k \in Plugin /\ ~k.active
        /\ k.timer => m.p.timer /\ ~m.p.active
    BY CancelledType DEF Memories
  <2>4. /\ k.iDrives = m.p.iDrives /\ k.iDriveIndex = m.p.iDriveIndex
        /\ k.iIsQueryNoteShown = m.p.iIsQueryNoteShown
    BY CancelledType DEF Memories
  <2> HIDE DEF k
  <2>5. /\ q \in Plugin /\ q.active = k.active /\ q.timer = k.timer /\ q.iMscState = "Idle"
        /\ ~q.iMountChanged /\ ~u.p.iMountChanged /\ q.iDrives = k.iDrives
        /\ q.iDriveIndex = k.iDriveIndex /\ q.iIsQueryNoteShown = k.iIsQueryNoteShown
    BY <2>1, <2>3 DEF Plugin, MscStates
  <2>6. n = [u EXCEPT !.p = q]
    BY <2>1, <2>2 DEF Memories
  <2> HIDE DEF q
  <2>7. n \in Memories /\ n.p = q /\ n.fs = u.fs /\ n.note = u.note /\ n.fault = NoFault
    BY <2>1, <2>5, <2>6 DEF Memories
  <2>8. ListGood(n, d) /\ Drive(n) = Drive(m)
    BY <2>4, <2>5, <2>7 DEF Attended, ListGood, Drive
  <2>9. Kept(n, d, l) /\ Restores(m, n, d)
    BY <2>1, <2>5, <2>7 DEF Kept, Restores, FatStays
  <2>10. n.p.timer => n.p.iDriveIndex < Len(n.p.iDrives) /\ d.home[Drive(n)] = "Fat"
    BY <2>3, <2>4, <2>5, <2>7, <2>8 DEF Attended, Waiting, Turn
  <2>11. n.note => n.p.iIsQueryNoteShown
    BY <2>1, <2>4, <2>5, <2>7 DEF Attended
  <2>12. Attended(n, d, l)
    BY <2>3, <2>5, <2>7, <2>8, <2>9, <2>10, <2>11, RestAttended DEF Taking
  <2> QED BY <1>2, <2>1, <2>3, <2>4, <2>5, <2>7, <2>9, <2>12 DEF Taking, n
<1> QED BY <1>1, <1>2

-----------------------------------------------------------------------------
\* Mounting goes on: nothing is requested.
GoesOn(m, d, l) ==
  /\ m.fault = NoFault /\ ListGood(m, d) /\ Kept(m, d, l)
  /\ ~m.p.active /\ ~m.p.timer
  /\ m.p.iDriveIndex <= Len(m.p.iDrives)
  /\ m.note => m.p.iIsQueryNoteShown

\* The host is given what was let go.
Given(m, n) ==
  n.p.iMscState = "FileTransfer" /\ m.in.mayMount /\ m.p.iMsfsAdded
    => \A x \in ToSet(n.p.iDrives) \ Faulty : n.fs[x] = "MassStorage"

\* The members of a list are its elements.
LEMMA Members ==
  ASSUME NEW s \in Seq(Drives)
  PROVE  /\ ToSet(s) = { s[i] : i \in 1..Len(s) } /\ ToSet(s) \subseteq Drives
         /\ Len(s) \in Nat /\ DOMAIN s = 1..Len(s)
BY DEF ToSet

\* The mass-storage file system goes where there is none.
LEMMA MountGives ==
  ASSUME NEW m \in Memories, NEW d \in DriveStates, NEW l, GoesOn(m, d, l),
         m.p.iMountChanged
  PROVE  LET n == MountMassStorage(m) IN
         /\ n \in Memories /\ n.p = m.p /\ n.note = m.note /\ n.fault = m.fault /\ n.in = m.in
         /\ Kept(n, d, l) /\ FatStays(m, n)
         /\ (Passed(m, 0) /\ m.in.mayMount /\ m.p.iMsfsAdded)
              => \A x \in ToSet(m.p.iDrives) \ Faulty : n.fs[x] = "MassStorage"
<1> DEFINE given == [x \in DOMAIN m.fs |->
                       IF m.in.mayMount /\ x \in ToSet(m.p.iDrives) THEN MountOne(m, x) ELSE m.fs[x]]
           n == MountMassStorage(m)
<1>1. n = [m EXCEPT !.fs = given]
  BY DEF MountMassStorage
<1>2. given \in [Drives -> FileSystems]
  BY DEF Memories, MountOne, FileSystems
<1>3. \A x \in Drives :
        given[x] = IF m.in.mayMount /\ x \in ToSet(m.p.iDrives) THEN MountOne(m, x) ELSE m.fs[x]
  BY DEF Memories
<1>4. m.p \in Plugin /\ m.p.iDrives \in Seq(Drives) /\ m.in.unmounted \subseteq Faulty
  BY DEF Memories, Plugin, Outside
<1> HIDE DEF given, n
<1>5. /\ n \in Memories /\ n.p = m.p /\ n.note = m.note /\ n.fault = m.fault /\ n.in = m.in
      /\ n.fs = given
  BY <1>1, <1>2 DEF Memories
<1>6. Kept(n, d, l)
  BY <1>3, <1>5 DEF Kept, GoesOn, ListGood, MountOne
<1>7. FatStays(m, n)
  BY <1>3, <1>5 DEF MountOne, FatStays
<1>8. ASSUME Passed(m, 0), m.in.mayMount, m.p.iMsfsAdded,
             NEW x \in ToSet(m.p.iDrives) \ Faulty
      PROVE  given[x] = "MassStorage"
  <2>1. PICK i \in 1..Len(m.p.iDrives) : x = m.p.iDrives[i]
    BY <1>4, Members
  <2>2. x \in Drives /\ Len(m.p.iDrives) \in Nat
    BY <1>4, Members
  <2>3. m.fs[x] = "None"
    BY <1>8, <2>1, <2>2 DEF Passed, LetGo
  <2> QED BY <1>3, <1>4, <1>8, <2>2, <2>3 DEF MountOne
<1> QED BY <1>5, <1>6, <1>7, <1>8 DEF n

\* The next drive is taken, or the mounting ends.
LEMMA NextAttended ==
  ASSUME NEW m \in Memories, NEW d \in DriveStates, NEW l, GoesOn(m, d, l)
  PROVE  LET n == StartDismountFat(m) IN
         /\ n \in Memories /\ Attended(n, d, l) /\ FatStays(m, n)
         /\ n.p.iDrives = m.p.iDrives
         /\ Passed(m, m.p.iDriveIndex) => OnTime(n) /\ Given(m, n)
<1> DEFINE t == [m EXCEPT !.p.iMountChanged = TRUE]
<1>1. /\ t \in Memories /\ t.fs = m.fs /\ t.note = m.note /\ t.fault = m.fault /\ t.in = m.in
      /\ t.p \in Plugin /\ t.p = [m.p EXCEPT !.iMountChanged = TRUE]
  BY DEF Memories, Plugin
<1>2. /\ t.p.iMountChanged /\ t.p.active = m.p.active /\ t.p.timer = m.p.timer
      /\ t.p.iDriveIndex = m.p.iDriveIndex /\ t.p.iDrives = m.p.iDrives
      /\ t.p.iMsfsAdded = m.p.iMsfsAdded /\ t.p.iMscState = m.p.iMscState
      /\ t.p.iIsQueryNoteShown = m.p.iIsQueryNoteShown
  BY <1>1 DEF Memories, Plugin
<1>3. StartDismountFat(m) = IF m.p.iDriveIndex = 0
                              THEN [MountMassStorage(t) EXCEPT !.p.iMscState = "FileTransfer"]
                              ELSE DismountFat([t EXCEPT !.p.iDriveIndex = @ - 1])
  BY DEF StartDismountFat
<1> HIDE DEF t
<1>4. GoesOn(t, d, l) /\ \A k : Passed(m, k) => Passed(t, k)
  BY <1>1, <1>2 DEF GoesOn, ListGood, Kept, Passed, LetGo
<1>5. CASE m.p.iDriveIndex = 0
  <2> DEFINE g == MountMassStorage(t)
             q == [g.p EXCEPT !.iMscState = "FileTransfer"]
             n == [g EXCEPT !.p.iMscState = "FileTransfer"]
  <2>1. /\ g \in Memories /\ g.p = t.p /\ g.note = t.note /\ g.fault = t.fault /\ g.in = t.in
        /\ Kept(g, d, l) /\ FatStays(t, g)
        /\ (Passed(t, 0) /\ t.in.mayMount /\ t.p.iMsfsAdded)
             => \A x \in ToSet(t.p.iDrives) \ Faulty : g.fs[x] = "MassStorage"
    BY <1>1, <1>2, <1>4, MountGives
  <2> HIDE DEF g
  <2>2. /\ q \in Plugin /\ q.iMscState = "FileTransfer" /\ q.iMountChanged
        /\ q.active = m.p.active /\ q.timer = m.p.timer
        /\ q.iDrives = m.p.iDrives /\ q.iIsQueryNoteShown = m.p.iIsQueryNoteShown
    BY <1>1, <1>2, <2>1 DEF Plugin, MscStates
  <2>3. n = [g EXCEPT !.p = q]
    BY <2>1 DEF Memories
  <2> HIDE DEF q, n
  <2>4. n \in Memories /\ n.p = q /\ n.fs = g.fs /\ n.note = m.note /\ n.fault = m.fault
    BY <1>1, <2>1, <2>2, <2>3 DEF Memories
  <2>5. Kept(n, d, l) /\ ListGood(n, d) /\ FatStays(m, n)
    BY <1>1, <1>2, <2>1, <2>2, <2>4 DEF Kept, ListGood, GoesOn, FatStays
  <2>6. Attended(n, d, l)
    BY <2>2, <2>4, <2>5, RestAttended DEF GoesOn, Taking
  <2>7. ASSUME Passed(m, m.p.iDriveIndex) PROVE Given(m, n)
    BY <1>1, <1>2, <1>4, <1>5, <2>1, <2>2, <2>4, <2>7 DEF Given
  <2>8. OnTime(n)
    BY <2>2, <2>4 DEF OnTime, GoesOn, Taking
  <2> QED BY <1>3, <1>5, <2>2, <2>4, <2>5, <2>6, <2>7, <2>8 DEF n, g
<1>6. CASE m.p.iDriveIndex # 0
  <2> DEFINE j == m.p.iDriveIndex - 1
             u == [t EXCEPT !.p.iDriveIndex = @ - 1]
             n == DismountFat(u)
  <2>1. j \in Nat /\ j + 1 = m.p.iDriveIndex /\ j < Len(m.p.iDrives)
        /\ m.p.iDrives \in Seq(Drives)
    <3>1. m.p.iDriveIndex \in Nat /\ m.p.iDrives \in Seq(Drives)
      BY DEF Memories, Plugin
    <3>2. Len(m.p.iDrives) \in Nat /\ m.p.iDriveIndex <= Len(m.p.iDrives)
      BY <3>1 DEF GoesOn
    <3> QED BY <1>6, <3>1, <3>2
  <2>2. /\ u.p \in Plugin /\ u.p = [t.p EXCEPT !.iDriveIndex = j]
        /\ u.fs = t.fs /\ u.note = t.note /\ u.fault = t.fault /\ u.in = t.in /\ u \in Memories
    BY <1>1, <1>2, <2>1 DEF Memories, Plugin
  <2>3. /\ u.p.iDriveIndex = j /\ u.p.iMountChanged /\ ~u.p.active /\ ~u.p.timer
        /\ u.p.iDrives = m.p.iDrives /\ u.p.iIsQueryNoteShown = m.p.iIsQueryNoteShown
    <3>1. /\ u.p.iDriveIndex = j /\ u.p.iMountChanged = t.p.iMountChanged
          /\ u.p.active = t.p.active /\ u.p.timer = t.p.timer
          /\ u.p.iDrives = t.p.iDrives /\ u.p.iIsQueryNoteShown = t.p.iIsQueryNoteShown
      <4> HIDE DEF u
      <4> QED BY <1>1, <2>2 DEF Plugin
    <3> HIDE DEF u
    <3> QED BY <1>2, <3>1 DEF GoesOn
  <2> HIDE DEF u
  <2> DEFINE x == m.p.iDrives[j + 1]
             fat == m.fs[x] = "Fat"
             q == [u.p EXCEPT !.active = TRUE, !.iStatus = IF fat THEN Pending ELSE KErrNotFound,
                              !.timer = fat, !.iMscState = "Mounting"]
  <2>4. x \in Drives /\ x \in ToSet(m.p.iDrives) /\ x = Drive(u)
    BY <2>1, <2>3, Members DEF Drive
  <2>5. n = [u EXCEPT !.p = q]
    <3> DEFINE st == IF fat THEN Pending ELSE KErrNotFound
               v == [u.p EXCEPT !.active = TRUE, !.iStatus = st]
    <3>1. PluginActive(u, st) = [u EXCEPT !.p = v] /\ v \in Plugin /\ v.timer = u.p.timer
      BY <2>2, <2>3 DEF PluginActive, Memories, Plugin, Statuses, Codes
    <3> DEFINE w == [u EXCEPT !.p = v]
    <3>2. w \in Memories /\ w.p = v
      BY <2>2, <3>1 DEF Memories
    <3>3. CASE fat
      <4>1. TimerStart(w) = [w EXCEPT !.p.timer = TRUE]
        BY <2>3, <3>1, <3>2 DEF TimerStart, Memories
      <4>2. n = [TimerStart(w) EXCEPT !.p.iMscState = "Mounting"]
        BY <1>1, <2>2, <2>4, <3>1, <3>3 DEF DismountFat
      <4>3. q = [v EXCEPT !.timer = TRUE, !.iMscState = "Mounting"]
        BY <2>2, <3>1, <3>3 DEF Plugin
      <4> HIDE DEF q, v
      <4> QED BY <2>2, <3>1, <3>2, <4>1, <4>2, <4>3 DEF Memories, Plugin
    <3>4. CASE ~fat
      <4>1. n = [w EXCEPT !.p.iMscState = "Mounting"]
        BY <1>1, <2>2, <2>4, <3>1, <3>4 DEF DismountFat
      <4>2. v.timer = FALSE
        BY <2>3, <3>1
      <4>3. q = [v EXCEPT !.iMscState = "Mounting"]
        BY <2>2, <3>1, <3>4, <4>2 DEF Plugin
      <4> HIDE DEF q, v
      <4> QED BY <2>2, <3>1, <3>2, <4>1, <4>3 DEF Memories, Plugin
    <3> QED BY <3>3, <3>4
  <2>6. /\ q \in Plugin /\ q.active /\ q.iMscState = "Mounting" /\ q.timer = fat
        /\ q.iStatus = (IF fat THEN Pending ELSE KErrNotFound) /\ q.iDriveIndex = j
        /\ q.iDrives = m.p.iDrives /\ q.iMountChanged
        /\ q.iIsQueryNoteShown = m.p.iIsQueryNoteShown
    BY <2>2, <2>3 DEF Plugin, MscStates, Statuses, Codes
  <2> HIDE DEF q, n
  <2>7. /\ n \in Memories /\ n.p = q /\ n.fs = m.fs /\ n.note = m.note /\ n.fault = m.fault
    BY <1>1, <2>2, <2>5, <2>6 DEF Memories
  <2>8. Drive(n) = x
    BY <2>6, <2>7 DEF Drive
  <2>9. Kept(n, d, l) /\ ListGood(n, d) /\ Waiting(n.p)
    BY <2>1, <2>6, <2>7 DEF GoesOn, Kept, ListGood, Waiting, Taking
  <2>10. fat => d.home[x] = "Fat"
    BY <2>4 DEF GoesOn, Kept
  <2>11. Turn(n, d)
    BY <2>6, <2>7, <2>8, <2>10 DEF Turn, Pending, KErrNotFound
  <2>12. Attended(n, d, l)
    BY <2>6, <2>7, <2>9, <2>11 DEF Attended, GoesOn
  <2>13. ASSUME Passed(m, m.p.iDriveIndex) PROVE OnTime(n)
    <3>1. Passed(n, n.p.iDriveIndex + 1)
      BY <2>1, <2>6, <2>7, <2>13 DEF Passed, LetGo
    <3> QED BY <2>6, <2>7, <3>1 DEF OnTime, Taking, Pending, KErrNotFound, KErrNone
  <2>14. Given(m, n) /\ FatStays(m, n)
    BY <2>6, <2>7 DEF Given, FatStays
  <2> QED BY <1>3, <1>6, <2>6, <2>7, <2>12, <2>13, <2>14 DEF n, u
<1> QED BY <1>5, <1>6

\* What a step of the plugin does when it goes on from m to n.
Advanced(m, n, d, l) ==
  /\ n \in Memories /\ Attended(n, d, l) /\ FatStays(m, n)
  /\ OnTime(m) => OnTime(n) /\ (n.p.iMscState # m.p.iMscState => Given(m, n))

\* The drives found are present, and those reported as being encrypted are left out.
LEMMA FoundGood ==
  ASSUME NEW m \in Memories, NEW d \in DriveStates, NEW l, Attended(m, d, l), Aware(m, d),
         OnTime(m), ~m.p.iMountChanged
  PROVE  LET t == GetDrives(m) IN
         /\ t \in Memories /\ Attended(t, d, l) /\ Spared(t, Asked \cap m.in.encrypting)
         /\ t.fs = m.fs /\ t.in = m.in
         /\ ~t.p.active /\ ~t.p.timer /\ ~t.p.iMountChanged
         /\ t.p.iMscState = m.p.iMscState /\ t.p.iMsfsAdded = m.p.iMsfsAdded
         /\ t.p.iMscState \notin Taking
<1> DEFINE wanted == m.in.present \ (Asked \cap m.in.encrypting)
           found == InLetterOrder(wanted)
           t == GetDrives(m)
<1>1. wanted \in SUBSET Nat /\ IsFiniteSet(wanted) /\ wanted \subseteq Drives
  <2>1. wanted \in SUBSET Drives
    BY DEF Memories, Outside
  <2> QED BY <2>1, PersonalityAssumption, FS_Subset
<1>2. found \in Seq(wanted) /\ ToSet(found) = wanted /\ IsInjective(found)
  BY <1>1, LettersListed
<1>3. found \in Seq(Drives)
  BY <1>1, <1>2
<1>4. /\ ~m.p.active /\ ~m.p.timer /\ m.p.iMscState \notin Taking
  BY DEF Attended, Waiting, OnTime
<1> DEFINE shown == m.p.iIsQueryNoteShown \/ found = <<>>
           q == [m.p EXCEPT !.iDrives = found, !.iIsQueryNoteShown = shown]
<1>5. t = [m EXCEPT !.p.iDrives = found, !.p.iIsQueryNoteShown = @ \/ found = <<>>,
                    !.note = @ \/ found = <<>>]
  BY DEF GetDrives
<1> HIDE DEF wanted, found, t
<1>6. /\ q \in Plugin /\ q.iDrives = found /\ q.iIsQueryNoteShown = shown
      /\ q.active = m.p.active /\ q.timer = m.p.timer /\ q.iMountChanged = m.p.iMountChanged
      /\ q.iMscState = m.p.iMscState /\ q.iMsfsAdded = m.p.iMsfsAdded
  BY <1>3 DEF Memories, Plugin
<1>7. t = [m EXCEPT !.p = q, !.note = @ \/ found = <<>>]
  BY <1>5 DEF Memories, Plugin
<1> HIDE DEF q
<1>8. /\ t \in Memories /\ t.p = q /\ t.fs = m.fs /\ t.in = m.in /\ t.fault = m.fault
      /\ t.note = (m.note \/ found = <<>>)
  BY <1>6, <1>7 DEF Memories
<1>9. m.fault = NoFault /\ (m.note => m.p.iIsQueryNoteShown) /\ Kept(m, d, l)
  BY DEF Attended
<1>10. ListGood(t, d) /\ Spared(t, Asked \cap m.in.encrypting)
  BY <1>2, <1>6, <1>8 DEF ListGood, Spared, Aware, wanted
<1>11. Kept(t, d, l)
  BY <1>8, <1>9 DEF Kept
<1>12. Attended(t, d, l)
  BY <1>4, <1>6, <1>8, <1>9, <1>10, <1>11, RestAttended
<1> QED BY <1>4, <1>6, <1>8, <1>10, <1>12 DEF t

\* The host addresses the device.
LEMMA AddressAdvances ==
  ASSUME NEW m \in Memories, NEW d \in DriveStates, NEW l, Attended(m, d, l), Aware(m, d),
         OnTime(m)
  PROVE  LET n == AddressNotify(m) IN
         /\ Advanced(m, n, d, l)
         /\ IF m.p.iMountChanged THEN n = m ELSE Spared(n, Asked \cap m.in.encrypting)
<1> DEFINE t == GetDrives(m)
           u == [t EXCEPT !.p.iDriveIndex = Len(t.p.iDrives)]
<1>1. CASE m.p.iMountChanged
  BY <1>1 DEF AddressNotify, Advanced, FatStays
<1>2. CASE ~m.p.iMountChanged
  <2>1. /\ t \in Memories /\ Attended(t, d, l) /\ Spared(t, Asked \cap m.in.encrypting)
        /\ t.fs = m.fs /\ t.in = m.in
        /\ ~t.p.active /\ ~t.p.timer /\ t.p.iMscState \notin Taking
        /\ t.p.iMscState = m.p.iMscState /\ t.p.iMsfsAdded = m.p.iMsfsAdded
    BY <1>2, FoundGood
  <2>2. AddressNotify(m) = IF t.p.iDrives = <<>> THEN t ELSE StartDismountFat(u)
    BY <1>2 DEF AddressNotify
  <2> HIDE DEF t
  <2>3. CASE t.p.iDrives = <<>>
    BY <1>2, <2>1, <2>2, <2>3 DEF Advanced, FatStays, OnTime
  <2>4. CASE t.p.iDrives # <<>>
    <3>1. Len(t.p.iDrives) \in Nat /\ t.p.iDrives \in Seq(Drives)
      BY <2>1 DEF Memories, Plugin
    <3> DEFINE q == [t.p EXCEPT !.iDriveIndex = Len(t.p.iDrives)]
    <3>2. /\ q \in Plugin /\ q.iDriveIndex = Len(q.iDrives) /\ q.iDrives = t.p.iDrives
          /\ q.active = t.p.active /\ q.timer = t.p.timer /\ q.iMountChanged = t.p.iMountChanged
          /\ q.iMscState = t.p.iMscState /\ q.iMsfsAdded = t.p.iMsfsAdded
          /\ q.iIsQueryNoteShown = t.p.iIsQueryNoteShown
      BY <2>1, <3>1 DEF Memories, Plugin
    <3>3. u = [t EXCEPT !.p = q]
      BY <2>1 DEF Memories
    <3> HIDE DEF q, u
    <3>4. /\ u \in Memories /\ u.p = q /\ u.fs = t.fs /\ u.note = t.note /\ u.fault = t.fault
          /\ u.in = t.in
      BY <2>1, <3>2, <3>3 DEF Memories
    <3>5. ListGood(u, d) /\ Kept(u, d, l)
      BY <2>1, <3>2, <3>4 DEF Attended, ListGood, Kept
    <3>6. Passed(u, u.p.iDriveIndex)
      BY <3>1, <3>2, <3>4 DEF Passed
    <3>7. GoesOn(u, d, l)
      BY <2>1, <3>1, <3>2, <3>4, <3>5 DEF GoesOn, Attended
    <3> DEFINE n == StartDismountFat(u)
    <3>8. /\ n \in Memories /\ Attended(n, d, l) /\ FatStays(u, n) /\ n.p.iDrives = u.p.iDrives
          /\ OnTime(n) /\ Given(u, n)
      BY <3>4, <3>6, <3>7, NextAttended
    <3> HIDE DEF n
    <3>9. Advanced(m, n, d, l) /\ Spared(n, Asked \cap m.in.encrypting)
      BY <2>1, <3>2, <3>4, <3>8 DEF Advanced, Given, FatStays, Spared
    <3> QED BY <1>2, <2>2, <2>4, <3>9 DEF n, u
  <2> QED BY <2>3, <2>4
<1> QED BY <1>1, <1>2

\* What the answer lets go of is passed.
LEMMA AnswerPasses ==
  ASSUME NEW m \in Memories, NEW d \in DriveStates, NEW l, Attended(m, d, l), Ready(m.p),
         \/ m.p.iMscState = "Mounting" /\ m.p.iStatus = KErrNone
         \/ m.p.iMscState = "ForciblyDismounting"
  PROVE  /\ OnTime(m) => Passed(m, m.p.iDriveIndex)
         /\ m.p.iDriveIndex <= Len(m.p.iDrives)
<1>1. /\ m.p.iDriveIndex \in Nat /\ m.p.iDrives \in Seq(Drives) /\ Len(m.p.iDrives) \in Nat
      /\ m.p.iDriveIndex < Len(m.p.iDrives)
  BY DEF Memories, Plugin, Attended, Waiting, Taking
<1>2. ASSUME OnTime(m), NEW i \in 1..Len(m.p.iDrives), i > m.p.iDriveIndex
      PROVE  LetGo(m, m.p.iDrives[i])
  <2>1. LetGo(m, Drive(m)) /\ Passed(m, m.p.iDriveIndex + 1)
    BY <1>2 DEF OnTime, Taking, Ready
  <2>2. CASE i = m.p.iDriveIndex + 1
    BY <2>1, <2>2 DEF Drive
  <2>3. CASE i # m.p.iDriveIndex + 1
    BY <1>1, <1>2, <2>1, <2>3 DEF Passed
  <2> QED BY <2>2, <2>3
<1> QED BY <1>1, <1>2 DEF Passed

\* The plugin runs.
LEMMA RunAdvances ==
  ASSUME NEW m \in Memories, NEW d \in DriveStates, NEW l, Attended(m, d, l), Ready(m.p)
  PROVE  LET n == PluginRunL(m) IN Advanced(m, n, d, l) /\ n.p.iDrives = m.p.iDrives
<1> DEFINE k == [m EXCEPT !.p = [m.p EXCEPT !.active = FALSE, !.timer = FALSE,
                                            !.iMscState = "Mounting"]]
<1>1. ASSUME \/ m.p.iMscState = "Mounting" /\ m.p.iStatus = KErrNone
             \/ m.p.iMscState = "ForciblyDismounting"
      PROVE  LET n == StartDismountFat(k) IN
             Advanced(m, n, d, l) /\ n.p.iDrives = m.p.iDrives
  <2> DEFINE q == [m.p EXCEPT !.active = FALSE, !.timer = FALSE, !.iMscState = "Mounting"]
  <2>1. /\ q \in Plugin /\ ~q.active /\ ~q.timer /\ q.iDriveIndex = m.p.iDriveIndex
        /\ q.iDrives = m.p.iDrives /\ q.iMountChanged = m.p.iMountChanged
        /\ q.iMsfsAdded = m.p.iMsfsAdded /\ q.iIsQueryNoteShown = m.p.iIsQueryNoteShown
    BY DEF Memories, Plugin, MscStates
  <2> HIDE DEF q
  <2>2. /\ k \in Memories /\ k.p = q /\ k.fs = m.fs /\ k.note = m.note /\ k.fault = m.fault
        /\ k.in = m.in
    BY <2>1 DEF q, Memories
  <2> HIDE DEF k
  <2>3. /\ OnTime(m) => Passed(m, m.p.iDriveIndex)
        /\ m.p.iDriveIndex <= Len(m.p.iDrives)
    BY <1>1, AnswerPasses
  <2>4. GoesOn(k, d, l)
    BY <2>1, <2>2, <2>3 DEF GoesOn, Attended, ListGood, Kept
  <2> DEFINE n == StartDismountFat(k)
  <2>5. /\ n \in Memories /\ Attended(n, d, l) /\ FatStays(k, n) /\ n.p.iDrives = k.p.iDrives
        /\ Passed(k, k.p.iDriveIndex) => OnTime(n) /\ Given(k, n)
    BY <2>2, <2>4, NextAttended
  <2> HIDE DEF n
  <2>6. OnTime(m) => Passed(k, k.p.iDriveIndex)
    BY <2>1, <2>2, <2>3 DEF Passed, LetGo
  <2>7. Advanced(m, n, d, l)
    BY <2>1, <2>2, <2>5, <2>6 DEF Advanced, Given, FatStays
  <2> QED BY <2>1, <2>2, <2>5, <2>7 DEF n
<1>2. CASE m.p.iMscState = "Mounting" /\ m.p.iStatus = KErrNone
  <2>1. PluginRunL(m) = StartDismountFat([[m EXCEPT !.p.active = FALSE] EXCEPT !.p.timer = FALSE])
    BY <1>2 DEF PluginRunL
  <2>2. [[m EXCEPT !.p.active = FALSE] EXCEPT !.p.timer = FALSE] = k
    <3>1. [m.p EXCEPT !.active = FALSE, !.timer = FALSE]
            = [m.p EXCEPT !.active = FALSE, !.timer = FALSE, !.iMscState = "Mounting"]
      BY <1>2 DEF Memories, Plugin
    <3> QED BY <3>1 DEF Memories
  <2> HIDE DEF k
  <2> QED BY <1>1, <1>2, <2>1, <2>2
<1>3. CASE m.p.iMscState = "ForciblyDismounting"
  <2>1. PluginRunL(m) = StartDismountFat([[m EXCEPT !.p.active = FALSE]
                                            EXCEPT !.p.iMscState = "Mounting"])
    BY <1>3 DEF PluginRunL
  <2>2. m.p.timer = FALSE
    BY <1>3 DEF Attended, Waiting, Memories, Plugin
  <2>3. [[m EXCEPT !.p.active = FALSE] EXCEPT !.p.iMscState = "Mounting"] = k
    <3>1. [m.p EXCEPT !.active = FALSE, !.iMscState = "Mounting"]
            = [m.p EXCEPT !.active = FALSE, !.timer = FALSE, !.iMscState = "Mounting"]
      BY <2>2 DEF Memories, Plugin
    <3> QED BY <3>1 DEF Memories
  <2> HIDE DEF k
  <2> QED BY <1>1, <1>3, <2>1, <2>3
<1>4. CASE ~(m.p.iMscState = "Mounting" /\ m.p.iStatus = KErrNone)
           /\ m.p.iMscState # "ForciblyDismounting"
  <2> DEFINE n == [m EXCEPT !.p.active = FALSE]
             q == [m.p EXCEPT !.active = FALSE]
  <2>1. PluginRunL(m) = n
    BY <1>4 DEF PluginRunL
  <2>2. /\ q \in Plugin /\ ~q.active /\ q.timer = m.p.timer /\ q.iDriveIndex = m.p.iDriveIndex
        /\ q.iDrives = m.p.iDrives /\ q.iMountChanged = m.p.iMountChanged
        /\ q.iMscState = m.p.iMscState /\ q.iIsQueryNoteShown = m.p.iIsQueryNoteShown
    BY DEF Memories, Plugin
  <2>3. n = [m EXCEPT !.p = q]
    BY DEF Memories
  <2> HIDE DEF q, n
  <2>4. n \in Memories /\ n.p = q /\ n.fs = m.fs /\ n.note = m.note /\ n.fault = m.fault
    BY <2>2, <2>3 DEF Memories
  <2>5. Drive(n) = Drive(m)
    BY <2>2, <2>4 DEF Drive
  <2>6. Kept(n, d, l) /\ ListGood(n, d) /\ Waiting(n.p) /\ Turn(n, d)
    BY <2>2, <2>4, <2>5 DEF Attended, Kept, ListGood, Waiting, Turn
  <2>7. OnTime(m) => OnTime(n)
    BY <2>2, <2>4, <2>5 DEF OnTime, Passed, LetGo
  <2>8. Attended(n, d, l)
    BY <2>2, <2>4, <2>6 DEF Attended
  <2> QED BY <2>1, <2>2, <2>4, <2>7, <2>8 DEF Advanced, FatStays
<1> QED BY <1>2, <1>3, <1>4

\* The timer takes the drive by force.
LEMMA TimerAdvances ==
  ASSUME NEW m \in Memories, NEW d \in DriveStates, NEW l, Attended(m, d, l), m.p.timer
  PROVE  LET n == TimerRunL(m) IN
         Advanced(m, n, d, l) /\ n.fs = m.fs /\ n.p.iDrives = m.p.iDrives
<1> DEFINE q == [m.p EXCEPT !.active = TRUE, !.iStatus = Pending, !.timer = FALSE,
                            !.iMscState = "ForciblyDismounting"]
           n == [m EXCEPT !.p = q]
<1>1. /\ q \in Plugin /\ q.active /\ q.iStatus = Pending /\ ~q.timer
      /\ q.iDriveIndex = m.p.iDriveIndex /\ q.iMscState = "ForciblyDismounting"
      /\ q.iDrives = m.p.iDrives /\ q.iMountChanged = m.p.iMountChanged
      /\ q.iIsQueryNoteShown = m.p.iIsQueryNoteShown
  BY DEF Memories, Plugin, MscStates, Statuses
<1>2. TimerRunL(m) = n
  <2> DEFINE p1 == [m.p EXCEPT !.timer = FALSE, !.iMscState = "ForciblyDismounting"]
             p2 == [p1 EXCEPT !.active = FALSE]
             a == [m EXCEPT !.p = p1]
             b == [m EXCEPT !.p = p2]
  <2>1. p1 \in Plugin /\ p1.active = m.p.active /\ p1.iMscState = "ForciblyDismounting" /\ ~p1.timer
        /\ p1.timer = FALSE
    BY DEF Memories, Plugin, MscStates
  <2>2. [m EXCEPT !.p.timer = FALSE, !.p.iMscState = "ForciblyDismounting"] = a
    BY DEF Memories
  <2>3. [p2 EXCEPT !.active = TRUE, !.iStatus = Pending] = q /\ p2 \in Plugin /\ ~p2.active
    BY <2>1 DEF Plugin, Memories
  <2> HIDE DEF p1
  <2>4. a \in Memories /\ a.p = p1
    BY <2>1 DEF Memories
  <2>5. PluginCancel(a) = b
    <3>1. CASE p1.active
      <4>1. DoCancel(a) = [a EXCEPT !.p.timer = FALSE]
        BY <2>1, <2>4 DEF DoCancel, Taking
      <4>2. [p1 EXCEPT !.timer = FALSE] = p1
        BY <2>1 DEF Plugin
      <4>3. DoCancel(a) = a
        BY <2>4, <4>1, <4>2 DEF Memories
      <4> QED BY <2>4, <3>1, <4>3 DEF PluginCancel, Memories
    <3>2. CASE ~p1.active
      <4>1. p2 = p1
        BY <2>1, <3>2 DEF Plugin
      <4> QED BY <2>4, <3>2, <4>1 DEF PluginCancel
    <3> QED BY <3>1, <3>2
  <2> HIDE DEF p2
  <2>6. b \in Memories /\ b.p = p2
    BY <2>3 DEF Memories
  <2>7. PluginActive(b, Pending) = [b EXCEPT !.p = [p2 EXCEPT !.active = TRUE, !.iStatus = Pending]]
    BY <2>3, <2>6 DEF PluginActive, Memories
  <2>8. TimerRunL(m) = PluginActive(b, Pending)
    BY <2>2, <2>5 DEF TimerRunL
  <2> HIDE DEF q
  <2> QED BY <2>3, <2>6, <2>7, <2>8 DEF Memories
<1> HIDE DEF q, n
<1>3. n \in Memories /\ n.p = q /\ n.fs = m.fs /\ n.note = m.note /\ n.fault = m.fault
  BY <1>1 DEF n, Memories
<1>4. Drive(n) = Drive(m)
  BY <1>1, <1>3 DEF Drive
<1>5. Kept(n, d, l) /\ ListGood(n, d) /\ Waiting(n.p)
  BY <1>1, <1>3 DEF Attended, Kept, ListGood, Waiting, Taking
<1>6. Turn(n, d)
  BY <1>1, <1>3, <1>4 DEF Attended, Turn
<1>7. Attended(n, d, l)
  BY <1>1, <1>3, <1>5, <1>6 DEF Attended
<1>8. OnTime(m) => OnTime(n)
  BY <1>1, <1>3 DEF OnTime, Passed, LetGo, Taking
<1> QED BY <1>1, <1>2, <1>3, <1>7, <1>8 DEF Advanced, Given, FatStays
-----------------------------------------------------------------------------
(* The actions.                                                            *)

\* What the action properties say of a step.
StopStep ==
  /\ (watcher \in {"Stopping", "Finished", "Idle"} /\ watcher' = watcher /\ ~TakesDrives)
       => /\ \A d \in Drives \ Faulty : fs'[d] \in {fs[d], drives.home[d]}
          /\ TakesDrives' => plugin.timer
  /\ (watcher # "Stopping" /\ watcher' = "Stopping" /\ plugin'.timer) => Refused
ServedStep ==
  (watcher = "Started" /\ plugin.iMscState # "FileTransfer"
     /\ plugin'.iMscState = "FileTransfer" /\ allowed /\ plugin.iMsfsAdded)
    => \A d \in ToSet(plugin'.iDrives) \ Faulty : fs'[d] = "MassStorage"
EncryptedStep == \A d \in told : fs[d] = "Fat" => fs'[d] = "Fat"

StepGood == PersonalityInv' /\ StopStep /\ ServedStep /\ EncryptedStep

\* The memory a handler starts from.
Current(m) ==
  /\ m \in Memories /\ Attended(m, drives, lost) /\ Aware(m, drives)
  /\ InPhase(m, watcher) /\ Spared(m, told)
  /\ m.p = plugin /\ m.fs = fs /\ m.note = note /\ m.fault = fault
  /\ m.in.mayMount = allowed

\* Whatever the servers answer, a handler starts from the invariant.
LEMMA MemoryGood ==
  ASSUME PersonalityInv, NEW a \in Answers
  PROVE  Current(Memory(a)) /\ Memory(a).in.encrypting = a.encrypting
<1> DEFINE m == Memory(a)
<1>1. /\ m.p = plugin /\ m.fs = fs /\ m.note = note /\ m.fault = fault
      /\ m.in.mayMount = allowed /\ Aware(m, drives) /\ m.in.encrypting = a.encrypting
  BY DEF Memory, Aware
<1>2. Now.p = plugin /\ Now.fs = fs /\ Now.note = note /\ Now.fault = fault
  BY DEF Now, Asking, Memory
<1>3. Now \in Memories /\ Attended(Now, drives, lost) /\ InPhase(Now, watcher)
      /\ Spared(Now, told) /\ Variables
  BY DEF PersonalityInv
<1>4. m \in Memories
  <2>1. m.in \in Outside
    BY <1>3 DEF Memory, Outside, Answers, Variables, Around, DriveStates
  <2>2. m = [p |-> plugin, fs |-> fs, note |-> note, fault |-> fault, in |-> m.in]
    BY DEF Memory
  <2> HIDE DEF m
  <2> QED BY <1>2, <1>3, <2>1, <2>2 DEF Memories
<1> HIDE DEF m
<1>5. Attended(m, drives, lost)
  BY <1>1, <1>2, <1>3, SameAttended
<1>6. InPhase(m, watcher) /\ Spared(m, told)
  BY <1>1, <1>2, <1>3, SameInPhase DEF Spared
<1> QED BY <1>1, <1>4, <1>5, <1>6 DEF m, Current

\* So does one that asks the servers nothing.
LEMMA NowGood == PersonalityInv => Current(Now)
<1> DEFINE a == [msfs |-> TRUE, encrypting |-> {}, undismounted |-> {}, unmounted |-> {}]
<1>1. a \in Answers
  BY DEF Answers
<1> QED BY <1>1, MemoryGood DEF Now, Asking

\* And one that is told which drives are being encrypted.
LEMMA ReportGood ==
  ASSUME PersonalityInv, NEW reported \in SUBSET drives.encrypting
  PROVE  Current(Asking(reported)) /\ Asking(reported).in.encrypting = reported
<1> DEFINE a == [msfs |-> TRUE, encrypting |-> reported, undismounted |-> {},
                 unmounted |-> {}]
<1>1. a \in Answers /\ a.encrypting = reported
  BY DEF Answers
<1> QED BY <1>1, MemoryGood DEF Asking

\* The state after a step is good when the memory it is made of is.
LEMMA StateGood ==
  ASSUME NEW n \in Memories, plugin' = n.p, fs' = n.fs, note' = n.note, fault' = n.fault,
         Attended(n, drives', lost'), InPhase(n, watcher'), Variables', Spared(n, told')
  PROVE  PersonalityInv'
<1> DEFINE o == Now'
<1>1. o.p = n.p /\ o.fs = n.fs /\ o.note = n.note /\ o.fault = n.fault
  BY DEF Now, Asking, Memory
<1>2. o \in Memories
  <2>1. n.p \in Plugin /\ n.fs \in [Drives -> FileSystems] /\ n.note \in BOOLEAN
        /\ n.fault \in Faults
    BY DEF Memories
  <2>2. o.in \in Outside
    BY DEF Now, Asking, Memory, Variables, Around, Outside, DriveStates
  <2>3. o = [p |-> plugin', fs |-> fs', note |-> note', fault |-> fault', in |-> o.in]
    BY DEF Now, Asking, Memory
  <2> HIDE DEF o
  <2> QED BY <2>1, <2>2, <2>3 DEF Memories
<1> HIDE DEF o
<1>3. Attended(o, drives', lost')
  BY <1>1, SameAttended
<1>4. InPhase(o, watcher') /\ Spared(o, told')
  BY <1>1, SameInPhase DEF Spared
<1> QED BY <1>2, <1>3, <1>4 DEF PersonalityInv, o

\* A memory that becomes the process's is as good there.
LEMMA BecomesGood ==
  ASSUME PersonalityInv, NEW n \in Memories, Becomes(n), Attended(n, drives, lost),
         drives' = drives, Around', InPhase(n, watcher'), Spared(n, told')
  PROVE  PersonalityInv'
<1>1. lost' = { x \in lost : n.fs[x] # drives.home[x] } /\ lost \subseteq Drives
  BY DEF Becomes, PersonalityInv, Variables
<1>2. Attended(n, drives', lost') /\ Variables'
  BY <1>1, FoundAgain DEF Variables
<1> QED BY <1>2, StateGood DEF Becomes

\* A step that at most puts drives back.
LEMMA RestoredStep ==
  ASSUME PersonalityInv, NEW m, Current(m), NEW n \in Memories, Becomes(n),
         Attended(n, drives, lost), drives' = drives, told' = told, Around',
         InPhase(n, watcher'), Restores(m, n, drives),
         n.p.iDrives \in {plugin.iDrives, <<>>},
         n.p.iMscState \in Taking => plugin.iMscState \in Taking,
         n.p.iMscState # "FileTransfer" \/ n.p.iMscState = plugin.iMscState,
         watcher # "Stopping" /\ watcher' = "Stopping" /\ n.p.timer => Refused
  PROVE  StepGood
<1>1. Spared(n, told')
  <2>1. CASE n.p.iDrives = plugin.iDrives
    BY <2>1 DEF Current, Spared
  <2>2. CASE n.p.iDrives = <<>>
    BY <2>2 DEF Spared, ToSet
  <2> QED BY <2>1, <2>2
<1>2. PersonalityInv'
  BY <1>1, BecomesGood
<1>3. plugin' = n.p /\ fs' = n.fs /\ m.fs = fs /\ told \subseteq Drives
  BY DEF Becomes, Current, PersonalityInv, Variables, Around
<1>4. StopStep
  BY <1>3 DEF StopStep, TakesDrives, Restores
<1>5. ServedStep
  BY <1>3 DEF ServedStep
<1>6. EncryptedStep
  BY <1>3 DEF EncryptedStep, Restores, FatStays
<1> QED BY <1>2, <1>4, <1>5, <1>6 DEF StepGood

\* A step outside of the plugin and of the drives' file systems.
LEMMA OutsideStep ==
  ASSUME PersonalityInv, UNCHANGED << plugin, fs, note, fault, watcher, lost >>,
         drives'.home = drives.home, told' \subseteq told, Around'
  PROVE  StepGood
<1>1. /\ Now \in Memories /\ Attended(Now, drives, lost) /\ InPhase(Now, watcher)
      /\ Now.p = plugin /\ Now.fs = fs /\ Now.note = note /\ Now.fault = fault
      /\ Spared(Now, told)
  BY NowGood DEF Current
<1>2. Attended(Now, drives', lost')
  BY <1>1 DEF Attended, Kept, ListGood, Turn
<1>3. Variables' /\ Spared(Now, told')
  BY <1>1 DEF PersonalityInv, Variables, Spared
<1> DEFINE m == Now
<1> HIDE DEF m
<1>4. PersonalityInv'
  <2>1. /\ m \in Memories /\ plugin' = m.p /\ fs' = m.fs /\ note' = m.note
        /\ fault' = m.fault /\ Attended(m, drives', lost') /\ InPhase(m, watcher')
        /\ Spared(m, told')
    BY <1>1, <1>2, <1>3 DEF m
  <2> QED BY <1>3, <2>1, StateGood
<1> QED BY <1>4 DEF StepGood, StopStep, ServedStep, EncryptedStep, TakesDrives

\* The query is taken down.
LEMMA NoQueryGood ==
  ASSUME NEW m \in Memories, NEW d, NEW l, Attended(m, d, l)
  PROVE  LET n == NoQuery(m) IN
         /\ n \in Memories /\ Attended(n, d, l) /\ ~n.note
         /\ n.p = m.p /\ n.fs = m.fs /\ n.in = m.in /\ n.fault = m.fault
<1> DEFINE n == NoQuery(m)
<1>1. n \in Memories /\ ~n.note /\ n.p = m.p /\ n.fs = m.fs /\ n.in = m.in /\ n.fault = m.fault
  BY DEF NoQuery, Memories
<1> HIDE DEF n
<1>2. Attended(n, d, l)
  BY <1>1 DEF Attended, Kept, ListGood, Turn, Drive
<1> QED BY <1>1, <1>2 DEF n

\* Two steps that put drives back are one.
LEMMA RestoresTwice ==
  ASSUME NEW m, NEW k, NEW n, NEW d, Restores(m, k, d), Restores(k, n, d)
  PROVE  Restores(m, n, d)
BY DEF Restores, FatStays

\* The invariant holds when the program starts.
LEMMA InitGood == Init => PersonalityInv
<1> SUFFICES ASSUME Init PROVE PersonalityInv
  OBVIOUS
<1> DEFINE m == Now
<1>1. Variables
  BY DEF Init, Variables, Around, DriveStates, Phases, BusStates
<1>2. /\ m.p = InitPlugin /\ m.fs = drives.home /\ m.note = FALSE /\ m.fault = NoFault
      /\ m.in \in Outside
  BY <1>1 DEF Now, Asking, Memory, Init, Outside, Variables, Around, DriveStates
<1>3. m \in Memories
  <2>1. drives.home \in [Drives -> FileSystems]
    BY <1>1, PersonalityAssumption DEF Variables, Around, DriveStates, FileSystems
  <2>2. m = [p |-> m.p, fs |-> m.fs, note |-> m.note, fault |-> m.fault, in |-> m.in]
    BY DEF Now, Asking, Memory
  <2> HIDE DEF m
  <2> QED BY <1>2, <2>1, <2>2, InitPluginType DEF Memories, Faults
<1> HIDE DEF m
<1>4. ~InitPlugin.active /\ ~InitPlugin.timer /\ InitPlugin.iMscState \notin Taking
      /\ InitPlugin.iDrives = <<>>
  BY DEF InitPlugin, Taking
<1>5. ListGood(m, drives) /\ Kept(m, drives, lost) /\ Spared(m, told)
  BY <1>2, <1>4 DEF ListGood, IsInjective, ToSet, Kept, Spared
<1>6. Attended(m, drives, lost)
  BY <1>2, <1>4, <1>5, RestAttended
<1>7. InPhase(m, watcher)
  BY <1>2 DEF InPhase, Init
<1> QED BY <1>1, <1>3, <1>5, <1>6, <1>7 DEF PersonalityInv, m

\* A plugin is made, when the one before is gone and what it did is put back.
LEMMA MadeGood ==
  ASSUME PersonalityInv, NEW m, Current(m), NEW k \in Memories, Kept(k, drives, lost),
         Restores(m, k, drives), ~k.p.iMountChanged, ~k.note, k.fault = NoFault,
         Becomes(PreparePersonalityStart(k)), watcher' = "Starting", Around',
         drives' = drives, told' = told
  PROVE  StepGood
<1> DEFINE n == PreparePersonalityStart(k)
<1>1. drives \in DriveStates
  BY DEF PersonalityInv, Variables, Around
<1>2. /\ n \in Memories /\ Attended(n, drives, lost) /\ InPhase(n, "Starting")
      /\ n.fs = k.fs /\ n.p.iDrives = <<>>
  BY <1>1, StartAttended
<1> HIDE DEF n
<1>3. Restores(m, n, drives)
  BY <1>2 DEF Restores, FatStays
<1>4. n.p.iMscState = "Starting"
  BY <1>2 DEF InPhase
<1> QED BY <1>2, <1>3, <1>4, RestoredStep DEF n, Taking

\* A plugin is loaded.
LEMMA LoadGood ==
  ASSUME PersonalityInv, Load
  PROVE  StepGood
<1> PICK a \in Answers : Becomes(PreparePersonalityStart(NoQuery(Memory(a))))
  BY DEF Load
<1> DEFINE m == Memory(a)
           k == NoQuery(m)
<1>1. Current(m)
  BY MemoryGood
<1> HIDE DEF m
<1>2. /\ k \in Memories /\ Attended(k, drives, lost) /\ ~k.note /\ k.p = plugin /\ k.fs = fs
  BY <1>1, NoQueryGood DEF Current
<1> HIDE DEF k
<1>3. /\ Around' /\ watcher' = "Starting" /\ drives' = drives /\ told' = told
  BY DEF Load, outside, PersonalityInv, Variables, Around, Phases
<1>4. ~k.p.iMountChanged
  BY <1>1, <1>2 DEF Load, Current, InPhase, InitPlugin
<1>5. Kept(k, drives, lost) /\ k.fault = NoFault /\ Restores(m, k, drives)
  BY <1>1, <1>2 DEF Attended, Current, Restores, FatStays
<1> QED BY <1>1, <1>2, <1>3, <1>4, <1>5, MadeGood DEF m, k

\* A plugin is told to stop.
LEMMA StoppedGood ==
  ASSUME PersonalityInv, NEW c, Current(c), NEW m \in Memories, Attended(m, drives, lost),
         Restores(c, m, drives), m.p.iDrives = plugin.iDrives,
         m.p.timer /\ ~m.p.active => Refused,
         Becomes(PreparePersonalityStop(m)), watcher' = "Stopping", Around',
         drives' = drives, told' = told
  PROVE  StepGood
<1> DEFINE n == PreparePersonalityStop(m)
<1>1. drives \in DriveStates
  BY DEF PersonalityInv, Variables, Around
<1>2. /\ n \in Memories /\ Attended(n, drives, lost) /\ n.fs = m.fs
      /\ n.p.iMscState = "Stopping" /\ n.p.iDrives = m.p.iDrives
      /\ n.p.timer => m.p.timer /\ ~m.p.active
  BY <1>1, PrepareStopAttended
<1> HIDE DEF n
<1>3. InPhase(n, "Stopping") /\ Restores(c, n, drives)
  BY <1>2 DEF InPhase, Restores, FatStays
<1> QED BY <1>2, <1>3, RestoredStep DEF n, Taking

\* What one may say of the present memory wherever nothing has happened to it.
LEMMA CurrentRests ==
  ASSUME NEW m, Current(m)
  PROVE  /\ m \in Memories /\ Attended(m, drives, lost) /\ Restores(m, m, drives)
         /\ m.p.timer /\ ~m.p.active => Refused
         /\ m.p.iDrives = plugin.iDrives
BY DEF Current, Restores, FatStays, Refused

\* The answer to PreparePersonalityStart keeps the invariant.
LEMMA StartEndsGood ==
  ASSUME PersonalityInv, StartEnds
  PROVE  StepGood
<1> DEFINE m == Now
<1>1. Current(m)
  BY NowGood
<1>2. Around' /\ drives' = drives /\ told' = told
  BY DEF StartEnds, outside, PersonalityInv, Variables, Around, Phases
<1>3. CASE watcher' = "Started" /\ UNCHANGED << plugin, fs, note, fault, lost >>
  <2> HIDE DEF m
  <2>1. /\ m \in Memories /\ Attended(m, drives, lost) /\ plugin' = m.p /\ fs' = m.fs
        /\ note' = m.note /\ fault' = m.fault /\ Spared(m, told') /\ Variables'
    BY <1>1, <1>2, <1>3 DEF Current, PersonalityInv, Variables
  <2>2. InPhase(m, "Started")
    BY <1>1 DEF Current, InPhase, StartEnds, OnTime, Attended, Waiting, Taking
  <2>3. PersonalityInv'
    BY <1>2, <1>3, <2>1, <2>2, StateGood
  <2> QED BY <1>3, <2>3 DEF StepGood, StopStep, ServedStep, EncryptedStep
<1>4. CASE watcher' = "Stopping" /\ Becomes(PreparePersonalityStop(m))
  <2> HIDE DEF m
  <2> QED BY <1>1, <1>2, <1>4, CurrentRests, StoppedGood
<1> QED BY <1>3, <1>4 DEF StartEnds

\* A switch to another personality keeps the invariant.
LEMMA SwitchGood ==
  ASSUME PersonalityInv, Switch
  PROVE  StepGood
<1> DEFINE m == Now
<1>1. Current(m)
  BY NowGood
<1>2. /\ Around' /\ drives' = drives /\ told' = told /\ watcher' = "Stopping"
      /\ Becomes(PreparePersonalityStop(m))
  BY DEF Switch, outside, PersonalityInv, Variables, Around, Phases
<1> HIDE DEF m
<1> QED BY <1>1, <1>2, CurrentRests, StoppedGood

\* The answer to PreparePersonalityStop keeps the invariant.
LEMMA StopEndsGood ==
  ASSUME PersonalityInv, StopEnds
  PROVE  StepGood
<1> PICK a \in Files : Becomes(FinishPersonalityStop(Memory(a)))
  BY DEF StopEnds
<1> DEFINE m == Memory(a)
           n == FinishPersonalityStop(m)
<1>1. Current(m)
  BY MemoryGood DEF Files
<1>2. /\ Around' /\ drives' = drives /\ told' = told /\ watcher' = "Finished"
      /\ drives \in DriveStates
  BY DEF StopEnds, outside, PersonalityInv, Variables, Around, Phases
<1>3. Becomes(n)
  OBVIOUS
<1> HIDE DEF m
<1>4. /\ n \in Memories /\ Attended(n, drives, lost) /\ Restores(m, n, drives)
      /\ InPhase(n, "Finished") /\ n.p.iDrives = m.p.iDrives /\ n.p.iMscState = "Idle"
  BY <1>1, <1>2, FinishStopAttended DEF Current
<1> HIDE DEF n
<1>5. n.p.iDrives = plugin.iDrives
  BY <1>1, <1>4 DEF Current
<1> QED BY <1>1, <1>2, <1>3, <1>4, <1>5, RestoredStep DEF Taking

\* The plugin is deleted, with no query shown.
LEMMA DeletedGood ==
  ASSUME PersonalityInv, NEW c, Current(c), NEW m \in Memories, Attended(m, drives, lost),
         Restores(c, m, drives), ~m.note, Becomes(DeletePlugin(m)), watcher' = "Idle",
         Around', drives' = drives, told' = told
  PROVE  StepGood
<1> DEFINE n == DeletePlugin(m)
<1>1. drives \in DriveStates
  BY DEF PersonalityInv, Variables, Around
<1>2. /\ n \in Memories /\ n.p = InitPlugin /\ Kept(n, drives, lost)
      /\ Restores(m, n, drives) /\ ~n.note /\ n.fault = NoFault
  BY <1>1, DeletedHome
<1> HIDE DEF n
<1>3. /\ ~InitPlugin.active /\ ~InitPlugin.timer /\ InitPlugin.iMscState = "Idle"
      /\ InitPlugin.iDrives = <<>>
  BY DEF InitPlugin
<1>4. ListGood(n, drives)
  BY <1>2, <1>3 DEF ListGood, IsInjective, ToSet
<1>5. Attended(n, drives, lost)
  BY <1>2, <1>3, <1>4, RestAttended DEF Taking
<1>6. InPhase(n, watcher') /\ Restores(c, n, drives)
  BY <1>2, RestoresTwice DEF InPhase
<1> QED BY <1>2, <1>3, <1>5, <1>6, RestoredStep DEF n, Taking

\* Deleting the personality after its stop keeps the invariant.
LEMMA DeleteGood ==
  ASSUME PersonalityInv, Delete
  PROVE  StepGood
<1> PICK a \in Files : Becomes(DeletePlugin(Memory(a)))
  BY DEF Delete
<1> DEFINE m == Memory(a)
<1>1. Current(m)
  BY MemoryGood DEF Files
<1>2. Around' /\ drives' = drives /\ told' = told /\ watcher' = "Idle" /\ watcher = "Finished"
  BY DEF Delete, outside, PersonalityInv, Variables, Around, Phases
<1>3. Becomes(DeletePlugin(m))
  OBVIOUS
<1> HIDE DEF m
<1>4. ~m.note
  BY <1>1, <1>2 DEF Current, InPhase
<1> QED BY <1>1, <1>2, <1>3, <1>4, CurrentRests, DeletedGood

\* A cable that is connected keeps the invariant.
LEMMA ConnectGood ==
  ASSUME PersonalityInv, Connect
  PROVE  StepGood
<1> PICK a \in Answers :
      LET m == NoQuery(Memory(a)) IN
      Becomes(PreparePersonalityStart(IF watcher = "Idle" THEN m ELSE DeletePlugin(m)))
  BY DEF Connect
<1> DEFINE c == Memory(a)
           m == NoQuery(c)
           k == IF watcher = "Idle" THEN m ELSE DeletePlugin(m)
<1>1. Current(c)
  BY MemoryGood
<1>2. /\ Around' /\ drives' = drives /\ told' = told /\ watcher' = "Starting"
      /\ drives \in DriveStates
  BY DEF Connect, PersonalityInv, Variables, Around, Phases, BusStates
<1>3. Becomes(PreparePersonalityStart(k))
  OBVIOUS
<1> HIDE DEF c
<1>4. /\ m \in Memories /\ Attended(m, drives, lost) /\ ~m.note /\ m.p = plugin /\ m.fs = fs
  BY <1>1, NoQueryGood DEF Current
<1> HIDE DEF m
<1>5. Restores(c, m, drives)
  BY <1>1, <1>4 DEF Current, Restores, FatStays
<1>6. /\ k \in Memories /\ Kept(k, drives, lost) /\ ~k.p.iMountChanged /\ ~k.note
      /\ k.fault = NoFault /\ Restores(c, k, drives)
  <2>1. CASE watcher = "Idle"
    BY <1>1, <1>4, <1>5, <2>1 DEF Current, InPhase, Attended, InitPlugin
  <2>2. CASE watcher # "Idle"
    <3> DEFINE n == DeletePlugin(m)
    <3>1. /\ n \in Memories /\ n.p = InitPlugin /\ Kept(n, drives, lost)
          /\ Restores(m, n, drives) /\ n.note \in {m.note, FALSE} /\ n.fault = NoFault
      BY <1>2, <1>4, DeletedHome
    <3>2. k = n
      BY <2>2
    <3> HIDE DEF n, k
    <3>3. ~InitPlugin.iMountChanged
      BY DEF InitPlugin
    <3>4. Restores(c, n, drives)
      BY <1>5, <3>1, RestoresTwice
    <3> QED BY <1>4, <3>1, <3>2, <3>3, <3>4
  <2> QED BY <2>1, <2>2
<1> HIDE DEF k
<1> QED BY <1>1, <1>2, <1>3, <1>6, MadeGood

\* A cable that is removed keeps the invariant.
LEMMA DisconnectGood ==
  ASSUME PersonalityInv, Disconnect
  PROVE  StepGood
<1> PICK a \in Files :
      LET m == UndefinedNotify(NoQuery(Memory(a))) IN
      \/ watcher = "Started" /\ watcher' = "Stopping" /\ Becomes(PreparePersonalityStop(m))
      \/ watcher = "Starting" /\ watcher' = "Idle" /\ Becomes(DeletePlugin(m))
      \/ watcher = "Stopping" /\ watcher' = watcher /\ Becomes(m)
      \/ watcher = "Idle" /\ UNCHANGED << watcher, plugin, fs, note, fault, lost >>
  BY DEF Disconnect
<1> DEFINE c == Memory(a)
           q == NoQuery(c)
           m == UndefinedNotify(q)
<1>1. Current(c)
  BY MemoryGood DEF Files
<1>2. drives' = drives /\ drives \in DriveStates /\ Around' /\ told' = told
  BY DEF Disconnect, PersonalityInv, Variables, Around, BusStates, Phases
<1>3. \/ watcher = "Started" /\ watcher' = "Stopping" /\ Becomes(PreparePersonalityStop(m))
      \/ watcher = "Starting" /\ watcher' = "Idle" /\ Becomes(DeletePlugin(m))
      \/ watcher = "Stopping" /\ watcher' = watcher /\ Becomes(m)
      \/ watcher = "Idle" /\ UNCHANGED << watcher, plugin, fs, note, fault, lost >>
  OBVIOUS
<1> HIDE DEF c
<1>4. /\ q \in Memories /\ Attended(q, drives, lost) /\ ~q.note /\ q.p = plugin /\ q.fs = fs
  BY <1>1, NoQueryGood DEF Current
<1> HIDE DEF q
<1>5. /\ m \in Memories /\ Attended(m, drives, lost) /\ Restores(q, m, drives)
      /\ ~m.note /\ m.p.iDrives = plugin.iDrives
      /\ m.p.iMscState \in {plugin.iMscState, "Idle"}
      /\ m.p.timer => plugin.timer /\ (~plugin.active \/ m.p.active)
      /\ m.p.iMscState \in Taking => plugin.iMscState \in Taking
  BY <1>2, <1>4, UndefinedAttended
<1> HIDE DEF m
<1>6. Restores(c, m, drives)
  BY <1>1, <1>4, <1>5 DEF Current, Restores, FatStays
<1>7. CASE watcher = "Started" /\ watcher' = "Stopping" /\ Becomes(PreparePersonalityStop(m))
  BY <1>1, <1>2, <1>5, <1>6, <1>7, StoppedGood DEF Refused
<1>8. CASE watcher = "Starting" /\ watcher' = "Idle" /\ Becomes(DeletePlugin(m))
  BY <1>1, <1>2, <1>5, <1>6, <1>8, DeletedGood
<1>9. CASE watcher = "Stopping" /\ watcher' = watcher /\ Becomes(m)
  <2>1. InPhase(m, watcher')
    BY <1>9 DEF InPhase
  <2> QED BY <1>1, <1>2, <1>5, <1>6, <1>9, <2>1, RestoredStep
<1>10. CASE watcher = "Idle" /\ UNCHANGED << watcher, plugin, fs, note, fault, lost >>
  BY <1>2, <1>10, OutsideStep
<1> QED BY <1>3, <1>7, <1>8, <1>9, <1>10

\* The plugin goes on.
LEMMA AdvanceGood ==
  ASSUME PersonalityInv, NEW m, Current(m), NEW n, Advanced(m, n, drives, lost), Becomes(n),
         watcher \in {"Started", "Stopping"}, watcher' = watcher, Around',
         drives' = drives, Spared(n, told'), StopStep
  PROVE  StepGood
<1>1. m.p = plugin /\ m.fs = fs /\ m.in.mayMount = allowed
  BY DEF Current
<1>2. n \in Memories /\ Attended(n, drives, lost) /\ FatStays(m, n)
  BY DEF Advanced
<1>3. watcher = "Started" => OnTime(m)
  BY DEF Current, InPhase
<1>4. InPhase(n, watcher')
  BY <1>3 DEF InPhase, Advanced
<1>5. PersonalityInv'
  BY <1>2, <1>4, BecomesGood
<1>6. ServedStep
  BY <1>1, <1>3 DEF ServedStep, Given, Becomes, Advanced
<1>7. EncryptedStep
  BY <1>1, <1>2 DEF EncryptedStep, Becomes, FatStays, PersonalityInv, Variables, Around
<1> QED BY <1>5, <1>6, <1>7 DEF StepGood

\* The host addressing the device keeps the invariant.
LEMMA AddressedGood ==
  ASSUME PersonalityInv, Addressed
  PROVE  StepGood
<1>1. drives' = drives /\ watcher' = watcher /\ drives \in DriveStates
  BY DEF Addressed, PersonalityInv, Variables, Around
<1>2. CASE watcher = "Started"
  <2> PICK reported \in SUBSET drives.encrypting :
        /\ Becomes(AddressNotify(Asking(reported)))
        /\ told' = IF plugin.iMountChanged THEN told ELSE Asked \cap reported
    BY <1>2 DEF Addressed
  <2> DEFINE m == Asking(reported)
             n == AddressNotify(m)
  <2>1. Current(m) /\ m.in.encrypting = reported
    BY ReportGood
  <2>2. Becomes(n)
    OBVIOUS
  <2> HIDE DEF m
  <2>3. /\ m \in Memories /\ Attended(m, drives, lost) /\ Aware(m, drives) /\ OnTime(m)
        /\ Spared(m, told) /\ m.p = plugin
    BY <1>2, <2>1 DEF Current, InPhase
  <2>4. /\ Advanced(m, n, drives, lost)
        /\ IF m.p.iMountChanged THEN n = m ELSE Spared(n, Asked \cap m.in.encrypting)
    BY <1>1, <2>3, AddressAdvances
  <2> HIDE DEF n
  <2>5. Spared(n, told')
    BY <2>1, <2>3, <2>4
  <2>6. StopStep
    BY <1>1, <1>2 DEF StopStep
  <2>7. Around'
    BY <1>1 DEF Addressed, PersonalityInv, Variables, Around, BusStates, DriveStates
  <2> QED BY <1>1, <1>2, <2>1, <2>2, <2>4, <2>5, <2>6, <2>7, AdvanceGood
<1>3. CASE watcher # "Started"
  <2>1. Around'
    BY <1>3 DEF Addressed, PersonalityInv, Variables, Around, BusStates
  <2> QED BY <1>1, <1>3, <2>1, OutsideStep DEF Addressed
<1> QED BY <1>2, <1>3

\* A plugin waits only when it was started, and its timer runs only until the stop is over.
LEMMA WaitingIsStarted ==
  ASSUME PersonalityInv, plugin.active \/ plugin.timer, watcher # "Finished"
  PROVE  /\ watcher \in {"Started", "Stopping"}
         /\ plugin.active => plugin.iMscState \in Taking
<1>1. Current(Now)
  BY NowGood
<1>2. plugin.active => plugin.iMscState \in Taking
  BY <1>1 DEF Current, Attended, Waiting
<1>3. watcher \in {"Idle", "Starting", "Started", "Stopping", "Finished"}
  BY DEF PersonalityInv, Variables, Around, Phases
<1>4. ~InitPlugin.active /\ ~InitPlugin.timer /\ "Starting" \notin Taking
  BY DEF InitPlugin, Taking
<1>5. watcher \notin {"Idle", "Starting"}
  BY <1>1, <1>2, <1>4 DEF Current, InPhase
<1> QED BY <1>2, <1>3, <1>5

\* The personality's own RunL, its queue of drives, keeps the invariant.
LEMMA RunPluginGood ==
  ASSUME PersonalityInv, RunPlugin
  PROVE  StepGood
<1> PICK a \in Files : Becomes(PluginRunL(Memory(a)))
  BY DEF RunPlugin
<1> DEFINE m == Memory(a)
           n == PluginRunL(m)
<1>1. Current(m)
  BY MemoryGood DEF Files
<1>2. /\ Around' /\ drives' = drives /\ told' = told /\ watcher' = watcher
      /\ drives \in DriveStates
  BY DEF RunPlugin, outside, PersonalityInv, Variables, Around
<1>3. watcher \in {"Started", "Stopping"} /\ plugin.iMscState \in Taking
  BY WaitingIsStarted DEF RunPlugin, Ready
<1>4. Becomes(n)
  OBVIOUS
<1> HIDE DEF m
<1>5. Advanced(m, n, drives, lost) /\ n.p.iDrives = m.p.iDrives
  BY <1>1, <1>2, RunAdvances DEF RunPlugin, Current
<1> HIDE DEF n
<1>6. Spared(n, told') /\ StopStep
  BY <1>1, <1>2, <1>3, <1>5 DEF Current, Spared, StopStep, TakesDrives
<1> QED BY <1>1, <1>2, <1>3, <1>4, <1>5, <1>6, AdvanceGood

\* The timer of a drive that is in use keeps the invariant, a stop or not.
LEMMA RunTimerGood ==
  ASSUME PersonalityInv, RunTimer
  PROVE  StepGood
<1> DEFINE m == Now
           n == TimerRunL(m)
<1>1. Current(m)
  BY NowGood
<1>2. /\ Around' /\ drives' = drives /\ told' = told /\ watcher' = watcher
      /\ drives \in DriveStates /\ plugin.timer /\ Becomes(n)
  BY DEF RunTimer, outside, PersonalityInv, Variables, Around
<1>3. watcher \in {"Started", "Stopping"}
  BY WaitingIsStarted DEF RunTimer
<1> HIDE DEF m
<1>4. Advanced(m, n, drives, lost) /\ n.fs = m.fs /\ n.p.iDrives = m.p.iDrives
  BY <1>1, <1>2, TimerAdvances DEF Current
<1> HIDE DEF n
<1>5. Spared(n, told')
  BY <1>1, <1>2, <1>4 DEF Current, Spared
<1>6. StopStep
  BY <1>1, <1>2, <1>4 DEF StopStep, Current, Becomes
<1> QED BY <1>1, <1>2, <1>3, <1>4, <1>5, <1>6, AdvanceGood

\* The file server answers a dismount; a forced one fails only where it is at fault.
LEMMA DismountedGood ==
  ASSUME PersonalityInv, Requested, watcher # "Finished", NEW answer \in Codes,
         Dismounted(answer),
         answer # KErrNone /\ plugin.iMscState = "ForciblyDismounting"
           => Dismounting \in Faulty
  PROVE  StepGood
<1> DEFINE m == Now
           q == [plugin EXCEPT !.iStatus = answer]
           gone == IF answer = KErrNone THEN [fs EXCEPT ![Dismounting] = "None"] ELSE fs
           n == [m EXCEPT !.p = q, !.fs = gone]
<1>1. Current(m)
  BY NowGood
<1>2. /\ Around' /\ drives' = drives /\ told' = told /\ watcher' = watcher
      /\ note' = note /\ fault' = fault
  BY DEF Dismounted, outside, PersonalityInv, Variables, Around
<1>3. /\ watcher \in {"Started", "Stopping"} /\ plugin.iMscState \in Taking
      /\ plugin.active /\ plugin.iStatus = Pending
  BY WaitingIsStarted DEF Requested
<1> HIDE DEF m
<1>4. /\ plugin \in Plugin /\ q \in Plugin /\ q.iStatus = answer
      /\ q.active = plugin.active /\ q.timer = plugin.timer /\ q.iMscState = plugin.iMscState
      /\ q.iDriveIndex = plugin.iDriveIndex /\ q.iDrives = plugin.iDrives
      /\ q.iMountChanged = plugin.iMountChanged
      /\ q.iIsQueryNoteShown = plugin.iIsQueryNoteShown
  BY <1>1 DEF Current, Memories, Plugin, Statuses
<1> DEFINE x == Dismounting
<1>5. x \in Drives /\ x \in ToSet(plugin.iDrives) /\ x = Drive(m)
  <2>1. /\ plugin.iDriveIndex \in Nat /\ plugin.iDrives \in Seq(Drives)
        /\ plugin.iDriveIndex < Len(plugin.iDrives)
    BY <1>1, <1>3, <1>4 DEF Current, Attended, Waiting, Plugin
  <2>2. plugin.iDriveIndex + 1 \in 1..Len(plugin.iDrives)
    BY <2>1
  <2> QED BY <1>1, <2>1, <2>2, Members DEF Current, Dismounting, Drive
<1>6. drives.home[x] = "Fat" /\ x \notin told
  BY <1>1, <1>3, <1>5 DEF Current, Attended, Turn, Spared
<1>7. answer # KErrNone /\ plugin.iMscState = "ForciblyDismounting" => x \in Faulty
  OBVIOUS
<1> HIDE DEF x, q
<1>8. /\ gone \in [Drives -> FileSystems]
      /\ \A y \in Drives : gone[y] = IF answer = KErrNone /\ y = x THEN "None" ELSE fs[y]
  BY <1>1, <1>5 DEF Current, Memories, FileSystems, x
<1>9. plugin' = q /\ fs' = gone
      /\ lost' = IF answer = KErrNone /\ ~plugin.iMountChanged THEN lost \cup {x} ELSE lost
  BY DEF Dismounted, q, x
<1> HIDE DEF gone
<1>10. n \in Memories /\ n.p = q /\ n.fs = gone /\ n.note = note /\ n.fault = fault
  BY <1>1, <1>4, <1>8 DEF Current, Memories
<1> HIDE DEF n
<1>11. Drive(n) = x
  BY <1>1, <1>4, <1>5, <1>10 DEF Current, Drive
<1>12. Kept(n, drives, lost')
  BY <1>1, <1>4, <1>5, <1>6, <1>8, <1>9, <1>10 DEF Current, Attended, Kept
<1>13. ListGood(n, drives) /\ Waiting(n.p)
  BY <1>1, <1>4, <1>10 DEF Current, Attended, ListGood, Waiting, Taking
<1>14. Turn(n, drives)
  BY <1>4, <1>6, <1>10, <1>11 DEF Turn
<1>15. Attended(n, drives', lost')
  BY <1>1, <1>2, <1>4, <1>10, <1>12, <1>13, <1>14 DEF Current, Attended
<1>16. InPhase(n, watcher')
  <2>1. CASE watcher = "Started"
    <3>1. OnTime(m) /\ m.p = plugin /\ m.fs = fs
      BY <1>1, <2>1 DEF Current, InPhase
    <3>2. \A i \in 1..Len(plugin.iDrives) : plugin.iDrives[i] \in Drives
      BY <1>4 DEF Plugin
    <3>3. Passed(n, plugin.iDriveIndex + 1)
      BY <1>3, <1>4, <1>8, <1>10, <3>1, <3>2 DEF OnTime, Passed, LetGo
    <3>4. answer = KErrNone \/ plugin.iMscState = "ForciblyDismounting" => LetGo(n, x)
      BY <1>5, <1>7, <1>8, <1>10 DEF LetGo
    <3>5. OnTime(n)
      BY <1>3, <1>4, <1>10, <1>11, <3>1, <3>3, <3>4 DEF OnTime
    <3> QED BY <1>2, <2>1, <3>5 DEF InPhase
  <2>2. CASE watcher = "Stopping"
    BY <1>2, <2>2 DEF InPhase
  <2> QED BY <1>3, <2>1, <2>2
<1>17. Spared(n, told') /\ Variables'
  <2>1. lost' \subseteq Drives
    BY <1>5, <1>9 DEF PersonalityInv, Variables
  <2> QED BY <1>1, <1>2, <1>4, <1>10, <2>1 DEF Current, Spared, Variables
<1>18. PersonalityInv'
  BY <1>2, <1>9, <1>10, <1>15, <1>16, <1>17, StateGood
<1>19. StopStep /\ ServedStep
  BY <1>2, <1>3, <1>4, <1>9 DEF StopStep, ServedStep, TakesDrives
<1>20. EncryptedStep
  BY <1>6, <1>8, <1>9 DEF EncryptedStep, PersonalityInv, Variables, Around
<1> QED BY <1>18, <1>19, <1>20 DEF StepGood

\* A finished plugin asks for nothing.
LEMMA FinishedAsksNothing ==
  ASSUME PersonalityInv, plugin.active
  PROVE  watcher # "Finished"
<1>1. Current(Now)
  BY NowGood
<1> QED BY <1>1 DEF Current, InPhase, Attended, Waiting

\* The answer to a dismount request keeps the invariant.
LEMMA DismountAnsweredGood ==
  ASSUME PersonalityInv, DismountAnswered
  PROVE  StepGood
<1> PICK answer \in DismountAnswers : Dismounted(answer)
  BY DEF DismountAnswered
<1>1. answer \in Codes
  BY PersonalityAssumption
<1> QED BY <1>1, FinishedAsksNothing, DismountedGood DEF DismountAnswered, Requested

\* The answer to a forced dismount keeps the invariant.
LEMMA ForcedDismountAnsweredGood ==
  ASSUME PersonalityInv, ForcedDismountAnswered
  PROVE  StepGood
<1>1. Requested /\ watcher # "Finished"
  BY FinishedAsksNothing DEF ForcedDismountAnswered, Requested
<1>2. CASE Dismounted(KErrNone)
  BY <1>1, <1>2, DismountedGood DEF Codes
<1>3. CASE Dismounting \in Faulty /\ Dismounted(KErrInUse)
  BY <1>1, <1>3, DismountedGood DEF Codes, KErrInUse
<1> QED BY <1>2, <1>3 DEF ForcedDismountAnswered

\* Encryption begins or ends: the invariant does not ask which drives are encrypted.
LEMMA EncryptionChangesGood ==
  ASSUME PersonalityInv, EncryptionChanges
  PROVE  StepGood
<1>1. PICK x \in Drives :
        \/ drives' = [drives EXCEPT !.encrypting = @ \ {x}] /\ told' = told \ {x}
        \/ drives' = [drives EXCEPT !.encrypting = @ \cup {x}] /\ told' = told
  BY DEF EncryptionChanges
<1>2. drives' \in DriveStates /\ drives'.home = drives.home /\ told' \subseteq told
  BY <1>1 DEF PersonalityInv, Variables, Around, DriveStates
<1>3. Around'
  BY <1>2 DEF EncryptionChanges, PersonalityInv, Variables, Around
<1> QED BY <1>2, <1>3, OutsideStep DEF EncryptionChanges

\* Every step keeps the invariant and does what the properties say.
LEMMA NextGood ==
  ASSUME PersonalityInv, [Next]_vars
  PROVE  StepGood
<1>1. CASE Configured
  <2>1. Around'
    BY <1>1 DEF Configured, PersonalityInv, Variables, Around, BusStates
  <2> QED BY <1>1, <2>1, OutsideStep DEF Configured
<1>2. CASE PermissionChanges
  <2>1. Around'
    BY <1>2 DEF PermissionChanges, PersonalityInv, Variables, Around
  <2> QED BY <1>2, <2>1, OutsideStep DEF PermissionChanges
<1>3. CASE UNCHANGED vars
  <2>1. Around'
    BY <1>3 DEF vars, PersonalityInv, Variables, Around
  <2> QED BY <1>3, <2>1, OutsideStep DEF vars
<1> QED BY <1>1, <1>2, <1>3, LoadGood, StartEndsGood, SwitchGood, StopEndsGood, DeleteGood,
        ConnectGood, DisconnectGood, AddressedGood, RunPluginGood, RunTimerGood,
        DismountAnsweredGood, ForcedDismountAnsweredGood, EncryptionChangesGood DEF Next

-----------------------------------------------------------------------------
\* The plugin attends to every drive it has taken, in every order of cables, switches,
\* answers and timers, and whatever the file server fails to do.
THEOREM PersonalityInvariant == Spec => []PersonalityInv
<1>1. PersonalityInv /\ [Next]_vars => PersonalityInv'
  BY NextGood DEF StepGood
<1> QED BY <1>1, InitGood, PTL DEF Spec

\* However the plugin goes, every drive has the file system it had and no query is left,
\* except on the drives at which the file server fails and on the one that the timer of a
\* refused dismount took after they had been put back (UnmountMassStorage does not stop
\* that timer).
THEOREM DrivesComeHome == Spec => []HomeAgain
<1>1. PersonalityInv => HomeAgain
  <2> SUFFICES ASSUME PersonalityInv, watcher = "Idle" PROVE HomeAgain
    BY DEF HomeAgain
  <2>1. Current(Now)
    BY NowGood
  <2>2. plugin = InitPlugin /\ ~note /\ Kept(Now, drives, lost)
    BY <2>1 DEF Current, InPhase, Attended
  <2> QED BY <2>1, <2>2 DEF HomeAgain, Kept, Current, InitPlugin
<1> QED BY <1>1, PersonalityInvariant, PTL

\* The plugin never calls SetActive() twice, and its Cancel() does not wait forever.
THEOREM PluginNotMisused == Spec => [](fault = NoFault)
<1>1. PersonalityInv => fault = NoFault
  BY NowGood DEF Current, Attended
<1> QED BY <1>1, PersonalityInvariant, PTL

\* A plugin told to stop, or deleted, changes the file system of no drive but to put it
\* back, unless the timer of a refused dismount expires; that timer runs after the stop
\* only if the stop came between the refusal and the timer.
THEOREM NothingAfterTheEnd == Spec => StopEndsMounting
<1>1. PersonalityInv /\ [Next]_vars => [StopStep]_vars
  BY NextGood DEF StepGood
<1> QED BY <1>1, PersonalityInvariant, PTL DEF Spec, StopEndsMounting, StopStep

\* When the mounting ends in a started personality, every drive at which the file server
\* does not fail is the host's.
THEOREM HostGetsAll == Spec => AllDrivesServed
<1>1. PersonalityInv /\ [Next]_vars => [ServedStep]_vars
  BY NextGood DEF StepGood
<1> QED BY <1>1, PersonalityInvariant, PTL DEF Spec, AllDrivesServed, ServedStep

\* A drive E or F that the plugin was told is being encrypted keeps FAT until that ends,
\* in whatever order cables, stops, refusals and timers come.
THEOREM EncryptedUntouched == Spec => EncryptedStays
<1>1. PersonalityInv /\ [Next]_vars => [EncryptedStep]_vars
  BY NextGood DEF StepGood
<1> QED BY <1>1, PersonalityInvariant, PTL DEF Spec, EncryptedStays, EncryptedStep

=============================================================================
