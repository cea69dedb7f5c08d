------------------------ MODULE NeofluxonCoreProofs ------------------------
(***************************************************************************)
(* Proofs about NeofluxonCore for every size of a gigabyte and of the spin *)
(* boxes, all folders and whatever settings file the program starts with,  *)
(* and about what the core's tasks make for the GUI: the memory cache and  *)
(* the previews in it (NfPreviews) for any rows, sizes and limits, the     *)
(* metadata of the current photo (NfPhotoMetadata) for any photos, tasks   *)
(* and threads, and what is made of a file (NfImages) for files of any     *)
(* size, orientation, tags and embedded images.                            *)
(***************************************************************************)
EXTENDS NeofluxonCore, NfPreviews, NfPhotoMetadata,
        FiniteSetTheorems, SequenceTheorems, WellFoundedInduction, TLAPS

-----------------------------------------------------------------------------
(* The inductive invariant.                                                *)

Stages == {"ended", "making", "failing", "running", "resetting", "destroying"}

\* The settings that the dialog can show.
Showable ==
  [directory : Folders \union {Defaults.directory}, max : 1..SpinRange, free : 1..SpinRange]

TypeOK ==
  /\ stage \in Stages /\ alive \subseteq Parts /\ mainWindow \in BOOLEAN
  /\ doing \in [Runners -> {Nothing} \union UNION {Activities(r) : r \in Runners}]
  /\ settings \in Settings \union {NoFile, Unreadable}
  /\ temporary \in Settings \union {NoFile, Unreadable}
  /\ dialog \in Showable \union {Closed}
  /\ saving \in {"no", "writing", "renaming"}

\* What a thread is at is one of its own activities, and the part that joins
\* the thread is there.
ThreadsOwned ==
  \A r \in Runners : doing[r] # Nothing =>
    /\ doing[r] \in Activities(r)
    /\ Owner(r) \in alive
    /\ stage \in {"running", "resetting", "destroying"}

\* Everything is there until the destructor; the pools go first, and the
\* library manager outlives the loader.
PartsGoInOrder ==
  /\ stage = "running" => alive = Parts
  /\ stage = "resetting" => Parts \ {"foregroundThreadPool"} \subseteq alive
  /\ stage = "destroying" =>
       /\ "foregroundThreadPool" \notin alive
       /\ "backgroundThreadPool" \notin alive
       /\ "photoLoader" \in alive => "libraryManager" \in alive

\* What accept writes is what the dialog shows.
SavingTheDialog ==
  /\ saving # "no" => dialog # Closed
  /\ saving = "renaming" => temporary = Entered(dialog)

IInv == TypeOK /\ ThreadsOwned /\ PartsGoInOrder /\ SavingTheDialog

-----------------------------------------------------------------------------
(* The orders.                                                             *)

\* Of parts that are not all there, one is the next to be made.
LEMMA NextIsAPart ==
  ASSUME alive \subseteq Parts, alive # Parts
  PROVE  Next1(MakeOrder) \in Parts
<1> DEFINE IsNext(i) == MakeOrder[i] \notin alive /\ \A j \in 1..(i - 1) : MakeOrder[j] \in alive
<1>1. /\ Len(MakeOrder) = 11 /\ DOMAIN MakeOrder = 1..11
      /\ Parts = {MakeOrder[i] : i \in 1..11}
  BY DEF MakeOrder, Parts, ToSet
<1>2. \E i \in DOMAIN MakeOrder : IsNext(i)
  <2> SUFFICES ASSUME \A i \in 1..11 : ~ IsNext(i)
               PROVE  FALSE
    BY <1>1
  <2>1. MakeOrder[1] \in alive /\ MakeOrder[2] \in alive /\ MakeOrder[3] \in alive
    OBVIOUS
  <2>2. MakeOrder[4] \in alive /\ MakeOrder[5] \in alive /\ MakeOrder[6] \in alive
    BY <2>1
  <2>3. MakeOrder[7] \in alive /\ MakeOrder[8] \in alive /\ MakeOrder[9] \in alive
    BY <2>1, <2>2
  <2>4. MakeOrder[10] \in alive /\ MakeOrder[11] \in alive
    BY <2>1, <2>2, <2>3
  <2>5. QED
    BY <1>1, <2>1, <2>2, <2>3, <2>4
<1>3. Next1(MakeOrder) = MakeOrder[CHOOSE i \in DOMAIN MakeOrder : IsNext(i)]
  BY DEF Next1
<1>4. QED
  BY <1>1, <1>2, <1>3

\* Of members that are there, the last is destroyed: with none behind it.
LEMMA LastIsAMember ==
  ASSUME alive \subseteq Parts, alive # {}
  PROVE  \E i \in 1..11 :
           /\ Last1(MemberOrder) = MemberOrder[i]
           /\ \A j \in (i + 1)..11 : MemberOrder[j] \notin alive
<1> DEFINE IsLast(i) ==
             MemberOrder[i] \in alive /\ \A j \in (i + 1)..11 : MemberOrder[j] \notin alive
<1>1. Len(MemberOrder) = 11 /\ DOMAIN MemberOrder = 1..11
  BY DEF MemberOrder
<1>2. Parts = {MemberOrder[i] : i \in 1..11}
  <2>1. Parts = {MakeOrder[i] : i \in 1..11}
    BY DEF MakeOrder, Parts, ToSet
  <2>2. /\ MakeOrder[1] = MemberOrder[4] /\ MakeOrder[2] = MemberOrder[3]
        /\ MakeOrder[3] = MemberOrder[1] /\ MakeOrder[4] = MemberOrder[2]
        /\ \A i \in 5..11 : MakeOrder[i] = MemberOrder[i]
    BY DEF MakeOrder, MemberOrder
  <2>3. QED
    BY <2>1, <2>2
<1>3. \E i \in 1..11 : IsLast(i)
  <2> SUFFICES ASSUME \A i \in 1..11 : ~ IsLast(i)
               PROVE  FALSE
    OBVIOUS
  <2>1. MemberOrder[11] \notin alive /\ MemberOrder[10] \notin alive /\ MemberOrder[9] \notin alive
    OBVIOUS
  <2>2. MemberOrder[8] \notin alive /\ MemberOrder[7] \notin alive /\ MemberOrder[6] \notin alive
    BY <2>1
  <2>3. MemberOrder[5] \notin alive /\ MemberOrder[4] \notin alive /\ MemberOrder[3] \notin alive
    BY <2>1, <2>2
  <2>4. MemberOrder[2] \notin alive /\ MemberOrder[1] \notin alive
    BY <2>1, <2>2, <2>3
  <2>5. QED
    BY <1>2, <2>1, <2>2, <2>3, <2>4
<1>4. Last1(MemberOrder) = MemberOrder[CHOOSE i \in 1..11 : IsLast(i)]
  BY <1>1 DEF Last1
<1>5. QED
  BY <1>3, <1>4

-----------------------------------------------------------------------------
(* The settings.                                                           *)

\* A spin box shows what it can hold.
LEMMA SpinInRange ==
  ASSUME NEW n \in Nat
  PROVE  Spin(n) \in 1..SpinRange
<1>1. Gigabyte \in Nat \ {0} /\ SpinRange \in Nat \ {0}
  BY CoreAssumption
<1>2. n \div Gigabyte \in Int
  BY <1>1
<1>3. QED
  BY <1>1, <1>2 DEF Spin

\* What is loaded can be shown, and what is shown can be written and loaded.
LEMMA LoadedIsShowable ==
  ASSUME NEW stored \in Settings \union {NoFile, Unreadable}
  PROVE  Load(stored) \in Settings /\ Shown(Load(stored)) \in Showable
<1>1. Load(stored) \in Settings
  BY CoreAssumption DEF Load
<1>2. Load(stored).max \in Nat /\ Load(stored).free \in Nat
  BY <1>1 DEF Settings
<1>3. Load(stored).directory \in Folders \union {Defaults.directory}
  BY <1>1 DEF Settings
<1>4. Spin(Load(stored).max) \in 1..SpinRange /\ Spin(Load(stored).free) \in 1..SpinRange
  BY <1>2, SpinInRange
<1>5. QED
  BY <1>1, <1>3, <1>4 DEF Shown, Showable

LEMMA EnteredIsWhole ==
  ASSUME NEW d \in Showable
  PROVE  /\ Entered(d) \in Settings /\ Load(Entered(d)) = Entered(d)
         /\ d # Closed
<1>1. Gigabyte \in Nat /\ Gigabyte > 0 /\ SpinRange \in Nat
  BY CoreAssumption
<1>2. d.max \in Nat /\ d.max > 0 /\ d.free \in Nat
  BY <1>1 DEF Showable
<1>3. d.max * Gigabyte \in Nat /\ d.free * Gigabyte \in Nat /\ d.max * Gigabyte > 0
  BY <1>1, <1>2
<1>4. Entered(d) \in Settings
  BY <1>3 DEF Entered, Settings, Showable
<1>5. Entered(d).max # 0
  BY <1>3 DEF Entered, Showable
<1>6. Load(Entered(d)) = Entered(d)
  BY <1>4, <1>5, CoreAssumption DEF Load
<1>7. d \in Settings
  BY <1>2 DEF Showable, Settings
<1>8. QED
  BY <1>4, <1>6, <1>7, CoreAssumption

-----------------------------------------------------------------------------
(* Each part of the invariant is kept.                                     *)

LEMMA TypeStep ==
  ASSUME IInv, [Next]_vars
  PROVE  TypeOK'
<1> USE DEF IInv, TypeOK, Stages, lifeVars, fileVars, dialogVars
<1>1. CASE CreateDirectories \/ MakeFails \/ ShowMainWindow \/ CloseMainWindow
  BY <1>1 DEF CreateDirectories, MakeFails, ShowMainWindow, CloseMainWindow
<1>2. CASE Make
  BY <1>2, NextIsAPart DEF Make
<1>3. CASE DestroyLocal \/ ResetPools \/ DestroyMember
  BY <1>3 DEF DestroyLocal, ResetPools, DestroyMember
<1>4. ASSUME NEW r \in Runners, Finish(r)
      PROVE  TypeOK'
  BY <1>4 DEF Finish
<1>5. ASSUME NEW r \in Runners, NEW activity \in Activities(r), Begin(r, activity)
      PROVE  TypeOK'
  BY <1>5 DEF Begin
<1>6. CASE Crash
  BY <1>6 DEF Crash
<1>7. CASE OpenDialog
  BY <1>7, LoadedIsShowable DEF OpenDialog
<1>8. CASE Change
  <2>1. dialog \in Showable
    BY <1>8 DEF Change
  <2>2. dialog' \in Showable
    <3>1. ASSUME NEW n \in 1..SpinRange
          PROVE  /\ [dialog EXCEPT !.max = n] \in Showable
                 /\ [dialog EXCEPT !.free = n] \in Showable
      BY <2>1 DEF Showable
    <3>2. ASSUME NEW f \in Folders
          PROVE  [dialog EXCEPT !.directory = f] \in Showable
      BY <2>1 DEF Showable
    <3>3. QED
      BY <1>8, <3>1, <3>2 DEF Change
  <2>3. QED
    BY <1>8, <2>2 DEF Change
<1>9. CASE Reject \/ SaveBegin \/ SaveRename \/ SaveFails
  BY <1>9 DEF Reject, SaveBegin, SaveRename, SaveFails
<1>10. CASE SaveWrite
  <2>1. dialog \in Showable
    BY <1>10 DEF SaveWrite, SavingTheDialog
  <2>2. QED
    BY <1>10, <2>1, EnteredIsWhole DEF SaveWrite
<1>11. CASE UNCHANGED vars
  BY <1>11 DEF vars
<1>12. QED
  BY <1>1, <1>2, <1>3, <1>4, <1>5, <1>6, <1>7, <1>8, <1>9, <1>10, <1>11 DEF Next

\* Who joins a runner's threads lets none of them be at something.
LEMMA ThreadsOwnedStep ==
  ASSUME IInv, [Next]_vars
  PROVE  ThreadsOwned'
<1> USE DEF IInv, TypeOK, ThreadsOwned, lifeVars, fileVars, dialogVars
<1>1. CASE UNCHANGED lifeVars
  BY <1>1
<1>2. CASE CreateDirectories \/ MakeFails \/ ShowMainWindow \/ CloseMainWindow
  BY <1>2 DEF CreateDirectories, MakeFails, ShowMainWindow, CloseMainWindow
<1>3. CASE Make
  BY <1>3 DEF Make
<1>4. CASE DestroyLocal
  BY <1>4 DEF DestroyLocal
<1>5. CASE ResetPools
  BY <1>5 DEF ResetPools, Joined
<1>6. CASE DestroyMember
  <2>1. CASE alive = {}
    BY <1>6, <2>1 DEF DestroyMember
  <2>2. CASE alive # {}
    BY <1>6, <2>2 DEF DestroyMember, Joined
  <2>3. QED
    BY <2>1, <2>2
<1>7. ASSUME NEW r \in Runners, Finish(r)
      PROVE  ThreadsOwned'
  BY <1>7 DEF Finish
<1>8. ASSUME NEW r \in Runners, NEW activity \in Activities(r), Begin(r, activity)
      PROVE  ThreadsOwned'
  BY <1>8 DEF Begin
<1>9. CASE Crash
  BY <1>9 DEF Crash
<1>10. CASE OpenDialog \/ Change \/ Reject \/ SaveBegin \/ SaveWrite \/ SaveRename
            \/ SaveFails \/ UNCHANGED vars
  BY <1>1, <1>10 DEF OpenDialog, Change, Reject, SaveBegin, SaveWrite, SaveRename,
                     SaveFails, vars
<1>11. QED
  BY <1>2, <1>3, <1>4, <1>5, <1>6, <1>7, <1>8, <1>9, <1>10 DEF Next

\* The destructor resets the pools, then destroys the members from the last.
LEMMA PartsGoInOrderStep ==
  ASSUME IInv, [Next]_vars
  PROVE  PartsGoInOrder'
<1> USE DEF IInv, TypeOK, PartsGoInOrder, lifeVars, fileVars, dialogVars
<1>1. CASE UNCHANGED <<stage, alive>>
  BY <1>1
<1>2. CASE CreateDirectories \/ Make \/ MakeFails
  BY <1>2 DEF CreateDirectories, Make, MakeFails
<1>3. CASE ShowMainWindow \/ CloseMainWindow
  BY <1>3 DEF ShowMainWindow, CloseMainWindow
<1>4. CASE DestroyLocal
  BY <1>4 DEF DestroyLocal
<1>5. CASE ResetPools
  <2>1. "libraryManager" \in Parts /\ "photoLoader" \in Parts
    BY DEF Parts, MakeOrder, ToSet
  <2>2. CASE "foregroundThreadPool" \in alive
    BY <1>5, <2>2 DEF ResetPools
  <2>3. CASE "foregroundThreadPool" \notin alive
    <3>1. stage' = "destroying" /\ alive' = alive \ {"backgroundThreadPool"}
      BY <1>5, <2>3 DEF ResetPools
    <3>2. "libraryManager" \in alive
      BY <1>5, <2>1 DEF ResetPools
    <3>3. QED
      BY <2>3, <3>1, <3>2
  <2>4. QED
    BY <2>2, <2>3
<1>6. CASE DestroyMember
  <2>1. CASE alive = {}
    BY <1>6, <2>1 DEF DestroyMember
  <2>2. CASE alive # {}
    <3>1. stage' = stage /\ alive' = alive \ {Last1(MemberOrder)}
      BY <1>6, <2>2 DEF DestroyMember
    <3>2. MemberOrder[9] = "libraryManager" /\ MemberOrder[10] = "photoLoader"
      BY DEF MemberOrder
    <3>3. Last1(MemberOrder) = "libraryManager" => "photoLoader" \notin alive
      <4>1. PICK i \in 1..11 :
              /\ Last1(MemberOrder) = MemberOrder[i]
              /\ \A j \in (i + 1)..11 : MemberOrder[j] \notin alive
        BY <2>2, LastIsAMember
      <4>2. MemberOrder[i] = "libraryManager" => i = 9
        BY DEF MemberOrder
      <4>3. QED
        BY <3>2, <4>1, <4>2
    <3>4. QED
      BY <1>6, <3>1, <3>3 DEF DestroyMember
  <2>3. QED
    BY <2>1, <2>2
<1>7. ASSUME NEW r \in Runners,
             Finish(r) \/ \E activity \in Activities(r) : Begin(r, activity)
      PROVE  PartsGoInOrder'
  BY <1>1, <1>7 DEF Finish, Begin
<1>8. CASE Crash
  BY <1>8 DEF Crash
<1>9. CASE OpenDialog \/ Change \/ Reject \/ SaveBegin \/ SaveWrite \/ SaveRename
           \/ SaveFails \/ UNCHANGED vars
  BY <1>1, <1>9 DEF OpenDialog, Change, Reject, SaveBegin, SaveWrite, SaveRename,
                    SaveFails, vars
<1>10. QED
  BY <1>2, <1>3, <1>4, <1>5, <1>6, <1>7, <1>8, <1>9 DEF Next

\* Nothing changes what the dialog shows while it is saved.
LEMMA SavingTheDialogStep ==
  ASSUME IInv, [Next]_vars
  PROVE  SavingTheDialog'
<1> USE DEF IInv, TypeOK, SavingTheDialog, fileVars, dialogVars
<1>1. CASE UNCHANGED <<fileVars, dialogVars>>
  BY <1>1
<1>2. CASE OpenDialog \/ Change \/ Reject
  BY <1>2 DEF OpenDialog, Change, Reject
<1>3. CASE SaveBegin \/ SaveWrite \/ SaveRename \/ SaveFails
  BY <1>3 DEF SaveBegin, SaveWrite, SaveRename, SaveFails
<1>4. CASE Crash
  BY <1>4 DEF Crash
<1>5. ASSUME NEW r \in Runners,
             Finish(r) \/ \E activity \in Activities(r) : Begin(r, activity)
      PROVE  SavingTheDialog'
  BY <1>1, <1>5 DEF Finish, Begin
<1>6. CASE CreateDirectories \/ Make \/ MakeFails \/ DestroyLocal \/ ShowMainWindow
           \/ CloseMainWindow \/ ResetPools \/ DestroyMember \/ UNCHANGED vars
  BY <1>1, <1>6 DEF CreateDirectories, Make, MakeFails, DestroyLocal, ShowMainWindow,
                    CloseMainWindow, ResetPools, DestroyMember, vars
<1>7. QED
  BY <1>2, <1>3, <1>4, <1>5, <1>6 DEF Next

-----------------------------------------------------------------------------
(* The invariant.                                                          *)

LEMMA IInvInit == Init => IInv
<1> SUFFICES ASSUME Init
             PROVE  IInv
  OBVIOUS
<1>1. TypeOK
  BY CoreAssumption DEF Init, TypeOK, Stages
<1>2. ThreadsOwned /\ PartsGoInOrder /\ SavingTheDialog
  BY DEF Init, ThreadsOwned, PartsGoInOrder, SavingTheDialog
<1>3. QED
  BY <1>1, <1>2 DEF IInv

LEMMA IInvStep == IInv /\ [Next]_vars => IInv'
<1>1. QED
  BY TypeStep, ThreadsOwnedStep, PartsGoInOrderStep, SavingTheDialogStep DEF IInv

\* A thread that is at something has its pool, and as long as there is a pool
\* there is all that the pool's tasks touch.
LEMMA NothingTouchedIsGone == IInv => CoreOutlivesItsUsers
<1> SUFFICES ASSUME IInv, NEW r \in Runners, doing[r] # Nothing
             PROVE  Touches(doing[r]) \subseteq alive
  BY DEF CoreOutlivesItsUsers, IInv, TypeOK, Touches, Nothing
<1> USE DEF IInv, TypeOK, ThreadsOwned, PartsGoInOrder, Owner, Activities
<1>1. Parts = {MakeOrder[i] : i \in 1..11}
  BY DEF Parts, MakeOrder, ToSet
<1>2. {"thumbnailCache", "previewCache", "diskCache", "photoLoader", "metadataLoader",
       "libraryManager", "foregroundScheduler", "backgroundScheduler"}
        \subseteq Parts \ {"foregroundThreadPool"}
  BY <1>1 DEF MakeOrder
<1>3. CASE r = "foreground"
  <2>1. Parts \ {"foregroundThreadPool"} \subseteq alive
    BY <1>3
  <2>2. doing[r] \in {"image", "metadata", "libraryTree"}
    BY <1>3
  <2>3. QED
    BY <1>2, <2>1, <2>2 DEF Touches
<1>4. CASE r = "background"
  <2>1. Parts \ {"foregroundThreadPool"} \subseteq alive
    BY <1>4
  <2>2. doing[r] = "import"
    BY <1>4
  <2>3. QED
    BY <1>2, <2>1, <2>2 DEF Touches
<1>5. CASE r = "scanner"
  <2>1. "photoLoader" \in alive /\ "libraryManager" \in alive
    BY <1>2, <1>5
  <2>2. doing[r] \in {"scanFolder", "scanLibrary"}
    BY <1>5
  <2>3. QED
    BY <2>1, <2>2 DEF Touches
<1>6. CASE r = "diskWriter"
  <2>1. "diskCache" \in alive /\ doing[r] = "writeImage"
    BY <1>6
  <2>2. QED
    BY <2>1 DEF Touches
<1>7. QED
  BY <1>3, <1>4, <1>5, <1>6 DEF Runners

\* No thread ever touches a part that is not there, in whatever order the
\* parts fail to be made, threads take up work and the program ends.
THEOREM CoreOutlives == Spec => []CoreOutlivesItsUsers
<1>1. QED
  BY IInvInit, IInvStep, NothingTouchedIsGone, PTL DEF Spec

\* Only the rename of accept changes the settings, to all that was entered.
LEMMA OnlyEnteredSettings ==
  ASSUME IInv, [Next]_vars, Load(settings') # Load(settings)
  PROVE  dialog # Closed /\ Load(settings') = Entered(dialog)
<1> USE DEF lifeVars, fileVars, dialogVars
<1>1. settings' # settings
  OBVIOUS
<1>2. SaveRename
  <2>1. CASE Next
    BY <1>1, <2>1 DEF Next, CreateDirectories, Make, MakeFails, DestroyLocal,
       ShowMainWindow, CloseMainWindow, Finish, Begin, ResetPools, DestroyMember,
       Crash, OpenDialog, Change, Reject, SaveBegin, SaveWrite, SaveFails
  <2>2. CASE UNCHANGED vars
    BY <1>1, <2>2 DEF vars
  <2>3. QED
    BY <2>1, <2>2
<1>3. settings' = Entered(dialog) /\ dialog \in Showable
  BY <1>2 DEF SaveRename, IInv, TypeOK, SavingTheDialog
<1>4. QED
  BY <1>3, EnteredIsWhole

\* What the next start works with is what was there, or what the user entered:
\* crashes and failing writes at any point leave no third thing.
THEOREM SettingsStayWhole == Spec => SettingsWhole
<1> DEFINE Changed ==
      Load(settings') # Load(settings)
        => dialog # Closed /\ Load(settings') = Entered(dialog)
<1>1. IInv /\ [Next]_vars => [Changed]_vars
  BY OnlyEnteredSettings
<1>2. SettingsWhole <=> [][Changed]_vars
  BY DEF SettingsWhole
<1> HIDE DEF Changed
<1>3. QED
  BY IInvInit, IInvStep, <1>1, <1>2, PTL DEF Spec

-----------------------------------------------------------------------------
(* The largest and the smallest of a set.                                  *)

LEMMA LargestExists ==
  ASSUME NEW S, IsFiniteSet(S), S # {}, S \subseteq Int
  PROVE  Max(S) \in S /\ \A y \in S : y <= Max(S)
<1> DEFINE after(e) == {f \in S : f >= e}
           A == {after(e) : e \in S}
<1>1. A \subseteq FiniteSubsetsOf(S) /\ A # {}
  <2>1. ASSUME NEW e \in S
        PROVE  after(e) \in SUBSET S /\ IsFiniteSet(after(e))
    <3>1. after(e) \in SUBSET S
      OBVIOUS
    <3> HIDE DEF after
    <3>2. QED
      BY <3>1, FS_Subset
  <2> HIDE DEF after
  <2>2. QED
    BY <2>1 DEF FiniteSubsetsOf
<1>2. PICK x \in A : \A y \in A : <<y, x>> \notin StrictSubsetOrdering(S)
  BY <1>1, FS_StrictSubsetOrderingWellFounded, WFMin
<1>3. PICK e \in S : x = after(e)
  OBVIOUS
<1>4. ASSUME NEW f \in S, f > e
      PROVE  FALSE
  <2>1. e \in Int /\ f \in Int /\ e >= e /\ ~ (e >= f)
    BY <1>4
  <2>2. e \in after(e) /\ e \notin after(f) /\ after(f) \subseteq after(e)
    <3>1. e \in after(e) /\ e \notin after(f)
      BY <2>1
    <3>2. \A g \in Int : g >= f => g >= e
      BY <1>4, <2>1
    <3>3. after(f) \subseteq after(e)
      BY <3>2
    <3>4. QED
      BY <3>1, <3>3
  <2>3. <<after(f), after(e)>> \in StrictSubsetOrdering(S)
    BY <2>2 DEF StrictSubsetOrdering
  <2>4. QED
    BY <1>2, <1>3, <2>3
<1>5. \A f \in S : e >= f
  BY <1>4
<1>6. Max(S) \in S /\ \A y \in S : Max(S) >= y
  BY <1>5 DEF Max
<1>7. QED
  BY <1>6

LEMMA SmallestExists ==
  ASSUME NEW S, IsFiniteSet(S), S # {}, S \subseteq Int
  PROVE  Min(S) \in S /\ \A y \in S : Min(S) <= y
<1> DEFINE before(e) == {f \in S : f <= e}
           A == {before(e) : e \in S}
<1>1. A \subseteq FiniteSubsetsOf(S) /\ A # {}
  <2>1. ASSUME NEW e \in S
        PROVE  before(e) \in SUBSET S /\ IsFiniteSet(before(e))
    <3>1. before(e) \in SUBSET S
      OBVIOUS
    <3> HIDE DEF before
    <3>2. QED
      BY <3>1, FS_Subset
  <2> HIDE DEF before
  <2>2. QED
    BY <2>1 DEF FiniteSubsetsOf
<1>2. PICK x \in A : \A y \in A : <<y, x>> \notin StrictSubsetOrdering(S)
  BY <1>1, FS_StrictSubsetOrderingWellFounded, WFMin
<1>3. PICK e \in S : x = before(e)
  OBVIOUS
<1>4. ASSUME NEW f \in S, f < e
      PROVE  FALSE
  <2>1. e \in Int /\ f \in Int /\ e <= e /\ ~ (e <= f)
    BY <1>4
  <2>2. e \in before(e) /\ e \notin before(f) /\ before(f) \subseteq before(e)
    <3>1. e \in before(e) /\ e \notin before(f)
      BY <2>1
    <3>2. \A g \in Int : g <= f => g <= e
      BY <1>4, <2>1
    <3>3. before(f) \subseteq before(e)
      BY <3>2
    <3>4. QED
      BY <3>1, <3>3
  <2>3. <<before(f), before(e)>> \in StrictSubsetOrdering(S)
    BY <2>2 DEF StrictSubsetOrdering
  <2>4. QED
    BY <1>2, <1>3, <2>3
<1>5. \A f \in S : e <= f
  BY <1>4
<1>6. QED
  BY <1>5 DEF Min

-----------------------------------------------------------------------------
(* Lists of photos, each with a photo once (NfCache::m_lruOrder and the    *)
(* list of the QCache).                                                    *)

\* The elements of a list that takes one out.
LEMMA OneTakenOut ==
  ASSUME NEW S, NEW s \in Seq(S), NEW p \in 1..Len(s)
  PROVE  /\ RemoveAt(s, p) \in Seq(S)
         /\ Len(RemoveAt(s, p)) = Len(s) - 1
         /\ \A i \in 1..(Len(s) - 1) :
              RemoveAt(s, p)[i] = IF i < p THEN s[i] ELSE s[i + 1]
<1> DEFINE a == SubSeq(s, 1, p - 1)
           b == SubSeq(s, p + 1, Len(s))
<1>1. Len(s) \in Nat /\ \A i \in 1..Len(s) : s[i] \in S
  BY LenProperties, ElementOfSeq
<1>2. /\ a \in Seq(S) /\ Len(a) = p - 1
      /\ \A i \in 1..(p - 1) : a[i] = s[i]
  BY <1>1, SubSeqProperties
<1>3. /\ b \in Seq(S) /\ Len(b) = Len(s) - p
      /\ \A i \in 1..(Len(s) - p) : b[i] = s[p + i]
  BY <1>1, SubSeqProperties
<1>4. RemoveAt(s, p) = a \o b
  BY DEF RemoveAt
<1> HIDE DEF a, b
<1>5. /\ a \o b \in Seq(S) /\ Len(a \o b) = Len(a) + Len(b)
      /\ \A i \in 1..(Len(a) + Len(b)) :
           (a \o b)[i] = IF i <= Len(a) THEN a[i] ELSE b[i - Len(a)]
  BY <1>2, <1>3, ConcatProperties
<1>6. Len(RemoveAt(s, p)) = Len(s) - 1
  BY <1>1, <1>2, <1>3, <1>4, <1>5
<1>7. ASSUME NEW i \in 1..(Len(s) - 1)
      PROVE  RemoveAt(s, p)[i] = IF i < p THEN s[i] ELSE s[i + 1]
  <2>1. CASE i < p
    BY <1>1, <1>2, <1>3, <1>4, <1>5, <2>1
  <2>2. CASE i >= p
    <3>1. i - (p - 1) \in 1..(Len(s) - p) /\ p + (i - (p - 1)) = i + 1
      BY <1>1, <2>2
    <3>2. (a \o b)[i] = b[i - (p - 1)]
      BY <1>1, <1>2, <1>3, <1>5, <2>2
    <3>3. QED
      BY <1>3, <1>4, <2>2, <3>1, <3>2
  <2>3. QED
    BY <1>1, <2>1, <2>2
<1>8. QED
  BY <1>4, <1>5, <1>6, <1>7

\* A photo that is not there may go in front.
LEMMA NewInFront ==
  ASSUME NEW S, NEW s \in Seq(S), IsInjective(s), NEW p \in S, p \notin ToSet(s)
  PROVE  /\ <<p>> \o s \in Seq(S) /\ IsInjective(<<p>> \o s)
         /\ ToSet(<<p>> \o s) = {p} \union ToSet(s)
<1> DEFINE w == <<p>> \o s
<1>1. Len(s) \in Nat /\ DOMAIN s = 1..Len(s)
  BY LenProperties
<1>2. <<p>> \in Seq(S) /\ Len(<<p>>) = 1 /\ <<p>>[1] = p
  OBVIOUS
<1>3. /\ w \in Seq(S) /\ Len(w) = 1 + Len(s)
      /\ \A i \in 1..(1 + Len(s)) : w[i] = IF i <= 1 THEN <<p>>[i] ELSE s[i - 1]
  BY <1>2, ConcatProperties
<1>4. DOMAIN w = 1..(1 + Len(s))
  BY <1>3, LenProperties
<1> HIDE DEF w
<1>5. w[1] = p /\ 1 \in DOMAIN w
  BY <1>1, <1>2, <1>3, <1>4
<1>6. \A i \in 2..(1 + Len(s)) : i - 1 \in DOMAIN s /\ w[i] = s[i - 1]
  BY <1>1, <1>3
<1>7. \A i \in DOMAIN s : i + 1 \in DOMAIN w /\ w[i + 1] = s[i]
  BY <1>1, <1>4, <1>6
<1>8. \A i \in DOMAIN s : s[i] # p
  BY DEF ToSet
<1>9. IsInjective(w)
  <2> SUFFICES ASSUME NEW i \in 1..(1 + Len(s)), NEW j \in 1..(1 + Len(s)), w[i] = w[j]
               PROVE  i = j
    BY <1>4 DEF IsInjective
  <2>1. i = 1 <=> j = 1
    BY <1>1, <1>5, <1>6, <1>8
  <2>2. CASE i # 1 /\ j # 1
    <3>1. i - 1 = j - 1
      BY <1>1, <1>6, <2>2 DEF IsInjective
    <3>2. QED
      BY <3>1
  <2>3. QED
    BY <2>1, <2>2
<1>10. ToSet(w) = {p} \union ToSet(s)
  <2>1. \A i \in DOMAIN w : w[i] \in {p} \union ToSet(s)
    <3> SUFFICES ASSUME NEW i \in DOMAIN w, i # 1
                 PROVE  w[i] \in ToSet(s)
      BY <1>5
    <3>1. i - 1 \in DOMAIN s /\ w[i] = s[i - 1]
      BY <1>1, <1>4, <1>6
    <3>2. QED
      BY <3>1 DEF ToSet
  <2>2. \A i \in DOMAIN s : s[i] \in ToSet(w)
    BY <1>7 DEF ToSet
  <2>3. QED
    BY <1>5, <2>1, <2>2 DEF ToSet
<1>11. QED
  BY <1>3, <1>9, <1>10 DEF w

\* refreshAccess: moving one to the front keeps the list's photos.
LEMMA MovedToFront ==
  ASSUME NEW S, NEW s \in Seq(S), IsInjective(s), NEW p \in ToSet(s)
  PROVE  /\ ToFront(s, p) \in Seq(S) /\ IsInjective(ToFront(s, p))
         /\ ToSet(ToFront(s, p)) = ToSet(s)
<1> DEFINE k == Position(s, p)
           w == RemoveAt(s, k)
<1>1. Len(s) \in Nat /\ DOMAIN s = 1..Len(s) /\ \A i \in 1..Len(s) : s[i] \in S
  BY LenProperties, ElementOfSeq
<1>2. k \in 1..Len(s) /\ s[k] = p
  BY <1>1 DEF Position, ToSet
<1>3. \A i \in 1..Len(s) : s[i] = p <=> i = k
  BY <1>1, <1>2 DEF IsInjective
<1> HIDE DEF k
<1>4. /\ w \in Seq(S) /\ DOMAIN w = 1..(Len(s) - 1)
      /\ \A i \in 1..(Len(s) - 1) : w[i] = IF i < k THEN s[i] ELSE s[i + 1]
  BY <1>2, OneTakenOut, LenProperties
<1> HIDE DEF w
<1> DEFINE at(n) == IF n < k THEN n ELSE n + 1
<1>5. \A i \in 1..(Len(s) - 1) : at(i) \in 1..Len(s) /\ at(i) # k /\ w[i] = s[at(i)]
  BY <1>1, <1>2, <1>4
<1>6. IsInjective(w)
  <2> SUFFICES ASSUME NEW i \in 1..(Len(s) - 1), NEW j \in 1..(Len(s) - 1), w[i] = w[j]
               PROVE  i = j
    BY <1>4 DEF IsInjective
  <2>1. at(i) = at(j)
    <3> HIDE DEF at
    <3>1. QED
      BY <1>1, <1>5 DEF IsInjective
  <2>2. QED
    BY <1>1, <1>2, <2>1
<1>7. ToSet(w) = ToSet(s) \ {p}
  <2>1. ASSUME NEW i \in 1..(Len(s) - 1)
        PROVE  w[i] \in ToSet(s) \ {p}
    <3> HIDE DEF at
    <3>1. QED
      BY <1>1, <1>3, <1>5 DEF ToSet
  <2>2. ASSUME NEW j \in 1..Len(s), s[j] # p
        PROVE  \E i \in 1..(Len(s) - 1) : w[i] = s[j]
    <3>1. CASE j < k
      <4>1. j \in 1..(Len(s) - 1) /\ w[j] = s[j]
        BY <1>1, <1>2, <1>4, <3>1
      <4>2. QED
        BY <4>1
    <3>2. CASE j > k
      <4>1. j - 1 \in 1..(Len(s) - 1) /\ (j - 1) + 1 = j /\ ~ (j - 1 < k)
        BY <1>1, <1>2, <3>2
      <4>2. w[j - 1] = s[j]
        BY <1>4, <4>1
      <4>3. QED
        BY <4>1, <4>2
    <3>3. QED
      BY <1>1, <1>2, <1>3, <2>2, <3>1, <3>2
  <2>3. ToSet(w) \subseteq ToSet(s) \ {p}
    BY <1>4, <2>1 DEF ToSet
  <2>4. ToSet(s) \ {p} \subseteq ToSet(w)
    BY <1>1, <1>4, <2>2 DEF ToSet
  <2>5. QED
    BY <2>3, <2>4
<1>8. ToFront(s, p) = <<p>> \o w
  BY DEF ToFront, k, w
<1>9. p \in S /\ p \notin ToSet(w) /\ {p} \union ToSet(w) = ToSet(s)
  BY <1>1, <1>2, <1>7
<1>10. /\ <<p>> \o w \in Seq(S) /\ IsInjective(<<p>> \o w)
       /\ ToSet(<<p>> \o w) = {p} \union ToSet(w)
  BY <1>4, <1>6, <1>9, NewInFront
<1>11. QED
  BY <1>8, <1>9, <1>10, Zenon

\* The first ones of a list.
LEMMA FirstOnes ==
  ASSUME NEW S, NEW s \in Seq(S), IsInjective(s), NEW n \in 0..Len(s)
  PROVE  /\ SubSeq(s, 1, n) \in Seq(S) /\ IsInjective(SubSeq(s, 1, n))
         /\ ToSet(SubSeq(s, 1, n)) \subseteq ToSet(s)
<1> DEFINE w == SubSeq(s, 1, n)
<1>1. Len(s) \in Nat /\ DOMAIN s = 1..Len(s) /\ \A i \in 1..Len(s) : s[i] \in S
  BY LenProperties, ElementOfSeq
<1>2. w \in Seq(S) /\ Len(w) = n /\ \A i \in 1..n : w[i] = s[i]
  BY <1>1, SubSeqProperties
<1>3. DOMAIN w = 1..n
  BY <1>2, LenProperties
<1> HIDE DEF w
<1>4. \A i \in 1..n : i \in DOMAIN s
  BY <1>1
<1>5. IsInjective(w) /\ ToSet(w) \subseteq ToSet(s)
  BY <1>2, <1>3, <1>4 DEF IsInjective, ToSet
<1>6. QED
  BY <1>2, <1>5 DEF w

\* A list with each photo once is as long as there are photos in it.
LEMMA AsLongAsMany ==
  ASSUME NEW S, NEW s \in Seq(S), IsInjective(s)
  PROVE  IsFiniteSet(ToSet(s)) /\ Len(s) = Cardinality(ToSet(s))
<1>1. Len(s) \in Nat /\ DOMAIN s = 1..Len(s)
  BY LenProperties
<1>2. s \in [1..Len(s) -> ToSet(s)]
  BY <1>1 DEF ToSet
<1>3. s \in Surjection(1..Len(s), ToSet(s)) /\ s \in Injection(1..Len(s), ToSet(s))
  BY <1>1, <1>2 DEF Surjection, Injection, IsInjective, ToSet
<1>4. IsFiniteSet(1..Len(s)) /\ Cardinality(1..Len(s)) = Len(s)
  BY <1>1, FS_Interval
<1>5. QED
  BY <1>3, <1>4, FS_Surjection

-----------------------------------------------------------------------------
(* Sums of sizes.                                                          *)

BytesOf(p, n) == {p} \X (1..n)

LEMMA BytesOfEach ==
  ASSUME NEW order, NEW size
  PROVE  Bytes(order, size) = UNION {BytesOf(p, size[p]) : p \in ToSet(order)}
BY DEF Bytes, BytesOf, ToSet

\* An image has as many bytes as its size says.
LEMMA BytesOfOne ==
  ASSUME NEW p, NEW n \in Nat
  PROVE  IsFiniteSet(BytesOf(p, n)) /\ Cardinality(BytesOf(p, n)) = n
<1>1. IsFiniteSet(1..n) /\ Cardinality(1..n) = n
  BY FS_Interval
<1>2. IsFiniteSet({p}) /\ Cardinality({p}) = 1
  BY FS_Singleton
<1>3. /\ IsFiniteSet(BytesOf(p, n))
      /\ Cardinality(BytesOf(p, n)) = Cardinality({p}) * Cardinality(1..n)
  BY <1>1, <1>2, FS_Product DEF BytesOf
<1>4. QED
  BY <1>1, <1>2, <1>3

LEMMA TotalIsNatural ==
  ASSUME NEW S, NEW order \in Seq(S), NEW size \in [S -> Nat]
  PROVE  IsFiniteSet(Bytes(order, size)) /\ Total(order, size) \in Nat
<1> DEFINE f == [i \in 1..Len(order) |-> BytesOf(order[i], size[order[i]])]
           T == {BytesOf(order[i], size[order[i]]) : i \in 1..Len(order)}
<1>1. /\ Len(order) \in Nat /\ DOMAIN order = 1..Len(order)
      /\ \A i \in 1..Len(order) : order[i] \in S
  BY LenProperties, ElementOfSeq
<1>2. f \in Surjection(1..Len(order), T)
  BY DEF Surjection
<1>3. IsFiniteSet(T)
  <2> HIDE DEF f, T
  <2>1. IsFiniteSet(1..Len(order))
    BY <1>1, FS_Interval
  <2>2. QED
    BY <1>2, <2>1, FS_Surjection
<1>4. \A b \in T : IsFiniteSet(b)
  BY <1>1, BytesOfOne
<1>5. Bytes(order, size) = UNION T
  BY <1>1 DEF Bytes, BytesOf
<1>6. IsFiniteSet(Bytes(order, size))
  <2> HIDE DEF T
  <2>1. QED
    BY <1>3, <1>4, <1>5, FS_UNION
<1>7. QED
  BY <1>6, FS_CardinalityType DEF Total

LEMMA NothingHasNoBytes ==
  ASSUME NEW size
  PROVE  Total(<<>>, size) = 0
<1>1. Bytes(<<>>, size) = {}
  BY DEF Bytes
<1>2. QED
  BY <1>1, FS_EmptySet DEF Total

\* The sum depends on what is in the list and on the sizes of that.
LEMMA SameTotal ==
  ASSUME NEW s, NEW t, ToSet(s) = ToSet(t), NEW size, NEW other,
         \A p \in ToSet(s) : size[p] = other[p]
  PROVE  Total(s, size) = Total(t, other)
<1>1. Bytes(s, size) = Bytes(t, other)
  <2>1. {BytesOf(p, size[p]) : p \in ToSet(s)} = {BytesOf(p, other[p]) : p \in ToSet(t)}
    OBVIOUS
  <2>2. QED
    BY <2>1, BytesOfEach
<1>2. QED
  BY <1>1 DEF Total

\* One more photo takes up its size more.
LEMMA OneMorePhoto ==
  ASSUME NEW S, NEW s \in Seq(S), NEW p \in S, p \notin ToSet(s),
         NEW size \in [S -> Nat], NEW t, ToSet(t) = {p} \union ToSet(s)
  PROVE  Total(t, size) = Total(s, size) + size[p]
<1>1. Bytes(t, size) = Bytes(s, size) \union BytesOf(p, size[p])
  BY BytesOfEach
<1>2. Bytes(s, size) \intersect BytesOf(p, size[p]) = {}
  BY BytesOfEach DEF BytesOf
<1>3. /\ IsFiniteSet(Bytes(s, size)) /\ IsFiniteSet(BytesOf(p, size[p]))
      /\ Cardinality(BytesOf(p, size[p])) = size[p]
      /\ Cardinality(Bytes(s, size)) \in Nat /\ size[p] \in Nat
  BY TotalIsNatural, BytesOfOne DEF Total
<1>4. Cardinality(Bytes(t, size))
        = Cardinality(Bytes(s, size)) + Cardinality(BytesOf(p, size[p])) - Cardinality({})
  BY <1>1, <1>2, <1>3, FS_Union
<1>5. QED
  BY <1>3, <1>4, FS_EmptySet DEF Total

LEMMA TotalInFront ==
  ASSUME NEW S, NEW s \in Seq(S), IsInjective(s), NEW p \in S, p \notin ToSet(s),
         NEW size \in [S -> Nat]
  PROVE  Total(<<p>> \o s, size) = Total(s, size) + size[p]
<1>1. ToSet(<<p>> \o s) = {p} \union ToSet(s)
  BY NewInFront
<1>2. QED
  BY <1>1, OneMorePhoto

-----------------------------------------------------------------------------
(* NfCache.                                                                *)

\* evictUntilFits, and the eviction of the QCache: the list is cut where there
\* is the room asked for, or nothing is left of it.
LEMMA KeptFits ==
  ASSUME NEW S, NEW order \in Seq(S), IsInjective(order),
         NEW size \in [S -> Nat], NEW room \in Nat, NEW limit \in Nat
  PROVE  LET kept == Kept(order, size, room, limit)
         IN /\ kept \in Seq(S) /\ IsInjective(kept) /\ ToSet(kept) \subseteq ToSet(order)
            /\ room <= limit => Total(kept, size) + room <= limit
<1> DEFINE fits(n) == Total(SubSeq(order, 1, n), size) + room <= limit
           N == {0} \union {n \in 0..Len(order) : fits(n)}
           last == Max(N)
<1>1. Len(order) \in Nat
  BY LenProperties
<1>2. N \subseteq 0..Len(order) /\ N # {}
  <2> HIDE DEF fits
  <2>1. QED
    BY <1>1
<1>3. IsFiniteSet(0..Len(order))
  BY <1>1, FS_Interval
<1>4. last \in N
  <2> HIDE DEF N
  <2>1. N \subseteq Int
    BY <1>1, <1>2
  <2>2. IsFiniteSet(N)
    BY <1>2, <1>3, FS_Subset
  <2>3. QED
    BY <1>2, <2>1, <2>2, LargestExists
<1>5. Kept(order, size, room, limit) = SubSeq(order, 1, last)
  BY DEF Kept
<1>6. last \in 0..Len(order) /\ (last = 0 \/ fits(last))
  <2> HIDE DEF last, fits
  <2>1. QED
    BY <1>1, <1>4
<1> HIDE DEF last, N
<1>7. /\ SubSeq(order, 1, last) \in Seq(S) /\ IsInjective(SubSeq(order, 1, last))
      /\ ToSet(SubSeq(order, 1, last)) \subseteq ToSet(order)
  BY <1>6, FirstOnes
<1>8. room <= limit => Total(SubSeq(order, 1, last), size) + room <= limit
  <2>1. CASE fits(last)
    BY <2>1
  <2>2. CASE last = 0
    <3>1. SubSeq(order, 1, last) = <<>>
      BY <1>1, <2>2, SubSeqProperties, EmptySeq
    <3>2. Total(SubSeq(order, 1, last), size) = 0
      BY <3>1, NothingHasNoBytes, Zenon
    <3>3. QED
      BY <3>2
  <2>3. QED
    BY <1>6, <2>1, <2>2
<1>9. QED
  BY <1>5, <1>7, <1>8

\* What CacheWithinLimit rests on: the list holds what is cached, each once.
CacheInv ==
  /\ lruOrder \in Seq(Rows) /\ IsInjective(lruOrder)
  /\ sizes \in [Rows -> Nat]
  /\ ToSet(lruOrder) = Cached
  /\ currentSize = Total(lruOrder, sizes)
  /\ currentSize <= MaxSizeBytes

\* A call of get or of add for what is there already.
LEMMA RefreshKeepsCache ==
  ASSUME CacheInv, NEW p \in Cached,
         lruOrder' = ToFront(lruOrder, p), UNCHANGED <<sizes, currentSize>>
  PROVE  CacheInv'
<1>1. /\ lruOrder' \in Seq(Rows) /\ IsInjective(lruOrder')
      /\ ToSet(lruOrder') = ToSet(lruOrder)
  BY MovedToFront DEF CacheInv
<1>2. Total(lruOrder', sizes') = Total(lruOrder, sizes)
  BY <1>1, SameTotal
<1>3. Cached' = Cached
  BY DEF Cached
<1>4. QED
  BY <1>1, <1>2, <1>3 DEF CacheInv

\* A call of add.
LEMMA AddKeepsCache ==
  ASSUME PreviewAssumption, CacheInv, NEW p \in Rows, NEW size \in Nat \ {0},
         AddImage(p, size)
  PROVE  CacheInv'
<1> DEFINE kept == IF currentSize + size > MaxSizeBytes THEN EvictUntilFits(size)
                   ELSE lruOrder
<1>1. CASE size > MaxSizeBytes
  BY <1>1 DEF AddImage, CacheInv, cacheVars, Cached
<1>2. CASE p \in Cached /\ ~ (size > MaxSizeBytes)
  BY <1>2, RefreshKeepsCache DEF AddImage
<1>3. CASE p \notin Cached /\ ~ (size > MaxSizeBytes)
  <2>1. /\ lruOrder' = <<p>> \o kept
        /\ sizes' = [q \in Rows |->
             IF q = p THEN size ELSE IF q \in ToSet(kept) THEN sizes[q] ELSE 0]
        /\ currentSize' = currentSize + size
                          - (Total(lruOrder, sizes) - Total(kept, sizes))
    BY <1>3 DEF AddImage
  <2>2. /\ kept \in Seq(Rows) /\ IsInjective(kept) /\ ToSet(kept) \subseteq Cached
        /\ Total(kept, sizes) + size <= MaxSizeBytes
    <3>1. CASE ~ (currentSize + size > MaxSizeBytes)
      <4>1. Total(lruOrder, sizes) \in Nat /\ MaxSizeBytes \in Nat
        BY TotalIsNatural, PreviewAssumption DEF CacheInv
      <4>2. QED
        BY <3>1, <4>1 DEF CacheInv
    <3>2. CASE currentSize + size > MaxSizeBytes
      <4> DEFINE part == (3 * MaxSizeBytes) \div 10
                 room == Max({size, part})
      <4>1. part \in Nat /\ part <= MaxSizeBytes /\ MaxSizeBytes \in Nat
        BY PreviewAssumption
      <4> HIDE DEF part
      <4>2. room \in {size, part} /\ size <= room
        <5>1. IsFiniteSet({size, part}) /\ {size, part} \subseteq Int
          <6>1. {size, part} = {size} \union {part} /\ {size, part} \subseteq Int
            BY <4>1
          <6>2. IsFiniteSet({size}) /\ IsFiniteSet({part})
            BY FS_Singleton
          <6>3. IsFiniteSet({size} \union {part})
            BY <6>2, FS_Union
          <6>4. QED
            BY <6>1, <6>3
        <5>2. QED
          BY <5>1, LargestExists
      <4>3. kept = Kept(lruOrder, sizes, room, MaxSizeBytes)
        BY <3>2 DEF EvictUntilFits, part
      <4> HIDE DEF room, kept
      <4>4. room \in Nat /\ room <= MaxSizeBytes
        BY <1>3, <4>1, <4>2
      <4>5. /\ kept \in Seq(Rows) /\ IsInjective(kept)
            /\ ToSet(kept) \subseteq ToSet(lruOrder)
            /\ Total(kept, sizes) + room <= MaxSizeBytes
        BY <4>1, <4>3, <4>4, KeptFits DEF CacheInv
      <4>6. Total(kept, sizes) \in Nat
        BY <4>5, TotalIsNatural DEF CacheInv
      <4>7. QED
        BY <4>1, <4>2, <4>4, <4>5, <4>6 DEF CacheInv
    <3>3. QED
      BY <3>1, <3>2
  <2> HIDE DEF kept
  <2>3. p \notin ToSet(kept)
    BY <1>3, <2>2
  <2>4. /\ lruOrder' \in Seq(Rows) /\ IsInjective(lruOrder')
        /\ ToSet(lruOrder') = {p} \union ToSet(kept)
    BY <2>1, <2>2, <2>3, NewInFront
  <2>5. sizes' \in [Rows -> Nat] /\ sizes'[p] = size /\ size > 0
    BY <2>1 DEF CacheInv
  <2>6. \A q \in ToSet(kept) : sizes'[q] = sizes[q] /\ sizes[q] > 0 /\ q \in Rows
    BY <2>1, <2>2, <2>3 DEF Cached
  <2>7. Cached' = {p} \union ToSet(kept)
    <3>1. \A q \in Rows : q # p /\ q \notin ToSet(kept) => sizes'[q] = 0
      BY <2>1
    <3>2. Cached' \subseteq {p} \union ToSet(kept)
      BY <3>1 DEF Cached
    <3>3. {p} \union ToSet(kept) \subseteq Cached'
      BY <2>5, <2>6 DEF Cached
    <3>4. QED
      BY <3>2, <3>3
  <2>8. Total(lruOrder', sizes') = Total(kept, sizes') + sizes'[p]
    <3>1. /\ kept \in Seq(Rows) /\ IsInjective(kept) /\ p \notin ToSet(kept)
          /\ sizes' \in [Rows -> Nat]
      BY <2>2, <2>3, <2>5
    <3>2. Total(<<p>> \o kept, sizes') = Total(kept, sizes') + sizes'[p]
      BY <3>1, TotalInFront
    <3>3. QED
      BY <2>1, <3>2
  <2>9. Total(kept, sizes') = Total(kept, sizes)
    BY <2>6, SameTotal
  <2>10. Total(kept, sizes) \in Nat /\ Total(lruOrder, sizes) \in Nat
    BY <2>2, TotalIsNatural DEF CacheInv
  <2>11. currentSize' = Total(kept, sizes) + size
    BY <2>1, <2>10 DEF CacheInv
  <2>12. QED
    BY <2>2, <2>4, <2>5, <2>7, <2>8, <2>9, <2>11 DEF CacheInv
<1>4. QED
  BY <1>1, <1>2, <1>3

LEMMA CacheInvInit == PreviewInit => CacheInv
<1> SUFFICES ASSUME PreviewInit
             PROVE  CacheInv
  OBVIOUS
<1>1. lruOrder = <<>> /\ sizes = [p \in Rows |-> 0] /\ currentSize = 0
  BY DEF PreviewInit
<1>2. lruOrder \in Seq(Rows) /\ DOMAIN lruOrder = {}
  BY <1>1
<1>3. IsInjective(lruOrder) /\ ToSet(lruOrder) = {}
  BY <1>2 DEF IsInjective, ToSet
<1>4. Cached = {}
  BY <1>1 DEF Cached
<1>5. Total(lruOrder, sizes) = 0
  BY <1>1, NothingHasNoBytes
<1>6. QED
  BY <1>1, <1>2, <1>3, <1>4, <1>5, PreviewAssumption DEF CacheInv

LEMMA CacheInvStep == CacheInv /\ [PreviewNext]_previewVars => CacheInv'
<1> SUFFICES ASSUME CacheInv, [PreviewNext]_previewVars
             PROVE  CacheInv'
  OBVIOUS
<1>1. ASSUME UNCHANGED cacheVars
      PROVE  CacheInv'
  BY <1>1 DEF CacheInv, cacheVars, Cached
<1>2. ASSUME NEW p \in Rows, LoadImage(p)
      PROVE  CacheInv'
  <2>1. PICK size \in ImageSizes[p] : AddImage(p, size)
    BY <1>2 DEF LoadImage
  <2>2. size \in Nat \ {0}
    BY PreviewAssumption
  <2>3. QED
    BY <2>1, <2>2, PreviewAssumption, AddKeepsCache
<1>3. CASE FindImage
  BY <1>3, RefreshKeepsCache DEF FindImage
<1>4. CASE (\E p \in Rows : Announce(p) \/ FailToLoad(p) \/ SetPhotoIndex(p))
           \/ TakePreviews \/ FindPixmap \/ RequestPreview
  BY <1>1, <1>4 DEF Announce, FailToLoad, SetPhotoIndex, TakePreviews, FindPixmap,
     RequestPreview
<1>5. CASE UNCHANGED previewVars
  BY <1>1, <1>5 DEF previewVars
<1>6. QED
  BY <1>2, <1>3, <1>4, <1>5 DEF PreviewNext, TaskStep, LookUp

\* NfCache keeps to its limit, whatever sizes the images have and come in, and
\* its sum of their sizes is right (add, get, evictUntilFits).
THEOREM MemoryCacheWithinLimit == PreviewSpec => []CacheWithinLimit
<1>1. CacheInv => CacheWithinLimit
  <2> SUFFICES ASSUME CacheInv
               PROVE  CacheWithinLimit
    OBVIOUS
  <2>1. Len(lruOrder) = Cardinality(Cached)
    BY AsLongAsMany DEF CacheInv
  <2>2. QED
    BY <2>1 DEF CacheInv, CacheWithinLimit
<1>2. QED
  BY CacheInvInit, CacheInvStep, <1>1, PTL DEF PreviewSpec

-----------------------------------------------------------------------------
(* The preview of the current photo.                                       *)

LEMMA OneOfTwo ==
  ASSUME NEW a \in Int, NEW b \in Int
  PROVE  /\ Max({a, b}) \in {a, b} /\ a <= Max({a, b}) /\ b <= Max({a, b})
         /\ Min({a, b}) \in {a, b} /\ Min({a, b}) <= a /\ Min({a, b}) <= b
<1> DEFINE S == {a, b}
<1>1. IsFiniteSet(S) /\ S # {} /\ S \subseteq Int /\ a \in S /\ b \in S
  <2>1. IsFiniteSet({a}) /\ IsFiniteSet({b}) /\ S = {a} \union {b}
    BY FS_Singleton
  <2>2. IsFiniteSet({a} \union {b})
    BY <2>1, FS_Union
  <2>3. QED
    BY <2>1, <2>2
<1> HIDE DEF S
<1>2. /\ Max(S) \in S /\ a <= Max(S) /\ b <= Max(S)
      /\ Min(S) \in S /\ Min(S) <= a /\ Min(S) <= b
  BY <1>1, LargestExists, SmallestExists
<1>3. QED
  BY <1>2 DEF S

\* The photo itself comes first, and nothing beyond the rows comes at all.
LEMMA AroundStartsThere ==
  ASSUME PreviewAssumption, NEW p \in Rows
  PROVE  Around(p) \in Seq(Rows) /\ Around(p) # <<>> /\ Head(Around(p)) = p
<1> DEFINE start == Max({1, p - PreviewRange})
           end == Min({RowCount, p + PreviewRange})
           before == [i \in 1..p - start |-> start + i - 1]
           after == [i \in 1..end - p |-> p + i]
<1>1. /\ RowCount \in Nat /\ PreviewRange \in Nat /\ p \in Int /\ 1 <= p /\ p <= RowCount
      /\ p - PreviewRange \in Int /\ p + PreviewRange \in Int
  BY DEF PreviewAssumption, Rows
<1>2. start \in Int /\ 1 <= start /\ start <= p
  <2> DEFINE one == 1
  <2>1. one \in Int /\ one = 1
    OBVIOUS
  <2> HIDE DEF one
  <2>2. /\ Max({one, p - PreviewRange}) \in {one, p - PreviewRange}
        /\ one <= Max({one, p - PreviewRange})
    BY <1>1, <2>1, OneOfTwo
  <2>3. QED
    BY <1>1, <2>1, <2>2
<1>3. end \in Int /\ p <= end /\ end <= RowCount
  <2> DEFINE last == p + PreviewRange
  <2>1. RowCount \in Int /\ last \in Int
    BY <1>1
  <2> HIDE DEF last
  <2>2. Min({RowCount, last}) \in {RowCount, last} /\ Min({RowCount, last}) <= RowCount
    BY <2>1, OneOfTwo
  <2>3. end \in {RowCount, p + PreviewRange} /\ end <= RowCount
    BY <2>2 DEF last
  <2> HIDE DEF end
  <2>4. QED
    BY <1>1, <2>3
<1>4. Around(p) = <<p>> \o before \o after
  BY DEF Around
<1> HIDE DEF start, end
<1>5. before \in Seq(Rows)
  <2>1. p - start \in Nat /\ \A i \in 1..p - start : start + i - 1 \in Rows
    BY <1>1, <1>2 DEF Rows
  <2>2. QED
    BY <2>1
<1>6. after \in Seq(Rows)
  <2>1. end - p \in Nat /\ \A i \in 1..end - p : p + i \in Rows
    BY <1>1, <1>3 DEF Rows
  <2>2. QED
    BY <2>1
<1> HIDE DEF before, after
<1>7. <<p>> \in Seq(Rows)
  OBVIOUS
<1>8. QED
  <2>1. <<p>> \o before \o after \in Seq(Rows)
    BY <1>5, <1>6, <1>7
  <2>2. <<p>> \o before \o after = <<p>> \o (before \o after)
    BY <1>5, <1>6, <1>7
  <2>3. (<<p>> \o before \o after)[1] = p /\ <<p>> \o before \o after # <<>>
    BY <1>5, <1>6
  <2>4. QED
    BY <1>4, <2>1, <2>3

PreviewTypes ==
  /\ tasks \in [Rows -> Nat] /\ adding \subseteq Rows /\ announced \subseteq Rows
  /\ current \in Rows \union {NoRow} /\ lookups \in Seq(Rows)

\* Together with its types, what PreviewIsComing says is inductive.
ComingInv == PreviewTypes /\ PreviewIsComing

LEMMA ComingInvInit == PreviewInit => ComingInv
BY DEF PreviewInit, ComingInv, PreviewTypes, PreviewIsComing

\* A step of a task passes the photo on.
LEMMA TaskStepComing ==
  ASSUME PreviewAssumption, ComingInv, NEW p \in Rows, TaskStep(p)
  PROVE  ComingInv'
<1> USE DEF ComingInv, PreviewTypes, PreviewIsComing, Wanted, viewVars
<1>1. CASE LoadImage(p)
  <2>1. /\ tasks' = [tasks EXCEPT ![p] = @ - 1] /\ adding' = adding \union {p} /\ tasks[p] > 0
        /\ UNCHANGED <<announced, failed, current, lookups, shown, crashed>>
    BY <1>1 DEF LoadImage
  <2>2. QED
    BY <2>1
<1>2. CASE Announce(p)
  BY <1>2 DEF Announce
<1>3. CASE FailToLoad(p)
  <2>1. /\ tasks' = [tasks EXCEPT ![p] = @ - 1] /\ failed' = (failed \/ p = current)
        /\ tasks[p] > 0
        /\ UNCHANGED <<adding, announced, current, lookups, shown, crashed>>
    BY <1>3 DEF FailToLoad
  <2>2. tasks' \in [Rows -> Nat] /\ \A q \in Rows : q # p => tasks'[q] = tasks[q]
    BY <2>1
  <2>3. PreviewTypes'
    BY <2>1, <2>2
  <2>4. CASE p = current
    BY <2>1, <2>3, <2>4
  <2>5. CASE p # current
    BY <2>1, <2>2, <2>3, <2>5
  <2>6. QED
    BY <2>4, <2>5
<1>4. QED
  BY <1>1, <1>2, <1>3 DEF TaskStep

\* What getPreview looks up is shown or asked for.
LEMMA LookUpComing ==
  ASSUME PreviewAssumption, ComingInv, LookUp
  PROVE  ComingInv'
<1> USE DEF ComingInv, PreviewTypes, PreviewIsComing
<1>1. lookups # <<>> /\ Wanted \in Rows /\ Tail(lookups) \in Seq(Rows)
  BY DEF LookUp, FindPixmap, FindImage, RequestPreview, Wanted
<1>2. CASE FindPixmap \/ (FindImage /\ UNCHANGED crashed)
  <2>1. CASE crashed' = TRUE
    BY <1>2, <2>1 DEF FindPixmap, FindImage, taskVars
  <2>2. CASE crashed' # TRUE
    <3>1. Give(Wanted) /\ UNCHANGED <<taskVars, crashed>>
      BY <1>2, <2>2 DEF FindPixmap, FindImage
    <3>2. QED
      BY <1>1, <3>1 DEF Give, taskVars
  <2>3. QED
    BY <2>1, <2>2
<1>3. CASE FindImage /\ crashed' # crashed
  <2>1. crashed' = TRUE /\ UNCHANGED <<current, lookups, taskVars>>
    BY <1>3 DEF FindImage
  <2>2. QED
    BY <2>1 DEF taskVars
<1>4. CASE RequestPreview
  <2>1. /\ tasks' = [tasks EXCEPT ![Wanted] = Min({@ + 1, MaxTasks[Wanted]})]
        /\ failed' = (failed /\ Wanted # current) /\ Give(NoRow)
        /\ UNCHANGED <<adding, announced, crashed>>
    BY <1>4 DEF RequestPreview
  <2>2. /\ Min({tasks[Wanted] + 1, MaxTasks[Wanted]}) \in Nat
        /\ Min({tasks[Wanted] + 1, MaxTasks[Wanted]}) > 0
    <3> DEFINE more == tasks[Wanted] + 1
               bound == MaxTasks[Wanted]
    <3>1. more \in Int /\ bound \in Int /\ more > 0 /\ bound > 0
      BY <1>1 DEF PreviewAssumption
    <3> HIDE DEF more, bound
    <3>2. Min({more, bound}) \in {more, bound}
      BY <3>1, OneOfTwo
    <3>3. Min({more, bound}) \in Nat /\ Min({more, bound}) > 0
      BY <3>1, <3>2
    <3>4. QED
      BY <3>3 DEF more, bound
  <2>3. /\ tasks' \in [Rows -> Nat] /\ tasks'[Wanted] > 0
        /\ \A q \in Rows : q # Wanted => tasks'[q] = tasks[q]
    BY <1>1, <2>1, <2>2
  <2>4. lookups' = Tail(lookups) /\ UNCHANGED current
    BY <2>1 DEF Give
  <2>5. PreviewTypes'
    BY <1>1, <2>1, <2>3, <2>4
  <2>6. CASE Wanted = current
    BY <2>3, <2>4, <2>5, <2>6
  <2>7. CASE Wanted # current
    BY <2>1, <2>3, <2>4, <2>5, <2>7 DEF Give
  <2>8. QED
    BY <2>6, <2>7
<1>5. QED
  BY <1>2, <1>3, <1>4 DEF LookUp, FindPixmap

LEMMA ComingInvStep == ComingInv /\ [PreviewNext]_previewVars => ComingInv'
<1> SUFFICES ASSUME ComingInv, [PreviewNext]_previewVars
             PROVE  ComingInv'
  OBVIOUS
<1> USE DEF ComingInv, PreviewTypes, PreviewIsComing, Wanted
<1>1. CASE \E p \in Rows : TaskStep(p)
  BY <1>1, TaskStepComing, PreviewAssumption
<1>2. ASSUME NEW p \in Rows, SetPhotoIndex(p)
      PROVE  ComingInv'
  <2>1. lookups' \in Seq(Rows) /\ lookups' # <<>> /\ Head(lookups') = p /\ current' = p
    BY <1>2, AroundStartsThere, PreviewAssumption DEF SetPhotoIndex
  <2>2. UNCHANGED <<tasks, adding, announced>>
    BY <1>2 DEF SetPhotoIndex
  <2>3. QED
    BY <2>1, <2>2
<1>3. CASE TakePreviews
  <2>1. /\ announced' = {} /\ lookups = <<>>
        /\ lookups' = IF current \in announced THEN Around(current) ELSE <<>>
        /\ UNCHANGED <<tasks, adding, failed, current, shown, crashed>>
    BY <1>3 DEF TakePreviews
  <2>2. CASE current \in announced
    <3>1. lookups' \in Seq(Rows) /\ lookups' # <<>> /\ Head(lookups') = current
      BY <2>1, <2>2, AroundStartsThere, PreviewAssumption
    <3>2. QED
      BY <2>1, <3>1
  <2>3. CASE current \notin announced
    BY <2>1, <2>3
  <2>4. QED
    BY <2>2, <2>3
<1>4. CASE LookUp
  BY <1>4, LookUpComing, PreviewAssumption
<1>5. CASE UNCHANGED previewVars
  BY <1>5 DEF previewVars, taskVars, viewVars
<1>6. QED
  BY <1>1, <1>2, <1>3, <1>4, <1>5 DEF PreviewNext

\* The view never waits for a preview that nobody is at, whatever the sizes of
\* the caches and however long the tasks take: what is evicted before it is
\* looked up is asked for again (getPreview, the task's handler, takePreviews).
THEOREM PreviewsAreComing == PreviewSpec => []PreviewIsComing
<1>1. ComingInv => PreviewIsComing
  BY DEF ComingInv
<1>2. QED
  BY ComingInvInit, ComingInvStep, <1>1, PTL DEF PreviewSpec

\* The memory cache is within its limit and no preview is forgotten in any
\* state, for all rows, sizes and limits (NfCache, NfPhotoProvider::getPreview,
\* takePreviews).
THEOREM PreviewsStaySound == PreviewSpec => []PreviewsAreSound
<1>1. CacheWithinLimit /\ PreviewIsComing => PreviewsAreSound
  BY DEF PreviewsAreSound
<1>2. QED
  BY <1>1, MemoryCacheWithinLimit, PreviewsAreComing, PTL

-----------------------------------------------------------------------------
(* The metadata of the current photo.                                      *)

\* The task has not called its handler yet.
Live(t) == phase[t] \in {"pending", "running"}

PanelTypes ==
  /\ photo \in Current /\ items \in Current
  /\ phase \in [Tasks -> Service!Phases]
  /\ photoOf \in [Tasks -> Current]
  /\ pendingRequests \in [Current -> Tasks \union {NoTask}]
  /\ metadataQueue \in Seq(Current) /\ IsInjective(metadataQueue)

\* A request has one task, and either that is live or its result is queued.
RequestsAccounted ==
  /\ \A t \in Tasks : Live(t) => pendingRequests[photoOf[t]] = t
  /\ \A p \in Current : pendingRequests[p] # NoTask =>
       /\ photoOf[pendingRequests[p]] = p /\ phase[pendingRequests[p]] # "new"
       /\ Live(pendingRequests[p]) <=> p \notin Queued
  /\ \A p \in Queued : pendingRequests[p] # NoTask

\* Who waits has asked.
PanelWaits == photo \in Readables /\ items # photo => pendingRequests[photo] # NoTask

PanelInv == PanelTypes /\ RequestsAccounted /\ PanelWaits

LEMMA PanelInvInit == PanelInit => PanelInv
<1> SUFFICES ASSUME PanelInit
             PROVE  PanelInv
  OBVIOUS
<1>1. /\ phase = [t \in Tasks |-> "new"] /\ photoOf = [t \in Tasks |-> NoPhoto]
      /\ pendingRequests = [p \in Current |-> NoTask] /\ metadataQueue = <<>>
      /\ photo = NoPhoto /\ items = NoPhoto
  BY DEF PanelInit, Service!Init
<1>2. metadataQueue \in Seq(Current) /\ IsInjective(metadataQueue) /\ Queued = {}
  <2>1. metadataQueue \in Seq(Current) /\ DOMAIN metadataQueue = {} /\ Len(metadataQueue) = 0
    BY <1>1
  <2>2. QED
    BY <2>1 DEF IsInjective, Queued
<1>3. PanelTypes
  BY <1>1, <1>2 DEF PanelTypes, Current, Service!Phases
<1>4. RequestsAccounted
  BY <1>1, <1>2 DEF RequestsAccounted, Live
<1>5. PanelWaits
  BY <1>1 DEF PanelWaits
<1>6. QED
  BY <1>3, <1>4, <1>5 DEF PanelInv

\* What a task's move does to the phases.
LEMMA PhaseMoves ==
  ASSUME PanelTypes, NEW t \in Tasks, NEW p \in Service!Phases, Service!Move({t}, p)
  PROVE  /\ phase' \in [Tasks -> Service!Phases] /\ phase'[t] = p
         /\ \A u \in Tasks : u # t => phase'[u] = phase[u]
BY DEF PanelTypes, Service!Move

\* A new request for a photo, or the one under way.
LEMMA RequestStep ==
  ASSUME MetadataAssumption, PanelInv, NEW p \in Current, RequestMetadata(p),
         UNCHANGED <<metadataQueue, file>>
  PROVE  /\ phase' \in [Tasks -> Service!Phases]
         /\ photoOf' \in [Tasks -> Current]
         /\ pendingRequests' \in [Current -> Tasks \union {NoTask}]
         /\ RequestsAccounted'
         /\ pendingRequests'[p] # NoTask
<1>1. CASE pendingRequests[p] # NoTask
  <2>1. UNCHANGED <<phase, photoOf, pendingRequests>>
    BY <1>1 DEF RequestMetadata, serviceVars
  <2>2. Queued' = Queued
    BY DEF Queued
  <2>3. QED
    BY <1>1, <2>1, <2>2 DEF PanelInv, PanelTypes, RequestsAccounted, Live
<1>2. CASE pendingRequests[p] = NoTask
  <2>1. PICK t \in Tasks :
          /\ Service!Submit(t, Critical)
          /\ photoOf' = [photoOf EXCEPT ![t] = p]
          /\ pendingRequests' = [pendingRequests EXCEPT ![p] = t]
    BY <1>2 DEF RequestMetadata
  <2>2. phase[t] = "new" /\ Service!Move({t}, "pending") /\ "pending" \in Service!Phases
    BY <2>1 DEF Service!Submit, Service!Phases
  <2>3. /\ phase' \in [Tasks -> Service!Phases] /\ phase'[t] = "pending"
        /\ \A u \in Tasks : u # t => phase'[u] = phase[u]
    BY <2>2, PhaseMoves DEF PanelInv
  <2>4. t # NoTask
    BY MetadataAssumption
  <2>5. /\ photoOf' \in [Tasks -> Current] /\ photoOf'[t] = p
        /\ \A u \in Tasks : u # t => photoOf'[u] = photoOf[u]
    BY <2>1 DEF PanelInv, PanelTypes
  <2>6. /\ pendingRequests' \in [Current -> Tasks \union {NoTask}]
        /\ pendingRequests'[p] = t
        /\ \A q \in Current : q # p => pendingRequests'[q] = pendingRequests[q]
    BY <2>1 DEF PanelInv, PanelTypes
  <2>7. Queued' = Queued /\ p \notin Queued
    BY <1>2 DEF Queued, PanelInv, RequestsAccounted
  <2>8. ~ Live(t) /\ \A q \in Current : pendingRequests[q] # t
    <3>1. ~ Live(t)
      BY <2>2 DEF Live
    <3>2. ASSUME NEW q \in Current, pendingRequests[q] = t
          PROVE  FALSE
      <4>1. phase[t] # "new"
        BY <2>4, <3>2 DEF PanelInv, RequestsAccounted
      <4>2. QED
        BY <2>2, <4>1
    <3>3. QED
      BY <3>1, <3>2
  <2>9. \A u \in Tasks : u # t => (Live(u)' <=> Live(u))
    BY <2>3 DEF Live
  <2>10. ASSUME NEW u \in Tasks, Live(u)'
         PROVE  pendingRequests'[photoOf'[u]] = u
    <3>1. CASE u = t
      BY <2>5, <2>6, <3>1
    <3>2. CASE u # t
      <4>1. pendingRequests[photoOf[u]] = u /\ photoOf[u] \in Current
        BY <2>9, <2>10, <3>2 DEF PanelInv, PanelTypes, RequestsAccounted
      <4>2. photoOf[u] # p
        BY <1>2, <4>1, MetadataAssumption
      <4>3. QED
        BY <2>5, <2>6, <3>2, <4>1, <4>2
    <3>3. QED
      BY <3>1, <3>2
  <2>11. ASSUME NEW q \in Current, pendingRequests'[q] # NoTask
         PROVE  /\ photoOf'[pendingRequests'[q]] = q
                /\ phase'[pendingRequests'[q]] # "new"
                /\ Live(pendingRequests[q])' <=> q \notin Queued'
    <3>1. CASE q = p
      BY <2>3, <2>5, <2>6, <2>7, <3>1 DEF Live
    <3>2. CASE q # p
      <4> DEFINE u == pendingRequests[q]
      <4>1. pendingRequests'[q] = u /\ u \in Tasks /\ u # t
        BY <2>6, <2>8, <2>11, <3>2 DEF PanelInv, PanelTypes
      <4>2. photoOf[u] = q /\ phase[u] # "new" /\ (Live(u) <=> q \notin Queued)
        BY <2>11, <4>1 DEF PanelInv, RequestsAccounted
      <4>3. photoOf'[u] = q /\ phase'[u] # "new"
        BY <2>3, <2>5, <4>1, <4>2
      <4>4. Live(u)' <=> Live(u)
        BY <2>3, <4>1 DEF Live
      <4>5. QED
        BY <2>7, <4>1, <4>2, <4>3, <4>4 DEF Live
    <3>3. QED
      BY <3>1, <3>2
  <2>12. \A q \in Queued' : pendingRequests'[q] # NoTask
    <3>1. ASSUME NEW q \in Queued
          PROVE  pendingRequests'[q] # NoTask
      <4>1. q \in Current /\ q # p /\ pendingRequests[q] # NoTask
        BY <2>7 DEF PanelInv, PanelTypes, RequestsAccounted, Queued
      <4>2. QED
        BY <2>6, <4>1
    <3>2. QED
      BY <2>7, <3>1
  <2>13. RequestsAccounted'
    BY <2>10, <2>11, <2>12 DEF RequestsAccounted, Live
  <2>14. QED
    BY <2>3, <2>4, <2>5, <2>6, <2>13
<1>3. QED
  BY <1>1, <1>2

\* A photo behind the others in the queue.
LEMMA OneMoreQueued ==
  ASSUME NEW S, NEW s \in Seq(S), IsInjective(s), NEW p \in S,
         p \notin {s[i] : i \in 1..Len(s)}
  PROVE  LET t == Append(s, p)
         IN /\ t \in Seq(S) /\ IsInjective(t)
            /\ {t[i] : i \in 1..Len(t)} = {s[i] : i \in 1..Len(s)} \union {p}
<1> DEFINE t == Append(s, p)
<1>1. Len(s) \in Nat /\ DOMAIN s = 1..Len(s)
  BY LenProperties
<1>2. /\ t \in Seq(S) /\ Len(t) = Len(s) + 1 /\ t[Len(s) + 1] = p
      /\ \A i \in 1..Len(s) : t[i] = s[i]
  BY AppendProperties
<1>3. DOMAIN t = 1..(Len(s) + 1)
  BY <1>2, LenProperties
<1> HIDE DEF t
<1>4. \A i \in 1..Len(s) : i \in 1..(Len(s) + 1) /\ i # Len(s) + 1
  BY <1>1
<1>5. \A i \in 1..(Len(s) + 1) : i = Len(s) + 1 \/ i \in 1..Len(s)
  BY <1>1
<1>6. IsInjective(t)
  <2> SUFFICES ASSUME NEW i \in 1..(Len(s) + 1), NEW j \in 1..(Len(s) + 1), t[i] = t[j]
               PROVE  i = j
    BY <1>3 DEF IsInjective
  <2>1. CASE i \in 1..Len(s) /\ j \in 1..Len(s)
    BY <1>1, <1>2, <2>1 DEF IsInjective
  <2>2. CASE i = Len(s) + 1 /\ j \in 1..Len(s)
    BY <1>2, <2>2
  <2>3. CASE j = Len(s) + 1 /\ i \in 1..Len(s)
    BY <1>2, <2>3
  <2>4. QED
    BY <1>5, <2>1, <2>2, <2>3
<1>7. {t[i] : i \in 1..Len(t)} = {s[i] : i \in 1..Len(s)} \union {p}
  <2>1. ASSUME NEW i \in 1..Len(t)
        PROVE  t[i] \in {s[j] : j \in 1..Len(s)} \union {p}
    BY <1>2, <1>5
  <2>2. Len(s) + 1 \in 1..Len(t) /\ \A i \in 1..Len(s) : i \in 1..Len(t) /\ t[i] = s[i]
    BY <1>1, <1>2, <1>4
  <2>3. {s[i] : i \in 1..Len(s)} \subseteq {t[i] : i \in 1..Len(t)}
    BY <2>2
  <2>4. p \in {t[i] : i \in 1..Len(t)}
    BY <1>2, <2>2
  <2>5. QED
    BY <2>1, <2>3, <2>4
<1>8. QED
  BY <1>2, <1>6, <1>7 DEF t

\* Who has read nothing new waits as before.
LEMMA StillWaits ==
  ASSUME PanelInv, UNCHANGED <<photo, items, file>>,
         photo \in Readables => pendingRequests'[photo] = pendingRequests[photo]
  PROVE  PanelWaits'
BY DEF PanelInv, PanelWaits, Readables, Readable

\* A live task that ends: its photo is not queued, so that nothing else is under
\* way for it.
LEMMA EndOfTask ==
  ASSUME MetadataAssumption, PanelInv, NEW t \in Tasks, Service!Report(t)
  PROVE  /\ photoOf[t] \in Current /\ pendingRequests[photoOf[t]] = t
         /\ photoOf[t] \notin Queued /\ Live(t) /\ t # NoTask
         /\ phase' \in [Tasks -> Service!Phases] /\ phase'[t] = "reported"
         /\ \A u \in Tasks : u # t => phase'[u] = phase[u]
<1>1. Service!Move({t}, "reported") /\ "reported" \in Service!Phases /\ phase[t] = "running"
  BY DEF Service!Report, Service!Phases
<1>2. Live(t) /\ t # NoTask
  BY <1>1, MetadataAssumption DEF Live
<1>3. photoOf[t] \in Current /\ pendingRequests[photoOf[t]] = t
  BY <1>2 DEF PanelInv, PanelTypes, RequestsAccounted
<1>4. photoOf[t] \notin Queued
  BY <1>2, <1>3 DEF PanelInv, RequestsAccounted
<1>5. QED
  BY <1>1, <1>2, <1>3, <1>4, PhaseMoves DEF PanelInv

LEMMA FailTaskStep ==
  ASSUME MetadataAssumption, PanelInv, NEW t \in Tasks, FailTask(t)
  PROVE  PanelInv'
<1> DEFINE p == photoOf[t]
<1>1. /\ Service!Report(t) /\ ~Readable(p)
      /\ pendingRequests' = [pendingRequests EXCEPT ![p] = NoTask]
      /\ UNCHANGED <<photoOf, metadataQueue, file, photo, items>>
  BY DEF FailTask
<1>2. /\ p \in Current /\ pendingRequests[p] = t /\ p \notin Queued /\ t # NoTask
      /\ phase' \in [Tasks -> Service!Phases] /\ phase'[t] = "reported"
      /\ \A u \in Tasks : u # t => phase'[u] = phase[u]
  BY <1>1, EndOfTask
<1>3. /\ pendingRequests' \in [Current -> Tasks \union {NoTask}]
      /\ pendingRequests'[p] = NoTask
      /\ \A q \in Current : q # p => pendingRequests'[q] = pendingRequests[q]
  BY <1>1, <1>2 DEF PanelInv, PanelTypes
<1>4. Queued' = Queued
  BY <1>1 DEF Queued
<1>5. PanelTypes'
  BY <1>1, <1>2, <1>3 DEF PanelInv, PanelTypes, Current
<1>6. ASSUME NEW u \in Tasks, Live(u)'
      PROVE  pendingRequests'[photoOf'[u]] = u
  <2>1. u # t /\ Live(u)
    BY <1>2, <1>6 DEF Live
  <2>2. pendingRequests[photoOf[u]] = u /\ photoOf[u] \in Current
    BY <2>1 DEF PanelInv, PanelTypes, RequestsAccounted
  <2>3. photoOf[u] # p
    BY <1>2, <2>1, <2>2
  <2>4. QED
    BY <1>1, <1>3, <2>2, <2>3
<1>7. ASSUME NEW q \in Current, pendingRequests'[q] # NoTask
      PROVE  /\ photoOf'[pendingRequests'[q]] = q
             /\ phase'[pendingRequests'[q]] # "new"
             /\ Live(pendingRequests[q])' <=> q \notin Queued'
  <2> DEFINE u == pendingRequests[q]
  <2>1. q # p /\ pendingRequests'[q] = u /\ u \in Tasks
    BY <1>3, <1>7 DEF PanelInv, PanelTypes
  <2>2. photoOf[u] = q /\ phase[u] # "new" /\ (Live(u) <=> q \notin Queued)
    BY <1>7, <2>1 DEF PanelInv, RequestsAccounted
  <2>3. u # t
    BY <2>1, <2>2
  <2>4. QED
    BY <1>1, <1>2, <1>4, <2>1, <2>2, <2>3 DEF Live
<1>8. \A q \in Queued' : pendingRequests'[q] # NoTask
  <2>1. ASSUME NEW q \in Queued
        PROVE  pendingRequests'[q] # NoTask
    <3>1. q \in Current /\ q # p /\ pendingRequests[q] # NoTask
      BY <1>2 DEF PanelInv, PanelTypes, RequestsAccounted, Queued
    <3>2. QED
      BY <1>3, <3>1
  <2>2. QED
    BY <1>4, <2>1
<1>9. RequestsAccounted'
  BY <1>6, <1>7, <1>8 DEF RequestsAccounted, Live
<1>10. photo \in Readables => photo # p /\ photo \in Current
  BY <1>1 DEF Readables
<1>11. PanelWaits'
  BY <1>1, <1>3, <1>10, StillWaits
<1>12. QED
  BY <1>5, <1>9, <1>11 DEF PanelInv

LEMMA FinishTaskStep ==
  ASSUME MetadataAssumption, PanelInv, NEW t \in Tasks, FinishTask(t)
  PROVE  PanelInv'
<1> DEFINE p == photoOf[t]
<1>1. /\ Service!Report(t)
      /\ metadataQueue' = Append(metadataQueue, p)
      /\ UNCHANGED <<photoOf, pendingRequests, file, photo, items>>
  BY DEF FinishTask
<1>2. /\ p \in Current /\ pendingRequests[p] = t /\ p \notin Queued /\ t # NoTask
      /\ phase' \in [Tasks -> Service!Phases] /\ phase'[t] = "reported"
      /\ \A u \in Tasks : u # t => phase'[u] = phase[u]
  BY <1>1, EndOfTask
<1>3. /\ metadataQueue' \in Seq(Current) /\ IsInjective(metadataQueue')
      /\ Queued' = Queued \union {p}
  BY <1>1, <1>2, OneMoreQueued DEF PanelInv, PanelTypes, Queued
<1>4. PanelTypes'
  BY <1>1, <1>2, <1>3 DEF PanelInv, PanelTypes, Current
<1>5. ASSUME NEW u \in Tasks, Live(u)'
      PROVE  pendingRequests'[photoOf'[u]] = u
  BY <1>1, <1>2, <1>5 DEF Live, PanelInv, RequestsAccounted
<1>6. ASSUME NEW q \in Current, pendingRequests'[q] # NoTask
      PROVE  /\ photoOf'[pendingRequests'[q]] = q
             /\ phase'[pendingRequests'[q]] # "new"
             /\ Live(pendingRequests[q])' <=> q \notin Queued'
  <2> DEFINE u == pendingRequests[q]
  <2>1. pendingRequests'[q] = u /\ u \in Tasks
    BY <1>1, <1>6 DEF PanelInv, PanelTypes
  <2>2. photoOf[u] = q /\ phase[u] # "new" /\ (Live(u) <=> q \notin Queued)
    BY <1>1, <1>6 DEF PanelInv, RequestsAccounted
  <2>3. CASE q = p
    BY <1>1, <1>2, <1>3, <2>3 DEF Live
  <2>4. CASE q # p
    <3>1. u # t
      BY <2>2, <2>4
    <3>2. QED
      BY <1>1, <1>2, <1>3, <2>1, <2>2, <2>4, <3>1 DEF Live
  <2>5. QED
    BY <2>3, <2>4
<1>7. \A q \in Queued' : pendingRequests'[q] # NoTask
  BY <1>1, <1>2, <1>3 DEF PanelInv, RequestsAccounted
<1>8. RequestsAccounted'
  BY <1>5, <1>6, <1>7 DEF RequestsAccounted, Live
<1>9. PanelWaits'
  BY <1>1, StillWaits
<1>10. QED
  BY <1>4, <1>8, <1>9 DEF PanelInv

\* Starting and releasing a task change nothing that is waited for.
LEMMA WorkerStep ==
  ASSUME PanelInv, NEW t \in Tasks, StartTask(t) \/ ReleaseTask(t)
  PROVE  PanelInv'
<1>1. UNCHANGED <<photoOf, pendingRequests, metadataQueue, file, photo, items>>
  BY DEF StartTask, ReleaseTask, loaderVars
<1>2. PICK n \in {"running", "finalized"} :
        /\ Service!Move({t}, n)
        /\ n = "running" => phase[t] = "pending"
        /\ n = "finalized" => phase[t] = "reported"
  BY DEF StartTask, ReleaseTask, Service!Start, Service!Finalize
<1>3. n \in Service!Phases
  BY <1>2 DEF Service!Phases
<1>4. /\ phase' \in [Tasks -> Service!Phases] /\ phase'[t] = n
      /\ \A u \in Tasks : u # t => phase'[u] = phase[u]
  BY <1>2, <1>3, PhaseMoves DEF PanelInv
<1>5. \A u \in Tasks : /\ (Live(u)' <=> Live(u))
                       /\ phase[u] # "new" => phase'[u] # "new"
  BY <1>2, <1>4 DEF Live
<1>6. Queued' = Queued
  BY <1>1 DEF Queued
<1>7. PanelTypes'
  BY <1>1, <1>4 DEF PanelInv, PanelTypes, Current
<1>8. ASSUME NEW q \in Current, pendingRequests[q] # NoTask
      PROVE  /\ phase'[pendingRequests[q]] # "new"
             /\ Live(pendingRequests[q])' <=> q \notin Queued
  <2> DEFINE u == pendingRequests[q]
  <2>1. u \in Tasks /\ pendingRequests'[q] = u
    BY <1>1, <1>8 DEF PanelInv, PanelTypes
  <2>2. phase[u] # "new" /\ (Live(u) <=> q \notin Queued)
    BY <1>8 DEF PanelInv, RequestsAccounted
  <2>3. phase'[u] # "new" /\ (Live(u)' <=> Live(u))
    BY <1>5, <2>1, <2>2
  <2>4. QED
    BY <1>1, <2>1, <2>2, <2>3 DEF Live
<1>9. RequestsAccounted'
  BY <1>1, <1>5, <1>6, <1>8 DEF PanelInv, RequestsAccounted, Live
<1>10. PanelWaits'
  BY <1>1, StillWaits
<1>11. QED
  BY <1>7, <1>9, <1>10 DEF PanelInv

LEMMA SetPhotoStep ==
  ASSUME MetadataAssumption, PanelInv, NEW p \in Current, SetPhoto(p)
  PROVE  PanelInv'
<1>1. photo' = p /\ RequestMetadata(p) /\ UNCHANGED <<metadataQueue, file, items>>
  BY DEF SetPhoto
<1>2. /\ phase' \in [Tasks -> Service!Phases] /\ photoOf' \in [Tasks -> Current]
      /\ pendingRequests' \in [Current -> Tasks \union {NoTask}]
      /\ RequestsAccounted' /\ pendingRequests'[p] # NoTask
  BY <1>1, RequestStep
<1>3. QED
  BY <1>1, <1>2 DEF PanelInv, PanelTypes, PanelWaits, Current

LEMMA TakeMetadataStep ==
  ASSUME MetadataAssumption, PanelInv, TakeMetadata
  PROVE  PanelInv'
<1>1. /\ metadataQueue' = <<>>
      /\ pendingRequests' = [p \in Current |-> IF p \in Queued THEN NoTask
                                               ELSE pendingRequests[p]]
      /\ items' = IF photo \in Queued THEN photo ELSE items
      /\ UNCHANGED <<phase, photoOf, file, photo>>
  BY DEF TakeMetadata, serviceVars
<1>2. metadataQueue' \in Seq(Current) /\ IsInjective(metadataQueue') /\ Queued' = {}
  <2>1. /\ metadataQueue' \in Seq(Current) /\ DOMAIN metadataQueue' = {}
        /\ Len(metadataQueue') = 0
    BY <1>1
  <2>2. QED
    BY <2>1 DEF IsInjective, Queued
<1>3. PanelTypes'
  BY <1>1, <1>2 DEF PanelInv, PanelTypes, Current
<1>4. ASSUME NEW u \in Tasks, Live(u)'
      PROVE  pendingRequests'[photoOf'[u]] = u
  <2>1. Live(u) /\ u # NoTask
    BY <1>1, <1>4, MetadataAssumption DEF Live
  <2>2. pendingRequests[photoOf[u]] = u /\ photoOf[u] \in Current
    BY <2>1 DEF PanelInv, PanelTypes, RequestsAccounted
  <2>3. photoOf[u] \notin Queued
    BY <2>1, <2>2 DEF PanelInv, RequestsAccounted
  <2>4. QED
    BY <1>1, <2>2, <2>3
<1>5. ASSUME NEW q \in Current, pendingRequests'[q] # NoTask
      PROVE  /\ photoOf'[pendingRequests'[q]] = q
             /\ phase'[pendingRequests'[q]] # "new"
             /\ Live(pendingRequests[q])' <=> q \notin Queued'
  BY <1>1, <1>2, <1>5 DEF PanelInv, RequestsAccounted, Live
<1>6. RequestsAccounted'
  BY <1>2, <1>4, <1>5 DEF RequestsAccounted, Live
<1>7. Readables' = Readables
  BY <1>1 DEF Readables, Readable
<1>8. PanelWaits'
  BY <1>1, <1>7 DEF PanelInv, PanelTypes, PanelWaits
<1>9. QED
  BY <1>3, <1>6, <1>8 DEF PanelInv

LEMMA PanelInvStep == PanelInv /\ [PanelNext]_panelVars => PanelInv'
<1> SUFFICES ASSUME PanelInv, [PanelNext]_panelVars
             PROVE  PanelInv'
  OBVIOUS
<1>1. CASE UNCHANGED panelVars
  BY <1>1 DEF panelVars, serviceVars, loaderVars, PanelInv, PanelTypes, RequestsAccounted,
     PanelWaits, Live, Queued, Readables, Readable, Current
<1>2. CASE PanelNext
  BY <1>2, MetadataAssumption, SetPhotoStep, WorkerStep, FailTaskStep, FinishTaskStep,
     TakeMetadataStep DEF PanelNext
<1>3. QED
  BY <1>1, <1>2

-----------------------------------------------------------------------------
(* The sections of the panel.                                              *)

FileKeys ==
  {"Name", "Path", "Size", "Format", "Dimensions", "Date taken", "Camera maker",
   "Camera model", "Lens", "Aspect ratio", "ISO", "Aperture", "Shutter speed",
   "Focal length", "Rating", "Tags", "Title", "Description", "Author", "License",
   "Bit depth", "Color space", "Orientation", "EXIF"}

PositionKeys == {"Latitude", "Longitude", "Altitude"}

\* Each key that a row may have is let through by one filter.
LEMMA KeysHaveOneSection ==
  /\ \A k \in FileKeys : \E s \in DOMAIN SectionKeys :
       /\ s # "location" /\ k \in SectionKeys[s]
       /\ \A r \in DOMAIN SectionKeys \ {s} : k \notin SectionKeys[r]
  /\ \A k \in PositionKeys :
       /\ "location" \in DOMAIN SectionKeys /\ k \in SectionKeys["location"]
       /\ \A r \in DOMAIN SectionKeys \ {"location"} : k \notin SectionKeys[r]
<1>1. DOMAIN SectionKeys
        = {"image", "capture", "location", "organization", "description", "technical"}
  BY DEF SectionKeys
<1>2. /\ SectionKeys["image"] = {"Name", "Path", "Size", "Format", "Dimensions"}
      /\ SectionKeys["capture"]
           = {"Date taken", "Camera maker", "Camera model", "Lens", "Aspect ratio",
              "ISO", "Aperture", "Shutter speed", "Focal length"}
      /\ SectionKeys["location"]
           = {"Latitude", "Longitude", "Altitude", "GPS Timestamp", "Positioning Method"}
      /\ SectionKeys["organization"] = {"Rating", "Tags", "Collections", "Project"}
      /\ SectionKeys["description"]
           = {"Title", "Description", "Author", "Copyright", "License", "Keywords"}
      /\ SectionKeys["technical"]
           = {"Bit depth", "Color space", "Compression", "Orientation", "EXIF",
              "IPTC", "XMP", "Software", "Modification Date"}
  BY DEF SectionKeys
<1>3. \A s, r \in DOMAIN SectionKeys : \A k \in SectionKeys[s] :
        k \in SectionKeys[r] => r = s
  <2> SUFFICES ASSUME NEW s \in DOMAIN SectionKeys, NEW r \in DOMAIN SectionKeys, r # s,
                      NEW k \in SectionKeys[s]
               PROVE  k \notin SectionKeys[r]
    OBVIOUS
  <2>1. CASE s = "image"
    BY <1>1, <1>2, <2>1
  <2>2. CASE s = "capture"
    BY <1>1, <1>2, <2>2
  <2>3. CASE s = "location"
    BY <1>1, <1>2, <2>3
  <2>4. CASE s = "organization"
    BY <1>1, <1>2, <2>4
  <2>5. CASE s = "description"
    BY <1>1, <1>2, <2>5
  <2>6. CASE s = "technical"
    BY <1>1, <1>2, <2>6
  <2>7. QED
    BY <1>1, <2>1, <2>2, <2>3, <2>4, <2>5, <2>6
<1>4. \A k \in FileKeys : \E s \in DOMAIN SectionKeys \ {"location"} : k \in SectionKeys[s]
  <2>1. \A k \in FileKeys :
          \/ k \in SectionKeys["image"] \/ k \in SectionKeys["capture"]
          \/ k \in SectionKeys["organization"] \/ k \in SectionKeys["description"]
          \/ k \in SectionKeys["technical"]
    BY <1>2 DEF FileKeys
  <2>2. {"image", "capture", "organization", "description", "technical"}
          \subseteq DOMAIN SectionKeys \ {"location"}
    BY <1>1
  <2>3. QED
    BY <2>1, <2>2
<1>5. \A k \in PositionKeys : k \in SectionKeys["location"]
  BY <1>2 DEF PositionKeys
<1>6. "location" \in DOMAIN SectionKeys
  BY <1>1
<1>7. QED
  BY <1>3, <1>4, <1>5, <1>6

\* The rows are those every file has, and those of its position.
LEMMA KeysOfRows ==
  ASSUME NEW p, NEW m
  PROVE  /\ \A row \in FileRows(p, m) : row[1] \in FileKeys
         /\ \A row \in PositionRows(m) : row[1] \in PositionKeys
<1>1. \A row \in FileRows(p, m) : row[1] \in FileKeys
  <2> SUFFICES ASSUME NEW row \in FileRows(p, m)
               PROVE  row[1] \in FileKeys
    OBVIOUS
  <2>1. \/ \E v, w : row = <<"Size", v, w>> \/ row = <<"Dimensions", v, w>>
        \/ \E v : \E k \in FileKeys : row = <<k, v>>
    BY ZenonT(60) DEF FileRows, FileKeys
  <2>2. "Size" \in FileKeys /\ "Dimensions" \in FileKeys
    BY DEF FileKeys
  <2>3. QED
    <3>1. CASE \E v, w : row = <<"Size", v, w>> \/ row = <<"Dimensions", v, w>>
      <4>1. PICK v, w : row = <<"Size", v, w>> \/ row = <<"Dimensions", v, w>>
        BY <3>1
      <4>2. row[1] = "Size" \/ row[1] = "Dimensions"
        BY <4>1
      <4>3. QED
        BY <2>2, <4>2
    <3>2. CASE \E v : \E k \in FileKeys : row = <<k, v>>
      <4>1. PICK v : \E k \in FileKeys : row = <<k, v>>
        BY <3>2
      <4>2. PICK k \in FileKeys : row = <<k, v>>
        BY <4>1
      <4>3. row[1] = k
        BY <4>2
      <4>4. QED
        BY <4>3
    <3>3. QED
      BY <2>1, <3>1, <3>2
<1>2. \A row \in PositionRows(m) : row[1] \in PositionKeys
  BY DEF PositionRows, PositionKeys
<1>3. QED
  BY <1>1, <1>2

\* So the location has what the position rows are, which are three or none.
LEMMA LocationRows ==
  ASSUME NEW p, NEW m
  PROVE  /\ Section(PanelRows(p, m), "location") = PositionRows(m)
         /\ Cardinality(PositionRows(m)) = IF m.hasGps THEN 3 ELSE 0
<1>1. Section(PanelRows(p, m), "location") = PositionRows(m)
  <2>1. ASSUME NEW row \in FileRows(p, m)
        PROVE  row[1] \notin SectionKeys["location"]
    <3>1. row[1] \in FileKeys
      BY KeysOfRows
    <3>2. \A k \in FileKeys : k \notin SectionKeys["location"]
      <4>1. ASSUME NEW k \in FileKeys
            PROVE  k \notin SectionKeys["location"]
        <5>1. PICK s \in DOMAIN SectionKeys :
                s # "location" /\ \A r \in DOMAIN SectionKeys \ {s} : k \notin SectionKeys[r]
          BY KeysHaveOneSection
        <5>2. "location" \in DOMAIN SectionKeys \ {s}
          BY <5>1 DEF SectionKeys
        <5>3. QED
          BY <5>1, <5>2
      <4>2. QED
        BY <4>1
    <3>3. QED
      BY <3>1, <3>2
  <2>2. \A row \in PositionRows(m) : row[1] \in SectionKeys["location"]
    BY KeysOfRows, KeysHaveOneSection
  <2>3. QED
    BY <2>1, <2>2 DEF Section, PanelRows
<1>2. ASSUME m.hasGps
      PROVE  Cardinality(PositionRows(m)) = 3
  <2> DEFINE x == <<"Latitude", m.location.latitude>>
             y == <<"Longitude", m.location.longitude>>
             z == <<"Altitude", m.location.altitude>>
  <2>1. x # y /\ x # z /\ y # z
    <3>1. x[1] = "Latitude" /\ y[1] = "Longitude" /\ z[1] = "Altitude"
      OBVIOUS
    <3> HIDE DEF x, y, z
    <3>2. QED
      BY <3>1
  <2>2. PositionRows(m) = ({x} \union {y}) \union {z}
    BY <1>2 DEF PositionRows
  <2> HIDE DEF x, y, z
  <2>3. IsFiniteSet({x}) /\ Cardinality({x}) = 1
    BY FS_Singleton
  <2>4. IsFiniteSet({x} \union {y}) /\ Cardinality({x} \union {y}) = 2
    BY <2>1, <2>3, FS_AddElement
  <2>5. Cardinality(({x} \union {y}) \union {z}) = 3
    BY <2>1, <2>4, FS_AddElement
  <2>6. QED
    BY <2>2, <2>5
<1>3. ASSUME ~ m.hasGps
      PROVE  Cardinality(PositionRows(m)) = 0
  <2>1. PositionRows(m) = {}
    BY <1>3 DEF PositionRows
  <2>2. QED
    BY <2>1, FS_EmptySet
<1>4. QED
  BY <1>1, <1>2, <1>3

\* What the extractor makes of the camera leaves the position alone.
LEMMA PositionIsRead ==
  ASSUME NEW f
  PROVE  Metadata(f).hasGps <=> Positioned(f)
<1> DEFINE read == IF f.format = "Raw" THEN RawMetadata(f) ELSE ExifMetadata(f)
<1>1. /\ read.hasGps <=> Positioned(f)
      /\ "hasGps" \in DOMAIN read
  <2>1. CASE f.format = "Raw"
    BY <2>1 DEF RawMetadata, Positioned
  <2>2. CASE f.format # "Raw"
    BY <2>2 DEF ExifMetadata, Positioned, HasGps, Text
  <2>3. QED
    BY <2>1, <2>2
<1> HIDE DEF read
<1>2. Metadata(f).hasGps = read.hasGps
  BY <1>1 DEF Metadata, read
<1>3. QED
  BY <1>1, <1>2

\* Every row is in one section, the location in its own.
LEMMA EachRowInOneSection ==
  ASSUME NEW p, NEW f
  PROVE  LET rows == PanelRows(p, Metadata(f))
         IN /\ \A row \in rows : \E s \in DOMAIN SectionKeys :
                 /\ row \in Section(rows, s)
                 /\ \A r \in DOMAIN SectionKeys \ {s} : row \notin Section(rows, r)
            /\ Cardinality(Section(rows, "location")) = IF Positioned(f) THEN 3 ELSE 0
<1> DEFINE rows == PanelRows(p, Metadata(f))
<1>1. ASSUME NEW row \in rows
      PROVE  \E s \in DOMAIN SectionKeys :
               /\ row[1] \in SectionKeys[s]
               /\ \A r \in DOMAIN SectionKeys \ {s} : row[1] \notin SectionKeys[r]
  <2>1. row[1] \in FileKeys \/ row[1] \in PositionKeys
    BY KeysOfRows DEF PanelRows
  <2>2. QED
    BY <2>1, KeysHaveOneSection
<1>2. \A row \in rows : \E s \in DOMAIN SectionKeys :
        /\ row \in Section(rows, s)
        /\ \A r \in DOMAIN SectionKeys \ {s} : row \notin Section(rows, r)
  <2> HIDE DEF rows
  <2>1. QED
    BY <1>1 DEF Section
<1>3. Cardinality(Section(rows, "location")) = IF Positioned(f) THEN 3 ELSE 0
  BY LocationRows, PositionIsRead
<1>4. QED
  BY <1>2, <1>3

\* A request is one live task or one queued result, and no more.
LEMMA OneOnItsWay ==
  ASSUME MetadataAssumption, PanelInv, NEW p \in Current
  PROVE  LET live == {t \in Tasks : photoOf[t] = p /\ phase[t] \in {"pending", "running"}}
         IN /\ Cardinality(live) + Cardinality({i \in 1..Len(metadataQueue) :
                                                 metadataQueue[i] = p}) <= 1
            /\ (live # {} \/ p \in Queued) <=> pendingRequests[p] # NoTask
<1> DEFINE live == {t \in Tasks : photoOf[t] = p /\ phase[t] \in {"pending", "running"}}
           places == {i \in 1..Len(metadataQueue) : metadataQueue[i] = p}
<1>1. \A t \in live : t = pendingRequests[p] /\ t # NoTask
  BY MetadataAssumption DEF PanelInv, RequestsAccounted, Live
<1>2. DOMAIN metadataQueue = 1..Len(metadataQueue)
  BY LenProperties DEF PanelInv, PanelTypes
<1>3. \A i, j \in places : i = j
  BY <1>2 DEF PanelInv, PanelTypes, IsInjective
<1>4. places # {} <=> p \in Queued
  BY DEF Queued
<1>5. pendingRequests[p] # NoTask =>
        /\ pendingRequests[p] \in Tasks /\ photoOf[pendingRequests[p]] = p
        /\ Live(pendingRequests[p]) <=> p \notin Queued
  BY DEF PanelInv, PanelTypes, RequestsAccounted
<1>6. p \in Queued => pendingRequests[p] # NoTask
  BY DEF PanelInv, RequestsAccounted
<1>7. (live # {} \/ p \in Queued) <=> pendingRequests[p] # NoTask
  BY <1>1, <1>5, <1>6 DEF Live
<1>8. live = {} \/ p \notin Queued
  BY <1>1, <1>5 DEF Live
<1>9. live = {} \/ \E t : live = {t}
  <2>1. live \subseteq {pendingRequests[p]}
    BY <1>1
  <2> HIDE DEF live
  <2>2. QED
    BY <2>1
<1>10. places = {} \/ \E i : places = {i}
  BY <1>3
<1> HIDE DEF live, places
<1>11. Cardinality(live) \in {0, 1} /\ Cardinality(places) \in {0, 1}
  BY <1>9, <1>10, FS_EmptySet, FS_Singleton
<1>12. live = {} => Cardinality(live) = 0
  BY FS_EmptySet
<1>13. p \notin Queued => Cardinality(places) = 0
  BY <1>4, FS_EmptySet
<1>14. Cardinality(live) + Cardinality(places) <= 1
  BY <1>8, <1>11, <1>12, <1>13
<1>15. QED
  BY <1>7, <1>14 DEF live, places

\* The panel keeps in step with the browser for any number of tasks, photos and
\* threads, whatever the files are: what it waits for is under way, once.
THEOREM PanelKeepsInStep == PanelSpec => []PanelInStep
<1>1. PanelInv => PanelInStep
  <2> SUFFICES ASSUME PanelInv
               PROVE  PanelInStep
    OBVIOUS
  <2>1. photo \in Readables /\ items # photo => pendingRequests[photo] # NoTask
    BY DEF PanelInv, PanelWaits
  <2>2. QED
    BY <2>1, MetadataAssumption, OneOnItsWay, EachRowInOneSection DEF PanelInStep
<1>2. QED
  BY PanelInvInit, PanelInvStep, <1>1, PTL DEF PanelSpec

-----------------------------------------------------------------------------
(* The orientation of an image.                                            *)

\* Each tag has its orientation; any other number none.
LEMMA OrientationOfTag ==
  /\ OrientationFromExif(1) = Normal
  /\ OrientationFromExif(2) = FlipHorizontal
  /\ OrientationFromExif(3) = Rotate180
  /\ OrientationFromExif(4) = FlipVertical
  /\ OrientationFromExif(5) = Rotate90CWFlipHorizontal
  /\ OrientationFromExif(6) = Rotate90CW
  /\ OrientationFromExif(7) = Rotate90CWFlipVertical
  /\ OrientationFromExif(8) = Rotate270CW
  /\ \A tag \in Int : tag \notin 1..8 => OrientationFromExif(tag) = Normal
BY DEF OrientationFromExif

Turns == 0..7

LEMMA OrientationIsOne ==
  ASSUME NEW tag \in Int
  PROVE  OrientationFromExif(tag) \in Turns
<1> USE DEF Turns, Normal, FlipHorizontal, Rotate180, FlipVertical, Rotate90CWFlipHorizontal,
        Rotate90CW, Rotate90CWFlipVertical, Rotate270CW
<1>1. CASE tag \in 1..8
  BY <1>1, OrientationOfTag
<1>2. CASE tag \notin 1..8
  BY <1>2, OrientationOfTag
<1>3. QED
  BY <1>1, <1>2

\* Where each orientation sends a pixel, and how large the picture becomes.
LEMMA WhereMoved ==
  ASSUME NEW w, NEW h, NEW x, NEW y
  PROVE  /\ Moved(Normal, w, h, x, y) = <<x, y>>
         /\ Moved(FlipVertical, w, h, x, y) = <<x, h - 1 - y>>
         /\ Moved(FlipHorizontal, w, h, x, y) = <<w - 1 - x, y>>
         /\ Moved(Rotate180, w, h, x, y) = <<w - 1 - x, h - 1 - y>>
         /\ Moved(Rotate90CWFlipVertical, w, h, x, y) = <<h - 1 - y, w - 1 - x>>
         /\ Moved(Rotate270CW, w, h, x, y) = <<y, w - 1 - x>>
         /\ Moved(Rotate90CW, w, h, x, y) = <<h - 1 - y, x>>
         /\ Moved(Rotate90CWFlipHorizontal, w, h, x, y) = <<y, x>>
         /\ \A o \in {Normal, FlipVertical, FlipHorizontal, Rotate180} :
              MovedSize(o, w, h) = <<w, h>>
         /\ \A o \in {Rotate90CWFlipVertical, Rotate270CW, Rotate90CW,
                      Rotate90CWFlipHorizontal} :
              MovedSize(o, w, h) = <<h, w>>
BY DEF Moved, MovedSize, SwapsDimensions, Normal, FlipVertical, FlipHorizontal, Rotate180,
   Rotate90CWFlipVertical, Rotate270CW, Rotate90CW, Rotate90CWFlipHorizontal

\* For a picture of any size and each of the eight tags, applyOrientation sends
\* each pixel where the EXIF standard has it.
THEOREM PixelsGoUpright ==
  ASSUME NEW tag \in 1..8, NEW w \in Nat, NEW h \in Nat, NEW x \in 0..w - 1, NEW y \in 0..h - 1
  PROVE  Upright(tag, OrientationFromExif(tag), w, h, x, y)
<1>1. CASE tag = 1
  BY <1>1, OrientationOfTag, WhereMoved DEF Upright, Distance, RowZeroAt, ColumnZeroAt
<1>2. CASE tag = 2
  BY <1>2, OrientationOfTag, WhereMoved DEF Upright, Distance, RowZeroAt, ColumnZeroAt
<1>3. CASE tag = 3
  BY <1>3, OrientationOfTag, WhereMoved DEF Upright, Distance, RowZeroAt, ColumnZeroAt
<1>4. CASE tag = 4
  BY <1>4, OrientationOfTag, WhereMoved DEF Upright, Distance, RowZeroAt, ColumnZeroAt
<1>5. CASE tag = 5
  BY <1>5, OrientationOfTag, WhereMoved DEF Upright, Distance, RowZeroAt, ColumnZeroAt
<1>6. CASE tag = 6
  BY <1>6, OrientationOfTag, WhereMoved DEF Upright, Distance, RowZeroAt, ColumnZeroAt
<1>7. CASE tag = 7
  BY <1>7, OrientationOfTag, WhereMoved DEF Upright, Distance, RowZeroAt, ColumnZeroAt
<1>8. CASE tag = 8
  BY <1>8, OrientationOfTag, WhereMoved DEF Upright, Distance, RowZeroAt, ColumnZeroAt
<1>9. QED
  BY <1>1, <1>2, <1>3, <1>4, <1>5, <1>6, <1>7, <1>8

\* For a picture of any size and any of the eight turns, the pixels
\* applyOrientation moves fill the turned picture, so that none is lost and none
\* unset.
THEOREM PixelsFill ==
  ASSUME NEW o \in Turns, NEW w \in Nat, NEW h \in Nat
  PROVE  Fills(o, w, h)
<1> DEFINE size == MovedSize(o, w, h)
           places == {Moved(o, w, h, x, y) : x \in 0..w - 1, y \in 0..h - 1}
<1>1. o \in {Normal, FlipHorizontal, Rotate180, FlipVertical, Rotate90CWFlipHorizontal,
             Rotate90CW, Rotate90CWFlipVertical, Rotate270CW}
  BY DEF Turns, Normal, FlipHorizontal, Rotate180, FlipVertical, Rotate90CWFlipHorizontal,
     Rotate90CW, Rotate90CWFlipVertical, Rotate270CW
<1>2. CASE o \in {Normal, FlipVertical, FlipHorizontal, Rotate180}
  <2>1. size = <<w, h>>
    BY <1>2 DEF MovedSize, SwapsDimensions, Normal, FlipVertical, FlipHorizontal, Rotate180,
       Rotate90CWFlipVertical, Rotate270CW, Rotate90CW, Rotate90CWFlipHorizontal
  <2>2. ASSUME NEW x \in 0..w - 1, NEW y \in 0..h - 1
        PROVE  Moved(o, w, h, x, y) \in (0..w - 1) \X (0..h - 1)
    BY <1>2, WhereMoved
  <2>3. ASSUME NEW a \in 0..w - 1, NEW b \in 0..h - 1
        PROVE  \E x \in 0..w - 1, y \in 0..h - 1 : Moved(o, w, h, x, y) = <<a, b>>
    <3>1. /\ w - 1 - a \in 0..w - 1 /\ w - 1 - (w - 1 - a) = a
          /\ h - 1 - b \in 0..h - 1 /\ h - 1 - (h - 1 - b) = b
      OBVIOUS
    <3>2. \/ Moved(o, w, h, a, b) = <<a, b>>
          \/ Moved(o, w, h, a, h - 1 - b) = <<a, b>>
          \/ Moved(o, w, h, w - 1 - a, b) = <<a, b>>
          \/ Moved(o, w, h, w - 1 - a, h - 1 - b) = <<a, b>>
      BY <1>2, <3>1, WhereMoved
    <3>3. QED
      BY <3>1, <3>2
  <2>4. places = (0..w - 1) \X (0..h - 1)
    <3>1. places \subseteq (0..w - 1) \X (0..h - 1)
      BY <2>2
    <3>2. ASSUME NEW q \in (0..w - 1) \X (0..h - 1)
          PROVE  q \in places
      <4>1. PICK a \in 0..w - 1, b \in 0..h - 1 : q = <<a, b>>
        OBVIOUS
      <4>2. PICK x \in 0..w - 1, y \in 0..h - 1 : Moved(o, w, h, x, y) = <<a, b>>
        BY <2>3
      <4>3. QED
        BY <4>1, <4>2
    <3>3. QED
      BY <3>1, <3>2
  <2>5. QED
    BY <2>1, <2>4 DEF Fills
<1>3. CASE o \in {Rotate90CWFlipVertical, Rotate270CW, Rotate90CW, Rotate90CWFlipHorizontal}
  <2>1. size = <<h, w>>
    BY <1>3, WhereMoved
  <2>2. ASSUME NEW x \in 0..w - 1, NEW y \in 0..h - 1
        PROVE  Moved(o, w, h, x, y) \in (0..h - 1) \X (0..w - 1)
    BY <1>3, WhereMoved
  <2>3. ASSUME NEW a \in 0..h - 1, NEW b \in 0..w - 1
        PROVE  \E x \in 0..w - 1, y \in 0..h - 1 : Moved(o, w, h, x, y) = <<a, b>>
    <3>1. /\ w - 1 - b \in 0..w - 1 /\ w - 1 - (w - 1 - b) = b
          /\ h - 1 - a \in 0..h - 1 /\ h - 1 - (h - 1 - a) = a
      OBVIOUS
    <3>2. \/ Moved(o, w, h, b, a) = <<a, b>>
          \/ Moved(o, w, h, b, h - 1 - a) = <<a, b>>
          \/ Moved(o, w, h, w - 1 - b, a) = <<a, b>>
          \/ Moved(o, w, h, w - 1 - b, h - 1 - a) = <<a, b>>
      BY <1>3, <3>1, WhereMoved
    <3>3. QED
      BY <3>1, <3>2
  <2>4. places = (0..h - 1) \X (0..w - 1)
    <3>1. places \subseteq (0..h - 1) \X (0..w - 1)
      BY <2>2
    <3>2. ASSUME NEW q \in (0..h - 1) \X (0..w - 1)
          PROVE  q \in places
      <4>1. PICK a \in 0..h - 1, b \in 0..w - 1 : q = <<a, b>>
        OBVIOUS
      <4>2. PICK x \in 0..w - 1, y \in 0..h - 1 : Moved(o, w, h, x, y) = <<a, b>>
        BY <2>3
      <4>3. QED
        BY <4>1, <4>2
    <3>3. QED
      BY <3>1, <3>2
  <2>5. QED
    BY <2>1, <2>4 DEF Fills
<1>4. QED
  BY <1>1, <1>2, <1>3

-----------------------------------------------------------------------------
(* The camera's names.                                                     *)

\* A part of a text.
LEMMA PartOfText ==
  ASSUME NEW S, NEW text \in Seq(S), NEW a \in 1..Len(text) + 1, NEW b \in 0..Len(text),
         a <= b + 1
  PROVE  /\ SubSeq(text, a, b) \in Seq(S) /\ Len(SubSeq(text, a, b)) = b - a + 1
         /\ \A i \in 1..(b - a + 1) : SubSeq(text, a, b)[i] = text[a + i - 1]
<1>1. Len(text) \in Nat /\ \A i \in 1..Len(text) : text[i] \in S
  BY LenProperties, ElementOfSeq
<1>2. \A i \in a..b : text[i] \in S
  BY <1>1
<1>3. /\ SubSeq(text, a, b) \in Seq(S)
      /\ Len(SubSeq(text, a, b)) = IF a <= b THEN b - a + 1 ELSE 0
      /\ \A i \in 1..(b - a + 1) : SubSeq(text, a, b)[i] = text[a + i - 1]
  BY <1>1, <1>2, SubSeqProperties
<1>4. QED
  BY <1>1, <1>3

\* A text without a blank at its ends.
Tight(text) == text = <<>> \/ (text[1] # " " /\ text[Len(text)] # " ")

\* Where trim cuts.
LEMMA TrimCuts ==
  ASSUME NEW S, NEW text \in Seq(S)
  PROVE  \/ Trim(text) = <<>>
         \/ \E a, b \in 1..Len(text) :
              a <= b /\ Trim(text) = SubSeq(text, a, b) /\ text[a] # " " /\ text[b] # " "
<1> DEFINE ink == {i \in 1..Len(text) : text[i] # " "}
<1>1. Len(text) \in Nat
  BY LenProperties
<1>2. ink \subseteq 1..Len(text) /\ 1..Len(text) \subseteq Int
  <2>1. ink \subseteq 1..Len(text)
    OBVIOUS
  <2>2. 1..Len(text) \subseteq Int
    BY <1>1
  <2>3. QED
    BY <2>1, <2>2
<1>3. IsFiniteSet(ink) /\ ink \subseteq Int
  <2> HIDE DEF ink
  <2>1. IsFiniteSet(1..Len(text))
    BY <1>1, FS_Interval
  <2>2. IsFiniteSet(ink)
    BY <1>2, <2>1, FS_Subset
  <2>3. QED
    BY <1>2, <2>2
<1>4. CASE ink = {}
  BY <1>4 DEF Trim, Empty
<1>5. CASE ink # {}
  <2>1. /\ Min(ink) \in ink /\ \A y \in ink : Min(ink) <= y
        /\ Max(ink) \in ink
    <3> HIDE DEF ink
    <3>1. QED
      BY <1>3, <1>5, SmallestExists, LargestExists
  <2>2. Trim(text) = SubSeq(text, Min(ink), Max(ink))
    BY <1>5 DEF Trim
  <2>3. Min(ink) <= Max(ink)
    BY <2>1
  <2>4. QED
    BY <2>1, <2>2, <2>3
<1>6. QED
  BY <1>4, <1>5

\* A text without blanks at its ends stays.
LEMMA TightStays ==
  ASSUME NEW S, NEW text \in Seq(S), Tight(text)
  PROVE  Trim(text) = text
<1>1. Len(text) \in Nat
  BY LenProperties
<1>2. CASE text = <<>>
  <2>1. {i \in 1..Len(text) : text[i] # " "} = {}
    BY <1>2
  <2>2. QED
    BY <1>2, <2>1 DEF Trim, Empty
<1>3. CASE text # <<>>
  <2> DEFINE ink == {i \in 1..Len(text) : text[i] # " "}
  <2>1. Len(text) > 0
    BY <1>1, <1>3, EmptySeq
  <2>2. 1 \in ink /\ Len(text) \in ink /\ \A i \in ink : i \in Int /\ 1 <= i /\ i <= Len(text)
    <3>1. 1 \in 1..Len(text) /\ Len(text) \in 1..Len(text)
      BY <1>1, <2>1
    <3>2. text[1] # " " /\ text[Len(text)] # " "
      BY <1>3 DEF Tight
    <3>3. 1 \in ink /\ Len(text) \in ink
      BY <3>1, <3>2
    <3>4. \A i \in 1..Len(text) : i \in Int /\ 1 <= i /\ i <= Len(text)
      BY <1>1
    <3>5. QED
      BY <3>3, <3>4
  <2> HIDE DEF ink
  <2>3. Min(ink) = 1
    BY <2>2 DEF Min
  <2>4. Max(ink) = Len(text)
    BY <1>1, <2>2 DEF Max
  <2>5. Trim(text) = SubSeq(text, 1, Len(text))
    BY <2>2, <2>3, <2>4 DEF Trim, ink
  <2>6. /\ SubSeq(text, 1, Len(text)) \in Seq(S)
        /\ Len(SubSeq(text, 1, Len(text))) = Len(text)
        /\ \A i \in 1..Len(text) : SubSeq(text, 1, Len(text))[i] = text[i]
    BY <1>1, <2>1, PartOfText
  <2>7. SubSeq(text, 1, Len(text)) = text
    BY <2>6, SeqEqual
  <2>8. QED
    BY <2>5, <2>7
<1>4. QED
  BY <1>2, <1>3

\* What trim returns has no blank at its ends, so that trimming it again does
\* nothing.
LEMMA TrimTrimmed ==
  ASSUME NEW S, NEW text \in Seq(S)
  PROVE  /\ Trim(text) \in Seq(S) /\ Tight(Trim(text))
         /\ Trim(Trim(text)) = Trim(text)
<1>1. Trim(text) \in Seq(S) /\ Tight(Trim(text))
  <2>1. CASE Trim(text) = <<>>
    BY <2>1 DEF Tight
  <2>2. CASE \E a, b \in 1..Len(text) :
               a <= b /\ Trim(text) = SubSeq(text, a, b) /\ text[a] # " " /\ text[b] # " "
    <3>1. PICK a \in 1..Len(text), b \in 1..Len(text) :
            a <= b /\ Trim(text) = SubSeq(text, a, b) /\ text[a] # " " /\ text[b] # " "
      BY <2>2
    <3>2. /\ Len(text) \in Nat /\ a \in Int /\ b \in Int /\ a <= b
          /\ a \in 1..Len(text) + 1 /\ b \in 0..Len(text) /\ a <= b + 1
      <4>1. Len(text) \in Nat /\ a \in 1..Len(text) /\ b \in 1..Len(text) /\ a <= b
        BY <3>1, LenProperties
      <4>2. QED
        BY <4>1
    <3>3. /\ SubSeq(text, a, b) \in Seq(S) /\ Len(SubSeq(text, a, b)) = b - a + 1
          /\ \A i \in 1..(b - a + 1) : SubSeq(text, a, b)[i] = text[a + i - 1]
      BY <3>2, PartOfText
    <3>4. /\ 1 \in 1..(b - a + 1) /\ a + 1 - 1 = a
          /\ b - a + 1 \in 1..(b - a + 1) /\ a + (b - a + 1) - 1 = b
      BY <3>2
    <3>5. QED
      BY <3>1, <3>3, <3>4 DEF Tight
  <2>3. QED
    BY <2>1, <2>2, TrimCuts
<1>2. QED
  BY <1>1, TightStays

\* Both formats name the camera in the same tags.
LEMMA CameraIsRead ==
  ASSUME NEW f
  PROVE  LET m == Metadata(f)
             maker == Trim(Text(f, "Make"))
         IN IF Text(f, "Make") \in {<<"-">>, <<"--">>}
            THEN m.cameraMaker = Empty /\ m.cameraModel = Empty
            ELSE /\ m.cameraMaker = maker
                 /\ m.cameraModel = Trim(RemovePrefix(Trim(Text(f, "Model")), maker))
<1> DEFINE read == IF f.format = "Raw" THEN RawMetadata(f) ELSE ExifMetadata(f)
           maker == Trim(Text(f, "Make"))
           model == Trim(RemovePrefix(Trim(Text(f, "Model")), maker))
<1>1. /\ read.cameraMaker = Text(f, "Make") /\ read.cameraModel = Text(f, "Model")
      /\ "cameraMaker" \in DOMAIN read /\ "cameraModel" \in DOMAIN read
  <2>1. CASE f.format = "Raw"
    BY <2>1 DEF RawMetadata
  <2>2. CASE f.format # "Raw"
    BY <2>2 DEF ExifMetadata
  <2>3. QED
    BY <2>1, <2>2
<1>2. CASE Text(f, "Make") \in {<<"-">>, <<"--">>}
  <2>1. Metadata(f) = [read EXCEPT !.cameraMaker = Empty, !.cameraModel = Empty]
    <3> HIDE DEF read
    <3>1. QED
      BY <1>1, <1>2 DEF Metadata, read
  <2> HIDE DEF read
  <2>2. QED
    BY <1>1, <1>2, <2>1
<1>3. CASE Text(f, "Make") \notin {<<"-">>, <<"--">>}
  <2>1. Metadata(f) = [read EXCEPT !.cameraMaker = maker, !.cameraModel = model]
    <3> HIDE DEF read
    <3>1. QED
      BY <1>1, <1>3 DEF Metadata, read
  <2> HIDE DEF read, maker, model
  <2>2. Metadata(f).cameraMaker = maker /\ Metadata(f).cameraModel = model
    BY <1>1, <2>1
  <2>3. QED
    BY <1>3, <2>2 DEF maker, model
<1>4. QED
  BY <1>2, <1>3

\* What has the prefix after a part was cut off in front, has it further on.
LEMMA FoundFurtherOn ==
  ASSUME NEW S, NEW text \in Seq(S), NEW prefix \in Seq(S), prefix # <<>>,
         NEW a \in 1..Len(text), NEW b \in a..Len(text),
         NEW i \in 1..(b - a + 1), HasAt(SubSeq(text, a, b), i, prefix)
  PROVE  a + i - 1 \in 1..Len(text) /\ HasAt(text, a + i - 1, prefix)
<1>1. /\ Len(text) \in Nat /\ Len(prefix) \in Nat /\ Len(prefix) > 0
      /\ a \in Int /\ b \in Int /\ i \in Int /\ 1 <= a /\ a <= b /\ b <= Len(text)
      /\ 1 <= i /\ i <= b - a + 1
  BY LenProperties, EmptySeq
<1>2. /\ Len(SubSeq(text, a, b)) = b - a + 1
      /\ \A k \in 1..(b - a + 1) : SubSeq(text, a, b)[k] = text[a + k - 1]
  BY <1>1, PartOfText
<1>3. i + Len(prefix) <= b - a + 2
  BY <1>1, <1>2 DEF HasAt
<1>4. ASSUME NEW k \in 1..Len(prefix)
      PROVE  Lower[text[(a + i - 1) + k - 1]] = Lower[prefix[k]]
  <2>1. i + k - 1 \in 1..(b - a + 1) /\ a + (i + k - 1) - 1 = (a + i - 1) + k - 1
    BY <1>1, <1>3
  <2>2. SubSeq(text, a, b)[i + k - 1] = text[(a + i - 1) + k - 1]
    BY <1>2, <2>1
  <2>3. QED
    BY <2>2 DEF HasAt
<1>5. a + i - 1 \in 1..Len(text) /\ (a + i - 1) + Len(prefix) <= Len(text) + 1
  BY <1>1, <1>3
<1>6. QED
  BY <1>4, <1>5 DEF HasAt

\* Who has the maker in front of the model still, had it there twice.
LEMMA PrefixIsRemoved ==
  ASSUME NEW S, NEW maker \in Seq(S), maker # <<>>, NEW text \in Seq(S),
         HasAt(Trim(RemovePrefix(Trim(text), maker)), 1, maker)
  PROVE  \E i, j \in {k \in 1..Len(text) : HasAt(text, k, maker)} : i + Len(maker) <= j
<1> DEFINE t == Trim(text)
           r == RemovePrefix(t, maker)
           L == Len(maker)
<1>1. t \in Seq(S) /\ Trim(t) = t
  BY TrimTrimmed
<1>2. Len(text) \in Nat /\ L \in Nat /\ L > 0 /\ Len(t) \in Nat
  BY <1>1, LenProperties, EmptySeq
<1>3. ASSUME NEW s \in Seq(S), HasAt(s, 1, maker)
      PROVE  s # <<>> /\ L <= Len(s)
    <2>1. 1 + L <= Len(s) + 1 /\ Len(s) \in Nat
      BY <1>3, LenProperties DEF HasAt
    <2>2. QED
      BY <1>2, <2>1, EmptySeq
<1>4. HasAt(t, 1, maker) /\ r = SubSeq(t, L + 1, Len(t))
  <2> DEFINE begins == /\ L <= Len(t)
                       /\ \A k \in 1..L : Lower[maker[k]] = Lower[t[k]]
  <2>1. begins <=> HasAt(t, 1, maker)
    <3>1. \A k \in 1..L : 1 + k - 1 = k
      BY <1>2
    <3>2. (1 + L <= Len(t) + 1) <=> (L <= Len(t))
      BY <1>2
    <3>3. QED
      BY <3>1, <3>2 DEF HasAt
  <2>2. r = IF begins THEN SubSeq(t, L + 1, Len(t)) ELSE t
    BY DEF RemovePrefix
  <2>3. CASE ~ begins
    BY <1>1, <2>1, <2>2, <2>3
  <2>4. CASE begins
    BY <2>1, <2>2, <2>4
  <2>5. QED
    BY <2>3, <2>4
<1> HIDE DEF t, r, L
<1>5. PICK a \in 1..Len(text), b \in 1..Len(text) : a <= b /\ t = SubSeq(text, a, b)
  BY <1>1, <1>3, <1>4, TrimCuts DEF t
<1>6. Len(t) = b - a + 1
  BY <1>2, <1>5, PartOfText
<1>7. r \in Seq(S) /\ Len(r) = Len(t) - L
  BY <1>1, <1>2, <1>3, <1>4, PartOfText
<1>8. HasAt(Trim(r), 1, maker)
  BY DEF r, t
<1>9. PICK c \in 1..Len(r), d \in 1..Len(r) : c <= d /\ Trim(r) = SubSeq(r, c, d)
  BY <1>3, <1>7, <1>8, TrimTrimmed, TrimCuts
<1>10. HasAt(r, c, maker) /\ c \in 1..Len(r)
  BY <1>7, <1>8, <1>9, FoundFurtherOn
<1>11. HasAt(t, L + c, maker) /\ L + c \in 1..Len(t)
  <2>1. /\ L + 1 \in 1..Len(t) /\ Len(t) \in (L + 1)..Len(t)
        /\ c \in 1..(Len(t) - (L + 1) + 1) /\ (L + 1) + c - 1 = L + c
    BY <1>2, <1>7, <1>9
  <2>2. HasAt(SubSeq(t, L + 1, Len(t)), c, maker)
    BY <1>4, <1>10
  <2>3. /\ (L + 1) + c - 1 \in 1..Len(t)
        /\ HasAt(t, (L + 1) + c - 1, maker)
    BY <1>1, <2>1, <2>2, FoundFurtherOn
  <2>4. QED
    BY <2>1, <2>3
<1>12. HasAt(text, a, maker)
  BY <1>2, <1>4, <1>5, <1>6, FoundFurtherOn
<1>13. HasAt(text, a + (L + c) - 1, maker) /\ a + (L + c) - 1 \in 1..Len(text)
  BY <1>2, <1>5, <1>6, <1>11, FoundFurtherOn
<1>14. a + L <= a + (L + c) - 1
  BY <1>2, <1>5, <1>7, <1>9
<1>15. QED
  BY <1>5, <1>12, <1>13, <1>14 DEF L

\* The camera of any file is clean.
LEMMA CameraIsClean ==
  ASSUME NEW f, IsFile(f)
  PROVE  LET m == Metadata(f)
             model == Text(f, "Model")
             places == {i \in 1..Len(model) : HasAt(model, i, m.cameraMaker)}
         IN /\ Trim(m.cameraMaker) = m.cameraMaker /\ Trim(m.cameraModel) = m.cameraModel
            /\ m.cameraMaker # Empty /\ HasAt(m.cameraModel, 1, m.cameraMaker) =>
                 \E i, j \in places : i + Len(m.cameraMaker) <= j
            /\ Text(f, "Make") \in {<<"-">>, <<"--">>} => m.cameraModel = Empty
<1> DEFINE W == DOMAIN Lower
           make == Text(f, "Make")
           model == Text(f, "Model")
           maker == Trim(make)
           rest == RemovePrefix(Trim(model), maker)
           dash == make \in {<<"-">>, <<"--">>}
           m == Metadata(f)
<1>1. make \in Seq(W) /\ model \in Seq(W)
  <2>1. <<>> \in Seq(W)
    BY EmptySeq
  <2>2. QED
    BY <2>1 DEF IsFile, Text, Empty
<1>2. IF dash THEN m.cameraMaker = Empty /\ m.cameraModel = Empty
      ELSE m.cameraMaker = maker /\ m.cameraModel = Trim(rest)
  BY CameraIsRead
<1> HIDE DEF make, model, m
<1>3. maker \in Seq(W) /\ Trim(maker) = maker /\ Trim(model) \in Seq(W)
  BY <1>1, TrimTrimmed
<1>4. rest \in Seq(W) /\ Trim(Trim(rest)) = Trim(rest)
  <2>1. Len(maker) \in Nat /\ Len(Trim(model)) \in Nat
    BY <1>3, LenProperties
  <2>2. Len(maker) <= Len(Trim(model)) =>
          SubSeq(Trim(model), Len(maker) + 1, Len(Trim(model))) \in Seq(W)
    BY <1>3, <2>1, PartOfText
  <2> HIDE DEF maker
  <2>3. rest \in Seq(W)
    BY <1>3, <2>2 DEF RemovePrefix
  <2> HIDE DEF rest
  <2>4. QED
    BY <2>3, TrimTrimmed
<1>5. Trim(Empty) = Empty
  <2>1. Empty \in Seq(W) /\ Tight(Empty)
    BY EmptySeq DEF Empty, Tight
  <2>2. QED
    BY <2>1, TightStays
<1>6. Trim(m.cameraMaker) = m.cameraMaker /\ Trim(m.cameraModel) = m.cameraModel
  BY <1>2, <1>3, <1>4, <1>5
<1>7. ASSUME m.cameraMaker # Empty, HasAt(m.cameraModel, 1, m.cameraMaker)
      PROVE  \E i, j \in {k \in 1..Len(model) : HasAt(model, k, m.cameraMaker)} :
               i + Len(m.cameraMaker) <= j
  <2>1. m.cameraMaker = maker /\ m.cameraModel = Trim(rest)
    BY <1>2, <1>7
  <2>2. maker # <<>> /\ HasAt(Trim(RemovePrefix(Trim(model), maker)), 1, maker)
    BY <1>7, <2>1 DEF Empty
  <2> HIDE DEF maker
  <2>3. \E i, j \in {k \in 1..Len(model) : HasAt(model, k, maker)} : i + Len(maker) <= j
    BY <1>1, <1>3, <2>2, PrefixIsRemoved
  <2>4. QED
    BY <2>1, <2>3
<1>8. QED
  BY <1>2, <1>6, <1>7 DEF m, model, make

-----------------------------------------------------------------------------
(* The images the tasks make.                                              *)

\* Whole quotients.
LEMMA Quotient ==
  ASSUME NEW n \in Nat, NEW b \in Nat \ {0}
  PROVE  /\ n \div b \in Nat /\ b * (n \div b) <= n /\ n < b * (n \div b) + b
         /\ \A q \in Nat : b * q <= n => q <= n \div b
<1>1. n \div b \in Nat /\ b * (n \div b) <= n /\ n < b * (n \div b) + b
  BY Z3
<1>2. ASSUME NEW q \in Nat, b * q <= n, q > n \div b
      PROVE  FALSE
  <2>1. b * q >= b * (n \div b + 1)
    BY <1>1, <1>2, Z3
  <2>2. b * (n \div b + 1) = b * (n \div b) + b
    BY <1>1, Z3
  <2>3. b * q \in Nat /\ b * (n \div b) \in Nat
    BY <1>1, Z3
  <2>4. QED
    BY <1>1, <1>2, <2>1, <2>2, <2>3
<1>3. QED
  BY <1>1, <1>2

LEMMA ProductMonotone ==
  ASSUME NEW a \in Nat, NEW b \in Nat, NEW c \in Nat, NEW d \in Nat, a <= c, b <= d
  PROVE  a * b \in Nat /\ c * d \in Nat /\ a * b <= c * d
<1>1. a * b <= c * b
  BY Z3
<1>2. c * b <= c * d
  BY Z3
<1>3. a * b \in Nat /\ c * b \in Nat /\ c * d \in Nat
  BY Z3
<1>4. QED
  BY <1>1, <1>2, <1>3

LEMMA QuotientMonotone ==
  ASSUME NEW n \in Nat, NEW a \in Nat \ {0}, NEW b \in Nat \ {0}, a <= b
  PROVE  n \div b <= n \div a
<1>1. n \div b \in Nat /\ b * (n \div b) <= n
  BY Quotient
<1>2. a * (n \div b) <= b * (n \div b) /\ a * (n \div b) \in Nat /\ b * (n \div b) \in Nat
  BY <1>1, ProductMonotone
<1>3. a * (n \div b) <= n
  BY <1>1, <1>2
<1>4. QED
  BY <1>1, <1>3, Quotient

LEMMA LimitsAreNatural ==
  MaxDecodedImagePixels \in Nat /\ MaxImageDimension \in Nat
BY DEF MaxDecodedImagePixels, MaxImageDimension

\* Within the limits is every smaller picture, too.
LEMMA SmallerIsNotTooLarge ==
  ASSUME NEW w \in Nat \ {0}, NEW h \in Nat \ {0}, NEW x \in Nat \ {0}, NEW y \in Nat \ {0},
         x <= w, y <= h, ~ TooLarge(w, h)
  PROVE  ~ TooLarge(x, y)
<1> DEFINE M == MaxDecodedImagePixels
<1>1. M \in Nat /\ MaxImageDimension \in Nat
  BY LimitsAreNatural
<1>2. w <= MaxImageDimension /\ h <= MaxImageDimension /\ w <= M \div h
  BY <1>1, Quotient DEF TooLarge
<1>3. M \div h <= M \div y /\ M \div h \in Nat /\ M \div y \in Nat
  BY <1>1, QuotientMonotone, Quotient
<1>4. QED
  BY <1>1, <1>2, <1>3 DEF TooLarge

DataFields == {"width", "height", "channels", "format", "orientation", "size"}

\* The result of a decoder: a picture with four bytes for each pixel.
IsPicture(d) ==
  /\ DOMAIN d = DataFields
  /\ d.width \in Nat \ {0} /\ d.height \in Nat \ {0}
  /\ d.size = 4 * d.width * d.height
  /\ d.format = "ARGB32" => d.channels = 4

\* What execute does to it: it is within the task's limit, has four bytes for
\* each pixel still, is no larger, is empty only if it is too narrow, and is
\* turned if it can be.
LEMMA FinishedFits ==
  ASSUME NEW d, IsPicture(d), NEW max \in Nat \ {0}, d.format # "null"
  PROVE  LET e == Finished(d, max)
         IN /\ e.format = d.format
            /\ e.width <= max \/ e.height <= max
            /\ e.size = 4 * e.width * e.height
            /\ e.size = 0 => max * d.width < d.height
            /\ e.orientation # Normal =>
                 \/ d.format # "ARGB32" \/ e.width = 0 \/ e.height = 0
                 \/ /\ e.width > MaxDecodedImagePixels \div e.height
                    /\ e.width \in Nat /\ e.width <= d.width
                    /\ e.height \in Nat /\ e.height <= d.height
<1> DEFINE s == IF d.height > max THEN ScaledToHeight(d, max) ELSE d
           e == Turned(s)
<1>1. Finished(d, max) = e
  BY DEF Finished, IsNull
<1>2. /\ DOMAIN s = DataFields /\ s.format = d.format /\ s.channels = d.channels
      /\ s.width \in Nat /\ s.height \in Nat \ {0} /\ s.width <= d.width /\ s.height <= d.height
      /\ s.height <= max /\ s.size = 4 * s.width * s.height
      /\ s.width = 0 => max * d.width < d.height
  <2>1. CASE ~ (d.height > max)
    BY <2>1 DEF IsPicture
  <2>2. CASE d.height > max
    <3> DEFINE w == ScaledWidth(d, max)
    <3>1. s = [d EXCEPT !.width = w, !.height = max, !.size = 4 * max * w]
      BY <2>2 DEF ScaledToHeight, IsPicture
    <3>2. w = (max * d.width) \div d.height
      BY DEF ScaledWidth
    <3> HIDE DEF w, s
    <3>3. /\ DOMAIN s = DataFields /\ s.format = d.format /\ s.channels = d.channels
          /\ s.width = w /\ s.height = max /\ s.size = 4 * max * w
      BY <3>1 DEF IsPicture, DataFields
    <3>4. d.width \in Nat \ {0} /\ d.height \in Nat \ {0} /\ max * d.width \in Nat
      <4>1. d.width \in Nat \ {0} /\ d.height \in Nat \ {0}
        BY DEF IsPicture
      <4>2. QED
        BY <4>1, ProductMonotone
    <3>5. /\ w \in Nat /\ d.height * w <= max * d.width
          /\ max * d.width < d.height * w + d.height
      BY <3>2, <3>4, Quotient
    <3>6. w <= d.width
      <4>1. max * d.width <= d.height * d.width /\ d.height * d.width \in Nat
        BY <2>2, <3>4, ProductMonotone
      <4>2. w <= (d.height * d.width) \div d.height
        <5>1. d.height * w \in Nat
          BY <3>4, <3>5, ProductMonotone
        <5>2. d.height * w <= d.height * d.width
          BY <3>4, <3>5, <4>1, <5>1
        <5>3. QED
          BY <3>4, <3>5, <4>1, <5>2, Quotient
      <4>3. (d.height * d.width) \div d.height = d.width
        BY <3>4, Z3
      <4>4. QED
        BY <4>2, <4>3
    <3>7. w = 0 => max * d.width < d.height
      BY <3>4, <3>5
    <3>8. 4 * max * w = 4 * w * max
      BY <3>5, Z3
    <3>9. QED
      BY <2>2, <3>3, <3>4, <3>5, <3>6, <3>7, <3>8
  <2>3. QED
    BY <2>1, <2>2
<1> HIDE DEF s
<1>3. Pixels(s) = s.width * s.height /\ s.size = 4 * Pixels(s)
  <2>1. 4 * s.width * s.height = 4 * (s.width * s.height)
    BY <1>2, Z3
  <2>2. QED
    BY <1>2, <2>1 DEF Pixels
<1>4. s.size = 0 => s.width = 0
  <2>1. s.width > 0 => s.width * s.height > 0 /\ s.width * s.height \in Nat
    BY <1>2, Z3
  <2>2. QED
    BY <1>2, <1>3, <2>1
<1>5. CASE e = s
  <2>1. e.orientation # Normal => \/ d.format # "ARGB32" \/ e.width = 0 \/ e.height = 0
                                  \/ e.width > MaxDecodedImagePixels \div e.height
    <3>1. ASSUME s.orientation # Normal, d.format = "ARGB32", s.width > 0,
                 ~ (s.width > MaxDecodedImagePixels \div s.height)
          PROVE  FALSE
      <4> DEFINE moved == MovedSize(s.orientation, s.width, s.height)
      <4>1. s.channels = 4 /\ s.format = "ARGB32"
        BY <1>2, <3>1 DEF IsPicture
      <4>2. e = [s EXCEPT !.width = moved[1], !.height = moved[2], !.orientation = Normal]
        BY <1>2, <1>3, <3>1, <4>1 DEF Turned
      <4> HIDE DEF moved, e
      <4>3. e.orientation = Normal
        BY <1>2, <4>2 DEF DataFields
      <4>4. QED
        BY <1>5, <3>1, <4>3
    <3>2. QED
      BY <1>2, <1>5, <3>1
  <2> HIDE DEF e
  <2>2. QED
    BY <1>1, <1>2, <1>4, <1>5, <2>1
<1>6. CASE e # s
  <2> DEFINE moved == MovedSize(s.orientation, s.width, s.height)
  <2>1. /\ e = [s EXCEPT !.width = moved[1], !.height = moved[2], !.orientation = Normal]
        /\ s.width > 0
    BY <1>2, <1>6 DEF Turned
  <2>2. moved = <<s.width, s.height>> \/ moved = <<s.height, s.width>>
    BY DEF MovedSize
  <2> HIDE DEF moved, e
  <2>3. /\ e.width = moved[1] /\ e.height = moved[2] /\ e.orientation = Normal
        /\ e.format = s.format /\ e.size = s.size
    BY <1>2, <2>1 DEF DataFields
  <2>4. \/ e.width = s.width /\ e.height = s.height
        \/ e.width = s.height /\ e.height = s.width
    BY <2>2, <2>3
  <2>5. e.size = 4 * e.width * e.height
    <3>1. 4 * s.width * s.height = 4 * s.height * s.width
      BY <1>2, Z3
    <3>2. QED
      BY <1>2, <2>3, <2>4, <3>1
  <2>6. e.size # 0
    BY <1>4, <2>1, <2>3
  <2>7. QED
    BY <1>1, <1>2, <2>3, <2>4, <2>5, <2>6
<1>7. QED
  BY <1>5, <1>6

\* A side scaled by a/b and rounded up; if the result is too narrow for a limit,
\* so is what was scaled.
LEMMA RoundedUp ==
  ASSUME NEW n \in Nat \ {0}, NEW a \in Nat \ {0}, NEW b \in Nat \ {0}
  PROVE  LET q == (n * a + b - 1) \div b
         IN q \in Nat \ {0} /\ n * a \in Nat /\ n * a <= b * q /\ b * q < n * a + b
<1> DEFINE m == n * a
           q == (m + b - 1) \div b
<1>1. m \in Nat \ {0}
  BY Z3
<1> HIDE DEF m
<1>2. m + b - 1 \in Nat /\ m + b - 1 >= b
  BY <1>1
<1>3. /\ q \in Nat /\ b * q <= m + b - 1 /\ m + b - 1 < b * q + b
      /\ \A p \in Nat : b * p <= m + b - 1 => p <= q
  BY <1>2, Quotient
<1> HIDE DEF q
<1>4. q >= 1
  BY <1>2, <1>3
<1>5. b * q \in Nat
  BY <1>3, ProductMonotone
<1>6. q \in Nat \ {0} /\ m <= b * q /\ b * q < m + b
  BY <1>1, <1>3, <1>4, <1>5
<1>7. QED
  BY <1>1, <1>6 DEF m, q

LEMMA NarrowBefore ==
  ASSUME NEW w \in Nat \ {0}, NEW h \in Nat \ {0}, NEW a \in Nat \ {0}, NEW b \in Nat \ {0},
         NEW max \in Nat \ {0},
         max * ((w * a + b - 1) \div b) < (h * a + b - 1) \div b
  PROVE  max * w < h
<1> DEFINE W == (w * a + b - 1) \div b
           H == (h * a + b - 1) \div b
<1>1. /\ W \in Nat \ {0} /\ w * a \in Nat /\ w * a <= b * W
      /\ H \in Nat \ {0} /\ h * a \in Nat /\ b * H < h * a + b
  BY RoundedUp
<1>2. max * W < H
  OBVIOUS
<1> HIDE DEF W, H
<1>3. max * W \in Nat /\ max * W + 1 <= H
  BY <1>1, <1>2, ProductMonotone
<1>4. b * (max * W + 1) <= b * H /\ b * H \in Nat
  BY <1>1, <1>3, ProductMonotone
<1>5. b * (max * W + 1) = max * (b * W) + b
  BY <1>1, Z3
<1>6. max * (w * a) <= max * (b * W) /\ max * (w * a) \in Nat /\ max * (b * W) \in Nat
  <2>1. b * W \in Nat
    BY <1>1, ProductMonotone
  <2>2. QED
    BY <1>1, <2>1, ProductMonotone
<1>7. max * (w * a) < h * a
  BY <1>1, <1>4, <1>5, <1>6
<1>8. max * (w * a) = (max * w) * a /\ max * w \in Nat
  BY Z3
<1>9. ASSUME h <= max * w
      PROVE  FALSE
  <2>1. h * a <= (max * w) * a
    BY <1>8, <1>9, ProductMonotone
  <2>2. QED
    BY <1>1, <1>6, <1>7, <1>8, <2>1
<1>10. QED
  BY <1>8, <1>9

\* The factors are fractions, from an eighth to two, and the ninth is one.
LEMMA FactorsAreFractions ==
  /\ Len(ScalingFactors) = 16
  /\ \A i \in 1..16 :
       /\ ScalingFactors[i][1] \in 1..15 /\ ScalingFactors[i][2] \in 1..8
       /\ ScalingFactors[i][1] <= 2 * ScalingFactors[i][2]
       /\ i < 9 => ScalingFactors[i][1] > ScalingFactors[i][2]
       /\ i >= 9 => ScalingFactors[i][1] <= ScalingFactors[i][2]
  /\ ScalingFactors[9] = <<1, 1>>
BY DEF ScalingFactors

\* What a decoder may return for a file: nothing, or a picture, in the format of
\* the file's, which is too narrow for a limit only if the file's image is, or
\* one embedded in it; a JPEG's is within the limits.
Acceptable(f, d) ==
  \/ IsNull(d)
  \/ /\ ~IsNull(d) /\ IsPicture(d)
     /\ d.format = (IF f.format = "Png" THEN "RGBA8888" ELSE "ARGB32")
     /\ f.format \notin {"Png", "Raw"} => ~TooLarge(d.width, d.height)
     /\ \A max \in Nat \ {0} : max * d.width < d.height => TooNarrow(f, max)

LEMMA NothingIsNull == NoData.format = "null" /\ IsNull(NoData)
BY DEF NoData, EmptyData, IsNull

\* A scaled side, and the whole of it where no factor is chosen.
LEMMA ScaledSide ==
  ASSUME NEW n \in Nat \ {0}, NEW i \in 1..16
  PROVE  LET a == ScalingFactors[i][1]
             b == ScalingFactors[i][2]
             q == Scaled(n, ScalingFactors[i])
         IN /\ a \in 1..15 /\ b \in 1..8 /\ q = (n * a + b - 1) \div b
            /\ q \in Nat \ {0} /\ n * a <= b * q /\ b * q < n * a + b
<1>1. /\ ScalingFactors[i][1] \in 1..15 /\ ScalingFactors[i][2] \in 1..8
      /\ ScalingFactors[i][1] \in Nat \ {0} /\ ScalingFactors[i][2] \in Nat \ {0}
  BY FactorsAreFractions
<1> HIDE DEF ScalingFactors
<1>2. QED
  BY <1>1, RoundedUp DEF Scaled

\* A chosen factor is one of those that are good.
LEMMA FactorChosen ==
  ASSUME NEW w \in Nat \ {0}, NEW h \in Nat \ {0}, NEW target \in Nat
  PROVE  LET Size(i) == Scaled(w, ScalingFactors[i]) * Scaled(h, ScalingFactors[i])
             good == {i \in 1..16 : \/ Scaled(w, ScalingFactors[i]) >= target
                                    \/ Scaled(h, ScalingFactors[i]) >= target}
             best == BestFactor(w, h, target)
         IN IF target = 0 \/ good = {} THEN best = 0
            ELSE best \in good /\ \A j \in good : Size(best) <= Size(j)
<1> DEFINE Size(i) == Scaled(w, ScalingFactors[i]) * Scaled(h, ScalingFactors[i])
           good == {i \in 1..16 : \/ Scaled(w, ScalingFactors[i]) >= target
                                  \/ Scaled(h, ScalingFactors[i]) >= target}
           Best(i) == \A j \in good : Size(i) < Size(j) \/ (Size(i) = Size(j) /\ i <= j)
           best == BestFactor(w, h, target)
<1>1. best = IF target <= 0 \/ good = {} THEN 0 ELSE CHOOSE i \in good : Best(i)
  BY FactorsAreFractions DEF BestFactor
<1>2. \A i \in 1..16 : Size(i) \in Nat
  <2>1. ASSUME NEW i \in 1..16
        PROVE  Size(i) \in Nat
    <3>1. Scaled(w, ScalingFactors[i]) \in Nat /\ Scaled(h, ScalingFactors[i]) \in Nat
      BY ScaledSide
    <3>2. QED
      BY <3>1, ProductMonotone
  <2>2. QED
    BY <2>1
<1>3. good \subseteq 1..16
  OBVIOUS
<1> HIDE DEF Size, good, best
<1>4. IsFiniteSet(1..16)
  <2> DEFINE n == 16
  <2>1. n \in Int
    OBVIOUS
  <2> HIDE DEF n
  <2>2. IsFiniteSet(1..n)
    BY <2>1, FS_Interval
  <2>3. QED
    BY <2>2 DEF n
<1>5. IsFiniteSet(good)
  BY <1>3, <1>4, FS_Subset
<1>6. ASSUME good # {}
      PROVE  \E i \in good : Best(i)
  <2> DEFINE areas == {Size(i) : i \in good}
             least == Min(areas)
             first == {i \in good : Size(i) = least}
  <2>1. IsFiniteSet(areas)
    <3> DEFINE f == [i \in good |-> Size(i)]
    <3>1. f \in Surjection(good, areas)
      <4>1. f \in [good -> areas]
        OBVIOUS
      <4>2. \A s \in areas : \E i \in good : f[i] = s
        OBVIOUS
      <4>3. QED
        BY <4>1, <4>2 DEF Surjection
    <3> HIDE DEF f, areas
    <3>2. QED
      BY <1>5, <3>1, FS_Surjection
  <2>2. areas # {} /\ areas \subseteq Int
    <3>1. \A i \in good : Size(i) \in Int /\ Size(i) \in areas
      BY <1>2, <1>3
    <3>2. areas # {}
      BY <1>6, <3>1
    <3>3. QED
      BY <3>1, <3>2
  <2> HIDE DEF areas
  <2>3. least \in areas /\ \A s \in areas : least <= s
    BY <2>1, <2>2, SmallestExists
  <2> HIDE DEF least
  <2>4. first # {} /\ first \subseteq good /\ first \subseteq Int
    BY <1>3, <2>3 DEF areas
  <2>5. IsFiniteSet(first)
    BY <1>5, <2>4, FS_Subset
  <2> HIDE DEF first
  <2>6. Min(first) \in first /\ \A i \in first : Min(first) <= i
    BY <2>4, <2>5, SmallestExists
  <2>7. PICK i \in first : \A j \in first : i <= j
    BY <2>6
  <2>8. i \in good /\ Size(i) = least
    BY <2>7 DEF first
  <2>9. ASSUME NEW j \in good
        PROVE  Size(i) < Size(j) \/ (Size(i) = Size(j) /\ i <= j)
    <3>1. least <= Size(j) /\ Size(j) \in Nat /\ least \in Nat
      BY <1>2, <1>3, <2>3, <2>8 DEF areas
    <3>2. CASE Size(j) = least
      BY <2>7, <2>8, <3>2 DEF first
    <3>3. CASE Size(j) # least
      BY <2>8, <3>1, <3>3
    <3>4. QED
      BY <3>2, <3>3
  <2>10. QED
    BY <2>8, <2>9
<1>7. ASSUME target # 0, good # {}
      PROVE  best \in good /\ \A j \in good : Size(best) <= Size(j)
  <2>1. best = CHOOSE i \in good : Best(i)
    BY <1>1, <1>7
  <2>2. best \in good /\ Best(best)
    BY <1>6, <1>7, <2>1
  <2>3. \A i \in good : Size(i) \in Nat
    BY <1>2, <1>3
  <2>4. QED
    BY <2>2, <2>3
<1>8. IF target = 0 \/ good = {} THEN best = 0
      ELSE best \in good /\ \A j \in good : Size(best) <= Size(j)
  BY <1>1, <1>7
<1>9. QED
  BY <1>8 DEF Size, good, best

\* The size a JPEG is decoded at.
DecodedSize(f, target) ==
  LET best == BestFactor(f.width, f.height, target)
  IN IF best = 0 THEN <<f.width, f.height>>
     ELSE <<Scaled(f.width, ScalingFactors[best]), Scaled(f.height, ScalingFactors[best])>>

LEMMA DecodedAt ==
  ASSUME NEW f, NEW target \in Nat, f.width \in Nat \ {0}, f.height \in Nat \ {0}
  PROVE  LET s == DecodedSize(f, target)
         IN /\ s[1] \in Nat \ {0} /\ s[2] \in Nat \ {0}
            /\ \A max \in Nat \ {0} : max * s[1] < s[2] => max * f.width < f.height
<1> DEFINE w == f.width
           h == f.height
           best == BestFactor(w, h, target)
           s == DecodedSize(f, target)
<1>1. best = 0 \/ best \in 1..16
  BY FactorChosen
<1>2. s = IF best = 0 THEN <<w, h>>
          ELSE <<Scaled(w, ScalingFactors[best]), Scaled(h, ScalingFactors[best])>>
  BY DEF DecodedSize
<1> HIDE DEF best, s
<1>3. CASE best = 0
  BY <1>2, <1>3 DEF s
<1>4. CASE best \in 1..16
  <2> DEFINE a == ScalingFactors[best][1]
             b == ScalingFactors[best][2]
  <2>1. s[1] = Scaled(w, ScalingFactors[best]) /\ s[2] = Scaled(h, ScalingFactors[best])
    BY <1>2, <1>4
  <2>2. /\ a \in Nat \ {0} /\ b \in Nat \ {0} /\ s[1] \in Nat \ {0} /\ s[2] \in Nat \ {0}
        /\ s[1] = (w * a + b - 1) \div b /\ s[2] = (h * a + b - 1) \div b
    <3>1. \A n \in Nat \ {0} :
            /\ Scaled(n, ScalingFactors[best]) \in Nat \ {0} /\ a \in 1..15 /\ b \in 1..8
            /\ Scaled(n, ScalingFactors[best]) = (n * a + b - 1) \div b
      BY <1>4, ScaledSide
    <3> HIDE DEF a, b
    <3>2. QED
      BY <2>1, <3>1
  <2> HIDE DEF a, b
  <2>3. ASSUME NEW max \in Nat \ {0}, max * s[1] < s[2]
        PROVE  max * w < h
    <3>1. max * ((w * a + b - 1) \div b) < (h * a + b - 1) \div b
      BY <2>2, <2>3
    <3>2. w \in Nat \ {0} /\ h \in Nat \ {0}
      OBVIOUS
    <3> HIDE DEF w, h
    <3>3. QED
      BY <2>2, <2>3, <3>1, <3>2, NarrowBefore
  <2>4. QED
    BY <2>2, <2>3 DEF s
<1>5. QED
  BY <1>1, <1>3, <1>4

\* Thumbnails of a JPEG within the limits are decoded within the limits.
LEMMA SmallWithinLimits ==
  ASSUME NEW f, f.width \in Nat \ {0}, f.height \in Nat \ {0},
         ~ TooLarge(f.width, f.height)
  PROVE  LET s == DecodedSize(f, 120)
         IN ~ TooLarge(s[1], s[2])
<1> DEFINE w == f.width
           h == f.height
           W(i) == Scaled(w, ScalingFactors[i])
           H(i) == Scaled(h, ScalingFactors[i])
           best == BestFactor(w, h, 120)
           s == DecodedSize(f, 120)
<1>1. s = IF best = 0 THEN <<w, h>> ELSE <<W(best), H(best)>>
  BY DEF DecodedSize
<1>2. best # 0 => /\ best \in 1..16
                  /\ W(9) >= 120 \/ H(9) >= 120 => W(best) * H(best) <= W(9) * H(9)
  <2> DEFINE good == {i \in 1..16 : W(i) >= 120 \/ H(i) >= 120}
  <2>1. IF 120 = 0 \/ good = {} THEN best = 0
        ELSE best \in good /\ \A j \in good : W(best) * H(best) <= W(j) * H(j)
    BY FactorChosen
  <2> HIDE DEF W, H, best
  <2>2. QED
    BY <2>1
<1>3. W(9) = w /\ H(9) = h
  BY FactorsAreFractions DEF Scaled
<1>4. \A i \in 1..16 : /\ W(i) \in Nat \ {0} /\ H(i) \in Nat \ {0}
                       /\ W(i) <= 2 * w /\ H(i) <= 2 * h
                       /\ i < 9 => W(i) >= w /\ H(i) >= h
                       /\ i >= 9 => W(i) <= w /\ H(i) <= h
  <2>1. ASSUME NEW i \in 1..16, NEW n \in Nat \ {0}
        PROVE  LET q == Scaled(n, ScalingFactors[i])
               IN /\ q \in Nat \ {0} /\ q <= 2 * n
                  /\ (i < 9 => q >= n) /\ (i >= 9 => q <= n)
    <3> DEFINE a == ScalingFactors[i][1]
               b == ScalingFactors[i][2]
               q == Scaled(n, ScalingFactors[i])
    <3>1. /\ a \in 1..15 /\ b \in 1..8 /\ q \in Nat \ {0}
          /\ n * a <= b * q /\ b * q < n * a + b
      BY ScaledSide
    <3>2. a <= 2 * b /\ (i < 9 => a > b) /\ (i >= 9 => a <= b)
      BY FactorsAreFractions
    <3> HIDE DEF a, b, q
    <3>3. q <= 2 * n
      <4>1. SUFFICES ASSUME 2 * n + 1 <= q PROVE FALSE
        BY <3>1
      <4>2. b * (2 * n + 1) <= b * q /\ n * a <= n * (2 * b)
        BY <3>1, <3>2, <4>1, ProductMonotone
      <4>3. b * (2 * n + 1) = n * (2 * b) + b /\ b * q \in Nat /\ n * (2 * b) \in Nat
            /\ n * a \in Nat
        BY <3>1, Z3
      <4>4. QED
        BY <3>1, <4>2, <4>3
    <3>4. ASSUME i < 9 PROVE q >= n
      <4>1. SUFFICES ASSUME q + 1 <= n PROVE FALSE
        BY <3>1
      <4>2. b * (q + 1) <= b * n /\ n * b <= n * a
        BY <3>1, <3>2, <3>4, <4>1, ProductMonotone
      <4>3. b * (q + 1) = b * q + b /\ b * n = n * b /\ b * q \in Nat /\ n * b \in Nat
            /\ n * a \in Nat
        BY <3>1, Z3
      <4>4. QED
        BY <3>1, <4>2, <4>3
    <3>5. ASSUME i >= 9 PROVE q <= n
      <4>1. SUFFICES ASSUME n + 1 <= q PROVE FALSE
        BY <3>1
      <4>2. b * (n + 1) <= b * q /\ n * a <= n * b
        BY <3>1, <3>2, <3>5, <4>1, ProductMonotone
      <4>3. b * (n + 1) = n * b + b /\ b * q \in Nat /\ n * b \in Nat /\ n * a \in Nat
        BY <3>1, Z3
      <4>4. QED
        BY <3>1, <4>2, <4>3
    <3>6. QED
      BY <3>1, <3>3, <3>4, <3>5 DEF q
  <2>2. QED
    BY <2>1
<1> HIDE DEF w, h, W, H, best, s
<1>5. w \in Nat \ {0} /\ h \in Nat \ {0} /\ ~ TooLarge(w, h)
  BY DEF w, h
<1>6. CASE best = 0
  <2>1. s[1] = w /\ s[2] = h
    BY <1>1, <1>6
  <2>2. QED
    BY <1>5, <2>1 DEF s
<1>7. CASE best # 0
  <2> DEFINE x == W(best)
             y == H(best)
  <2>1. s[1] = x /\ s[2] = y
    BY <1>1, <1>7
  <2>2. /\ x \in Nat \ {0} /\ y \in Nat \ {0} /\ x <= 2 * w /\ y <= 2 * h
        /\ (x >= w /\ y >= h) \/ (x <= w /\ y <= h)
    BY <1>2, <1>4, <1>7
  <2>3. w >= 120 \/ h >= 120 => x * y <= w * h
    BY <1>2, <1>3, <1>7
  <2> HIDE DEF x, y
  <2>4. CASE w < 120 /\ h < 120
    <3>1. x <= 238 /\ y <= 238
      BY <1>5, <2>2, <2>4
    <3>2. ~ TooLarge(238, 238)
      BY DEF TooLarge, MaxDecodedImagePixels, MaxImageDimension
    <3>3. ~ TooLarge(x, y)
      BY <2>2, <3>1, <3>2, SmallerIsNotTooLarge
    <3>4. QED
      BY <2>1, <3>3 DEF s
  <2>5. CASE w >= 120 \/ h >= 120
    <3>1. x <= w /\ y <= h
      <4>1. CASE x >= w /\ y >= h
        <5>1. x * y <= w * h
          BY <2>3, <2>5
        <5>2. ASSUME x >= w + 1 PROVE FALSE
          <6>1. (w + 1) * h <= x * y /\ (w + 1) * h = w * h + h /\ w * h \in Nat
                /\ x * y \in Nat
            BY <1>5, <2>2, <4>1, <5>2, Z3
          <6>2. QED
            BY <1>5, <5>1, <6>1
        <5>3. ASSUME y >= h + 1 PROVE FALSE
          <6>1. w * (h + 1) <= x * y /\ w * (h + 1) = w * h + w /\ w * h \in Nat
                /\ x * y \in Nat
            BY <1>5, <2>2, <4>1, <5>3, Z3
          <6>2. QED
            BY <1>5, <5>1, <6>1
        <5>4. QED
          BY <1>5, <2>2, <5>2, <5>3
      <4>2. QED
        BY <2>2, <4>1
    <3>2. ~ TooLarge(x, y)
      BY <1>5, <2>2, <3>1, SmallerIsNotTooLarge
    <3>3. QED
      BY <2>1, <3>2 DEF s
  <2>6. QED
    BY <1>5, <2>4, <2>5
<1>8. QED
  BY <1>6, <1>7

\* NfJpegImageDecoder::decodeScaled.
LEMMA JpegIsAcceptable ==
  ASSUME NEW f, IsFile(f), f.format = "Jpeg", NEW target \in Nat
  PROVE  Acceptable(f, DecodeScaled(f, target))
<1> DEFINE s == DecodedSize(f, target)
           d == [width |-> s[1], height |-> s[2], channels |-> 4, format |-> "ARGB32",
                 orientation |-> OrientationFromExif(f.orientation),
                 size |-> 4 * s[1] * s[2]]
           none == ~Opens(f) \/ f.width <= 0 \/ f.height <= 0
                   \/ TooLarge(s[1], s[2]) \/ ~f.decodes
<1>1. DecodeScaled(f, target) = IF none THEN NoData ELSE d
  BY DEF DecodeScaled, DecodedSize
<1>2. CASE none
  BY <1>1, <1>2, NothingIsNull DEF Acceptable
<1>3. CASE ~ none
  <2>1. f.width \in Nat \ {0} /\ f.height \in Nat \ {0} /\ ~ TooLarge(s[1], s[2])
    BY <1>3 DEF IsFile
  <2>2. /\ s[1] \in Nat \ {0} /\ s[2] \in Nat \ {0}
        /\ \A max \in Nat \ {0} : max * s[1] < s[2] => max * f.width < f.height
    BY <2>1, DecodedAt
  <2> HIDE DEF s
  <2>3. IsPicture(d)
    BY <2>2 DEF IsPicture, DataFields
  <2>4. \A max \in Nat \ {0} : max * d.width < d.height => TooNarrow(f, max)
    BY <2>2 DEF TooNarrow
  <2>5. Acceptable(f, d)
    BY <2>1, <2>3, <2>4 DEF Acceptable, IsNull
  <2>6. QED
    BY <1>1, <1>3, <2>5
<1>4. QED
  BY <1>2, <1>3

\* NfPngImageDecoder::fullImageData; nothing only for its guards.
LEMMA PngIsAcceptable ==
  ASSUME NEW f, IsFile(f), f.format = "Png"
  PROVE  /\ Acceptable(f, DecodePng(f))
         /\ IsNull(DecodePng(f)) =>
              \/ ~Opens(f) \/ ~f.decodes \/ f.width = 0 \/ f.height = 0
              \/ TooLarge(f.width, f.height)
<1> DEFINE d == [EmptyData EXCEPT
                   !.width = f.width, !.height = f.height,
                   !.format = "RGBA8888", !.size = 4 * f.width * f.height,
                   !.orientation = OrientationFromExif(f.orientation)]
           none == ~Opens(f) \/ f.width = 0 \/ f.height = 0
                   \/ TooLarge(f.width, f.height) \/ ~f.decodes
<1>1. DecodePng(f) = IF none THEN NoData ELSE Converted(d, NoJpeg)
  BY DEF DecodePng
<1>2. CASE none
  BY <1>1, <1>2, NothingIsNull DEF Acceptable
<1>3. CASE ~ none
  <2>1. f.width \in Nat \ {0} /\ f.height \in Nat \ {0}
    BY <1>3 DEF IsFile
  <2>2. /\ DOMAIN d = DataFields /\ d.width = f.width /\ d.height = f.height
        /\ d.channels = 0 /\ d.format = "RGBA8888" /\ d.size = 4 * f.width * f.height
    BY DEF EmptyData, DataFields
  <2> HIDE DEF d
  <2>3. Converted(d, NoJpeg) = d
    BY <2>2 DEF Converted, Converts
  <2>4. IsPicture(d) /\ \A max \in Nat \ {0} : max * d.width < d.height => TooNarrow(f, max)
    BY <2>1, <2>2 DEF IsPicture, TooNarrow
  <2>5. Acceptable(f, d) /\ ~ IsNull(d)
    BY <2>2, <2>4 DEF Acceptable, IsNull
  <2>6. QED
    BY <1>1, <1>3, <2>3, <2>5
<1>4. QED
  BY <1>2, <1>3

\* NfRawImageDecoder::decodeThumbnail of an embedded image: of the two kinds
\* only a JPEG comes through, as large as its own header says.
LEMMA EmbeddedDecoded ==
  ASSUME NEW thumb \in EmbeddedImages, NEW flip
  PROVE  LET d == DecodeThumbnail(thumb, flip)
         IN \/ d = NoData
            \/ /\ IsPicture(d) /\ d.format = "ARGB32" /\ d.orientation = flip
               /\ d.width = thumb.headerWidth /\ d.height = thumb.headerHeight
<1> DEFINE d == [EmptyData EXCEPT
                   !.width = thumb.width, !.height = thumb.height,
                   !.size = thumb.length, !.orientation = flip,
                   !.format = IF thumb.kind = "jpeg" THEN "JPEG" ELSE "RGB888"]
           none == \/ thumb.kind \notin {"jpeg", "bitmap"}
                   \/ thumb.length = 0 \/ thumb.width <= 0 \/ thumb.height <= 0
                   \/ TooLarge(thumb.width, thumb.height)
                   \/ thumb.kind = "bitmap" /\ Pixels(d) > thumb.length \div 3
                   \/ ~Converts(d, thumb)
           w == thumb.headerWidth
           h == thumb.headerHeight
           e == [d EXCEPT !.width = w, !.height = h, !.channels = 4, !.format = "ARGB32",
                          !.size = 4 * w * h]
<1>1. DecodeThumbnail(thumb, flip) = IF none THEN NoData ELSE Converted(d, thumb)
  BY DEF DecodeThumbnail
<1>2. CASE none
  BY <1>1, <1>2
<1>3. CASE ~ none
  <2>1. /\ DOMAIN d = DataFields /\ d.channels = 0 /\ d.orientation = flip
        /\ d.format \in {"JPEG", "RGB888"}
    BY DEF EmptyData, DataFields
  <2>2. Converts(d, thumb)
    BY <1>3
  <2> HIDE DEF d
  <2>3. d.format = "JPEG" /\ JpegConverts(thumb)
    BY <2>1, <2>2 DEF Converts
  <2>4. w \in Nat \ {0} /\ h \in Nat \ {0}
    BY <2>3 DEF JpegConverts, EmbeddedImages
  <2>5. Converted(d, thumb) = e
    BY <2>2, <2>3 DEF Converted
  <2> HIDE DEF w, h
  <2>6. /\ DOMAIN e = DataFields /\ e.width = w /\ e.height = h /\ e.orientation = flip
        /\ e.channels = 4 /\ e.format = "ARGB32" /\ e.size = 4 * w * h
    BY <2>1 DEF DataFields
  <2> HIDE DEF e, none
  <2>7. IsPicture(e)
    BY <2>4, <2>6 DEF IsPicture
  <2>8. QED
    BY <1>1, <1>3, <2>5, <2>6, <2>7 DEF w, h
<1>4. QED
  BY <1>2, <1>3

\* Its thumbnailImageData and previewImageData.
LEMMA EmbeddedIsAcceptable ==
  ASSUME NEW f, IsFile(f), f.format = "Raw", NEW target \in Nat
  PROVE  /\ Acceptable(f, EmbeddedImage(f, target))
         /\ ~IsNull(EmbeddedImage(f, target)) => EmbeddedImage(f, target).orientation = f.flip
<1> DEFINE best == SelectBestForTarget(f.thumbs, target)
           d == DecodeThumbnail(f.thumbs[best], f.flip)
<1>1. EmbeddedImage(f, target) =
        IF ~Opens(f) \/ best = 0 THEN NoData ELSE IF ~f.thumbs[best].unpacks THEN NoData ELSE d
  BY DEF EmbeddedImage
<1>2. best = 0 \/ best \in 1..Len(f.thumbs)
  <2> DEFINE good == {i \in 1..Len(f.thumbs) : f.thumbs[i].height >= target}
  <2>1. best = IF good = {} THEN 0 ELSE Min(good)
    BY DEF SelectBestForTarget
  <2>2. ASSUME good # {}
        PROVE  Min(good) \in 1..Len(f.thumbs)
    <3>1. good \subseteq Int /\ good \subseteq 1..Len(f.thumbs)
      OBVIOUS
    <3>2. IsFiniteSet(1..Len(f.thumbs))
      <4>1. Len(f.thumbs) \in Int
        BY LenProperties DEF IsFile
      <4>2. QED
        BY <4>1, FS_Interval
    <3> HIDE DEF good
    <3>3. IsFiniteSet(good)
      BY <3>1, <3>2, FS_Subset
    <3>4. QED
      BY <2>2, <3>1, <3>3, SmallestExists
  <2>3. QED
    BY <2>1, <2>2
<1> HIDE DEF best
<1>3. CASE EmbeddedImage(f, target) = NoData
  BY <1>3, NothingIsNull DEF Acceptable
<1>4. CASE EmbeddedImage(f, target) # NoData
  <2>1. EmbeddedImage(f, target) = d /\ best \in 1..Len(f.thumbs) /\ d # NoData
    BY <1>1, <1>2, <1>4
  <2>2. f.thumbs[best] \in EmbeddedImages
    BY <2>1, ElementOfSeq DEF IsFile
  <2>3. /\ IsPicture(d) /\ d.format = "ARGB32" /\ d.orientation = f.flip
        /\ d.width = f.thumbs[best].headerWidth /\ d.height = f.thumbs[best].headerHeight
    BY <2>1, <2>2, EmbeddedDecoded
  <2> HIDE DEF d
  <2>4. \A max \in Nat \ {0} : max * d.width < d.height => TooNarrow(f, max)
    BY <2>1, <2>3 DEF TooNarrow
  <2>5. Acceptable(f, d)
    BY <2>3, <2>4 DEF Acceptable, IsNull
  <2>6. QED
    BY <2>1, <2>3, <2>5
<1>5. QED
  BY <1>3, <1>4

\* A picture that is too narrow when it is halved is so before.
LEMMA HalvedIsNarrow ==
  ASSUME NEW w \in Nat \ {0}, NEW h \in Nat \ {0}, NEW half \in BOOLEAN,
         NEW max \in Nat \ {0}, max * RawSize(w, half) < RawSize(h, half)
  PROVE  max * w < h
<1>1. CASE ~ half
  BY <1>1 DEF RawSize
<1>2. CASE half
  <2>1. /\ RawSize(w, half) = (w * 1 + 2 - 1) \div 2
        /\ RawSize(h, half) = (h * 1 + 2 - 1) \div 2
    BY <1>2 DEF RawSize
  <2>2. max * ((w * 1 + 2 - 1) \div 2) < (h * 1 + 2 - 1) \div 2
    BY <2>1
  <2>3. QED
    BY <2>2, NarrowBefore
<1>3. QED
  BY <1>1, <1>2

\* Its fullImageData and rawImageData, turned by LibRaw; nothing only for their
\* guards.
LEMMA RawIsAcceptable ==
  ASSUME NEW f, IsFile(f), f.format = "Raw", NEW half \in BOOLEAN
  PROVE  /\ Acceptable(f, DecodeRaw(f, half))
         /\ ~IsNull(DecodeRaw(f, half)) => DecodeRaw(f, half).orientation = f.flip
         /\ IsNull(DecodeRaw(f, half)) =>
              ~Opens(f) \/ ~f.decodes \/ f.width = 0 \/ f.height = 0
<1> DEFINE w == RawSize(f.width, half)
           h == RawSize(f.height, half)
           turned == SizeTurnedByLibRaw(f.flip, w, h)
           d == [width |-> turned[1], height |-> turned[2], channels |-> 4,
                 format |-> "ARGB32", orientation |-> f.flip,
                 size |-> 4 * turned[1] * turned[2]]
           none == ~Opens(f) \/ ~f.decodes \/ turned[1] = 0 \/ turned[2] = 0
<1>1. DecodeRaw(f, half) = IF none THEN NoData ELSE d
  BY DEF DecodeRaw
<1>2. \A n \in Nat : /\ RawSize(n, half) \in Nat
                     /\ (RawSize(n, half) = 0 <=> n = 0)
  BY DEF RawSize
<1>3. f.width \in Nat /\ f.height \in Nat
  BY DEF IsFile
<1>4. \/ turned = <<w, h>> /\ SizeTurnedByLibRaw(f.flip, f.width, f.height) = <<f.width, f.height>>
      \/ turned = <<h, w>> /\ SizeTurnedByLibRaw(f.flip, f.width, f.height) = <<f.height, f.width>>
  BY DEF SizeTurnedByLibRaw
<1>5. w \in Nat /\ h \in Nat /\ (w = 0 <=> f.width = 0) /\ (h = 0 <=> f.height = 0)
  BY <1>2, <1>3
<1> HIDE DEF turned
<1>6. CASE none
  BY <1>1, <1>4, <1>5, <1>6, NothingIsNull DEF Acceptable
<1>7. CASE ~ none
  <2>1. /\ turned[1] \in Nat \ {0} /\ turned[2] \in Nat \ {0}
        /\ w \in Nat \ {0} /\ h \in Nat \ {0}
        /\ f.width \in Nat \ {0} /\ f.height \in Nat \ {0}
    BY <1>3, <1>4, <1>5, <1>7
  <2>2. ASSUME NEW max \in Nat \ {0}, max * turned[1] < turned[2]
        PROVE  TooNarrow(f, max)
    <3>1. CASE turned = <<w, h>> /\ SizeTurnedByLibRaw(f.flip, f.width, f.height) = <<f.width, f.height>>
      <4>1. max * f.width < f.height
        BY <2>1, <2>2, <3>1, HalvedIsNarrow
      <4>2. QED
        BY <3>1, <4>1 DEF TooNarrow
    <3>2. CASE turned = <<h, w>> /\ SizeTurnedByLibRaw(f.flip, f.width, f.height) = <<f.height, f.width>>
      <4>1. max * f.height < f.width
        BY <2>1, <2>2, <3>2, HalvedIsNarrow
      <4>2. QED
        BY <3>2, <4>1 DEF TooNarrow
    <3>3. QED
      BY <1>4, <3>1, <3>2
  <2> HIDE DEF w, h
  <2>3. IsPicture(d)
    BY <2>1 DEF IsPicture, DataFields
  <2>4. Acceptable(f, d) /\ ~ IsNull(d)
    BY <2>2, <2>3 DEF Acceptable, IsNull
  <2>5. QED
    BY <1>1, <1>7, <2>4
<1>8. QED
  BY <1>6, <1>7

\* The embedded image, and where there is none the full one.
LEMMA ExtractedIsAcceptable ==
  ASSUME NEW f, IsFile(f), NEW target \in Nat, NEW reduced \in BOOLEAN
  PROVE  Acceptable(f, Extracted(f, target, reduced))
<1>1. Acceptable(f, NoData)
  BY NothingIsNull DEF Acceptable
<1>2. Acceptable(f, SmallImage(f, target)) /\ Acceptable(f, FullImage(f, reduced))
  <2>1. CASE f.format = "Jpeg"
    <3>1. (IF reduced THEN 250 ELSE 0) \in Nat
      OBVIOUS
    <3>2. QED
      BY <2>1, <3>1, JpegIsAcceptable DEF SmallImage, FullImage
  <2>2. CASE f.format = "Png"
    BY <2>2, PngIsAcceptable DEF SmallImage, FullImage
  <2>3. CASE f.format = "Raw"
    BY <2>3, EmbeddedIsAcceptable, RawIsAcceptable DEF SmallImage, FullImage
  <2>4. CASE f.format = "Unknown"
    BY <1>1, <2>4 DEF SmallImage, FullImage
  <2>5. QED
    BY <2>1, <2>2, <2>3, <2>4 DEF IsFile
<1>3. QED
  BY <1>2 DEF Extracted

\* There is nothing to show of a file only if it cannot be opened or decoded, or
\* its image is beyond the limits.
LEMMA ThumbnailIsMade ==
  ASSUME NEW f, IsFile(f), IsNull(Extracted(f, 120, TRUE))
  PROVE  \/ ~Opens(f) \/ ~f.decodes \/ f.format = "Unknown"
         \/ TooLarge(f.width, f.height) \/ f.width = 0 \/ f.height = 0
<1>1. IsNull(SmallImage(f, 120)) /\ IsNull(FullImage(f, TRUE))
  BY DEF Extracted
<1>2. CASE f.format = "Jpeg"
  <2> DEFINE s == DecodedSize(f, 120)
             d == [width |-> s[1], height |-> s[2], channels |-> 4, format |-> "ARGB32",
                   orientation |-> OrientationFromExif(f.orientation),
                   size |-> 4 * s[1] * s[2]]
             none == ~Opens(f) \/ f.width <= 0 \/ f.height <= 0
                     \/ TooLarge(s[1], s[2]) \/ ~f.decodes
  <2>1. DecodeScaled(f, 120) = IF none THEN NoData ELSE d
    BY DEF DecodeScaled, DecodedSize
  <2>2. ~ IsNull(d)
    BY DEF IsNull
  <2>3. IsNull(DecodeScaled(f, 120))
    BY <1>1, <1>2 DEF SmallImage
  <2>4. f.width \in Nat /\ f.height \in Nat
    BY DEF IsFile
  <2>5. f.width # 0 /\ f.height # 0 /\ TooLarge(s[1], s[2]) => TooLarge(f.width, f.height)
    BY <2>4, SmallWithinLimits
  <2> HIDE DEF d, s
  <2>6. QED
    BY <2>1, <2>2, <2>3, <2>4, <2>5
<1>3. CASE f.format = "Png"
  BY <1>1, <1>3, PngIsAcceptable DEF SmallImage
<1>4. CASE f.format = "Raw"
  BY <1>1, <1>4, RawIsAcceptable DEF FullImage
<1>5. QED
  BY <1>2, <1>3, <1>4 DEF IsFile

\* What the task makes of what is extracted.
LEMMA ImageMadeFits ==
  ASSUME NEW f, IsFile(f), NEW d, Acceptable(f, d), NEW max \in Nat \ {0}
  PROVE  /\ IsNull(Finished(d, max)) <=> IsNull(d)
         /\ ~ IsNull(d) => ImageFits(f, Finished(d, max), max)
<1> DEFINE e == Finished(d, max)
<1>1. CASE IsNull(d)
  BY <1>1, NothingIsNull DEF Finished
<1>2. CASE ~ IsNull(d)
  <2>1. /\ IsPicture(d) /\ d.format # "null"
        /\ d.format = (IF f.format = "Png" THEN "RGBA8888" ELSE "ARGB32")
        /\ f.format \notin {"Png", "Raw"} => ~TooLarge(d.width, d.height)
        /\ max * d.width < d.height => TooNarrow(f, max)
    BY <1>2 DEF Acceptable, IsNull
  <2>2. /\ e.format = d.format
        /\ e.width <= max \/ e.height <= max
        /\ e.size = 4 * e.width * e.height
        /\ e.size = 0 => max * d.width < d.height
        /\ e.orientation # Normal =>
             \/ d.format # "ARGB32" \/ e.width = 0 \/ e.height = 0
             \/ /\ e.width > MaxDecodedImagePixels \div e.height
                /\ e.width \in Nat /\ e.width <= d.width
                /\ e.height \in Nat /\ e.height <= d.height
    BY <2>1, FinishedFits
  <2> HIDE DEF e
  <2>3. ASSUME e.orientation # Normal, f.format # "Png", e.width # 0, e.height # 0
        PROVE  f.format = "Raw" /\ e.width > MaxDecodedImagePixels \div e.height
    <3>1. /\ e.width > MaxDecodedImagePixels \div e.height
          /\ e.width \in Nat \ {0} /\ e.width <= d.width
          /\ e.height \in Nat \ {0} /\ e.height <= d.height
      BY <2>1, <2>2, <2>3
    <3>2. ASSUME f.format # "Raw"
          PROVE  FALSE
      <4>1. ~ TooLarge(d.width, d.height) /\ d.width \in Nat \ {0} /\ d.height \in Nat \ {0}
        BY <2>1, <2>3, <3>2 DEF IsPicture
      <4>2. ~ TooLarge(e.width, e.height)
        BY <3>1, <4>1, SmallerIsNotTooLarge
      <4>3. QED
        BY <3>1, <4>2 DEF TooLarge
    <3>3. QED
      BY <3>1, <3>2
  <2>4. ~ IsNull(e)
    BY <2>1, <2>2 DEF IsNull
  <2>5. ImageFits(f, e, max)
    BY <2>1, <2>2, <2>3 DEF ImageFits
  <2>6. QED
    BY <1>2, <2>4, <2>5 DEF e
<1>3. QED
  BY <1>1, <1>2

\* The thumbnail and the preview of any file are as they should be.
LEMMA ImagesOfFileFit ==
  ASSUME NEW f, IsFile(f)
  PROVE  /\ ~IsNull(ThumbnailOf(f)) => ImageFits(f, ThumbnailOf(f), ThumbnailMax)
         /\ ~IsNull(PreviewOf(f)) => ImageFits(f, PreviewOf(f), PreviewMax)
         /\ IsNull(ThumbnailOf(f)) =>
              \/ ~Opens(f) \/ ~f.decodes \/ f.format = "Unknown"
              \/ TooLarge(f.width, f.height) \/ f.width = 0 \/ f.height = 0
<1>1. ThumbnailMax \in Nat \ {0} /\ PreviewMax \in Nat \ {0}
  BY DEF ThumbnailMax, PreviewMax
<1>2. Acceptable(f, Extracted(f, 120, TRUE)) /\ Acceptable(f, Extracted(f, 900, FALSE))
  <2>1. 120 \in Nat /\ 900 \in Nat /\ TRUE \in BOOLEAN /\ FALSE \in BOOLEAN
    OBVIOUS
  <2>2. QED
    BY <2>1, ExtractedIsAcceptable, Zenon
<1>3. /\ IsNull(ThumbnailOf(f)) <=> IsNull(Extracted(f, 120, TRUE))
      /\ ~IsNull(ThumbnailOf(f)) => ImageFits(f, ThumbnailOf(f), ThumbnailMax)
  BY <1>1, <1>2, ImageMadeFits, Zenon DEF ThumbnailOf
<1>4. /\ IsNull(PreviewOf(f)) <=> IsNull(Extracted(f, 900, FALSE))
      /\ ~IsNull(PreviewOf(f)) => ImageFits(f, PreviewOf(f), PreviewMax)
  <2> DEFINE e == Extracted(f, 900, FALSE)
  <2>1. Acceptable(f, e) /\ PreviewOf(f) = Finished(e, PreviewMax)
    BY <1>2 DEF PreviewOf
  <2> HIDE DEF e
  <2>2. /\ IsNull(Finished(e, PreviewMax)) <=> IsNull(e)
        /\ ~IsNull(e) => ImageFits(f, Finished(e, PreviewMax), PreviewMax)
    BY <1>1, <2>1, ImageMadeFits
  <2>3. QED
    BY <2>1, <2>2 DEF e
<1>5. QED
  BY <1>3, <1>4, ThumbnailIsMade, Zenon

-----------------------------------------------------------------------------
(* What is read out of the files.                                          *)

\* The files do not change.
ReadInv == PanelInv /\ file \in Files

LEMMA ReadInvStep == ReadInv /\ [PanelNext]_panelVars => ReadInv'
<1> SUFFICES ASSUME ReadInv, [PanelNext]_panelVars
             PROVE  ReadInv'
  OBVIOUS
<1>1. PanelInv'
  BY PanelInvStep DEF ReadInv
<1>2. file' = file
  BY DEF panelVars, PanelNext, SetPhoto, StartTask, FailTask, FinishTask, ReleaseTask,
     TakeMetadata
<1>3. QED
  BY <1>1, <1>2 DEF ReadInv

\* The turn a decoder's image comes with: for a JPEG and a PNG that of the tag,
\* for a RAW file LibRaw's.
LEMMA OrientationOfImages ==
  ASSUME NEW f, IsFile(f), NEW target \in Nat, NEW reduced \in BOOLEAN,
         NEW d \in {SmallImage(f, target), FullImage(f, reduced)}, ~IsNull(d)
  PROVE  d.orientation = IF f.format = "Raw" THEN f.flip ELSE OrientationFromExif(f.orientation)
<1>1. ASSUME NEW t, ~IsNull(DecodeScaled(f, t))
      PROVE  DecodeScaled(f, t).orientation = OrientationFromExif(f.orientation)
  BY <1>1, NothingIsNull DEF DecodeScaled
<1>2. ASSUME ~IsNull(DecodePng(f))
      PROVE  DecodePng(f).orientation = OrientationFromExif(f.orientation)
  <2> DEFINE p == [EmptyData EXCEPT
                     !.width = f.width, !.height = f.height,
                     !.format = "RGBA8888", !.size = 4 * f.width * f.height,
                     !.orientation = OrientationFromExif(f.orientation)]
  <2>1. DecodePng(f) = Converted(p, NoJpeg)
    BY <1>2, NothingIsNull DEF DecodePng
  <2>2. /\ p.channels = 0 /\ p.format = "RGBA8888"
        /\ p.orientation = OrientationFromExif(f.orientation)
    BY DEF EmptyData
  <2> HIDE DEF p
  <2>3. Converted(p, NoJpeg) = p
    BY <2>2 DEF Converted, Converts
  <2>4. QED
    BY <2>1, <2>2, <2>3
<1>3. CASE f.format = "Jpeg"
  BY <1>1, <1>3 DEF SmallImage, FullImage
<1>4. CASE f.format = "Png"
  BY <1>2, <1>4 DEF SmallImage, FullImage
<1>5. CASE f.format = "Raw"
  BY <1>5, EmbeddedIsAcceptable, RawIsAcceptable DEF SmallImage, FullImage
<1>6. CASE f.format = "Unknown"
  BY <1>6, NothingIsNull DEF SmallImage, FullImage
<1>7. QED
  BY <1>3, <1>4, <1>5, <1>6 DEF IsFile

\* Where nothing is mirrored, the program's turns are LibRaw's.
LEMMA RotatedAsByLibRaw ==
  ASSUME NEW flip \in {0, 3, 5, 6}, NEW w \in Nat, NEW h \in Nat, NEW x \in Nat, NEW y \in Nat
  PROVE  Moved(flip, w, h, x, y) = TurnedByLibRaw(flip, w, h, x, y)
BY DEF Moved, TurnedByLibRaw, FlipVertical, FlipHorizontal, Rotate180,
   Rotate90CWFlipVertical, Rotate270CW, Rotate90CW, Rotate90CWFlipHorizontal

\* An image of a file is handed over with the turn it should have.
LEMMA ImageIsTurnedUpright ==
  ASSUME NEW f, IsFile(f), NEW target \in Nat, NEW reduced \in BOOLEAN,
         NEW d \in {SmallImage(f, target), FullImage(f, reduced)}, ~IsNull(d)
  PROVE  /\ f.format = "Jpeg" /\ f.orientation \in 1..8 =>
              \A x \in 0..2, y \in 0..1 : Upright(f.orientation, d.orientation, 3, 2, x, y)
         /\ Fills(d.orientation, 3, 2)
         /\ f.format = "Raw" /\ f.flip \in {0, 3, 5, 6} =>
              \A x \in 0..2, y \in 0..1 :
                Moved(d.orientation, 3, 2, x, y) = TurnedByLibRaw(f.flip, 3, 2, x, y)
<1> DEFINE o == d.orientation
           w == 3
           h == 2
<1>1. o = IF f.format = "Raw" THEN f.flip ELSE OrientationFromExif(f.orientation)
  BY OrientationOfImages
<1>2. o \in Turns
  BY <1>1, OrientationIsOne DEF IsFile, Turns
<1>3. w \in Nat /\ h \in Nat /\ 0..w - 1 = 0..2 /\ 0..h - 1 = 0..1
  OBVIOUS
<1> HIDE DEF o, w, h
<1>4. f.format = "Jpeg" /\ f.orientation \in 1..8 =>
        \A x \in 0..w - 1, y \in 0..h - 1 : Upright(f.orientation, o, w, h, x, y)
  BY <1>1, <1>3, PixelsGoUpright
<1>5. Fills(o, w, h)
  BY <1>2, <1>3, PixelsFill
<1>6. f.format = "Raw" /\ f.flip \in {0, 3, 5, 6} =>
        \A x \in 0..2, y \in 0..1 : Moved(o, w, h, x, y) = TurnedByLibRaw(f.flip, w, h, x, y)
  BY <1>1, <1>3, RotatedAsByLibRaw
<1>7. QED
  <2>1. f.format = "Jpeg" /\ f.orientation \in 1..8 =>
          \A x \in 0..2, y \in 0..1 : Upright(f.orientation, o, w, h, x, y)
    BY <1>3, <1>4
  <2>2. QED
    BY <1>5, <1>6, <2>1 DEF o, w, h

\* The images of a file are.
LEMMA FileIsTurnedUpright ==
  ASSUME NEW f, IsFile(f)
  PROVE  TurnedAsTheFileSays(f)
<1> DEFINE one == 120
           two == 900
<1>1. one \in Nat /\ two \in Nat /\ TRUE \in BOOLEAN /\ FALSE \in BOOLEAN
  OBVIOUS
<1>2. SmallImages(f) = {SmallImage(f, one), SmallImage(f, two)}
  BY DEF SmallImages
<1>3. FullImages(f) = {FullImage(f, TRUE), FullImage(f, FALSE)}
  BY DEF FullImages
<1> HIDE DEF one, two
<1>4. ASSUME NEW d \in SmallImages(f) \union FullImages(f)
      PROVE  \E target \in Nat, reduced \in BOOLEAN :
               d \in {SmallImage(f, target), FullImage(f, reduced)}
  <2>1. CASE d = SmallImage(f, one)
    BY <1>1, <2>1, Zenon
  <2>2. CASE d = SmallImage(f, two)
    BY <1>1, <2>2, Zenon
  <2>3. CASE d = FullImage(f, TRUE)
    BY <1>1, <2>3, Zenon
  <2>4. CASE d = FullImage(f, FALSE)
    BY <1>1, <2>4, Zenon
  <2>5. QED
    BY <1>2, <1>3, <2>1, <2>2, <2>3, <2>4
<1>5. ASSUME NEW d \in SmallImages(f) \union FullImages(f), ~IsNull(d)
      PROVE  /\ f.format = "Jpeg" /\ f.orientation \in 1..8 =>
                  \A x \in 0..2, y \in 0..1 : Upright(f.orientation, d.orientation, 3, 2, x, y)
             /\ Fills(d.orientation, 3, 2)
             /\ f.format = "Raw" /\ f.flip \in {0, 3, 5, 6} =>
                  \A x \in 0..2, y \in 0..1 :
                    Moved(d.orientation, 3, 2, x, y) = TurnedByLibRaw(f.flip, 3, 2, x, y)
  <2>1. PICK target \in Nat, reduced \in BOOLEAN :
          d \in {SmallImage(f, target), FullImage(f, reduced)}
    BY <1>4
  <2>2. QED
    BY <1>5, <2>1, ImageIsTurnedUpright
<1>6. \A d \in SmallImages(f) : d \in SmallImages(f) \union FullImages(f)
  OBVIOUS
<1>7. \A d \in SmallImages(f) :
        f.format = "Raw" /\ ~IsNull(d) /\ f.flip \in {0, 3, 5, 6} =>
          \A x \in 0..2, y \in 0..1 :
            Moved(d.orientation, 3, 2, x, y) = TurnedByLibRaw(f.flip, 3, 2, x, y)
  BY <1>5, <1>6, Zenon
<1>8. \A d \in SmallImages(f) \union FullImages(f) : ~IsNull(d) =>
        /\ f.format = "Jpeg" /\ f.orientation \in 1..8 =>
             \A x \in 0..2, y \in 0..1 : Upright(f.orientation, d.orientation, 3, 2, x, y)
        /\ Fills(d.orientation, 3, 2)
  BY <1>5, Zenon
<1>9. QED
  BY <1>7, <1>8, Zenon DEF TurnedAsTheFileSays

\* For files of any size, orientation and tags, with any embedded images, the
\* decoders make images within the limits; a JPEG is turned the right way up by
\* its tag and an image embedded in a RAW file by LibRaw's turn unless that
\* mirrors it; and the extractor reads clean names.
THEOREM FilesAreReadRight == PanelSpec => []FileIsReadRight
<1>1. PanelInit => ReadInv
  BY PanelInvInit DEF ReadInv, PanelInit
<1>2. ReadInv => FileIsReadRight
  <2> SUFFICES ASSUME ReadInv
               PROVE  FileIsReadRight
    OBVIOUS
  <2>1. \A p \in Current : p # NoPhoto => IsFile(file[p])
    BY FilesAssumption DEF ReadInv, Current
  <2>2. photo \in Current /\ items \in Current
    BY DEF ReadInv, PanelInv, PanelTypes
  <2>3. ImagesFit
    BY <2>1, <2>2, ImagesOfFileFit DEF ImagesFit
  <2>4. TurnedUpright
    BY <2>1, <2>2, FileIsTurnedUpright DEF TurnedUpright
  <2>5. CameraNamesClean
    BY <2>1, <2>2, CameraIsClean DEF CameraNamesClean
  <2>6. QED
    BY <2>3, <2>4, <2>5 DEF FileIsReadRight
<1>3. QED
  BY <1>1, ReadInvStep, <1>2, PTL DEF PanelSpec

=============================================================================
