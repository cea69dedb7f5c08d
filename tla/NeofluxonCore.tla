--------------------------- MODULE NeofluxonCore ---------------------------
(***************************************************************************)
(* The life of the program: main, NeofluxonCore::initialize, which makes   *)
(* the parts of the core one after the other and may fail at each, and its *)
(* destructor, which ends them while their threads may be in the middle of *)
(* something.  The parts know each other by plain pointers.                *)
(* Two lifetimes are finer than the parts here and are not in it: the      *)
(* members of the scanner itself, and the callbacks of tree tasks, which   *)
(* capture an adapter of the main window's.                                *)
(*                                                                         *)
(* Beside it the settings of the disk cache, which outlive the program in  *)
(* disk-cache.ini: NfDiskCacheSettings reads and writes them,              *)
(* NfSettingsDialog shows and changes them while the program runs.         *)
(***************************************************************************)
EXTENDS Integers, FiniteSets, Sequences, SequencesExt

CONSTANTS Gigabyte,    \* 2^30 in the code
          SpinRange,   \* the upper end of the spin boxes, 4096
          Folders,     \* the folders the user browses to
          Defaults,    \* NfDiskCacheSettings::defaults()
          OldSettings, \* what disk-cache.ini may be when the program first starts
          NoFile,      \* the file is not there
          Unreadable,  \* the file is not what the program writes
          Closed       \* there is no dialog

Settings == [directory : Folders \union {Defaults.directory}, max : Nat, free : Nat]

ASSUME CoreAssumption ==
  /\ Gigabyte \in Nat \ {0} /\ SpinRange \in Nat \ {0}
  /\ Defaults \in Settings /\ Defaults.max > 0
  /\ NoFile # Unreadable /\ {NoFile, Unreadable, Closed} \intersect Settings = {}
  /\ OldSettings \subseteq Settings \union {NoFile, Unreadable}

\* initialize makes the parts in this order ...
MakeOrder ==
  <<"threadAllocationManager", "diskCache", "thumbnailCache", "previewCache",
    "foregroundScheduler", "foregroundThreadPool", "backgroundScheduler",
    "backgroundThreadPool", "libraryManager", "photoLoader", "metadataLoader">>

\* ... and the class declares them in this one.
MemberOrder ==
  <<"thumbnailCache", "previewCache", "diskCache", "threadAllocationManager",
    "foregroundScheduler", "foregroundThreadPool", "backgroundScheduler",
    "backgroundThreadPool", "libraryManager", "photoLoader", "metadataLoader">>

Parts == ToSet(MakeOrder)

VARIABLES
  stage,      \* where main is
  alive,      \* the parts there are
  mainWindow, \* whether there is a main window, with all that asks for tasks
  doing,      \* doing[r]: what the threads of r are at
  settings,   \* disk-cache.ini
  temporary,  \* disk-cache.ini.tmp
  dialog,     \* what NfSettingsDialog shows, if it is open
  saving      \* where accept is

lifeVars == <<stage, alive, mainWindow, doing>>
fileVars == <<settings, temporary>>
dialogVars == <<dialog, saving>>
vars == <<lifeVars, fileVars, dialogVars>>

Runners == {"foreground", "background", "scanner", "diskWriter"}
Nothing == "nothing"

\* What the threads of a runner do, and the parts they touch then, the result
\* handlers of the tasks included.
Activities(r) ==
  CASE r = "foreground" -> {"image", "metadata", "libraryTree"}
    [] r = "background" -> {"import"}
    [] r = "scanner" -> {"scanFolder", "scanLibrary"}
    [] r = "diskWriter" -> {"writeImage"}

Touches(activity) ==
  CASE activity = "image" ->
         {"thumbnailCache", "previewCache", "diskCache", "photoLoader", "foregroundScheduler"}
    [] activity = "metadata" -> {"metadataLoader", "libraryManager", "foregroundScheduler"}
    [] activity = "libraryTree" -> {"libraryManager", "foregroundScheduler"}
    [] activity = "import" -> {"libraryManager", "backgroundScheduler", "foregroundScheduler"}
    [] activity = "scanFolder" -> {"photoLoader"}
    [] activity = "scanLibrary" -> {"photoLoader", "libraryManager"}
    [] activity = "writeImage" -> {"diskCache"}
    [] activity = Nothing -> {}

\* The part a runner's threads belong to, which joins them when it is destroyed.
Owner(r) ==
  CASE r = "foreground" -> "foregroundThreadPool"
    [] r = "background" -> "backgroundThreadPool"
    [] r = "scanner" -> "photoLoader"
    [] r = "diskWriter" -> "diskCache"

-----------------------------------------------------------------------------
(* The settings file.                                                      *)

\* load: what does not read, has no directory or no size gives the defaults.
Load(file) ==
  IF file \in {NoFile, Unreadable} \/ (file \in Settings /\ file.max = 0)
  THEN Defaults ELSE file

\* A spin box shows whole gigabytes, from 1 on.
Spin(bytes) ==
  LET gigabytes == bytes \div Gigabyte
  IN IF gigabytes < 1 THEN 1 ELSE IF gigabytes > SpinRange THEN SpinRange ELSE gigabytes

\* What the dialog shows of settings, and what accept makes of what it shows.
Shown(s) == [directory |-> s.directory, max |-> Spin(s.max), free |-> Spin(s.free)]
Entered(d) == [d EXCEPT !.max = @ * Gigabyte, !.free = @ * Gigabyte]

-----------------------------------------------------------------------------
(* main and initialize.                                                    *)

Init ==
  /\ stage = "ended" /\ alive = {} /\ mainWindow = FALSE
  /\ doing = [r \in Runners |-> Nothing]
  /\ settings \in OldSettings /\ temporary = NoFile
  /\ dialog = Closed /\ saving = "no"

\* main: the three directories are made.
CreateDirectories ==
  /\ stage = "ended"
  /\ \/ stage' = "making"
     \/ stage' = "ended"   \* one cannot be made
  /\ UNCHANGED <<alive, mainWindow, doing, fileVars, dialogVars>>

Next1(order) == order[CHOOSE i \in DOMAIN order :
                        order[i] \notin alive /\ \A j \in 1..(i - 1) : order[j] \in alive]
Last1(order) == order[CHOOSE i \in DOMAIN order :
                        order[i] \in alive /\ \A j \in (i + 1)..Len(order) : order[j] \notin alive]

\* The next part is made.
Make ==
  /\ stage = "making" /\ alive # Parts
  /\ alive' = alive \union {Next1(MakeOrder)}
  /\ UNCHANGED <<stage, mainWindow, doing, fileVars, dialogVars>>

\* A part throws, or the library manager cannot open its database: what there
\* is is destroyed, last made first.
MakeFails ==
  /\ stage = "making" /\ alive # Parts
  /\ stage' = "failing"
  /\ UNCHANGED <<alive, mainWindow, doing, fileVars, dialogVars>>

DestroyLocal ==
  /\ stage = "failing"
  /\ IF alive = {} THEN stage' = "ended" /\ UNCHANGED alive
     ELSE alive' = alive \ {Last1(MakeOrder)} /\ UNCHANGED stage
  /\ UNCHANGED <<mainWindow, doing, fileVars, dialogVars>>

\* The members take the parts over, and the main window is made.
ShowMainWindow ==
  /\ stage = "making" /\ alive = Parts
  /\ stage' = "running" /\ mainWindow' = TRUE
  /\ UNCHANGED <<alive, doing, fileVars, dialogVars>>

\* The user closes the window: what asked for tasks goes, the tasks stay.
CloseMainWindow ==
  /\ stage = "running" /\ dialog = Closed
  /\ stage' = "resetting" /\ mainWindow' = FALSE
  /\ UNCHANGED <<alive, doing, fileVars, dialogVars>>

-----------------------------------------------------------------------------
(* The threads.                                                            *)

\* A thread takes up something that was asked for while there was a window; it
\* may come to it later, as long as there is somebody to run it.
Begin(r, activity) ==
  /\ stage \in {"running", "resetting", "destroying"}
  /\ Owner(r) \in alive
  /\ doing[r] = Nothing
  /\ doing' = [doing EXCEPT ![r] = activity]
  /\ UNCHANGED <<stage, alive, mainWindow, fileVars, dialogVars>>

Finish(r) ==
  /\ doing[r] # Nothing
  /\ doing' = [doing EXCEPT ![r] = Nothing]
  /\ UNCHANGED <<stage, alive, mainWindow, fileVars, dialogVars>>

-----------------------------------------------------------------------------
(* The destructor.                                                         *)

\* A part that owns threads waits for what they are at.
Joined(part) == \A r \in Runners : Owner(r) = part => doing[r] = Nothing

\* Mutant: the pools end when their turn comes among the members.
ResetPoolsNot ==
  /\ stage = "resetting"
  /\ stage' = "destroying"
  /\ UNCHANGED <<alive, mainWindow, doing, fileVars, dialogVars>>

\* The body of the destructor: the foreground pool first, then the background
\* pool.
ResetPools ==
  /\ stage = "resetting"
  /\ LET pool == IF "foregroundThreadPool" \in alive
                 THEN "foregroundThreadPool" ELSE "backgroundThreadPool" IN
     /\ Joined(pool)
     /\ alive' = alive \ {pool}
     /\ stage' = IF pool = "backgroundThreadPool" THEN "destroying" ELSE stage
  /\ UNCHANGED <<mainWindow, doing, fileVars, dialogVars>>

\* The members, last declared first.
DestroyMember ==
  /\ stage = "destroying"
  /\ IF alive = {} THEN stage' = "ended" /\ UNCHANGED alive
     ELSE /\ Joined(Last1(MemberOrder))
          /\ alive' = alive \ {Last1(MemberOrder)}
          /\ UNCHANGED stage
  /\ UNCHANGED <<mainWindow, doing, fileVars, dialogVars>>

\* The process dies.
Crash ==
  /\ stage # "ended"
  /\ stage' = "ended" /\ alive' = {} /\ mainWindow' = FALSE
  /\ doing' = [r \in Runners |-> Nothing]
  /\ dialog' = Closed /\ saving' = "no"
  /\ UNCHANGED <<fileVars>>

-----------------------------------------------------------------------------
(* The settings dialog.                                                    *)

OpenDialog ==
  /\ mainWindow /\ dialog = Closed
  /\ dialog' = Shown(Load(settings))
  /\ UNCHANGED <<lifeVars, fileVars, saving>>

\* The user turns a spin box or browses to a folder.
Change ==
  /\ dialog # Closed /\ saving = "no"
  /\ \/ \E n \in 1..SpinRange :
          dialog' = [dialog EXCEPT !.max = n] \/ dialog' = [dialog EXCEPT !.free = n]
     \/ \E f \in Folders : dialog' = [dialog EXCEPT !.directory = f]
  /\ UNCHANGED <<lifeVars, fileVars, saving>>

Reject ==
  /\ dialog # Closed /\ saving = "no"
  /\ dialog' = Closed
  /\ UNCHANGED <<lifeVars, fileVars, saving>>

\* Mutant: the settings file itself is opened, which truncates it.
SaveBeginInPlace ==
  /\ dialog # Closed /\ saving = "no"
  /\ settings' = Unreadable /\ UNCHANGED temporary
  /\ saving' = "writing"
  /\ UNCHANGED <<lifeVars, dialog>>

\* accept, save: the temporary file is opened, which truncates it ...
SaveBegin ==
  /\ dialog # Closed /\ saving = "no"
  /\ temporary' = Unreadable
  /\ saving' = "writing"
  /\ UNCHANGED <<lifeVars, settings, dialog>>

\* ... written and flushed ...
SaveWrite ==
  /\ saving = "writing"
  /\ temporary' = Entered(dialog)
  /\ saving' = "renaming"
  /\ UNCHANGED <<lifeVars, settings, dialog>>

\* ... and renamed.
SaveRename ==
  /\ saving = "renaming"
  /\ settings' = temporary /\ temporary' = NoFile
  /\ saving' = "no" /\ dialog' = Closed
  /\ UNCHANGED <<lifeVars>>

\* What fails is reported, and the dialog stays; only a file that could not be
\* renamed is removed.
SaveFails ==
  /\ saving # "no"
  /\ temporary' = IF saving = "renaming" THEN NoFile ELSE temporary
  /\ saving' = "no"
  /\ UNCHANGED <<lifeVars, settings, dialog>>

Next ==
  \/ CreateDirectories \/ Make \/ MakeFails \/ DestroyLocal
  \/ ShowMainWindow \/ CloseMainWindow
  \/ \E r \in Runners : Finish(r) \/ \E activity \in Activities(r) : Begin(r, activity)
  \/ ResetPools \/ DestroyMember \/ Crash
  \/ OpenDialog \/ Change \/ Reject
  \/ SaveBegin \/ SaveWrite \/ SaveRename \/ SaveFails

Spec == Init /\ [][Next]_vars

-----------------------------------------------------------------------------
(* Properties.                                                             *)

\* No thread is in the middle of something that touches a part which is not
\* there any more, or not yet: not while the parts are made, not when making
\* them fails, not when the program ends with tasks running.
CoreOutlivesItsUsers ==
  \A r \in Runners : Touches(doing[r]) \subseteq alive

\* What the disk cache of the next start works with changes only to what the
\* user entered in the dialog, all of it at once, whenever the process dies or
\* writing fails.
SettingsWhole ==
  [][Load(settings') # Load(settings)
       => dialog # Closed /\ Load(settings') = Entered(dialog)]_vars
=============================================================================
