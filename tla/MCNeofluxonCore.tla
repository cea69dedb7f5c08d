-------------------------- MODULE MCNeofluxonCore --------------------------
(***************************************************************************)
(* A small instance of NeofluxonCore.  A gigabyte is 4 bytes, so that what *)
(* somebody wrote into the file may be less than one.                      *)
(***************************************************************************)
EXTENDS NeofluxonCore

MCFolders == {"other"}
MCDefaults == [directory |-> "images", max |-> 8, free |-> 4]
MCOldSettings ==
  {NoFile, Unreadable,
   [directory |-> "images", max |-> 0, free |-> 4],
   [directory |-> "other", max |-> 3, free |-> 14]}
=============================================================================
