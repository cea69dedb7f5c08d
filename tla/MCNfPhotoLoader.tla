--------------------------- MODULE MCNfPhotoLoader ---------------------------
(***************************************************************************)
(* The small instance of NfPhotoLoader: two workers, a source switch, and  *)
(* as many tasks as it takes for one of the first source to meet two of    *)
(* the next on the same photo, with a preview beside them.                 *)
(***************************************************************************)
EXTENDS NfPhotoLoader
=============================================================================
