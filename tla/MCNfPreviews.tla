---------------------------- MODULE MCNfPreviews ----------------------------
(***************************************************************************)
(* A small instance of NfPreviews: three photos, of which the user sees    *)
(* one and its neighbours are loaded too.  The cache holds two images, so  *)
(* what is around the first or the last fits and what is around the second *)
(* does not; the file of the first changes, and two tasks may load it.     *)
(* The pixmap cache holds two, and not the panorama.                       *)
(***************************************************************************)
EXTENDS NfPreviews

MCImageSizes == <<{2, 3}, {3}, {3}>>
MCMaxTasks == <<2, 1, 1>>
MCPixmapSize == <<3, 3, 7>>
=============================================================================
