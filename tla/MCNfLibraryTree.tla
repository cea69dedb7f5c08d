--------------------------- MODULE MCNfLibraryTree ---------------------------
(***************************************************************************)
(* A small instance of NfLibraryTree: three tasks, so that a tree, a branch*)
(* and the tree of an import overlap; the library there is at first and    *)
(* one more; two names.                                                    *)
(***************************************************************************)
EXTENDS NfLibraryTree
=============================================================================
