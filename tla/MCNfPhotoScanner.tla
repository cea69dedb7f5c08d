-------------------------- MODULE MCNfPhotoScanner --------------------------
(***************************************************************************)
(* A small instance of NfPhotoScanner: two folders that share a photo, one *)
(* of which also holds a file that is no photo, and the other an empty     *)
(* one; and a library that shows a photo of the first.  Three setSource    *)
(* calls let a scan be overtaken twice, also by a scan of its own source.  *)
(***************************************************************************)
EXTENDS NfPhotoScanner, TLC

MCFile(name, extension, capitals, size) ==
  [name |-> name, extension |-> extension, capitals |-> capitals,
   kind |-> "file", size |-> size]

MCRaw == MCFile("a", "cr3", TRUE, 9)
MCJpeg == MCFile("b", "jpg", FALSE, 2)
MCNotes == MCFile("notes", "txt", FALSE, 1)
MCEmpty == MCFile("c", "png", FALSE, 0)

MCFolders == {"trip", "home"}
MCLibraries == {"library"}
MCEntries == {MCRaw, MCJpeg, MCNotes, MCEmpty}
MCContent == "trip" :> {MCRaw, MCJpeg, MCNotes} @@ "home" :> {MCJpeg, MCEmpty}
             @@ "library" :> {MCRaw}
=============================================================================
