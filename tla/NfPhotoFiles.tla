----------------------------- MODULE NfPhotoFiles -----------------------------
(***************************************************************************)
(* Which files are photos.  Six places say so, each in its own way: the    *)
(* scan of a folder, the iterator of a library import, the summary both    *)
(* load of a file, the choice of a decoder, what a photo needs to be       *)
(* stored, and the list the settings dialog shows to the user.             *)
(*                                                                         *)
(* A file is its extension, whether that is written in capitals, what is   *)
(* there when somebody looks, and its size.                                *)
(***************************************************************************)
EXTENDS Integers

Extensions ==
  {"cr3", "cr2", "dng", "raf", "nef", "jpg", "jpeg", "png", "tif", "txt", ""}

\* A file may be gone between the listing of its directory and a look at it.
Kinds == {"file", "directory", "gone"}

Files == [name : STRING, extension : Extensions, capitals : BOOLEAN,
          kind : Kinds, size : Nat]

\* What path::extension gives: letters as they are written.
Written(f) == <<f.extension, f.capitals>>

\* NfFileUtils::extension with Case::Lower, and normalizeExtension.
Lower(written) == <<written[1], FALSE>>

SmallLetters(extensions) == {<<e, FALSE>> : e \in extensions}

\* NfFileUtils::fileExists and fileSize, which report nothing as an error.
FileExists(f) == f.kind = "file"
FileSizeOf(f) == IF FileExists(f) THEN f.size ELSE 0

RawFormats == {"cr3", "cr2", "dng", "raf", "nef"}

\* NfPhoto::determineFormat
DetermineFormat(f) ==
  CASE Lower(Written(f)) \in SmallLetters(RawFormats) -> "Raw"
    [] Lower(Written(f)) \in SmallLetters({"jpg", "jpeg"}) -> "Jpeg"
    [] Lower(Written(f)) \in SmallLetters({"png"}) -> "Png"
    [] OTHER -> "Unknown"

\* NfPhoto::loadSummary, which finds the name of a path with a file name; where
\* it is to read metadata too, their absence is no failure.
LoadSummary(f) ==
  FileExists(f) /\ FileSizeOf(f) # 0 /\ DetermineFormat(f) # "Unknown"

\* NfPhoto::isValid, of a photo whose summary was loaded.
IsValid(f) == f.size # 0 /\ DetermineFormat(f) # "Unknown"

\* Mutant: capitals are not photos.
ScanFindsWritten(f) ==
  /\ f.kind # "directory"
  /\ Written(f) \in SmallLetters(RawFormats \union {"jpg", "jpeg", "png"})
  /\ LoadSummary(f)

\* NfFilesystemPhotoScanTask::processPathEntry; the kind is the one the listing
\* saw.
ScanFinds(f) ==
  /\ f.kind # "directory"
  /\ Lower(Written(f)) \in SmallLetters(RawFormats \union {"jpg", "jpeg", "png"})
  /\ LoadSummary(f)

\* NfPhotoDirectoryIterator::isSupportedExtension
IsSupportedExtension(f) ==
  FileExists(f)
  /\ Lower(Written(f)) \in SmallLetters({"cr3", "cr2", "dng", "raf", "nef",
                                         "jpg", "jpeg", "png"})

\* NfLibraryFolderImportTask::importPhotosFromDirectory, and what
\* NfLibrary::addPhoto refuses.
ImportFinds(f) == IsSupportedExtension(f) /\ LoadSummary(f) /\ IsValid(f)

\* NfImageDecoderFactory::createDecoder
HasDecoder(f) == DetermineFormat(f) \in {"Jpeg", "Raw", "Png"}

\* "Neofluxon currently supports the following image formats."
SupportedFileTypes ==
  {"cr3", "cr2", "dng", "raf", "nef"} \union {"jpg", "jpeg", "png"}
=============================================================================
