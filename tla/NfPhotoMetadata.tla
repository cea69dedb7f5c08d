-------------------------- MODULE NfPhotoMetadata --------------------------
(***************************************************************************)
(* The metadata of the current photo, from its file to the panel:          *)
(* NfPhotoMetadataModel asks when a browser's current photo changes,       *)
(* NfPhotoMetadataLoader gives the work to the foreground pool and keeps   *)
(* the results until NfMetadataProvider's timer takes them; and what       *)
(* NfPhotoMetadataExtractor and the decoders read out of a file.  The      *)
(* images made of the same file are in NfImages.                           *)
(*                                                                         *)
(* A file has, beside what NfImages says, tags: a function from the Exif,  *)
(* XMP and IPTC tags it has to their values (for RAW: LibRaw's fields).    *)
(* A text is a sequence of words, " " being a blank; a number that may be  *)
(* a fraction is a pair.                                                   *)
(***************************************************************************)
EXTENDS NfImages, FiniteSets

CONSTANTS Tasks,     \* ids of the metadata tasks there may be
          Photos,    \* the photos the user clicks on
          NoPhoto,   \* NfPhoto{}: a browser without a current photo
          NoTask,
          PoolSize,  \* threads of the foreground pool
          Files,     \* the files there may be: functions from Photos to files
          Lower      \* the lower case of a word

ASSUME MetadataAssumption ==
  /\ Tasks \subseteq Nat /\ NoTask \notin Tasks
  /\ NoPhoto \notin Photos
  /\ PoolSize \in Nat \ {0}

\* What may be an embedded image, and a file.
EmbeddedImages ==
  [width : Nat, height : Nat, kind : {"jpeg", "bitmap", "other"}, length : Nat,
   unpacks : BOOLEAN, headerWidth : Nat, headerHeight : Nat, decodes : BOOLEAN]

IsFile(f) ==
  /\ f.format \in {"Jpeg", "Png", "Raw", "Unknown"}
  /\ f.size \in Nat /\ f.width \in Nat /\ f.height \in Nat
  /\ f.orientation \in Int /\ f.flip \in 0..7
  /\ f.thumbs \in Seq(EmbeddedImages)
  /\ \A tag \in DOMAIN f.tags \intersect {"Make", "Model"} :
       f.tags[tag] \in Seq(DOMAIN Lower)

ASSUME FilesAssumption == \A g \in Files : \A p \in Photos : IsFile(g[p])

VARIABLES phase, priority, cancelled, \* the task service
          file,             \* the photos' files; they do not change
          photoOf,          \* NfPhotoMetadataTask::m_photo
          pendingRequests,  \* m_pendingRequests, NoTask where absent
          metadataQueue,    \* m_metadataQueue: photos, with what their files say
          photo,            \* NfPhotoMetadataModel::m_photo
          items             \* the photo whose metadata m_items are

serviceVars == <<phase, priority, cancelled>>
loaderVars == <<photoOf, pendingRequests, metadataQueue>>
panelVars == <<serviceVars, loaderVars, file, photo, items>>

\* What a browser may have as its current photo.
Current == Photos \union {NoPhoto}

\* NfRequestUtils::getTaskPriority of SelectedMetadata.
Critical == 0
Priorities == {Critical}

Service == INSTANCE NfTaskService

-----------------------------------------------------------------------------
(* What a file says.                                                       *)

Empty == <<>>

\* exifString, xmpString, iptcString.
Text(f, tag) == IF tag \in DOMAIN f.tags THEN f.tags[tag] ELSE Empty

\* exifInteger, and exifNumber with a fallback of zero.
Number(f, tag, fallback) == IF tag \in DOMAIN f.tags THEN f.tags[tag] ELSE fallback

\* firstNonEmpty.
FirstNonEmpty(texts) ==
  LET full == {i \in 1..Len(texts) : texts[i] # Empty}
  IN IF full = {} THEN Empty ELSE texts[Min(full)]

\* gpsCoordinate: degrees, minutes and seconds, here in seconds.
Coordinate(f, tag, reference) ==
  LET dms == Text(f, tag)
      there == dms[1] * 3600 + dms[2] * 60 + dms[3]
  IN IF Len(dms) < 3 THEN 0
     ELSE IF Text(f, reference) \in {<<"S">>, <<"W">>} THEN -there ELSE there

ColorSpace(number) ==
  CASE number = 1 -> <<"sRGB">> [] number = 2 -> <<"Adobe", " ", "RGB">> [] OTHER -> Empty

HasGps(f) ==
  /\ Text(f, "GPSLatitudeRef") # Empty /\ Text(f, "GPSLongitudeRef") # Empty
  /\ {"GPSLatitude", "GPSLongitude"} \subseteq DOMAIN f.tags

Location(f) ==
  [latitude |-> Coordinate(f, "GPSLatitude", "GPSLatitudeRef"),
   longitude |-> Coordinate(f, "GPSLongitude", "GPSLongitudeRef"),
   altitude |-> (IF Number(f, "GPSAltitudeRef", 0) = 1 THEN -1 ELSE 1)
                * Number(f, "GPSAltitude", 0)]

NoLocation == [latitude |-> 0, longitude |-> 0, altitude |-> 0]

\* NfExifMetadataExtractor::metadata of a file it can read.  A lens that Exiv2
\* knows by name comes before the texts.
ExifMetadata(f) ==
  [format |-> f.format, fileSize |-> f.size, width |-> f.width, height |-> f.height,
   cameraMaker |-> Text(f, "Make"), cameraModel |-> Text(f, "Model"),
   lens |-> FirstNonEmpty(<<Text(f, "LensName"), Text(f, "LensModel"), Text(f, "LensMake")>>),
   iso |-> Number(f, "ISOSpeedRatings", -1),
   aperture |-> Number(f, "FNumber", 0),
   shutterSpeed |-> Number(f, "ExposureTime", <<0, 1>>),
   focalLength |-> Number(f, "FocalLength", 0),
   dateTaken |-> FirstNonEmpty(<<Text(f, "DateTimeOriginal"), Text(f, "DateTimeDigitized"),
                                 Text(f, "DateTime")>>),
   description |-> FirstNonEmpty(<<Text(f, "ImageDescription"), Text(f, "dc.description"),
                                   Text(f, "Caption")>>),
   title |-> FirstNonEmpty(<<Text(f, "dc.title"), Text(f, "Headline")>>),
   author |-> FirstNonEmpty(<<Text(f, "Artist"), Text(f, "dc.creator"), Text(f, "Byline")>>),
   license |-> FirstNonEmpty(<<Text(f, "Copyright"), Text(f, "dc.rights")>>),
   rating |-> IF Number(f, "Rating", 0) # 0 THEN Number(f, "Rating", 0)
              ELSE Number(f, "xmp.Rating", 0),
   tags |-> FirstNonEmpty(<<Text(f, "dc.subject"), Text(f, "Keywords")>>),
   bitDepth |-> Number(f, "BitsPerSample", 0),
   colorSpace |-> ColorSpace(Number(f, "ColorSpace", 0)),
   orientation |-> Number(f, "Orientation", 1),
   hasGps |-> HasGps(f), location |-> IF HasGps(f) THEN Location(f) ELSE NoLocation,
   hasExif |-> DOMAIN f.tags # {}]

\* NfRawImageDecoder::metadata of a file it can open, from LibRaw's fields.
\* Its orientation is LibRaw's turn, not the tag; its altitude has no sign.
RawMetadata(f) ==
  [format |-> f.format, fileSize |-> f.size, width |-> f.width, height |-> f.height,
   cameraMaker |-> Text(f, "Make"), cameraModel |-> Text(f, "Model"),
   lens |-> Text(f, "Lens"),
   iso |-> Number(f, "ISOSpeedRatings", 0),
   aperture |-> Number(f, "FNumber", 0),
   shutterSpeed |-> Number(f, "ExposureTime", <<0, 1>>),
   focalLength |-> Number(f, "FocalLength", 0),
   dateTaken |-> Text(f, "Timestamp"),
   description |-> Text(f, "ImageDescription"), title |-> Empty,
   author |-> Text(f, "Artist"), license |-> Empty, rating |-> 0, tags |-> Empty,
   bitDepth |-> Number(f, "BitsPerSample", 0),
   colorSpace |-> ColorSpace(Number(f, "ColorSpace", 0)),
   orientation |-> f.flip,
   hasGps |-> "GPSLatitude" \in DOMAIN f.tags,
   location |-> IF "GPSLatitude" \notin DOMAIN f.tags THEN NoLocation
                ELSE [Location(f) EXCEPT !.altitude = Number(f, "GPSAltitude", 0)],
   hasExif |-> TRUE]

\* The decoder has metadata; NfPhoto{} has no format and so no decoder.
Readable(p) == p # NoPhoto /\ file[p].format \in {"Jpeg", "Png", "Raw"} /\ file[p].opens

\* NfStringUtils::trim.
Trim(text) ==
  LET ink == {i \in 1..Len(text) : text[i] # " "}
  IN IF ink = {} THEN Empty ELSE SubSeq(text, Min(ink), Max(ink))

\* NfStringUtils::removePrefix, whatever the case.
RemovePrefix(text, prefix) ==
  IF /\ Len(prefix) <= Len(text)
     /\ \A i \in 1..Len(prefix) : Lower[prefix[i]] = Lower[text[i]]
  THEN SubSeq(text, Len(prefix) + 1, Len(text))
  ELSE text

\* NfPhotoMetadataExtractor::metadata: a camera without name, and the maker
\* that many models repeat.
Metadata(f) ==
  LET read == IF f.format = "Raw" THEN RawMetadata(f) ELSE ExifMetadata(f)
      maker == Trim(read.cameraMaker)
  IN IF read.cameraMaker \in {<<"-">>, <<"--">>}
     THEN [read EXCEPT !.cameraMaker = Empty, !.cameraModel = Empty]
     ELSE [read EXCEPT !.cameraMaker = maker,
                       !.cameraModel = Trim(RemovePrefix(Trim(read.cameraModel), maker))]

-----------------------------------------------------------------------------
(* What the panel shows.                                                   *)

\* formatShutterSpeed of a fraction of a second: one over the rounded inverse.
ShutterSpeed(seconds) ==
  IF seconds[1] <= 0 THEN Empty
  ELSE IF seconds[1] >= seconds[2] THEN <<seconds, "s">>
  ELSE <<1, (2 * seconds[2] + seconds[1]) \div (2 * seconds[1]), "s">>

\* formatFileSize picks the unit.
SizeUnit(size) ==
  CASE size < 1024 -> "B" [] size < 1024 * 1024 -> "KB"
    [] size < 1024 * 1024 * 1024 -> "MB" [] OTHER -> "GB"

\* A number that is shown only when the file says it.
ShownIf(known, value) == IF known THEN <<value>> ELSE Empty

\* setupMetadata: the rows, each a key and a value.  Only RAW files have the
\* aspect ratio, which is left out.
FileRows(p, m) ==
  {<<"Name", p>>, <<"Path", p>>, <<"Size", m.fileSize, SizeUnit(m.fileSize)>>,
   <<"Format", m.format>>, <<"Dimensions", m.width, m.height>>,
   <<"Date taken", m.dateTaken>>, <<"Camera maker", m.cameraMaker>>,
   <<"Camera model", m.cameraModel>>, <<"Lens", m.lens>>, <<"Aspect ratio", Empty>>,
   <<"ISO", ShownIf(m.iso >= 0, m.iso)>>, <<"Aperture", ShownIf(m.aperture > 0, m.aperture)>>,
   <<"Shutter speed", ShutterSpeed(m.shutterSpeed)>>,
   <<"Focal length", ShownIf(m.focalLength > 0, m.focalLength)>>,
   <<"Rating", m.rating>>, <<"Tags", m.tags>>, <<"Title", m.title>>,
   <<"Description", m.description>>, <<"Author", m.author>>, <<"License", m.license>>,
   <<"Bit depth", ShownIf(m.bitDepth > 0, m.bitDepth)>>, <<"Color space", m.colorSpace>>,
   <<"Orientation", m.orientation>>, <<"EXIF", m.hasExif>>}

PositionRows(m) ==
  IF m.hasGps
  THEN {<<"Latitude", m.location.latitude>>, <<"Longitude", m.location.longitude>>,
        <<"Altitude", m.location.altitude>>}
  ELSE {}

PanelRows(p, m) == FileRows(p, m) \union PositionRows(m)

\* NfImageMetadataPanel::setupUi: the keys each section lets through
\* (NfMetadataFilterProxy).
SectionKeys ==
  [image |-> {"Name", "Path", "Size", "Format", "Dimensions"},
   capture |-> {"Date taken", "Camera maker", "Camera model", "Lens", "Aspect ratio",
                "ISO", "Aperture", "Shutter speed", "Focal length"},
   location |-> {"Latitude", "Longitude", "Altitude", "GPS Timestamp",
                 "Positioning Method"},
   organization |-> {"Rating", "Tags", "Collections", "Project"},
   description |-> {"Title", "Description", "Author", "Copyright", "License", "Keywords"},
   technical |-> {"Bit depth", "Color space", "Compression", "Orientation", "EXIF",
                  "IPTC", "XMP", "Software", "Modification Date"}]

Section(rows, section) == {row \in rows : row[1] \in SectionKeys[section]}

-----------------------------------------------------------------------------
PanelInit ==
  /\ Service!Init
  /\ file \in Files
  /\ photoOf = [t \in Tasks |-> NoPhoto]
  /\ pendingRequests = [p \in Current |-> NoTask]
  /\ metadataQueue = <<>>
  /\ photo = NoPhoto
  /\ items = NoPhoto

\* requestMetadata: a photo with a task, at whatever stage, gets no other;
\* its priority stays what it is, there being one.
RequestMetadata(p) ==
  IF pendingRequests[p] # NoTask
  THEN UNCHANGED <<serviceVars, photoOf, pendingRequests>>
  ELSE \E t \in Tasks :
         /\ \A u \in Tasks : phase[u] = "new" => t <= u
         /\ Service!Submit(t, Critical)
         /\ photoOf' = [photoOf EXCEPT ![t] = p]
         /\ pendingRequests' = [pendingRequests EXCEPT ![p] = t]

\* setPhoto, for the current photo of either browser: the rows stay until the
\* metadata come.
SetPhoto(p) ==
  /\ p # photo
  /\ photo' = p
  /\ RequestMetadata(p)
  /\ UNCHANGED <<metadataQueue, file, items>>

\* A worker takes a task.
StartTask(t) ==
  /\ Cardinality(Service!Active) < PoolSize
  /\ Service!Start(t)
  /\ UNCHANGED <<loaderVars, file, photo, items>>

\* Mutant: a file that cannot be read leaves its photo pending.
FailTaskKeepPending(t) ==
  /\ ~Readable(photoOf[t])
  /\ Service!Report(t)
  /\ UNCHANGED <<loaderVars, file, photo, items>>

\* execute fails, and the handler forgets the request.
FailTask(t) ==
  /\ ~Readable(photoOf[t])
  /\ Service!Report(t)
  /\ pendingRequests' = [pendingRequests EXCEPT ![photoOf[t]] = NoTask]
  /\ UNCHANGED <<photoOf, metadataQueue, file, photo, items>>

\* execute succeeds, and the handler queues the metadata.
FinishTask(t) ==
  /\ Readable(photoOf[t])
  /\ Service!Report(t)
  /\ metadataQueue' = Append(metadataQueue, photoOf[t])
  /\ UNCHANGED <<photoOf, pendingRequests, file, photo, items>>

ReleaseTask(t) ==
  /\ Service!Finalize(t)
  /\ UNCHANGED <<loaderVars, file, photo, items>>

Queued == {metadataQueue[i] : i \in 1..Len(metadataQueue)}

\* Mutant: the requests are not forgotten.
TakeMetadataKeepPending ==
  /\ metadataQueue # <<>>
  /\ metadataQueue' = <<>>
  /\ items' = IF photo \in Queued THEN photo ELSE items
  /\ UNCHANGED <<serviceVars, photoOf, pendingRequests, file, photo>>

\* The provider's timer: takeMetadata, and metadataUpdated for each of them,
\* which the model ignores unless it is its photo's.
TakeMetadata ==
  /\ metadataQueue # <<>>
  /\ metadataQueue' = <<>>
  /\ pendingRequests' = [p \in Current |-> IF p \in Queued THEN NoTask ELSE pendingRequests[p]]
  /\ items' = IF photo \in Queued THEN photo ELSE items
  /\ UNCHANGED <<serviceVars, photoOf, file, photo>>

PanelNext ==
  \/ \E p \in Current : SetPhoto(p)
  \/ \E t \in Tasks : StartTask(t) \/ FailTask(t) \/ FinishTask(t) \/ ReleaseTask(t)
  \/ TakeMetadata

PanelSpec == PanelInit /\ [][PanelNext]_panelVars

\* Workers end what they start and take what there is; the timer fires.
Fairness ==
  /\ \A t \in Tasks :
       /\ WF_panelVars(FailTask(t)) /\ WF_panelVars(FinishTask(t)) /\ WF_panelVars(ReleaseTask(t))
  /\ WF_panelVars(\E t \in Tasks : StartTask(t))
  /\ WF_panelVars(TakeMetadata)

FairPanelSpec == PanelSpec /\ Fairness

-----------------------------------------------------------------------------
(* Properties.                                                             *)

Readables == {p \in Current : Readable(p)}

\* The file says where the photo was taken: both coordinates, and on which side
\* of the equator and of the meridian; of a RAW file LibRaw says it.
Positioned(f) ==
  IF f.format = "Raw" THEN "GPSLatitude" \in DOMAIN f.tags
  ELSE /\ {"GPSLatitude", "GPSLongitude"} \subseteq DOMAIN f.tags
       /\ \A tag \in {"GPSLatitudeRef", "GPSLongitudeRef"} :
            tag \in DOMAIN f.tags /\ f.tags[tag] # Empty

\* The panel is behind the browser only while the metadata are on their way,
\* which takes one live task or a queued result and no more, or when the file
\* cannot be read; and every row it has is in one section of the panel, the
\* location in its own only when the file has a position (requestMetadata,
\* its handler, takeMetadata, metadataUpdated, setupUi).
PanelInStep ==
  /\ photo \in Readables /\ items # photo => pendingRequests[photo] # NoTask
  /\ \A p \in Current :
       LET live == {t \in Tasks : photoOf[t] = p /\ phase[t] \in {"pending", "running"}}
       IN /\ Cardinality(live) + Cardinality({i \in 1..Len(metadataQueue) :
                                               metadataQueue[i] = p}) <= 1
          /\ (live # {} \/ p \in Queued) <=> pendingRequests[p] # NoTask
  /\ items # NoPhoto =>
       LET rows == PanelRows(items, Metadata(file[items]))
       IN /\ \A row \in rows : \E s \in DOMAIN SectionKeys :
               /\ row \in Section(rows, s)
               /\ \A r \in DOMAIN SectionKeys \ {s} : row \notin Section(rows, r)
          /\ Cardinality(Section(rows, "location"))
               = IF Positioned(file[items]) THEN 3 ELSE 0

\* The panel comes to show the photo the browser stays on, if its file can be
\* read, whatever was clicked on in between (setPhoto's early return, the
\* pending requests, results of other photos).
PanelCatchesUp ==
  \A p \in Photos : photo = p /\ Readable(p) ~> items = p \/ photo # p

\* A text has a prefix at its i-th word, whatever the case.
HasAt(text, i, prefix) ==
  /\ i + Len(prefix) <= Len(text) + 1
  /\ \A k \in 1..Len(prefix) : Lower[text[i + k - 1]] = Lower[prefix[k]]

\* The camera a file names, as the library will store it: no blanks at its
\* ends, no maker in front of the model, whatever the case it is written in,
\* unless the file has it there twice, and no model at all for a maker that is a
\* dash (NfPhotoMetadataExtractor).
CameraNamesClean ==
  items # NoPhoto =>
    LET m == Metadata(file[items])
        model == Text(file[items], "Model")
        places == {i \in 1..Len(model) : HasAt(model, i, m.cameraMaker)}
    IN /\ Trim(m.cameraMaker) = m.cameraMaker /\ Trim(m.cameraModel) = m.cameraModel
       /\ m.cameraMaker # Empty /\ HasAt(m.cameraModel, 1, m.cameraMaker) =>
            \E i, j \in places : i + Len(m.cameraMaker) <= j
       /\ Text(file[items], "Make") \in {<<"-">>, <<"--">>} => m.cameraModel = Empty

\* A picture of the file whose width, scaled to that height, is none: its own,
\* which LibRaw turns before anyone scales it, or an embedded JPEG.
TooNarrow(f, target) ==
  LET size == IF f.format = "Raw" THEN SizeTurnedByLibRaw(f.flip, f.width, f.height)
              ELSE <<f.width, f.height>>
  IN \/ target * size[1] < size[2]
     \/ f.format = "Raw" /\ \E i \in 1..Len(f.thumbs) :
          target * f.thumbs[i].headerWidth < f.thumbs[i].headerHeight

\* An image a task has made: as tall as the task allows before it was turned,
\* so that one side is within the limit; four bytes for each pixel, a length
\* that fits an int; ready for the screen unless it is a PNG, which is never
\* converted and so never turned, or a RAW image with more pixels than
\* applyOrientation turns; and empty only when the picture, or one embedded in
\* it, is so narrow that its scaled width is none.
ImageFits(f, d, target) ==
  /\ d.width <= target \/ d.height <= target
  /\ d.size = 4 * d.width * d.height
  /\ d.format = (IF f.format = "Png" THEN "RGBA8888" ELSE "ARGB32")
  /\ d.orientation # Normal =>
       \/ f.format = "Png" \/ d.width = 0 \/ d.height = 0
       \/ f.format = "Raw" /\ d.width > MaxDecodedImagePixels \div d.height
  /\ d.size = 0 => TooNarrow(f, target)

\* The current photo gets a thumbnail when its image is readable and within the
\* limits, and what the thumbnail and preview tasks make is as it should be
\* (NfThumbnailTask::execute, NfPreviewTask::execute and the decoders).
ImagesFit ==
  photo # NoPhoto =>
    LET f == file[photo]
        thumbnail == ThumbnailOf(f)
        preview == PreviewOf(f)
    IN /\ ~IsNull(thumbnail) => ImageFits(f, thumbnail, ThumbnailMax)
       /\ ~IsNull(preview) => ImageFits(f, preview, PreviewMax)
       /\ IsNull(thumbnail) =>
            \/ ~Opens(f) \/ ~f.decodes \/ f.format = "Unknown"
            \/ TooLarge(f.width, f.height) \/ f.width = 0 \/ f.height = 0

\* The images the decoders hand to the two tasks.
SmallImages(f) == {SmallImage(f, 120), SmallImage(f, 900)}
FullImages(f) == {FullImage(f, TRUE), FullImage(f, FALSE)}

\* A JPEG, scaled or whole, is handed over with the turn that sends every pixel
\* where the EXIF standard has it for the tag of the file; an image embedded in a
\* RAW file with the turn that LibRaw gives the sensor's, as long as nothing is
\* mirrored: LibRaw's numbers for the mirrored turns mean others here.  And no
\* turn sends two pixels to the same place.  A PNG is never turned (ImageFits);
\* the full image of a RAW file is left out, as DecodeRaw's is turned twice
\* (orientationFromExif, the decoders, applyOrientation).
TurnedAsTheFileSays(f) ==
  /\ \A d \in SmallImages(f) \union FullImages(f) : ~IsNull(d) =>
       /\ f.format = "Jpeg" /\ f.orientation \in 1..8 =>
            \A x \in 0..2, y \in 0..1 : Upright(f.orientation, d.orientation, 3, 2, x, y)
       /\ Fills(d.orientation, 3, 2)
  /\ \A d \in SmallImages(f) :
       f.format = "Raw" /\ ~IsNull(d) /\ f.flip \in {0, 3, 5, 6} =>
         \A x \in 0..2, y \in 0..1 :
           Moved(d.orientation, 3, 2, x, y) = TurnedByLibRaw(f.flip, 3, 2, x, y)

\* The images of the current photo are.
TurnedUpright == photo # NoPhoto => TurnedAsTheFileSays(file[photo])

\* What the decoders and the extractor make of a file.
FileIsReadRight == ImagesFit /\ TurnedUpright /\ CameraNamesClean
=============================================================================
