------------------------- MODULE MCNfPhotoMetadata -------------------------
(***************************************************************************)
(* The small instance of NfPhotoMetadata: two photos that are clicked on   *)
(* in every order, with each of the pairs of files below: the sizes        *)
(* around the limits of the tasks and of NfLimits, every orientation, the  *)
(* kinds of embedded images, files that cannot be read, and the tags.      *)
(***************************************************************************)
EXTENDS NfPhotoMetadata, TLC

CONSTANTS a, b

MCPlain ==
  [format |-> "Jpeg", size |-> 4096, opens |-> TRUE, width |-> 640, height |-> 480,
   decodes |-> TRUE, orientation |-> 1, flip |-> 0, thumbs |-> <<>>, tags |-> <<>>]

\* Common sizes; small, high and wide ones; just above the limits.
MCSizes == {<<6000, 4000>>, <<4000, 6000>>, <<90, 60>>, <<1, 1>>, <<9, 20000>>,
            <<20000, 9>>, <<10001, 10000>>, <<200, 251>>, <<3000, 2001>>}

MCImage(format, s, o) ==
  [MCPlain EXCEPT !.format = format, !.width = s[1], !.height = s[2], !.orientation = o]

\* Each size as a JPEG and as a PNG, and every tag.
MCImages ==
  {<<MCImage("Jpeg", s, 1), MCImage("Png", s, 6)>> : s \in MCSizes}
  \union {<<[MCPlain EXCEPT !.orientation = o], [MCPlain EXCEPT !.orientation = o + 1]>> :
            o \in {NoTag, 1, 3, 5, 7, 9}}
  \union {<<MCImage("Jpeg", <<9, 20000>>, 6), MCImage("Jpeg", <<20000, 9>>, 6)>>}

MCThumb(w, h, kind) ==
  [width |-> w, height |-> h, kind |-> kind, length |-> 3 * w * h,
   unpacks |-> TRUE, headerWidth |-> w, headerHeight |-> h, decodes |-> TRUE]

\* A JPEG whose own header says another size.
MCOther(thumb, w, h) == [thumb EXCEPT !.headerWidth = w, !.headerHeight = h]

MCThumbs ==
  {<<>>, <<MCThumb(160, 120, "jpeg"), MCThumb(6000, 4000, "jpeg")>>,
   <<MCThumb(160, 100, "jpeg"), MCThumb(1200, 900, "bitmap")>>,
   <<MCThumb(300, 200, "other")>>,
   <<MCThumb(1, 3000, "jpeg")>>, <<MCOther(MCThumb(1200, 900, "jpeg"), 1, 3000)>>,
   <<MCOther(MCThumb(1200, 900, "jpeg"), 160, 120)>>,
   <<MCOther(MCThumb(1200, 900, "jpeg"), 10001, 10000)>>,
   <<MCOther(MCThumb(1200, 900, "jpeg"), 0, 0)>>,
   <<[MCThumb(1200, 900, "jpeg") EXCEPT !.decodes = FALSE]>>,
   <<[MCThumb(1200, 900, "jpeg") EXCEPT !.unpacks = FALSE]>>}

MCRaw(s, turn, thumbs) ==
  [MCPlain EXCEPT !.format = "Raw", !.width = s[1], !.height = s[2], !.flip = turn,
                  !.thumbs = thumbs]

\* The sizes of the full image, each turn of LibRaw's, and each kind of embedded
\* images.
MCRaws ==
  {<<MCRaw(s, 5, <<>>), MCRaw(s, 3, <<>>)>> :
     s \in {<<6000, 4000>>, <<11648, 8736>>, <<60000, 1900>>, <<1900, 60000>>, <<20000, 9>>}}
  \union {<<MCRaw(<<6000, 4000>>, turn, <<MCThumb(1200, 900, "jpeg")>>),
            MCRaw(<<6000, 4000>>, turn + 1, <<MCThumb(1200, 900, "jpeg")>>)>> :
            turn \in {0, 2, 4, 6}}
  \union {<<MCRaw(<<6000, 4000>>, 6, thumbs), MCPlain>> : thumbs \in MCThumbs}

MCBroken ==
  {[MCPlain EXCEPT !.opens = FALSE], [MCPlain EXCEPT !.decodes = FALSE],
   [MCPlain EXCEPT !.size = 0], [MCPlain EXCEPT !.size = MaxCompressedImageSize + 1],
   [MCPlain EXCEPT !.format = "Unknown"], [MCPlain EXCEPT !.width = 0]}

MCCameras ==
  {<<"Canon">> :> <<"Canon", " ", "R5">>, <<"NIKON", " ">> :> <<"Nikon", " ", "Z8", " ">>,
   <<"Canon">> :> <<"Canon", " ", "Canon", " ", "R5">>, <<"-">> :> <<"X">>, <<" ">> :> <<" ", "Z8">>, <<"Canon", " ", "Inc">> :> <<"Canon">>}

MCPlace == ("GPSLatitude" :> <<42, 40, 30>>) @@ ("GPSLongitude" :> <<23, 20>>)
MCPlaceRefs == ("GPSLatitudeRef" :> <<"S">>) @@ ("GPSLongitudeRef" :> <<"E">>)

MCTagged ==
  {[MCPlain EXCEPT !.tags = [make \in {"Make"} |-> CHOOSE m \in DOMAIN c : TRUE]
                            @@ [model \in {"Model"} |-> c[CHOOSE m \in DOMAIN c : TRUE]]] :
     c \in MCCameras}
  \union {[MCPlain EXCEPT !.tags = t] :
            t \in {MCPlace @@ MCPlaceRefs, MCPlace, MCPlaceRefs,
                   MCPlace @@ MCPlaceRefs @@ ("GPSAltitudeRef" :> 1) @@ ("GPSAltitude" :> 30),
                   ("DateTime" :> <<"2024">>) @@ ("xmp.Rating" :> 4),
                   ("ExposureTime" :> <<1, 250>>) @@ ("FNumber" :> 8)}}

MCFiles ==
  {(a :> f[1]) @@ (b :> f[2]) :
     f \in MCImages \union MCRaws \union ((MCBroken \union MCTagged) \X {MCPlain})}

MCLower ==
  [w \in {"Canon", "NIKON", "Nikon", " ", "R5", "Z8", "X", "-", "Inc"} |->
     IF w = "NIKON" THEN "Nikon" ELSE w]
=============================================================================
