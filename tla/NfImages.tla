------------------------------ MODULE NfImages ------------------------------
(***************************************************************************)
(* What NfThumbnailTask and NfPreviewTask make of a photo file: the        *)
(* decoders of the three formats, NfImageData's conversion, NfImage's      *)
(* scaling and turning.  Everything here is a function of the file; pixels *)
(* are represented by where they go, buffers by their length in bytes.     *)
(*                                                                         *)
(* A file is a record: format, size (0 when unknown or empty), opens,      *)
(* width and height (of its header), decodes, orientation (the integer of  *)
(* the EXIF tag, NoTag when Exiv2 cannot read the file), and for RAW flip  *)
(* (LibRaw's turn) and thumbs, the list of embedded images in file order,  *)
(* each with width, height, kind, length, unpacks and, for a JPEG, the     *)
(* sizes in its own header and whether it decodes.                         *)
(***************************************************************************)
EXTENDS Integers, Sequences, FiniteSetsExt

\* NfLimits.
MaxDecodedImagePixels == 100000000
MaxImageDimension == 100000
MaxCompressedImageSize == 200 * 1024 * 1024

\* libjpeg-turbo: the factors it can scale by, <<num, denom>>.
ScalingFactors ==
  <<<<2, 1>>, <<15, 8>>, <<7, 4>>, <<13, 8>>, <<3, 2>>, <<11, 8>>, <<5, 4>>,
    <<9, 8>>, <<1, 1>>, <<7, 8>>, <<3, 4>>, <<5, 8>>, <<1, 2>>, <<3, 8>>,
    <<1, 4>>, <<1, 8>>>>

NoTag == -1

-----------------------------------------------------------------------------
(* NfImage::Orientation.                                                   *)

Normal == 0
FlipVertical == 1
FlipHorizontal == 2
Rotate180 == 3
Rotate90CWFlipVertical == 4
Rotate270CW == 5
Rotate90CW == 6
Rotate90CWFlipHorizontal == 7

\* orientationFromExif; any other integer is Normal.
OrientationFromExif(tag) ==
  IF tag \in 2..8
  THEN <<Normal, FlipHorizontal, Rotate180, FlipVertical,
         Rotate90CWFlipHorizontal, Rotate90CW, Rotate90CWFlipVertical,
         Rotate270CW>>[tag]
  ELSE Normal

SwapsDimensions(o) ==
  o \in {Rotate90CWFlipVertical, Rotate270CW, Rotate90CW, Rotate90CWFlipHorizontal}

\* applyOrientation: where the pixel at column x and row y of a w by h image
\* goes.
Moved(o, w, h, x, y) ==
  CASE o = FlipVertical -> <<x, h - 1 - y>>
    [] o = FlipHorizontal -> <<w - 1 - x, y>>
    [] o = Rotate180 -> <<w - 1 - x, h - 1 - y>>
    [] o = Rotate90CWFlipVertical -> <<h - 1 - y, w - 1 - x>>
    [] o = Rotate270CW -> <<y, w - 1 - x>>
    [] o = Rotate90CW -> <<h - 1 - y, x>>
    [] o = Rotate90CWFlipHorizontal -> <<y, x>>
    [] OTHER -> <<x, y>>

MovedSize(o, w, h) == IF SwapsDimensions(o) THEN <<h, w>> ELSE <<w, h>>

-----------------------------------------------------------------------------
(* NfImageData and NfImage.                                                *)

\* NfImageData() sets no channels, and nobody but the conversions does later.
EmptyData == [width |-> 0, height |-> 0, channels |-> 0, format |-> "Unknown",
              orientation |-> Normal, size |-> 0]

\* A null pointer.
NoData == [EmptyData EXCEPT !.format = "null"]

IsNull(d) == d.format = "null"

Pixels(d) == d.width * d.height

TooLarge(w, h) ==
  \/ w > MaxImageDimension
  \/ h > MaxImageDimension
  \/ w > MaxDecodedImagePixels \div h

\* What is passed for data that are no JPEG.
NoJpeg == [headerWidth |-> 0, headerHeight |-> 0, decodes |-> FALSE]

\* jpegToARGBPremultiplied returns true: the limits are those of the header of
\* the JPEG, whatever size the data say they have.
JpegConverts(jpeg) ==
  /\ jpeg.headerWidth > 0 /\ jpeg.headerHeight > 0
  /\ ~TooLarge(jpeg.headerWidth, jpeg.headerHeight)
  /\ jpeg.decodes

\* convertToARGB32Premultiplied returns true; jpeg is what data that are one hold.
Converts(d, jpeg) ==
  /\ d.width > 0 /\ d.height > 0
  /\ ~TooLarge(d.width, d.height)
  /\ \/ d.format = "ARGB32" /\ d.channels = 4 /\ d.size = 4 * Pixels(d)
     \/ d.format = "JPEG" /\ JpegConverts(jpeg)
     \/ d.format = "RGB888" /\ d.channels = 3 /\ d.size = 3 * Pixels(d)
     \/ d.format = "RGBA8888" /\ d.channels = 4 /\ d.size = 4 * Pixels(d)

\* What it leaves in the data: on failure everything stays; a JPEG is as large
\* as its header says.
Converted(d, jpeg) ==
  LET w == IF d.format = "JPEG" THEN jpeg.headerWidth ELSE d.width
      h == IF d.format = "JPEG" THEN jpeg.headerHeight ELSE d.height
  IN IF Converts(d, jpeg)
     THEN [d EXCEPT !.width = w, !.height = h, !.channels = 4, !.format = "ARGB32",
                    !.size = 4 * w * h]
     ELSE d

\* scaleToHeight.  The width is computed in floats, so that it may be off by
\* the rounding.
ScaledWidth(d, h) == (h * d.width) \div d.height

\* Mutant: the buffer keeps its length.
ScaledToHeightSameBuffer(d, h) == [d EXCEPT !.width = ScaledWidth(d, h), !.height = h]

ScaledToHeight(d, h) ==
  IF d.height <= 0 \/ h <= 0 THEN d
  ELSE [d EXCEPT !.width = ScaledWidth(d, h), !.height = h,
                 !.size = 4 * h * ScaledWidth(d, h)]

\* applyOrientation: only an ARGB image with all its pixels is turned.
Turned(d) ==
  IF \/ d.orientation = Normal
     \/ d.width <= 0 \/ d.height <= 0 \/ d.channels # 4 \/ d.format # "ARGB32"
     \/ d.width > MaxDecodedImagePixels \div d.height
     \/ d.size # 4 * Pixels(d)
  THEN d
  ELSE LET moved == MovedSize(d.orientation, d.width, d.height)
       IN [d EXCEPT !.width = moved[1], !.height = moved[2], !.orientation = Normal]

-----------------------------------------------------------------------------
(* The decoders.  Each returns NoData where the code returns nullptr.      *)

\* The guards every decoder starts with.
Opens(file) ==
  file.size > 0 /\ file.size <= MaxCompressedImageSize /\ file.opens

\* TJSCALED.
Scaled(dim, factor) == (dim * factor[1] + factor[2] - 1) \div factor[2]

\* The index of the smallest scaled size with a side of at least the target;
\* 0 where there is none, or no target: the image is decoded as it is.
BestFactor(w, h, target) ==
  LET Size(i) == Scaled(w, ScalingFactors[i]) * Scaled(h, ScalingFactors[i])
      Good == {i \in 1..Len(ScalingFactors) :
                 \/ Scaled(w, ScalingFactors[i]) >= target
                 \/ Scaled(h, ScalingFactors[i]) >= target}
  IN IF target <= 0 \/ Good = {} THEN 0
     ELSE CHOOSE i \in Good :
            \A j \in Good : Size(i) < Size(j) \/ (Size(i) = Size(j) /\ i <= j)

\* NfJpegImageDecoder::decodeScaled.
DecodeScaled(file, target) ==
  LET best == BestFactor(file.width, file.height, target)
      w == IF best = 0 THEN file.width ELSE Scaled(file.width, ScalingFactors[best])
      h == IF best = 0 THEN file.height ELSE Scaled(file.height, ScalingFactors[best])
  IN IF ~Opens(file) \/ file.width <= 0 \/ file.height <= 0
        \/ TooLarge(w, h) \/ ~file.decodes
     THEN NoData
     ELSE [width |-> w, height |-> h, channels |-> 4, format |-> "ARGB32",
           orientation |-> OrientationFromExif(file.orientation), size |-> 4 * w * h]

\* NfPngImageDecoder::fullImageData.  The channels are not set, so that the
\* conversion at its end fails, which nobody looks at.
DecodePng(file) ==
  IF ~Opens(file) \/ file.width = 0 \/ file.height = 0
     \/ TooLarge(file.width, file.height) \/ ~file.decodes
  THEN NoData
  ELSE Converted([EmptyData EXCEPT
                    !.width = file.width, !.height = file.height,
                    !.format = "RGBA8888", !.size = 4 * file.width * file.height,
                    !.orientation = OrientationFromExif(file.orientation)], NoJpeg)

\* selectBestForTarget: the first that is tall enough, 0 where none is.
SelectBestForTarget(thumbs, target) ==
  LET Good == {i \in 1..Len(thumbs) : thumbs[i].height >= target}
  IN IF Good = {} THEN 0 ELSE Min(Good)

\* NfRawImageDecoder::decodeThumbnail, libRawToNfImageFormat.  The channels
\* of a bitmap are not set, so that its conversion fails.
DecodeThumbnail(thumb, flip) ==
  LET data == [EmptyData EXCEPT
                 !.width = thumb.width, !.height = thumb.height,
                 !.size = thumb.length, !.orientation = flip,
                 !.format = IF thumb.kind = "jpeg" THEN "JPEG" ELSE "RGB888"]
  IN IF \/ thumb.kind \notin {"jpeg", "bitmap"}
        \/ thumb.length = 0 \/ thumb.width <= 0 \/ thumb.height <= 0
        \/ TooLarge(thumb.width, thumb.height)
        \/ thumb.kind = "bitmap" /\ Pixels(data) > thumb.length \div 3
        \/ ~Converts(data, thumb)
     THEN NoData
     ELSE Converted(data, thumb)

\* Its thumbnailImageData and previewImageData, which differ in the log only.
EmbeddedImage(file, target) ==
  LET best == SelectBestForTarget(file.thumbs, target)
  IN IF ~Opens(file) \/ best = 0 THEN NoData
     ELSE IF ~file.thumbs[best].unpacks THEN NoData
     ELSE DecodeThumbnail(file.thumbs[best], file.flip)

\* LibRaw: the size after demosaicing, halved on request.
RawSize(n, half) == IF half THEN (n + 1) \div 2 ELSE n

\* LibRaw: dcraw_make_mem_image turns the picture by flip, whose bits are
\* mirrored columns, mirrored rows, and sides swapped: its size, and where the
\* pixel at column x and row y of the w by h sensor goes.
SizeTurnedByLibRaw(flip, w, h) == IF flip >= 4 THEN <<h, w>> ELSE <<w, h>>

TurnedByLibRaw(flip, w, h, x, y) ==
  LET column == IF flip % 2 = 1 THEN w - 1 - x ELSE x
      row == IF (flip \div 2) % 2 = 1 THEN h - 1 - y ELSE y
  IN IF flip >= 4 THEN <<row, column>> ELSE <<column, row>>

\* Its fullImageData and rawImageData: the picture LibRaw has turned, with the
\* same turn as the orientation, so that execute turns it once more.  LibRaw's
\* own limits are in decodes.
DecodeRaw(file, half) ==
  LET turned == SizeTurnedByLibRaw(file.flip, RawSize(file.width, half),
                                   RawSize(file.height, half))
  IN IF ~Opens(file) \/ ~file.decodes \/ turned[1] = 0 \/ turned[2] = 0 THEN NoData
     ELSE [width |-> turned[1], height |-> turned[2], channels |-> 4,
           format |-> "ARGB32", orientation |-> file.flip,
           size |-> 4 * turned[1] * turned[2]]

-----------------------------------------------------------------------------
(* The tasks.  NfPhotoLoader asks for the fastest extraction: the embedded *)
(* image, and where there is none the full one.                            *)

\* NfImageDecoderFactory's choice of thumbnailImageData or previewImageData.
SmallImage(file, target) ==
  CASE file.format = "Jpeg" -> DecodeScaled(file, target)
    [] file.format = "Png" -> DecodePng(file)
    [] file.format = "Raw" -> EmbeddedImage(file, target)
    [] OTHER -> NoData

\* The same of fullImageData.
FullImage(file, reduced) ==
  CASE file.format = "Jpeg" -> DecodeScaled(file, IF reduced THEN 250 ELSE 0)
    [] file.format = "Png" -> DecodePng(file)
    [] file.format = "Raw" -> DecodeRaw(file, reduced)
    [] OTHER -> NoData

\* execute: NoData stands for TaskStatus::Failed.
Finished(d, maxTarget) ==
  IF IsNull(d) THEN NoData
  ELSE Turned(IF d.height > maxTarget THEN ScaledToHeight(d, maxTarget) ELSE d)

Extracted(file, minTarget, reduced) ==
  LET small == SmallImage(file, minTarget)
  IN IF IsNull(small) THEN FullImage(file, reduced) ELSE small

ThumbnailMax == 250
PreviewMax == 2000

ThumbnailOf(file) == Finished(Extracted(file, 120, TRUE), ThumbnailMax)
PreviewOf(file) == Finished(Extracted(file, 900, FALSE), PreviewMax)

-----------------------------------------------------------------------------
(* What the EXIF standard says of tag 0x0112: the side of the upright      *)
(* picture that the stored row 0 and the stored column 0 are at.           *)

RowZeroAt(tag) ==
  <<"top", "top", "bottom", "bottom", "left", "right", "right", "left">>[tag]
ColumnZeroAt(tag) ==
  <<"left", "right", "right", "left", "top", "top", "bottom", "bottom">>[tag]

\* How far a pixel of a picture of that size is from a side.
Distance(side, size, pixel) ==
  CASE side = "top" -> pixel[2]
    [] side = "bottom" -> size[2] - 1 - pixel[2]
    [] side = "left" -> pixel[1]
    [] side = "right" -> size[1] - 1 - pixel[1]

\* Turned by an orientation, a pixel of row y and column x is y from the side row
\* 0 belongs at and x from the side column 0 belongs at.
Upright(tag, o, w, h, x, y) ==
  LET size == MovedSize(o, w, h)
      pixel == Moved(o, w, h, x, y)
  IN /\ Distance(RowZeroAt(tag), size, pixel) = y
     /\ Distance(ColumnZeroAt(tag), size, pixel) = x

\* Turned by an orientation, the pixels fill the picture: none is lost and none is
\* unset.
Fills(o, w, h) ==
  LET size == MovedSize(o, w, h)
  IN {Moved(o, w, h, x, y) : x \in 0..w - 1, y \in 0..h - 1}
       = (0..size[1] - 1) \X (0..size[2] - 1)
=============================================================================
