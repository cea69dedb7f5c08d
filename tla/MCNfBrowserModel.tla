-------------------------- MODULE MCNfBrowserModel --------------------------
(***************************************************************************)
(* A small instance of NfBrowserModel: two folders that share a photo, two *)
(* formats, two photos of equal name and two of equal size.                *)
(***************************************************************************)
EXTENDS NfBrowserModel, TLC

CONSTANTS p1, p2, p3

MCSources == {"trip", "home"}
MCContent == "trip" :> {p1, p2, p3} @@ "home" :> {p2}
MCFormat == p1 :> "Raw" @@ p2 :> "Jpeg" @@ p3 :> "Raw"
MCFilters == {{}, {"Raw"}, {"Jpeg"}}
MCValue == "Name" :> (p1 :> 2 @@ p2 :> 1 @@ p3 :> 1)
        @@ "FileSize" :> (p1 :> 1 @@ p2 :> 1 @@ p3 :> 2)
        @@ "DateTaken" :> (p1 :> 1 @@ p2 :> 2 @@ p3 :> 3)
=============================================================================
