--------------------------- MODULE MCNfDiskCache ---------------------------
(***************************************************************************)
(* The small instance of NfDiskCache.  The quota of 20 holds the first     *)
(* two images exactly; the third is smaller than a tenth of it, so that    *)
(* room for it is made by the tenth.  After a restart the quota may be 8,  *)
(* which is the second image alone, and the first is larger than it.       *)
(***************************************************************************)
EXTENDS NfDiskCache, TLC

MCKeys == {"large", "medium", "small"}
MCFileSize == "large" :> 12 @@ "medium" :> 8 @@ "small" :> 1
MCQuotas == {8, 20}
=============================================================================
