-------------------------- MODULE MCNfLibraryImport --------------------------
(***************************************************************************)
(* Small instances of the libraries.  For the imports: a folder with a     *)
(* photo and a folder with another below it, two libraries, and imports    *)
(* that overlap.  For the queries: the two photos were taken around the    *)
(* turn of a year, with cameras whose names differ in case, in a zone half *)
(* a day ahead of UTC.                                                     *)
(***************************************************************************)
EXTENDS NfLibraryQueries, TLC

MCPaths == {"trip", "trip/day1"}
MCBelow == "trip" :> {"trip/day1"} @@ "trip/day1" :> {}
MCPhotosIn == "trip" :> {"a"} @@ "trip/day1" :> {"b"}
MCParentPath == "trip" :> NoPath @@ "trip/day1" :> "trip"

\* a was taken in the last morning of the first year, b in the evening.
MCTakenAt == "a" :> 6 @@ "b" :> 7
MCMakerOf == "a" :> "NIKON" @@ "b" :> "Nikon"
MCModelOf == "a" :> "Z6" @@ "b" :> "Z6"
MCLensOf == "a" :> "" @@ "b" :> "50mm"
MCNameRank == <<"">> :> 0 @@ <<"50mm">> :> 1 @@ <<"NIKON", "Z6">> :> 2 @@ <<"Nikon", "Z6">> :> 3
MCLowerName == <<"50mm">> :> "50mm" @@ <<"NIKON", "Z6">> :> "nikon z6"
               @@ <<"Nikon", "Z6">> :> "nikon z6"

=============================================================================
