---------------------------- MODULE MCNfUiState ----------------------------
(***************************************************************************)
(* The small instance of NfUiState: two folders and an equipment node of   *)
(* the library tree with a photo or two; ui-state.ini is missing, or holds *)
(* what no version of the program wrote.  The name of one folder and that  *)
(* of its photo are not UTF-8, and are respelled as those of the other.    *)
(***************************************************************************)
EXTENDS NfUiState, TLC

CONSTANTS p1, p2, Trip, Odd

OfCamera == [library |-> 1, representation |-> 3, value |-> <<"equipment", 0, 5>>]

MCUtf8(name) == CASE name = Odd -> Trip [] name = p2 -> p1 [] OTHER -> name
MCSources == {Trip, Odd, OfCamera, NoQuery}
MCContent == Trip :> {p1} @@ Odd :> {p2} @@ OfCamera :> {p2} @@ NoQuery :> {}
MCQueries == {OfCamera}
MCFormat == p1 :> "Raw" @@ p2 :> "Jpeg"
MCFilters == {{}, {"Raw"}}
MCValue == [field \in ToSet(SortFields) |-> p1 :> 2 @@ p2 :> 1]
MCOldFiles ==
  {<<>>,
   <<"ui", "mode">> :> IntValue(7) @@ <<"ui", "path">> :> Text(NoPath)
     @@ <<"query", "libraryId">> :> IntValue(1) @@ <<"query", "representationType">> :> IntValue(3)
     @@ <<"query", "valueType">> :> Text("equipment") @@ <<"query", "equipmentKind">> :> IntValue(9)
     @@ <<"query", "value">> :> IntValue(5) @@ <<"folders", "viewMode">> :> IntValue(5)}
=============================================================================
