-------------------------- MODULE NfLibraryQueries --------------------------
(***************************************************************************)
(* What is asked of the photo libraries of NfLibraryImport: the trees of   *)
(* NfLibraryRepresentation (folders, dates, equipment), and the photos a   *)
(* node of a tree stands for, which NfLibraryDatabase looks up.            *)
(*                                                                         *)
(* Everything here is a function of the database in one state.  A row is   *)
(* named by what makes it unique: a folder by its path, a camera by maker  *)
(* and model, a lens by its name.  Time is counted in ticks; years have    *)
(* YearMonths months of MonthDays days of DayTicks ticks, and the local    *)
(* zone is UtcOffset ticks ahead of UTC all year.                          *)
(***************************************************************************)
EXTENDS NfLibraryImport

CONSTANTS TakenAt,     \* TakenAt[p]: datetime_taken of photo p
          MakerOf,     \* MakerOf[p]: the camera's maker p names, or NoText
          ModelOf,     \* ModelOf[p]: its model
          LensOf,      \* LensOf[p]: the lens p names, or NoText
          NoText,      \* the empty string
          NameRank,    \* NameRank[e]: place of a camera or lens in its ORDER BY
          LowerName,   \* LowerName[e]: its name in lower case
          ParentPath,  \* ParentPath[d]: the parent_path of d, NoPath outside Paths
          DayTicks, MonthDays, YearMonths, UtcOffset

\* Rows of cameras are pairs of a maker and a model, rows of lenses names; an
\* image without one has none.
NoId == <<>>
Equipment == {<<MakerOf[p], ModelOf[p]>> : p \in Photos} \union {<<LensOf[p]>> : p \in Photos}

ASSUME QueriesAssumption ==
  /\ DayTicks \in Nat \ {0} /\ MonthDays \in Nat \ {0} /\ YearMonths \in Nat \ {0}
  /\ UtcOffset \in Int /\ -DayTicks < UtcOffset /\ UtcOffset < DayTicks
  /\ \A p \in Photos : TakenAt[p] \in Int
  /\ \A e \in Equipment : NameRank[e] \in Int
  /\ \A e, f \in Equipment : NameRank[e] = NameRank[f] => e = f
  /\ \A d \in Paths : ParentPath[d] \in {e \in Paths : d \in Below[e]} \union {NoPath}

-----------------------------------------------------------------------------
(* What the trees of a library are made from.                              *)

\* addCamera, addLens: the row of these texts, found or made: never two.
AddCamera(maker, model) == <<maker, model>>
AddLens(lens) == <<lens>>

\* storeCamera, storeLens: a photo that names no maker has no camera, even if
\* it names a model.
CameraOf(i) == LET p == i[2] IN
  IF MakerOf[p] = NoText THEN NoId ELSE AddCamera(MakerOf[p], ModelOf[p])
LensIdOf(i) == LET p == i[2] IN IF LensOf[p] = NoText THEN NoId ELSE AddLens(LensOf[p])

\* loadDateTimeSource, loadCanonicalSource, loadEquipmentSource: times, folders
\* and equipment of the photos of the library.
Times(l) == {TakenAt[i[2]] : i \in Shown(l)}
LibraryFolders(l) == {d \in folders : <<l, d>> \in libraryFolders}
CameraRows(l) == {CameraOf(i) : i \in Shown(l)} \ {NoId}
LensRows(l) == {LensIdOf(i) : i \in Shown(l)} \ {NoId}

\* populateSourceData
SourceData(l, type) ==
  CASE type = "DateTime"  -> Times(l)
    [] type = "Canonical" -> LibraryFolders(l)
    [] type = "Camera"    -> CameraRows(l)
    [] type = "Lens"      -> LensRows(l)

-----------------------------------------------------------------------------
(* Dates.                                                                  *)

\* The day, month and year a tick is in, in UTC.
DayOf(t) == t \div DayTicks
MonthOf(d) == [year |-> d \div (MonthDays * YearMonths),
               month |-> (d \div MonthDays) % YearMonths]

FirstDay(m) == (m.year * YearMonths + m.month) * MonthDays

\* getDayRange, getMonthRange, getYearRange: from a midnight of UTC up to,
\* and without, another.
DayRange(d) == [start |-> d * DayTicks, end |-> (d + 1) * DayTicks]

\* Mutant: December is followed by January of the same year.
MonthRangeNoCarry(m) ==
  [start |-> FirstDay(m) * DayTicks,
   end   |-> FirstDay([m EXCEPT !.month = (@ + 1) % YearMonths]) * DayTicks]

MonthRange(m) ==
  [start |-> FirstDay(m) * DayTicks,
   end   |-> FirstDay([m EXCEPT !.month = @ + 1]) * DayTicks]

YearRange(y) ==
  [start |-> FirstDay([year |-> y, month |-> 0]) * DayTicks,
   end   |-> FirstDay([year |-> y + 1, month |-> 0]) * DayTicks]

\* The branch of the date tree for a tick: its year, month and day where the
\* program runs.
LocalDay(t) == DayOf(t + UtcOffset)

DateBranch(t) ==
  LET d == LocalDay(t) m == MonthOf(d) IN {YearRange(m.year), MonthRange(m), DayRange(d)}

\* populateDateTimeTree
DateNodes(l) == UNION {DateBranch(t) : t \in SourceData(l, "DateTime")}

-----------------------------------------------------------------------------
(* Cameras and lenses.                                                     *)

\* findOrCreateChild: rows with the same name but for the case share a node.
SameNode(e, f) == LowerName[e] = LowerName[f]

\* Mutant: the first row stays.
FirstOfNode(rows) ==
  {e \in rows : \A f \in rows : SameNode(e, f) => NameRank[e] <= NameRank[f]}

\* loadCamerasTree, loadLensesTree: each row sets its id in the node its name
\* leads to, and the last one stays.
LastOfNode(rows) ==
  {e \in rows : \A f \in rows : SameNode(e, f) => NameRank[f] <= NameRank[e]}

CameraNodes(l) == LastOfNode(SourceData(l, "Camera"))
LensNodes(l) == LastOfNode(SourceData(l, "Lens"))

-----------------------------------------------------------------------------
(* Folders.                                                                *)

\* populateCanonicalTree: a node for every folder.
FolderNodes(l) == SourceData(l, "Canonical")

\* ... under which the node of d is put, NoPath for the root.  The search for
\* an ancestor looks at the parent path, and then at the parent path again.
FolderParent(l, d) == IF ParentPath[d] \in FolderNodes(l) THEN ParentPath[d] ELSE NoPath

\* The folders a query of d is about: d itself must be the library's.
FolderTree(l, d) ==
  IF <<l, d>> \in libraryFolders THEN folders \intersect Tree(d) ELSE {}

-----------------------------------------------------------------------------
(* Queries: the images each returns.                                       *)

GetImagesByFolderId(l, d) == {i \in images : i[1] \in FolderTree(l, d)}

\* Mutant: photos of any library.
GetImagesByDateAnywhere(l, range) ==
  {i \in images : range.start <= TakenAt[i[2]] /\ TakenAt[i[2]] < range.end}

GetImagesByDate(l, range) ==
  {i \in Shown(l) : range.start <= TakenAt[i[2]] /\ TakenAt[i[2]] < range.end}

GetImagesByCamera(l, c) == {i \in Shown(l) : CameraOf(i) = c}
GetImagesByLens(l, e) == {i \in Shown(l) : LensIdOf(i) = e}

\* The trees a library has, populateTree: the nodes of one, and makeQuery of
\* NfLibraryTreeItem for those of all.
Representations == {"DateTime", "Canonical", "Equipment"}

Nodes(l, type) ==
  CASE type = "DateTime"  -> {"DateTime"} \X DateNodes(l)
    [] type = "Canonical" -> {"Canonical"} \X FolderNodes(l)
    [] type = "Equipment" -> {"Camera"} \X CameraNodes(l) \union {"Lens"} \X LensNodes(l)

NodeQueries(l) == UNION {Nodes(l, type) : type \in Representations}

\* NfLibraryRepresentation::queryPhotos
QueryLibrary(l, q) ==
  CASE q[1] = "Canonical" -> GetImagesByFolderId(l, q[2])
    [] q[1] = "Camera"    -> GetImagesByCamera(l, q[2])
    [] q[1] = "Lens"      -> GetImagesByLens(l, q[2])
    [] q[1] = "DateTime"  -> GetImagesByDate(l, q[2])

\* NfLibraryManager::queryPhotos: a library that is gone stands for all.
QueryPhotos(l, q) ==
  IF l \in libraries THEN QueryLibrary(l, q)
  ELSE UNION {QueryLibrary(k, q) : k \in libraries}

-----------------------------------------------------------------------------
(* Properties.                                                             *)

\* The photo's own day is the UTC day the ranges of its branch are cut by.
DayIsUtcDay(i) == LocalDay(TakenAt[i[2]]) = DayOf(TakenAt[i[2]])

\* A photo of a library is found by each of its trees: under the folder it is
\* in and under every folder above that the library has; under its year, its
\* month and its day, and under no node of another branch, as long as its
\* local day is its day in UTC (if it is not, never under its own day); under
\* its camera and its lens, unless a later one whose name differs in case
\* only has taken the node.  And what a folder shows, the one its node is put
\* under shows too.
TreesFindPhotos ==
  \A l \in libraries :
    /\ \A d \in FolderNodes(l) :
         FolderParent(l, d) # NoPath =>
           GetImagesByFolderId(l, d) \subseteq GetImagesByFolderId(l, FolderParent(l, d))
    /\ \A i \in Shown(l) :
         /\ \A d \in FolderNodes(l) :
              i \in QueryPhotos(l, <<"Canonical", d>>) <=> i[1] \in Tree(d)
         /\ \A r \in DateNodes(l) :
              DayIsUtcDay(i) =>
                (i \in QueryPhotos(l, <<"DateTime", r>>) <=> r \in DateBranch(TakenAt[i[2]]))
         /\ ~ DayIsUtcDay(i) =>
              i \notin QueryPhotos(l, <<"DateTime", DayRange(LocalDay(TakenAt[i[2]]))>>)
         /\ CameraOf(i) # NoId =>
              \E c \in CameraNodes(l) :
                /\ SameNode(c, CameraOf(i)) /\ NameRank[c] >= NameRank[CameraOf(i)]
                /\ c = CameraOf(i) => i \in QueryPhotos(l, <<"Camera", c>>)
         /\ LensIdOf(i) # NoId =>
              \E e \in LensNodes(l) :
                /\ SameNode(e, LensIdOf(i)) /\ NameRank[e] >= NameRank[LensIdOf(i)]
                /\ e = LensIdOf(i) => i \in QueryPhotos(l, <<"Lens", e>>)

\* A query of one library, be it made from a node of another, does not bring
\* up photos the library does not have, except that a folder brings up all
\* that any library has imported below it.
QueriesStayInside ==
  \A l, k \in libraries : \A q \in NodeQueries(k) : \A i \in QueryPhotos(l, q) :
    i \in Shown(l) \/ (q[1] = "Canonical" /\ i[1] \in Below[q[2]])

=============================================================================
