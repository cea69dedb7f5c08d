---------------------------- MODULE NfBrowserModel ----------------------------
(***************************************************************************)
(* NfBrowserModel: the list of photos a browser view shows.  The model     *)
(* owns the photos of the source, filters them by format, sorts what is    *)
(* left and keeps a map from photo ids to rows for what arrives later by   *)
(* id.  NfBrowserView keeps the current photo current: it looks the row up *)
(* again whenever the model reports new rows.  NfPhotoPreviewView, when the *)
(* view is in that mode, shows one photo large.                            *)
(*                                                                         *)
(* Everything runs on the GUI thread: one action is one slot with the      *)
(* slots its signals call.  Photos arrive in batches, in any order, as the *)
(* provider's timer takes them from the scanner.  Photo ids are photos.    *)
(***************************************************************************)
EXTENDS Integers, Sequences, FiniteSets, SequencesExt

CONSTANTS Sources,     \* what setSource is called with
          Content,     \* Content[s]: the photos of source s
          Format,      \* Format[p]: NfPhoto::format
          Filters,     \* the format filters the user sets
          Value,       \* Value[f][p]: what photos are compared by
          NoPhoto      \* no photo is current

\* In the order the comparator looks at them.
SortFields == <<"Name", "FileSize", "DateTaken">>
SortOrders == {"Ascending", "Descending"}
ViewModes == {"Grid", "Preview"}

Photos == UNION {Content[s] : s \in Sources}

ASSUME BrowserAssumption ==
  /\ NoPhoto \notin Photos
  /\ Photos \subseteq DOMAIN Format
  /\ {} \in Filters
  /\ \A f \in ToSet(SortFields) : Value[f] \in [Photos -> Int]
  /\ \A s \in Sources : IsFiniteSet(Content[s])

VARIABLES
  arriving,        \* photos the scanner is still to hand out
  allPhotos,       \* m_allPhotos
  visibleIndexes,  \* m_visibleIndexes
  itemsMap,        \* m_itemsMap, NoRow where absent
  formatFilter,    \* m_formatFilter
  sortFields,      \* m_sortFields
  sortOrder,       \* m_sortOrder
  currentPhoto,    \* NfUiBrowserState::m_photo
  currentRow,      \* row of the view's current index
  viewMode,        \* NfUiBrowserState::m_viewMode
  previewRow,      \* row of NfPhotoPreviewView::m_previewIndex
  previewPhoto     \* the photo m_sourcePreview is of

settingVars == <<formatFilter, sortFields, sortOrder>>
previewVars == <<viewMode, previewRow, previewPhoto>>
viewVars == <<currentPhoto, currentRow, previewVars>>
vars == <<arriving, allPhotos, visibleIndexes, itemsMap, settingVars, viewVars>>

NoRow == 0
Rows == DOMAIN visibleIndexes
PhotoAt(row) == allPhotos[visibleIndexes[row]]

-----------------------------------------------------------------------------
(* Filtering and sorting.                                                  *)

Accepts(formats, p) == formats = {} \/ Format[p] \in formats

\* Positions of the photos of s that pass the filter, and these in order.
Passing(formats, s) == {i \in DOMAIN s : Accepts(formats, s[i])}

Accepted(formats, s) ==
  CHOOSE t \in SetToSeqs(Passing(formats, s)) : \A i, j \in DOMAIN t : i < j => t[i] < t[j]

\* The comparator of sortPhotos: the first enabled field that differs decides.
Precedes(fields, order, p, q) ==
  \E i \in DOMAIN SortFields :
    LET field == Value[SortFields[i]]
        differs(j) == SortFields[j] \in fields
                      /\ Value[SortFields[j]][p] # Value[SortFields[j]][q]
    IN /\ differs(i) /\ \A j \in 1..(i - 1) : ~ differs(j)
       /\ IF order = "Ascending" THEN field[p] < field[q] ELSE field[p] > field[q]

\* What sortPhotos may make of the indexes s into photos: sort is not stable,
\* equal photos end in any order.
Sorted(fields, order, photos, s) ==
  {t \in SetToSeqs(ToSet(s)) :
     \A i, j \in DOMAIN t : i < j =>
       ~ Precedes(fields, order, photos[t[j]], photos[t[i]])}

\* rebuildPersistentIndexMap
RowMap(photos, s) ==
  [p \in Photos |-> IF \E i \in DOMAIN s : photos[s[i]] = p
                    THEN CHOOSE i \in DOMAIN s : photos[s[i]] = p ELSE NoRow]

-----------------------------------------------------------------------------
Init ==
  /\ arriving = {}
  /\ allPhotos = <<>> /\ visibleIndexes = <<>>
  /\ itemsMap = [p \in Photos |-> NoRow]
  /\ formatFilter \in Filters   \* restored with the UI state
  /\ sortFields = {} /\ sortOrder = "Ascending"
  /\ currentPhoto \in Photos \union {NoPhoto} \* restored with the UI state
  /\ currentRow = NoRow
  /\ viewMode = "Grid" /\ previewRow = NoRow /\ previewPhoto = NoPhoto

\* setSource; a model reset takes the current index from the view, quietly:
\* the preview keeps its picture and its row.
SetSource(s) ==
  /\ allPhotos' = <<>> /\ visibleIndexes' = <<>>
  /\ itemsMap' = [p \in Photos |-> NoRow]
  /\ arriving' = Content[s]
  /\ currentRow' = NoRow
  /\ UNCHANGED <<settingVars, currentPhoto, previewVars>>

\* setPhotoIndex of the preview, if there is one, when the current index has
\* become currentRow'.
SetPhotoIndex ==
  /\ IF viewMode = "Preview"
     THEN /\ previewRow' = currentRow'
          /\ previewPhoto' = allPhotos'[visibleIndexes'[currentRow']]
     ELSE UNCHANGED <<previewRow, previewPhoto>>
  /\ UNCHANGED viewMode

\* Mutant: the view does not look its photo up again.
RestoreCurrentPhotoNot == UNCHANGED viewVars

\* restoreCurrentPhoto, on photoIndexesUpdated: currentChanged is emitted for
\* another row only.
RestoreCurrentPhoto ==
  /\ currentRow' = IF currentPhoto # NoPhoto /\ itemsMap'[currentPhoto] # NoRow
                   THEN itemsMap'[currentPhoto] ELSE currentRow
  /\ IF currentRow' # currentRow THEN SetPhotoIndex ELSE UNCHANGED previewVars
  /\ UNCHANGED currentPhoto

\* sortPhotos and rebuildPersistentIndexMap.
Show(photos, s) ==
  /\ visibleIndexes' \in Sorted(sortFields, sortOrder, photos, s)
  /\ itemsMap' = RowMap(photos, visibleIndexes')

\* onPhotosLoaded of a batch that has a visible photo.
PhotosLoaded(batch) ==
  LET photos == allPhotos \o batch
      new == [i \in DOMAIN Accepted(formatFilter, batch) |->
                Len(allPhotos) + Accepted(formatFilter, batch)[i]]
  IN
  /\ new # <<>>
  /\ allPhotos' = photos
  /\ Show(photos, visibleIndexes \o new)
  /\ RestoreCurrentPhoto
  /\ arriving' = arriving \ ToSet(batch)
  /\ UNCHANGED settingVars

\* onPhotosLoaded of a batch without one returns early.
PhotosIgnored(batch) ==
  /\ Accepted(formatFilter, batch) = <<>>
  /\ arriving' = arriving \ ToSet(batch)
  /\ UNCHANGED <<allPhotos, visibleIndexes, itemsMap, settingVars, viewVars>>

\* Mutant: the new filter is applied to the rows, not to all photos.
RefilteredRows(formats) ==
  SelectSeq(visibleIndexes, LAMBDA i : Accepts(formats, allPhotos[i]))

\* rebuildVisiblePhotos
Refiltered(formats) == Accepted(formats, allPhotos)

\* setFormatFilter, then the view's slots: the photo that was current stays
\* it if it can, else the first one becomes current, else none.
SetFormatFilter(formats) ==
  /\ formats # formatFilter
  /\ formatFilter' = formats
  /\ visibleIndexes' \in
       IF sortFields # {}
       THEN Sorted(sortFields, sortOrder, allPhotos, Refiltered(formats))
       ELSE {Refiltered(formats)}
  /\ itemsMap' = RowMap(allPhotos, visibleIndexes')
  /\ currentRow' =
       IF currentPhoto # NoPhoto /\ itemsMap'[currentPhoto] # NoRow
       THEN itemsMap'[currentPhoto]
       ELSE IF visibleIndexes' # <<>> THEN 1 ELSE NoRow
  /\ currentPhoto' =
       IF currentRow' = NoRow THEN NoPhoto ELSE allPhotos[visibleIndexes'[currentRow']]
  /\ UNCHANGED <<arriving, allPhotos, sortFields, sortOrder>>
  /\ IF currentRow' # NoRow THEN SetPhotoIndex ELSE UNCHANGED previewVars

\* The rows are sorted anew; the view's current index keeps its row.
Resort(fields, order) ==
  /\ sortFields' = fields /\ sortOrder' = order
  /\ IF fields # {}
     THEN /\ visibleIndexes' \in Sorted(fields, order, allPhotos, visibleIndexes)
          /\ itemsMap' = RowMap(allPhotos, visibleIndexes')
     ELSE UNCHANGED <<visibleIndexes, itemsMap>>
  /\ UNCHANGED <<arriving, allPhotos, formatFilter, viewVars>>

\* The sort bar enables one field at a time.
SetSortFields(field) == sortFields # {field} /\ Resort({field}, sortOrder)

SetSortOrder(order) == sortOrder # order /\ Resort(sortFields, order)

\* The user picks a photo; picking the row that is current changes nothing.
Select(row) ==
  /\ row \in Rows /\ row # currentRow
  /\ currentRow' = row
  /\ currentPhoto' = PhotoAt(row)
  /\ UNCHANGED <<arriving, allPhotos, visibleIndexes, itemsMap, settingVars>>
  /\ SetPhotoIndex

\* setViewMode, updateView: the preview is made with the current index, which
\* may be none, or deleted.
SetViewMode(mode) ==
  /\ mode # viewMode
  /\ viewMode' = mode
  /\ previewRow' = IF mode = "Preview" THEN currentRow ELSE NoRow
  /\ previewPhoto' = IF mode = "Preview" /\ currentRow # NoRow
                     THEN PhotoAt(currentRow) ELSE NoPhoto
  /\ UNCHANGED <<arriving, allPhotos, visibleIndexes, itemsMap, settingVars,
                 currentPhoto, currentRow>>

\* Mutant: any row's preview is taken.
PreviewLoadedAnyRow(p) ==
  /\ previewRow # NoRow /\ itemsMap[p] # NoRow
  /\ previewPhoto' = p
  /\ UNCHANGED <<arriving, allPhotos, visibleIndexes, itemsMap, settingVars,
                 currentPhoto, currentRow, viewMode, previewRow>>

\* onPreviewsLoaded, then the preview's onDataChanged when the row is its own.
PreviewLoaded(p) ==
  /\ previewRow # NoRow /\ itemsMap[p] = previewRow
  /\ previewPhoto' = p
  /\ UNCHANGED <<arriving, allPhotos, visibleIndexes, itemsMap, settingVars,
                 currentPhoto, currentRow, viewMode, previewRow>>

\* prefetchPage: the rows, from 0, around the page of rows in view.
PrefetchPage(firstVisible, pageSize, pages, count) ==
  LET first == Min({firstVisible, count})
      start == first - Min({first, pages * pageSize})
      next == Min({count, first + pageSize})
      end == next + Min({count - next, pages * pageSize})
  IN (start..(end - 1)) \ (first..(next - 1))

\* onScrollChanged of the grid (one page) or the film strip (four).
PrefetchInView(first, last, layout, count) ==
  PrefetchPage(first, last - first + 1, IF layout = "Grid" THEN 1 ELSE 4, count)

\* getPreview: the rows, from 0, whose previews are asked for with that of
\* the middle one.
PreviewRange(center, range, count) ==
  (Max({0, center - range})..Min({count - 1, center + range})) \ {center}

Batches == UNION {SetToSeqs(S) : S \in SUBSET arriving \ {{}}}

Next ==
  \/ \E s \in Sources : SetSource(s)
  \/ \E batch \in Batches : PhotosLoaded(batch) \/ PhotosIgnored(batch)
  \/ \E formats \in Filters : SetFormatFilter(formats)
  \/ \E i \in DOMAIN SortFields : SetSortFields(SortFields[i])
  \/ \E order \in SortOrders : SetSortOrder(order)
  \/ \E row \in Rows : Select(row)
  \/ \E mode \in ViewModes : SetViewMode(mode)
  \/ \E p \in Photos : PreviewLoaded(p)

Spec == Init /\ [][Next]_vars

-----------------------------------------------------------------------------
(* Properties.                                                             *)

\* Every variable keeps its type.
TypeOK ==
  /\ arriving \subseteq Photos
  /\ allPhotos \in Seq(Photos)
  /\ visibleIndexes \in Seq(DOMAIN allPhotos)
  /\ itemsMap \in [Photos -> Rows \union {NoRow}]
  /\ formatFilter \in Filters
  /\ sortFields \subseteq ToSet(SortFields) /\ sortOrder \in SortOrders
  /\ currentPhoto \in Photos \union {NoPhoto}
  /\ currentRow \in Nat
  /\ viewMode \in ViewModes
  /\ previewRow \in Nat /\ previewPhoto \in Photos \union {NoPhoto}

\* "This map lets the model find the corresponding index": an id leads to the
\* row that shows its photo, and only hidden photos have none, so that what
\* is reported by id repaints the right row after any filter and any sort.
MapLeadsToRow ==
  \A p \in Photos :
    IF itemsMap[p] = NoRow THEN \A row \in Rows : PhotoAt(row) # p
    ELSE itemsMap[p] \in Rows /\ PhotoAt(itemsMap[p]) = p

\* The rows are the photos the model owns that pass the filter, each once,
\* whatever filters were set before and whenever the photos arrived.
RowsAreAccepted ==
  /\ {PhotoAt(row) : row \in Rows} =
       {p \in ToSet(allPhotos) : Accepts(formatFilter, p)}
  /\ Cardinality(ToSet(visibleIndexes)) = Len(visibleIndexes)

\* The rows are in the order the user asked for, also those that came after
\* he asked.
RowsAreSorted ==
  \A i, j \in Rows : i < j => ~ Precedes(sortFields, sortOrder, PhotoAt(j), PhotoAt(i))

\* When photos arrive or the filter changes, the view's current index follows
\* the current photo if that is visible.
CurrentIndexFollows ==
  [][allPhotos' # allPhotos \/ formatFilter' # formatFilter
     => \A row \in DOMAIN visibleIndexes' :
          allPhotos'[visibleIndexes'[row]] = currentPhoto' => currentRow' = row]_vars

\* What the preview comes to show is the photo that has become current, or a
\* preview that has come for the row it was given; a photo that becomes current
\* is shown at once.
PreviewFollows ==
  [][/\ viewMode' = "Preview" /\ currentPhoto' \notin {currentPhoto, NoPhoto}
          => previewPhoto' = currentPhoto'
     /\ viewMode' = "Preview" /\ previewPhoto' \notin {previewPhoto, NoPhoto}
          => \/ previewPhoto' = currentPhoto'
             \/ previewPhoto' = allPhotos'[visibleIndexes'[previewRow']]]_vars

\* Scrolling asks for rows the model has, never twice for those in view, and
\* for the next page whole, wherever the page in view is, also past the end of
\* a list that has become shorter.
PrefetchInRows ==
  LET count == Len(visibleIndexes)
  IN \A first \in 0..(count + 1), last \in 0..(count + 2), layout \in ViewModes :
       first <= last =>
         LET rows == PrefetchInView(first, last, layout, count)
         IN /\ rows \subseteq 0..(count - 1)
            /\ rows \intersect first..last = {}
            /\ (last + 1)..(2 * last - first + 1) \intersect 0..(count - 1) \subseteq rows

\* The list, the rows, the map from ids to rows and what is asked for when the
\* user scrolls, after any batch, filter, sort and switch.
RowsAreSound ==
  TypeOK /\ MapLeadsToRow /\ RowsAreAccepted /\ RowsAreSorted /\ PrefetchInRows
=============================================================================
