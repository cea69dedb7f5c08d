------------------------------ MODULE NfUiState ------------------------------
(***************************************************************************)
(* The state of the user interface and its life: NfUiState restores it     *)
(* from ui-state.ini when the program starts and writes it there after     *)
(* every change, NfCentralWidget makes a new browser view (with its bars,  *)
(* its NfBrowserModel and its NfPhotoProvider) for every change of mode,   *)
(* and the old view is deleted.  The view there is is NfBrowserModel's:    *)
(* its variables are the shown mode's, and browser keeps the               *)
(* NfUiBrowserStates of both modes, which live longer than the views.      *)
(*                                                                         *)
(* The settings file is a function from keys to values, a value being a    *)
(* kind and what it holds, as numbers do not read as words.                *)
(***************************************************************************)
EXTENDS NfBrowserModel

CONSTANTS Paths,     \* the folders the user selects
          NoPath,    \* the empty path
          Queries,   \* the queries of the nodes of the library tree
          Libraries, \* the ids of the libraries; 0 is none
          Sections,  \* the sections of the metadata panel
          SortMenu,  \* the fields of the sort bar's menu
          OldFiles,  \* what ui-state.ini may be when the program first starts
          MaxUnsaved, \* the bound of unsaved
          Utf8(_)    \* what a name or a text is once it has been a QString: what
                     \* is not UTF-8 in it is replaced

\* NfLibraryQuery{}, which finds no photo, and NfUiBrowserState{}.
NoQuery == [library |-> -1, representation |-> 0, value |-> <<"none">>]

\* What NfLibraryQuery may hold.
LibraryQueries ==
  [library : Int, representation : 0..4,
   value : {<<"none">>} \union {"int", "int64"} \X Int \union {"string"} \X STRING
           \union {"dateRange"} \X Int \X Int \union {"equipment"} \X (0..1) \X Int]

\* The formats the filter bar has buttons for, and the settings have names for.
SavedFormats == {"Raw", "Jpeg", "Png"}

\* A query whose text has been a QString.
Respelled(q) ==
  IF q.value[1] = "string" THEN [q EXCEPT !.value = <<"string", Utf8(q.value[2])>>] ELSE q

\* What has been replaced once stays.
ASSUME Utf8Assumption ==
  /\ Utf8(NoPath) = NoPath /\ Utf8(NoPhoto) = NoPhoto
  /\ \A p \in Paths : Utf8(p) \in Paths /\ Utf8(Utf8(p)) = Utf8(p)
  /\ \A p \in Photos : Utf8(p) \in Photos /\ Utf8(Utf8(p)) = Utf8(p)
  /\ \A q \in Queries : Respelled(q) \in Queries /\ Respelled(Respelled(q)) = Respelled(q)

ASSUME UiAssumption ==
  /\ NoPath \notin Paths
  /\ Queries \subseteq LibraryQueries
  /\ Paths \union Queries \union {NoQuery} = Sources
  /\ Content[NoQuery] = {}
  /\ SortMenu \subseteq ToSet(SortFields)
  /\ Filters \subseteq SUBSET SavedFormats
  /\ MaxUnsaved \in Nat

VARIABLES
  uiMode,         \* m_uiMode; "Off" while the program does not run
  path,           \* NfUiFolderModeState::m_path
  query,          \* NfUiLibraryModeState::m_query
  currentLibrary, \* m_currentLibrary
  browser,        \* the m_browserState of each mode
  sections,       \* m_metadataSectionStates
  libraryPanel,   \* m_libraryBrowser is made
  file,           \* ui-state.ini
  unsaved         \* the changes in a row that could not be saved, which is only
                  \* logged

stateVars == <<uiMode, path, query, currentLibrary, browser, sections>>
browserModelVars ==
  <<arriving, allPhotos, visibleIndexes, itemsMap, settingVars, viewVars>>
fileVars == <<file, unsaved>>
allVars == <<browserModelVars, stateVars, libraryPanel, fileVars>>

BrowserModes == {"Folders", "Library"}
UiModes == BrowserModes \union {"Shoots"}
ModeNumber == [mode \in UiModes |->
                 CASE mode = "Shoots" -> 0 [] mode = "Folders" -> 1 [] mode = "Library" -> 2]
ViewModeNumber == [mode \in ViewModes |-> IF mode = "Grid" THEN 0 ELSE 1]

NoBrowserState ==
  [viewMode |-> "Grid", photo |-> NoPhoto, filter |-> {}, fields |-> {},
   order |-> "Ascending"]

-----------------------------------------------------------------------------
(* The settings file.                                                      *)

IntValue(n) == <<"int", n>>
Text(t) == <<"text", t>>

\* The file of some pairs of a key and a value.
File(pairs) ==
  [key \in {e[1] : e \in pairs} |-> (CHOOSE e \in pairs : e[1] = key)[2]]

Has(f, key, kind) == key \in DOMAIN f /\ f[key][1] = kind

\* What is absent or of another kind gives the default.
Read(f, key, kind, default) == IF Has(f, key, kind) THEN f[key][2] ELSE default

\* saveLibraryQuery; QString::fromStdString.
SavedQuery(q) ==
  LET int(name, n) == <<<<"query", name>>, IntValue(n)>>
      text(name, t) == <<<<"query", name>>, Text(t)>>
      v == q.value
  IN {int("libraryId", q.library), int("representationType", q.representation),
      text("valueType", v[1])}
     \union CASE v[1] = "none" -> {}
              [] v[1] = "dateRange" -> {int("startTicks", v[2]), int("endTicks", v[3])}
              [] v[1] = "equipment" -> {int("equipmentKind", v[2]), int("value", v[3])}
              [] v[1] = "string" -> {text("value", Utf8(v[2]))}
              [] OTHER -> {int("value", v[2])}

\* The value restoreLibraryQuery reads, <<>> where it gives up.
ReadValue(f) ==
  LET key(name) == <<"query", name>>
      kind == Read(f, key("valueType"), "text", "")
      ints(names) == \A i \in DOMAIN names : Has(f, key(names[i]), "int")
      got(names) == <<kind>> \o [i \in DOMAIN names |-> f[key(names[i])][2]]
  IN CASE kind = "none" -> <<"none">>
       [] kind \in {"int", "int64"} /\ ints(<<"value">>) -> got(<<"value">>)
       [] kind = "dateRange" /\ ints(<<"startTicks", "endTicks">>) ->
            got(<<"startTicks", "endTicks">>)
       [] kind = "string" -> <<kind, Read(f, key("value"), "text", "")>>
       [] kind = "equipment" /\ Read(f, key("equipmentKind"), "int", -1) \in 0..1
                             /\ ints(<<"value">>) ->
            got(<<"equipmentKind", "value">>)
       [] OTHER -> <<>>

\* restoreLibraryQuery: the default query where something does not read.
ReadQuery(f) ==
  LET key(name) == <<"query", name>>
  IN IF /\ Has(f, key("libraryId"), "int")
        /\ Read(f, key("representationType"), "int", -1) \in 0..4
        /\ ReadValue(f) # <<>>
     THEN [library |-> f[key("libraryId")][2],
           representation |-> f[key("representationType")][2], value |-> ReadValue(f)]
     ELSE NoQuery

\* saveBrowserState: sorting is not saved, and the photo is its path
\* (pathToString).
SavedBrowser(group, b) ==
  {<<<<group, "viewMode">>, IntValue(ViewModeNumber[b.viewMode])>>,
   <<<<group, "currentPhoto">>, Text(Utf8(b.photo))>>,
   <<<<group, "formatFilter">>, <<"list", b.filter \intersect SavedFormats>>>>}

\* restoreBrowserState: whatever is not the preview is the grid.
ReadBrowser(f, group) ==
  [viewMode |-> IF Read(f, <<group, "viewMode">>, "int", 0) = ViewModeNumber["Preview"]
                THEN "Preview" ELSE "Grid",
   photo |-> Read(f, <<group, "currentPhoto">>, "text", NoPhoto),
   filter |-> Read(f, <<group, "formatFilter">>, "list", {}) \intersect SavedFormats,
   fields |-> {}, order |-> "Ascending"]

\* saveState writes every key; those of the query and of the sections that are
\* not written anew are removed.
Saved(mode, p, q, library, browsers, states) ==
  File({<<<<"ui", "mode">>, IntValue(ModeNumber[mode])>>,
        <<<<"ui", "path">>, Text(Utf8(p))>>,
        <<<<"ui", "currentId">>, IntValue(library)>>}
       \union SavedQuery(q)
       \union SavedBrowser("folders", browsers["Folders"])
       \union SavedBrowser("library", browsers["Library"])
       \union {<<<<"section", s>>, <<"bool", states[s]>>>> : s \in DOMAIN states})

\* What the constructor makes of a file: a number that is no mode is not taken.
ReadMode(f) ==
  LET number == Read(f, <<"ui", "mode">>, "int", 0)
  IN IF \E mode \in UiModes : ModeNumber[mode] = number
     THEN CHOOSE mode \in UiModes : ModeNumber[mode] = number
     ELSE "Shoots"

ReadPath(f) == Read(f, <<"ui", "path">>, "text", NoPath)

ReadLibrary(f) == Read(f, <<"ui", "currentId">>, "int", 0)

ReadBrowsers(f) ==
  [mode \in BrowserModes |->
     ReadBrowser(f, IF mode = "Folders" THEN "folders" ELSE "library")]

ReadSections(f) ==
  [s \in {s \in Sections : <<"section", s>> \in DOMAIN f} |-> f[<<"section", s>>][2]]

\* What a file of another version names is among what the user may name; what is
\* read was a QString.
ASSUME FilesAssumption ==
  \A f \in OldFiles :
    /\ ReadPath(f) \in {Utf8(p) : p \in Paths \union {NoPath}}
    /\ ReadQuery(f) \in {Respelled(q) : q \in Queries \union {NoQuery}}
    /\ \A mode \in BrowserModes :
         /\ ReadBrowsers(f)[mode].photo \in {Utf8(p) : p \in Photos \union {NoPhoto}}
         /\ ReadBrowsers(f)[mode].filter \in Filters

\* Mutant: only what has changed is written, as if the saves before had not failed.
SaveTheChange ==
  LET old == Saved(uiMode, path, query, currentLibrary, browser, sections)
      new == Saved(uiMode', path', query', currentLibrary', browser', sections')
      changed == {key \in DOMAIN new : key \notin DOMAIN old \/ old[key] # new[key]}
  IN \/ /\ file' = [key \in (DOMAIN file \ (DOMAIN old \ DOMAIN new)) \union changed |->
                      IF key \in changed THEN new[key] ELSE file[key]]
        /\ unsaved' = 0
     \/ unsaved < MaxUnsaved /\ unsaved' = unsaved + 1 /\ UNCHANGED file

\* saveState, after a change: where the directory cannot be made or the file not
\* be replaced, nothing is written and nobody but the log told; the next change
\* writes everything again.
Save ==
  \/ /\ file' = Saved(uiMode', path', query', currentLibrary', browser', sections')
     /\ unsaved' = 0
  \/ unsaved < MaxUnsaved /\ unsaved' = unsaved + 1 /\ UNCHANGED file

-----------------------------------------------------------------------------
(* The program starts and ends.                                            *)

UiInit ==
  /\ arriving = {} /\ allPhotos = <<>> /\ visibleIndexes = <<>>
  /\ itemsMap = [p \in Photos |-> NoRow]
  /\ formatFilter = {} /\ sortFields = {} /\ sortOrder = "Ascending"
  /\ currentPhoto = NoPhoto /\ currentRow = NoRow
  /\ viewMode = "Grid" /\ previewRow = NoRow /\ previewPhoto = NoPhoto
  /\ uiMode = "Off" /\ path = NoPath /\ query = NoQuery /\ currentLibrary = 0
  /\ browser = [mode \in BrowserModes |-> NoBrowserState]
  /\ sections = <<>> /\ libraryPanel = FALSE
  /\ file \in OldFiles /\ unsaved = 0

\* A new NfBrowserView and its NfBrowserModel: it gets the filter of the mode
\* but not its sorting.
EmptyView(b) ==
  /\ allPhotos' = <<>> /\ visibleIndexes' = <<>>
  /\ itemsMap' = [p \in Photos |-> NoRow]
  /\ formatFilter' = b.filter /\ sortFields' = {} /\ sortOrder' = "Ascending"
  /\ currentPhoto' = b.photo /\ currentRow' = NoRow
  /\ viewMode' = b.viewMode /\ previewRow' = NoRow /\ previewPhoto' = NoPhoto

\* What the view of a mode shows when it is made: the state's path or query.
ViewSources(mode, p, q) ==
  CASE mode = "Folders" -> {p} \ {NoPath}
    [] mode = "Library" -> {q}
    [] OTHER -> {}

\* Mutant: a new view takes what the loader has.
FeedOfOldView(sources) == UNCHANGED arriving

\* A folder view without a path sets no source: the loader goes on with what it
\* had.
Feed(sources) ==
  IF sources = {} THEN UNCHANGED arriving
  ELSE \E s \in sources : arriving' = Content[s]

\* NfLeftPanel: the library panel is made when the library mode is first shown
\* and stays, hidden in the other modes.
ShowPanel(mode) == libraryPanel' = (libraryPanel \/ mode = "Library")

\* main: NfUiState reads the file, NfCentralWidget makes the view of the mode;
\* Shoots has none.  Nothing is saved.
Launch ==
  /\ uiMode = "Off"
  /\ uiMode' = ReadMode(file)
  /\ path' = ReadPath(file) /\ query' = ReadQuery(file)
  /\ currentLibrary' = ReadLibrary(file)
  /\ browser' = ReadBrowsers(file)
  /\ sections' = ReadSections(file)
  /\ EmptyView(IF uiMode' \in BrowserModes THEN browser'[uiMode'] ELSE NoBrowserState)
  /\ Feed(ViewSources(uiMode', path', query'))
  /\ ShowPanel(uiMode')
  /\ unsaved' = 0 /\ UNCHANGED file

\* The program ends, by the user or by a crash: nothing is saved then either.
Stop ==
  /\ uiMode # "Off"
  /\ uiMode' = "Off" /\ path' = NoPath /\ query' = NoQuery /\ currentLibrary' = 0
  /\ browser' = [mode \in BrowserModes |-> NoBrowserState]
  /\ sections' = <<>>
  /\ EmptyView(NoBrowserState)
  /\ arriving' = {} /\ libraryPanel' = FALSE
  /\ unsaved' = 0 /\ UNCHANGED file

-----------------------------------------------------------------------------
(* What the user does outside of the view.                                 *)

\* setMode of the main menu, which offers two modes: the new view is made and
\* the old one, to be deleted, is not heard of any more.
SetMode(mode) ==
  /\ uiMode \notin {"Off", mode}
  /\ uiMode' = mode
  /\ UNCHANGED <<path, query, currentLibrary, browser, sections>>
  /\ EmptyView(browser[mode])
  /\ Feed(ViewSources(mode, path, query))
  /\ ShowPanel(mode)
  /\ Save

\* setPath of the folder tree, which the library mode does not show; the folder
\* view, if there is one, sets the source.
SetPath(p) ==
  /\ uiMode \in {"Shoots", "Folders"} /\ p # path
  /\ path' = p
  /\ UNCHANGED <<uiMode, query, currentLibrary, browser, sections, libraryPanel>>
  /\ IF uiMode = "Folders" THEN SetSource(p) ELSE UNCHANGED browserModelVars
  /\ Save

\* setQuery of the library tree, whose current node also changes when rows are
\* inserted or removed in a hidden panel; the same query is asked again.
SetQuery(q) ==
  /\ libraryPanel
  /\ query' = q
  /\ UNCHANGED <<uiMode, path, currentLibrary, browser, sections, libraryPanel>>
  /\ IF uiMode = "Library" THEN SetSource(q) ELSE UNCHANGED browserModelVars
  /\ Save

\* setCurrentLibrary of the library panel (NfLibraryTree!Select): when the user
\* picks one, when the tree has come, or with 0 when the last one is removed.
SetCurrentLibrary(id) ==
  /\ libraryPanel
  /\ currentLibrary' = id
  /\ UNCHANGED <<uiMode, path, query, browser, sections, libraryPanel, browserModelVars>>
  /\ Save

\* setMetadataSectionExpanded
SetMetadataSectionExpanded(section, expanded) ==
  /\ uiMode # "Off"
  /\ \/ section \notin DOMAIN sections /\ expanded
     \/ section \in DOMAIN sections /\ sections[section] # expanded
  /\ sections' = [s \in DOMAIN sections \union {section} |->
                    IF s = section THEN expanded ELSE sections[s]]
  /\ UNCHANGED <<uiMode, path, query, currentLibrary, browser, libraryPanel, browserModelVars>>
  /\ Save

-----------------------------------------------------------------------------
(* What happens in the view, and what of it the mode's state keeps.        *)

InView(Step) ==
  /\ uiMode \in BrowserModes
  /\ Step
  /\ browser' = [browser EXCEPT ![uiMode].viewMode = viewMode',
                                ![uiMode].photo = currentPhoto',
                                ![uiMode].filter = formatFilter']
  /\ UNCHANGED <<uiMode, path, query, currentLibrary, sections, libraryPanel>>

\* The current photo is set anew, and so saved, with the current row only.
PhotosArrive(batch) ==
  /\ InView(PhotosLoaded(batch) \/ PhotosIgnored(batch))
  /\ IF currentRow' # currentRow THEN Save ELSE UNCHANGED fileVars

PreviewArrives(p) == InView(PreviewLoaded(p)) /\ UNCHANGED fileVars

SelectPhoto(row) == InView(Select(row)) /\ Save

\* The buttons of the view mode bar, and a double click in the grid.
PickViewMode(mode) == InView(SetViewMode(mode)) /\ Save

\* The filter bar toggles one format or clears all.
PickFormats(formats) ==
  /\ formats = {} \/ Cardinality((formats \ formatFilter) \union (formatFilter \ formats)) = 1
  /\ InView(SetFormatFilter(formats)) /\ Save

\* sortingUpdated: the model gets the fields, then the order; sorting is not saved.
SortBy(fields, order) ==
  /\ uiMode \in BrowserModes
  /\ browser' = [browser EXCEPT ![uiMode].fields = fields, ![uiMode].order = order]
  /\ Resort(fields, order)
  /\ UNCHANGED <<uiMode, path, query, currentLibrary, sections, libraryPanel, fileVars>>

\* The menu of the sort bar: the fields are cleared quietly and one is enabled,
\* which is reported even if it was the one.
PickSortField(field) ==
  uiMode \in BrowserModes /\ SortBy({field}, browser[uiMode].order)

\* The button of the sort bar.
ToggleSortOrder ==
  /\ uiMode \in BrowserModes
  /\ \E order \in SortOrders \ {browser[uiMode].order} :
       SortBy(browser[uiMode].fields, order)

UiNext ==
  \/ Launch \/ Stop
  \/ \E mode \in BrowserModes : SetMode(mode)
  \/ \E p \in Paths : SetPath(p)
  \/ \E q \in Queries : SetQuery(q)
  \/ \E id \in Libraries : SetCurrentLibrary(id)
  \/ \E section \in Sections, expanded \in BOOLEAN :
       SetMetadataSectionExpanded(section, expanded)
  \/ \E batch \in Batches : PhotosArrive(batch)
  \/ \E p \in Photos : PreviewArrives(p)
  \/ \E row \in Rows : SelectPhoto(row)
  \/ \E mode \in ViewModes : PickViewMode(mode)
  \/ \E formats \in Filters : PickFormats(formats)
  \/ \E field \in SortMenu : PickSortField(field)
  \/ ToggleSortOrder

UiSpec == UiInit /\ [][UiNext]_allVars

-----------------------------------------------------------------------------
(* Properties.                                                             *)

\* Whenever the program stops, and be it by a crash, the next one starts in the
\* mode, with the path, query, library, current photos, view modes, filters and
\* sections this one had, provided that the last save did not fail, whatever
\* became of the saves before: NfUiState writes everything after every change, and
\* everything it writes reads back as what it was, but for names that are not
\* UTF-8, which come back respelled and so lead elsewhere (saveState and the
\* constructor, pathToString, stringToPath).
RestartKeepsState ==
  uiMode # "Off" /\ unsaved = 0 =>
    /\ ReadMode(file) = uiMode /\ ReadPath(file) = Utf8(path)
    /\ ReadQuery(file) = Respelled(query)
    /\ ReadLibrary(file) = currentLibrary /\ ReadSections(file) = sections
    /\ \A mode \in BrowserModes :
         LET read == ReadBrowsers(file)[mode]
         IN /\ read.photo = Utf8(browser[mode].photo)
            /\ read.viewMode = browser[mode].viewMode /\ read.filter = browser[mode].filter

\* The rows are sorted as the sort bar says, except in a view that was made
\* with the mode's sorting already set: that shows the rows as they come until
\* the user touches the sort bar.  From then on it keeps to the bar, which two
\* signals, one for the fields and one for the order, have to bring about.
SortAgrees ==
  uiMode \in BrowserModes =>
    \/ sortFields = browser[uiMode].fields /\ sortOrder = browser[uiMode].order
    \/ sortFields = {} /\ sortOrder = "Ascending"

\* A view shows the photos of its own source only, whatever other modes were
\* asked for before: photos on their way to the view that was are not taken
\* for its own.  The folder view without a path has no source yet.
RowsFromSource ==
  uiMode \in BrowserModes =>
    \A s \in ViewSources(uiMode, path, query) : ToSet(allPhotos) \subseteq Content[s]

\* The view in front of the user is the one the state describes.
ViewAgrees == SortAgrees /\ RowsFromSource
=============================================================================
