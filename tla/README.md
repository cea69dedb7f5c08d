# Neofluxon: specifications

TLA+ modules of Neofluxon (the photo browser in `src/`): its threads, caches,
libraries, state and lifetimes, the TLC configurations that check them on small
instances, and proofs for instances of any size of all that is checked there but
the liveness: of the scheduler, the scanner, the photo loader, the memory cache and
the disk cache, the libraries and their tree, the browser's rows, the saved state,
the metadata panel and the images, and the lifetimes of the core.
Paths below are relative to `src/src/` (`core/`, `core/library/`, `ui/common/`,
`ui/desktop/`).

## The system

| Component | State | Operations | Interacts with | Module |
|---|---|---|---|---|
| `NfScheduler`, `NfThreadPool`, `NfTask` | pending and running maps, sequence map, ordered index, two condition variables; per thread: where it is and the task it holds | `submit`, `updateTaskPriority`, `cancelTask(s)`, `cancelAll`, `waitNextTask`, `finalizeTask`, both destructors | every asynchronous component submits tasks; a task's result handler runs on the worker | `NfScheduler`, `NfTaskService` |
| `NfPhotoScanner` | own scheduler with one worker, source generation, list of photos found | `setSource`, `takePhotos`; callbacks of the two scan tasks | owned by the loader; asks the library manager | `NfPhotoScanner` |
| `NfPhoto`, ids, iterators | none | what is a photo | scans, imports, decoders, settings dialog | `NfPhotoFiles` |
| `NfPhotoLoader`, polled by `NfPhotoProvider` | generation, pending thumbnail tasks by photo, queues of ids ready; pixmap caches | `setSource`, `requestThumbnail`, `requestPreview`, `takeThumbnails`, `takePreviews`; the tasks' handlers | foreground scheduler, memory caches, browser model | `NfPhotoLoader`, `NfPreviews` |
| `NfCache` | LRU list, map, sum of sizes | `add`, `get`, eviction | filled by task handlers, read by the GUI | `NfPreviews` |
| `NfDiskCache` | LRU list, map into it, sum of sizes, write queue, set of queued ids; the files | `get`, `enqueue`, worker (`put`, `evictToFit`), constructor, destructor | image tasks read it; the memory cache is to enqueue evicted images (that call is commented out, `core/NfCache.cpp:166-168`) | `NfDiskCache` |
| `NfBrowserModel`, `NfBrowserView`, `NfPhotoPreviewView` | all photos, visible rows, id-to-row map, filter, sorting; current index and photo, view mode, preview row | `setSource`, `onPhotosLoaded`, filter, sorting, selection, view mode, `onScrollChanged`, previews | photo provider's signals, browser state's signals | `NfBrowserModel` |
| `NfUiState` and the mode states | mode, path, query, library, sections, a browser state for each mode; `ui-state.ini` | setters, save after each, restore at start | `NfCentralWidget` makes a view for each mode | `NfUiState` |
| `NfLibraryManager`, `NfLibraryDatabase`, import task | SQLite tables of libraries, folders, associations, images, cameras, lenses; per import: how far it is | `addLibrary`, `removeLibrary`, `importPath`, `queryPhotos`; one transaction per database call | background scheduler | `NfLibraryImport`, `NfLibraryQueries` |
| `NfLibraryTreeTask`, `NfLibraryRepresentation`, `NfLibraryAdapter`, `NfLibraryTreeModel` | tree snapshots on their way, rows of the tree, current library | ask for a tree or a branch, apply a snapshot, add, rename, remove | foreground scheduler, library manager | `NfLibraryTree`, `NfLibraryQueries` |
| `NfPhotoMetadataLoader`, `NfMetadataProvider`, `NfPhotoMetadataModel` | pending requests, results, rows of the panel | request, take, `setPhoto`, `metadataUpdated` | foreground scheduler, current photo | `NfPhotoMetadata` |
| Decoders, `NfImage`, `NfImageData`, extractors | none | what a task makes of a file | image and metadata tasks, disk cache | `NfImages`, `NfPhotoMetadata` |
| `NeofluxonCore`, `main` | owns the parts of the core | `initialize`, destructor | order of construction and destruction | `NeofluxonCore` |
| `NfDiskCacheSettings`, `NfSettingsDialog` | `disk-cache.ini`, fields of the dialog | `load`, `save`, dialog | disk cache at the next start | `NeofluxonCore` |
| `NfThreadAllocationManager` | thread counts | constructor | sizes of the two pools | `NfThreadAllocationManager` |
| Logger, Qt widgets | | | leaves | not modelled |

What is hard here: workers, the GUI thread and the disk cache's own thread meet
in small critical sections, and most operations are several of them in a row.
Results of a source, a photo or a view the user has left arrive late. Work is
cancelled while it runs, and running work mostly does not notice. The database
commits per call, so an import is many transactions and a tree is read while
libraries change. Images are evicted between being announced and being looked
up. The disk cache shares its directory with whoever deletes files there. The
state is written while the process may die. `PROJECT.json` lists each hazard at
its line with the properties that cover it, or the reason why none does.

What makes each component correct:

- scheduler: no queued task is forgotten while a worker sleeps, a task is owned
  exactly as long as a worker uses it, the documented order is kept, shutdown
  ends and leaves no thread behind;
- scanner and loader: the GUI sees results of the current source, each once, all
  of them, and no photo is left waiting for an answer nobody will give; what is
  shown large is loaded again as often as it is evicted;
- caches: list, map, sum and directory agree, the limit holds, writes end;
- browser: rows, map, filter and order agree after any sequence of calls, the
  current index and the preview follow the photo, the view shows its own source;
- libraries: nothing is orphaned, a library keeps what it shows, what is imported
  shows up, the trees lead to the photos, the tree view tells the truth at rest;
- files: the same files are photos everywhere, images come out within their limits,
  and turned as their file says where the code can know;
- state and settings: the next start has what this one had, whole;
- lifetimes: no thread touches a part that is not there.

## Modules

An operator commented "Mutant" is a plausible mistake in the definition that
follows it. No specification uses it: replacing the definition by it must break
the property `PROJECT.json` names, which shows the property is about the code.
Properties that belong together are conjoined under one name
(`RowsAreSound == TypeOK /\ MapLeadsToRow /\ ...`), with the parts named and
commented one by one. `MC...` modules give the constants their values.

How they are composed: `NfPhotoScanner`, `NfPhotoLoader`, `NfLibraryImport`,
`NfLibraryTree` and `NfPhotoMetadata` instantiate `NfTaskService` and conjoin its
actions with their own; `NfScheduler` is shown to implement `NfTaskService`.
`NfUiState` extends `NfBrowserModel` and conjoins its actions with the state's;
`NfLibraryQueries` extends `NfLibraryImport`, `NfPhotoMetadata` extends
`NfImages`, and `NfPhotoScanner` extends `NfPhotoFiles`.

**`NfTaskService`**: what scheduler and pool promise to their callers. A task is
new, pending, running, reported and finalized, in that order, or discarded while
pending; a start picks a task of the smallest priority number; cancelling drops
pending tasks and flags active ones.

**`NfScheduler`** implements it. One action is one critical section of
`m_mutex`, or one step a thread takes outside of it. `submit` is two actions:
the insertion (`Submit`) and the late `notify_one` (`NotifyOne`, counted in
`wakeups` while it is owed). A worker is a program counter through `threadLoop`:
`Park`, `Take`, `Leave` are the outcomes of `waitNextTask`, then `Execute`,
`NotifyCompletion`, `FinalizeTask`, and `SignalIdle` for the `notify_all` after
the unlock. `SpuriousWake` is the condition variable's. The owner's shutdown is
`BeginShutdown`, one `RequestStop` per thread, whose `StopCallback` wakes a
sleeper as the `stop_token` overload of `wait` does, `JoinPool`, `DestroyBegin`
and `DestroyEnd`. A map of task objects is the set of its keys; the attributes
of a task are functions of its id.

**`NfPhotoScanner`**: `setSource` in its four steps (`SetSource`, `CancelScans`,
`CreateTask`, `SubmitTask`), the worker scanning a folder entry by entry
(`VisitEntry`, with the cancellation test, then `ProcessEntry`, which calls
`AddFound` for a photo) or querying the library and reporting at the end, and
the GUI's `TakePhotos`. The order in which a directory lists its entries is any.
**`NfPhotoFiles`** says which entries are photos, in the six places of the code
that decide it; the scanner's worker uses the scan's.

**`NfPhotoLoader`**: requests, with the raise of a queued task's priority, and
the handlers in their critical sections: `CheckCurrent` and `PushThumbnail` or
`PushPreview` are apart because the code unlocks in between, with `CacheImage`
between them. `SetSource` cancels the tasks the pending map still has
(`TrackedTasks`), and no other. Decoding succeeds or fails. The memory caches evict
at any time.

**`NfPreviews`** has the caches instead: `NfCache` call by call (each under its
mutex), with an image that comes in another size once its file has changed, the
provider's pixmap cache, the view asking for the photo and those around it, and
the lookups a timer makes, one after the other, for what was announced. Nothing
is cancelled here and the rows do not change. A list of the caches is a sequence of
rows (`Rows`), and the sum of the sizes in it the number of their bytes (`Bytes`,
`Total`), so that eviction (`Kept`) is a choice of a prefix. `PreviewsAreSound` has
two parts: `CacheWithinLimit` is about eviction, `PreviewIsComing` says where the
preview in front of the user is at each moment, among three places and the lookups;
`PreviewGetsShown` says that it arrives.

**`NfDiskCache`**: the directory is a sequence of files from newest to oldest,
the index the LRU list, the map's key set and the sum. `put` is taken in the
steps between which a crash, a deletion or a failing call matters: dequeue,
write the temporary, evict one file at a time, rename, forget the queued id. All
of `put` and `get` runs under `m_mutex`, so `get` needs `MutexFree`. `Crash`
loses the memory and keeps the directory. `Construct` rescans it under the quota of
the settings of that start, any of `Quotas`; it deletes nothing, and may stop at or
pass over a file whose kind, size or time it cannot learn (`Doubtful`). Two
histories remember what follows from that: `overlooked`, the files without an entry
for that reason, and `inherited`, the bytes found at the start when they were more
than the quota. `Vanish` is another program deleting a file. `Crash` and `Vanish`
are external.

**`NfBrowserModel`**: every handler of the model that changes rows, with the
slots of `NfBrowserView` and `NfPhotoPreviewView` the same signal calls: a filter
change is `SetFormatFilter` with the view's re-selection, a batch is
`PhotosLoaded` with `RestoreCurrentPhoto` or `PhotosIgnored`. `std::sort` is not
stable: equal photos come in any order. `PrefetchInView` is the arithmetic of
`onScrollChanged`.

**`NfUiState`**: `ui-state.ini` as a function from keys to typed values. Every
setter is an action that ends with `Save`, as `NfUiState` connects each signal to
its `saveState`. A save may fail (the directory cannot be made, or the sync fails),
which is only logged: `unsaved` counts the failures in a row. What passes through a
`QString` on its way to the file is `Utf8` of it (`Respelled` for a query).
`Launch` reads the file, `Stop` is an exit or a crash at any point. A change of
mode makes a new view (`EmptyView`, with what the constructor passes on to the
model and what it does not) and asks for its source (`Feed`);
photos asked for by the view before may still be `arriving`.

**`NfLibraryImport`**: a database call is one action, since it is one transaction.
An import asks whether the folder exists, stores it, adds its photos, goes on to
each folder below. Libraries are added and removed meanwhile and the process may
crash between any two transactions. A failing directory or photo is a choice.
**`NfLibraryQueries`** adds what is a function of one database state: the nodes
of the four representations (folders, dates, cameras, lenses), the ranges and
ids they ask for, and the photos each query returns. Time is counted in ticks of
a small calendar, with a local zone.

**`NfLibraryTree`**: a tree task reads the list of libraries, then for each its
name and its trees, each a database call of its own, and posts its snapshot; a
queued signal delivers it to the tree model (`OnTreeUpdated`,
`OnLibraryBranchUpdated`). The user adds, renames and removes libraries and
imports end (`FolderImported` asks for the whole tree) meanwhile. What a library
contains is a version number. `outdated` records the libraries touched while a
snapshot was on its way: the code does not order snapshots, so the tree may show
an old state of those, and the properties except exactly them.

**`NfPhotoMetadata`**: clicks, requests, the task with its handler, the polling
and the panel; the fields of `NfPhotoMetadata` as the extractors read them from
tags, and the rows and sections the panel makes of them (`FileRows`,
`PositionRows`, `PanelRows`). What a file may be is `IsFile`, with any sequence of
`EmbeddedImages`. **`NfImages`**: what the
thumbnail and preview tasks make of a file: the decoder, the embedded image, the
scaling factor, limits, buffer lengths, conversion, scaling and turning. An
embedded JPEG has the size of its own header once it is converted
(`JpegConverts`, `Converted`), and LibRaw turns a full image before the task does
(`DecodeRaw`, `TurnedByLibRaw`). Pixels are represented by where they go.

**`NeofluxonCore`**: `initialize` makes one part after the other (`Make`,
`MakeFails`), threads begin and finish activities that touch parts, the
destructor resets the pools and then the members go in the reverse order of
their declarations. Beside it the settings dialog and the steps of
`NfDiskCacheSettings::save` with crashes and failures.

**`NfThreadAllocationManager`**: the constructor's arithmetic modulo the range of
`unsigned int`.

**`NfSchedulerProofs`**, **`NfPhotoScannerProofs`** (with the proof about
`NfPhotoFiles`), **`NfPhotoLoaderProofs`**, **`NfDiskCacheProofs`**,
**`NfLibraryImportProofs`** (with those about `NfLibraryQueries`),
**`NfLibraryTreeProofs`**, **`NfUiStateProofs`** (with those about `NfBrowserModel`)
and **`NeofluxonCoreProofs`** (with those about `NfPreviews`, `NfPhotoMetadata` and
`NfImages`: the memory caches and what the tasks of the core put into them and
hand to the GUI) hold the proofs about the modules they are named for.

## Runs

| Run | Checks | Instance and why it is enough |
|---|---|---|
| `scheduler` | type, index in step, ownership, no lost wake-up, destruction order, start order, refinement of `NfTaskService`; the queue drains, shutdown completes | 3 tasks, 2 workers, 2 priorities, 4 sequence numbers: both orders, a re-queued task ahead of an older one, a sleeper beside a busy worker, destruction in every state. The proofs lift the safety part to every size |
| `scanner` | current photos only, each once; a scan that ends well has found all; exact cancellation; one notion of a photo; what the user stays with is shown | 3 switches over 2 folders sharing a photo and a library: a scan overtaken twice, also by a scan of its own source; a folder with a file that is no photo, one with an empty file; `OnePhotoForAll` ranges over all extensions, spellings, kinds and sizes 0 and 1 |
| `loader` | requests are sound, `setSource` reaches the tasks of the source before, every request ends | 3 thumbnail tasks on one photo, one preview task, one switch, 2 workers, evictions: an old handler meets two tasks of the next source, and tasks are queued, running and reporting at the switch. That an old handler clears the entry of a newer task, which a second switch then misses (`OlderFinished`), takes two switches and is only in the proof |
| `previews` | the cache keeps its limit; the preview is always shown or on its way, and gets shown | 3 photos, a cache for two images, a file that changes its size, a pixmap too large for its cache: what is around the first and the last photo fits, what is around the second does not |
| `disk_cache` | index, quota, files; writes and destructor end while fewer than two indexed files are missing | 3 images at the boundaries: two fill the quota of 20 exactly, one is below the tenth that eviction frees at least; under the quota of 8, which any restart may have, one image is as large as the quota and one larger; one file's size may not be learnt |
| `browser` | rows, map, order, prefetching; current index and preview follow | 3 photos with two equal names, two equal sizes, two formats; 2 sources sharing one photo; all filters, fields, orders and view modes |
| `ui_state` | restart keeps the state, up to names that are not UTF-8; the view is the state's | 2 folders and an equipment query, 2 photos, 2 filters, every mode and view mode; one folder's and one photo's name not UTF-8; no file and a file with values no version wrote; one failing save in a row, after any change |
| `library_import` | database, trees, queries, photos stay, imports show up | 2 imports, 2 libraries, a folder with one below it: overlap, sharing, removal, crash; photos around the turn of a year in a zone ahead of UTC, cameras that differ in case |
| `library_tree` | the tree is right at rest, one row each; an added library shows up | 3 tree tasks, 2 workers, 2 libraries, 2 names: two snapshots in either order with a change between, and a branch beside a tree |
| `photo_metadata` | panel in step and catching up, files read right | 2 photos, 3 tasks; pairs of the files of `MCFiles`: sizes around each limit, a RAW too large that is not turned, a file narrower than a thumbnail can be, one embedded image as narrow, every orientation and every turn of LibRaw's, every kind of embedded image, JPEGs whose header has another size, files that cannot be read, tags, a place with and without its parts, cameras whose model repeats the maker once and twice |
| `core` | no user outlives a part; settings change whole | all parts and threads as in the code; a gigabyte of 4 bytes so that part-gigabytes occur, 4 kinds of old file |
| `thread_allocation` | violated: see the finding | every hardware thread count up to 64, 16 bits for the 32 of the code |

The bounds are the constants `MaxSequence`, `MaxGeneration`, `MaxContent`,
`MaxTasks`, `MaxUnsaved`, `PoolSize`, `UintRange`, `MaxHardware`, `SpinRange` and
the finite sets of tasks, photos, keys, quotas, paths and library ids. Deadlock is checked except
where the instance runs out of tasks or the system is gone
(`CHECK_DEADLOCK FALSE`, with the reason in the cfg).

### Fairness

Weak fairness on steps the code takes by itself: each worker's steps (the OS
schedules threads, and every task body is assumed to return), the owed
`notify_one` of a caller that is inside `submit`, the GUI going on with a
handler it has begun, the polling timers, the delivery of queued signals, the
disk cache's worker, and a pool taking what is queued. None on what users or
other programs do: requests, source switches, cancelling, the begin of shutdown,
crashes, deletions. No strong fairness is used.

## Proofs

`NfSchedulerProofs` assumes `SchedulerAssumption` only: tasks are naturals,
priorities integers among which is `Immediate`, the workers are finitely many,
the sequence bound is a natural. Proved for all such constants:

- `TypeCorrect`: the type invariant.
- `Invariance`: `IInv`, the inductive invariant. `QueueInSync` and
  `RunningTaskOwned` support each other: `Take` may hand out an entry only
  because the index names tasks of the pending map, and a task leaves that map as
  it enters the running one. Neither survives a second `submit` of a queued or
  running id, which `LifeCycle` excludes (fresh and discarded tasks are in no
  map). That the scheduler outlives its workers needs `OwnerProgress`: no stop is
  requested while the owner is open, no notification is owed once it is not, and
  all workers have exited once they are joined.
- `QueueStaysSound`, `RunningTasksStayOwned`, `SchedulerIsLast`: the conjuncts
  and consequences of `IInv` the run checks.
- `TakenInOrder`: only `Take` starts a task, and it takes the index's first
  entry; with the index in step that is the most urgent and newest task by the
  tasks' own attributes. An action property.
- `NoLostWakeup`: a counting argument over cardinalities. A submit adds an entry
  and owes a wake-up; a notification turns an owed one into a worker that is up;
  `Take` uses up one of both; a worker parks only if the queue is empty.
- `Refinement`: initial states map to initial states of the service and every
  step to a service step or a stutter, one lemma per kind of step.

`NfPhotoScannerProofs` assumes `ScannerAssumption` only: the sources, what they
hold and the number of tasks are arbitrary. Proved for the scanner over the task
service:

- `Invariance`: `IInv`. Between the new generation and the creation of its scan
  no task is of the current generation, afterwards one at most, and it scans the
  current source (`Generations`). What a scan has left is of its own source, and
  a library's photos come all at once (`Scans`). Whatever is in the list was found
  by a scan that has started and is past it (`FoundSound`), so it cannot be found
  again. Tasks asked to stop are of older generations, because `cancelAll` comes
  between the new generation and its scan (`CancelledSound`).
- `FoundListStaysSound`: the list and what the GUI took of it hold photos of the
  current source only, each once, however late other scans report, and all of them
  when its scan has ended well.
- `OnlyStaleScansCancelled`: `setSource` cancels exactly the scans before it.
- `ScansSkipNothing`: that last part, `NothingIsSkipped`, the safety half of `SourceIsShown`. While
  the current scan runs, what has been found of a folder is all of it that is
  neither ahead of the scan nor the entry it is at (`Whole`); that a photo the GUI
  has taken counts makes it true across the polls. It needs that a scan that has
  not started has found nothing (`NothingFoundYet`), which `FoundSound` gives, and
  that only a scan that ends its folder reports success (`Complete`).
- `PhotosAreOneNotion`: the scanner, the disk cache and the decoders agree on
  which files are photos, whatever the size and the spelling of the name. The
  four lists of extensions in the code come to the same (`OneListOfExtensions`).

`NfPhotoLoaderProofs` assumes `LoaderAssumption` only: any photos, any number of
tasks, threads and source switches. Proved with evictions, switches and late
handlers between any two steps:

- `RequestsSound`: a tracked photo is not stuck, an announced image was cached, a
  thumbnail is made twice only after a switch. That two tasks of one source
  exclude each other needs the converse of what is tracked: a task that still
  has something to say of its photo is the one the photo is tracked with, unless
  a finished task of an older source came in between (`EngagedTracked`). A
  queued result belongs to a task that has finished (`QueueOfFinished`), and
  what a handler has cached is there when it queues the photo
  (`CachedImageThere`).
- `StaleCancelled`: every thumbnail task of an older source that has not reported
  is running and was asked to stop: none is left in the queue, to be decoded for
  nobody. `setSource` finds the tasks by the pending map, so this rests on what is
  tracked (`EngagedTracked`): a task is missed only when a handler of an older source
  had taken away the entry of its photo (`OlderFinished`).

`NfDiskCacheProofs` assumes `DiskCacheAssumption` only: any images and sizes, any
quotas, another one at each start, and files that others delete, that a crash
leaves or whose size cannot be learnt. Proved for puts, evictions, crashes and
restarts:

- `IndexSound`: the list, the ids and the total size agree after every step, and
  nothing that is queued is in the index or queued twice.
- `QuotaKept`: the image files the cache learnt of never take more than the quota of
  this start, or, if they did when the cache was made, than what it found then
  (`inherited`): the constructor deletes nothing, and the first file written makes
  room for all. Files that were `overlooked` are not counted. The total of a list
  is not a recursive sum but the number of its bytes (`Bytes`, pairs of a key and
  a position), so that what appending, removing and moving up do to it are facts
  about unions and differences. While the process runs each file has an entry
  with its size or more (`FilesIndexed`), and the index leaves room for the image
  about to be renamed (`RoomInIndex`), which was of no size before since a queued
  key is in no entry (`QueuedOnce`, `RequestOnce`).
- `FilesSound`: between two puts every file that was not overlooked is in the index
  with its size at least; a temporary file
  outlives its put only when the process died.

`NfLibraryImportProofs` assumes `ImportAssumption` only: any tree of directories,
any photos, libraries, imports and threads. Proved with crashes, failing
transactions and removals between any two steps:

- `Invariance`: `IInv`. `NoOrphans` and the type are inductive together. That a
  folder is whole needs two facts more: an import keeps to its path and to an id
  that no later library can get (`Imports`, from AUTOINCREMENT), and what it has
  stored of the directory it is at stays as long as its library, because the
  association keeps the folder (`PhotosStored`). It leaves a directory when
  nothing is left of it, or is counted as interrupted (`LeavesWhole`).
- `DatabaseStaysSound`: the tables are sound after each transaction.
- `LibrariesKeepTheirPhotos`: an action property from `NoOrphans`; only a removal
  deletes, and it spares the folders another library has.
- `PhotosAreFound`: in every state each photo is found under some node of each
  representation of its library, as far as the code means it to be
  (`DayIsUtcDay`). It assumes `QueriesAssumption` besides: a day, a month and
  a year are whole numbers of ticks, days and months, a zone is less than a day
  off, and no two cameras or lenses are spelled the same. A time is in its day, month and year because quotients are
  unique and dividing twice is dividing by the product (`DividedTwice`). A camera
  has a node whose spelling comes last, because the images are finite, which is
  an invariant of its own: each transaction adds one row.
- `QueriesKeepInside`: no query returns a photo from outside of the library it
  was asked of, except by the paths below a folder.

`NeofluxonCoreProofs` assumes `CoreAssumption` for the lifetimes and settings. Parts
and threads are those of the code; any number of crashes and restarts, any settings
and folders.

- `CoreOutlives`: what a thread is at touches only parts that are there, while they
  are made, when making one fails, and when the program ends. A thread is at
  something only while the part that joins it is there (`ThreadsOwned`), and all
  parts are there until the destructor, which resets the pools before any other
  part goes, and keeps the library manager longer than the loader
  (`PartsGoInOrder`).
- `SettingsStayWhole`: an action property. Only the rename changes what the next
  start loads, and the file it renames holds all that was entered
  (`SavingTheDialog`).

It assumes `PreviewAssumption` for the memory cache: any rows, range of previews,
sizes and limits.

- `MemoryCacheWithinLimit`: the invariant `CacheInv` adds the types and that no image
  is twice in the list. The sum of a list is the number of its bytes, so that what
  adding, moving up and evicting do to it are facts about disjoint unions
  (`TotalInFront`, `SameTotal`), and eviction leaves the longest prefix with room
  (`KeptFits`), which is there because a finite set of numbers has a largest one
  (`LargestExists`). The room asked for is at most the limit, as an image above it is
  not added at all.
- `PreviewsAreComing`: `PreviewIsComing` is inductive with its types. A task hands
  the photo on to the announcements and these to the lookups, which begin with the
  photo itself (`AroundStartsThere`) and end with its pixmap or with a new task
  (`LookUpComing`), so evictions, which may come at each of these steps, cannot
  leave the view with nothing to wait for.
- `PreviewsStaySound`: both, which is what the run checks.

It assumes `MetadataAssumption` and `FilesAssumption` for the metadata panel and the
files: tasks are naturals, and files are what `IsFile` says, of any size, orientation,
tags and embedded images. Photos, tasks, threads and files are arbitrary.

- `PanelKeepsInStep`: a pending request has one task, which is live or has its result
  queued, never both (`RequestsAccounted`), and a panel behind the browser has a
  request pending (`PanelWaits`); together `PanelInv`. That one thing is on its way is
  then a fact about two cardinalities (`OneOnItsWay`). That each row of the panel is
  in one section needs that no key is in two (`KeysHaveOneSection`).
- `FilesAreReadRight`: a JPEG, scaled or whole, is handed over with the turn of its
  EXIF tag, an image embedded in a RAW file with LibRaw's as long as that mirrors
  nothing (`TurnedAsTheFileSays`); nothing is claimed of how the full image of a RAW
  file is turned. For each decoder and the embedded images, what comes out
  is null or `Acceptable`: it has the format of its file's, and is too narrow for a
  limit only if the file or an embedded image is. That is what scaling needs, since a
  side rounded down to zero makes an empty image (`FinishedFits`). For scaled decoding
  it rests on the arithmetic of the factors (`FactorsAreFractions`, `RoundedUp`,
  `NarrowBefore`): rounding up both sides makes no picture too narrow that is not. A
  thumbnail is null only for a file that is out of the limits, empty or does not decode
  (`ThumbnailIsMade`).
- `PixelsGoUpright`, `PixelsFill`: turning, for a picture of any size and each tag,
  where the run tries pictures of three by two. `CameraIsClean`: whatever the maker
  and the model say, both come out trimmed, and the model begins with the maker only
  if the file names it there twice, by facts about sequences that are cut at either
  end (`TrimTrimmed`, `PrefixIsRemoved`).

`NfLibraryTreeProofs` assumes `TreeAssumption` only: any libraries, names, tasks
and threads, snapshots that arrive in any order, libraries added, renamed, removed
and imported into at any moment.

- `TreeSound`: the tree has one row for each library, and shows the database once
  all is answered. For every library that nothing has happened to since, a
  snapshot says the truth as far as it has come (`SnapshotsTell`), because a task
  reads each library once (`ReadOnce`) and is at the one whose name it read last
  (`Reading`). Where the rows are not true of a library something is to come that
  will make them so: an import to be announced, a whole tree, or the branch of a
  library without a row (`RowsAreMadeTrue`). At rest nothing is to come. That ids
  are never given out again (`Table`) keeps a late branch from showing up as
  another library.

`NfUiStateProofs` assumes `BrowserAssumption` (a source has finitely many photos,
what is compared are integers) and, for the sessions, `UiAssumption`,
`Utf8Assumption` and `FilesAssumption`: what has been respelled once stays, a
respelled name is one the instance has, the user's filters are of the formats
there are buttons for, and what a file of another version names is among the
paths, queries, photos and filters of the instance. Photos, sources, filters, libraries, queries and sections
are arbitrary.

- `RowsSound`: the rows are the photos that pass the filter, each once and in
  order, and the map leads to them. The invariant `RowsInv` speaks of positions:
  no photo is in the model twice or in it and still to come (`PhotosOnce`), the
  visible indexes are the positions that pass, each once (`Positions`), and the map
  is the one made of them. That a filtered list exists at all, in order, is
  a lemma of its own (`OrderExists`), as is what a batch adds (`PassingJoined`).
- `IndexFollows`, `PreviewFollowsRow`: action properties from the same invariant; a
  photo has one row only (`OneRow`), so the row the map gives is the one.
- `StateKept`: after a save that did not fail, whatever became of those before it,
  the file reads back as the state, each name and text as `Utf8` has it. A save
  writes all of the state, so the first that succeeds makes up for those that did
  not (`FileKept` while `unsaved` is 0). No key of the file is written twice
  (`KeysOnce`), and what is written under each is read as it was
  (`SavedReadsBack`: `QueryReadsBack` for every form of a query,
  `BrowserReadsBack`, `ModeReadsBack`, `SectionsReadBack`). Respelling a second
  time changes nothing (`RespelledNames`), so a state that was read is saved as it
  is. A batch of
  photos, a preview or a sorting need not be saved, so the invariant says that the
  mode's state is what its view shows (`ViewIsOfMode`): what such a step copies
  from the view into the state is what was there. `Launch` writes nothing, and what
  it reads must be a state (`FileGivesState`).
- `ViewStaysAgreed`: what a view has and what is on its way to it are of its source
  (`SourceKept`), since every view with a source asks for it as it is made.
- `RowsSoundInSessions`: the rows stay sound under the session's steps too, which
  make views with stored filters and photos over a loader that goes on.

Every invariant and every action property of the passing runs is proved, and so is
the refinement. Model-checked only: all liveness (`QueueDrains`,
`ShutdownCompletes`, `SourceIsShown`, `EveryRequestEnds`, `PreviewGetsShown`,
`WriteEndsUnlessFilesVanish`, `DestructorEnds`, `ImportShowsUp`,
`LibraryShowsUp`, `PanelCatchesUp`), which is outside of what the prover can do, and
the finding, which is a counterexample. Where a liveness property has a safety half,
that half is an invariant and proved: `WorkConserving`, `NothingIsSkipped`,
`RequestsAreSound`, `PreviewIsComing`, `PanelInStep`. The bounds of the model, such
as `MaxTasks`, are arbitrary in the proofs but still there: nothing is shown of a
behaviour beyond them.

## Finding

`core/NfThreadAllocationManager.cpp:62`: `total - 5` wraps for four hardware
threads or fewer, against the comment at line 68 (run `thread_allocation`).

## What the code does that the properties step around

Met while modelling; each is in the model as the code has it, and the property
nearest to it is worded so that it says what holds all the same.

- `core/NfPhotoLoader.cpp:115`: the generation test and the push are two critical
  sections, so a source switch between them queues a stale result, against the
  comment at 101-102.
- `core/NfDiskCache.cpp:462`: with two indexed files that cannot be deleted (others
  have), eviction moves one after the other to the front for ever, holding the
  mutex, against the comment at 456-457 and the message at 371. The two liveness
  properties except it (`Missing`), so it is recorded and not caught. At this commit
  nobody enqueues (`core/NfCache.cpp:166-168`).
- `core/NfDiskCache.cpp:89-111`: the constructor takes the quota of the settings
  (`core/NeofluxonCore.cpp:86-89`), which the user may have lowered, and deletes
  nothing: the files are more than the quota until the first is written
  (`inherited`). `indexEntries` (202-232) stops or goes on at a file it cannot
  inspect, which is then neither counted nor evicted (`overlooked`). That the
  settings may move the cache to another directory is not modelled.
- `ui/common/state/NfUiState.cpp:319-322`, `345-346`: a save that fails is only logged, so
  the next start has the state of the last that did not (`unsaved`). Names and
  texts go through `QString` (47-52, 61-67, 137-138): what is not UTF-8 in them
  is respelled, and the folder or photo not found again (`Utf8`).
- `core/NfRawImageDecoder.cpp:328-358`: `dcraw_make_mem_image` gives a picture
  LibRaw has turned, and `flip` is set as its orientation all the same, so
  `core/NfThumbnailTask.cpp:82-85` turns it again (left out of `TurnedAsTheFileSays`). Of
  LibRaw's turns 1, 2, 4 and 7 the numbers mean others in `applyOrientation`;
  excepted there too, for embedded images.
- `core/NfImageData.cpp:257-293`: a JPEG that is converted gets the size of its own
  header, whatever the decoder had said (`Converted`).
- `ui/desktop/models/NfBrowserModel.cpp:256`: a batch that the filter hides wholly
  is dropped, against `NfBrowserModel.h:106-107`.
- `ui/desktop/models/NfBrowserModel.cpp:93`: sorting does not move the persistent
  indexes, so the current index stays on its row.
- `ui/desktop/widgets/NfBrowserView.cpp:38`: a new view does not pass the mode's
  sorting to its model; the rows come unsorted until the sort bar is touched
  (`SortAgrees`). `NfFolderView.cpp:66`: an empty path leaves the source of the
  view before (`RowsFromSource`, `ViewSources`).
- `core/library/NfLibraryRepresentation.cpp:185`: day nodes are named by the local
  day, and their ranges cut in UTC, so a photo of the first or last hours is not
  found under its day (`DayIsUtcDay`). At 263 and 274 cameras and lenses that
  differ in case share a node, which finds the last one's photos. At 333-342 the
  "nearest imported ancestor" is only ever the direct parent.
- `core/library/NfLibraryDatabase.cpp:559`: the folder query follows paths, not
  libraries below the first folder (`QueriesStayInside`). At 594 and 657 a
  column that does not exist is tested for NULL, so photos of a library have no
  date. At 545 a query that fails half-way returns what it has.
- `core/library/NfLibraryManager.cpp:195`: the id of a removed library means all
  libraries, and a saved query keeps it across a restart.
- `core/library/NfLibrary.cpp:57`: `name()` of a library removed meanwhile
  dereferences null on the worker (`dead` in `NfLibraryTree`).
- `ui/desktop/models/NfLibraryTreeModel.cpp:224`: snapshots are applied in the
  order they finish (`outdated`).
- `core/NfPngImageDecoder.cpp:227-239`: the channel count stays 0, so that a PNG is
  never converted and never turned (`ImageFits`); bitmap thumbnails of RAW files
  (`NfRawImageDecoder.cpp:250-259`) likewise.
- `ui/common/NfPhotoProvider.cpp:92`, `121-126`: a pixmap that is null or larger
  than its cache is dereferenced after it was deleted (`crashed` in
  `NfPreviews`).
- `core/NfDiskCache.cpp:309`: the minimum free space of the settings is never
  read; `NfSettingsDialog.cpp:126` rounds sizes to gigabytes when it is accepted.
- `ui/desktop/models/NfBreadcrumbModel.cpp:46`: `rowCount` counts a list nobody
  fills.

## Not modelled

- The logger. Nothing depends on it; its members are destroyed before its thread
  is joined (`core/NfLogger.h:68`), messages queued at the end may be lost
  (`NfLogger.cpp:74`).
- Painting, layout, delegates, dialogs other than the settings, and the lifetime
  of Qt objects (`NfBrowserView.cpp:61`: lambdas without a context object; the
  callbacks of tree tasks, `NfLibraryAdapter.cpp:85`, capture an adapter of the
  main window's).
- The order of the scanner's own members (`core/NfPhotoScanner.h:57`).
- Pixel values and colours, and what LibRaw, libjpeg, libpng, Exiv2, SQLite and Qt
  do; their outcomes are choices, and SQLite's transactions atomic.
- Task bodies always return, the directories browsed and imported do not change
  during a run, and SQLite errors other than those that abort an import are left
  out.

## Plan

Done, in this order: the task service and the scheduler that everything rests on,
its proofs, its clients by how much concurrency they have (scanner, loader, disk
cache, browser, libraries), then the tree, the previews, metadata and images, the
state and the lifetimes, and the proofs of all their safety properties. Next:

1. Two clients over one task service: tree, metadata and image tasks share the
   foreground scheduler, and their priorities compete.
2. The lifetime of a view and of the adapter against the queued signals and
   callbacks that reach them.
