----------------------------- MODULE NfPreviews -----------------------------
(***************************************************************************)
(* How the preview of the photo in front of the user comes about: the view *)
(* asks NfBrowserModel, which asks NfPhotoProvider for it and for those    *)
(* around it; the provider looks into its pixmap cache (a QCache) and into *)
(* NfCache, which the image tasks fill, and has NfPhotoLoader load what is *)
(* in neither.  The GUI thread and the tasks meet in NfCache, whose mutex  *)
(* is held for one call at a time, and in the loader's queue.              *)
(*                                                                         *)
(* The rows do not change here (NfBrowserModel), and nothing is cancelled  *)
(* (NfPhotoLoader).  The loader does not know which previews it is asked   *)
(* for already and makes another task.                                     *)
(* Nobody calls NfCache's remove, clear and setMaxSizeBytes.               *)
(***************************************************************************)
EXTENDS Integers, Sequences, FiniteSets, SequencesExt, FiniteSetsExt

CONSTANTS RowCount,      \* number of photos shown; a photo is its row
          PreviewRange,  \* m_previewRange
          ImageSizes,    \* ImageSizes[p]: sizes the decoded image of p may have
          MaxSizeBytes,  \* of NfCache
          PixmapSize,    \* PixmapSize[p]: bytes of the pixmap of p
          MaxCost,       \* of the QCache
          MaxTasks,      \* bound: MaxTasks[p] tasks load p at a time
          Convertible    \* photos whose image NfQPixmap can convert

Rows == 1..RowCount
NoRow == 0

ASSUME PreviewAssumption ==
  /\ RowCount \in Nat /\ PreviewRange \in Nat /\ MaxSizeBytes \in Nat /\ MaxCost \in Nat
  /\ MaxTasks \in [Rows -> Nat \ {0}]
  /\ ImageSizes \in [Rows -> SUBSET (Nat \ {0})]
  /\ PixmapSize \in [Rows -> Nat]
  /\ Convertible \subseteq Rows

VARIABLES
  lruOrder,     \* NfCache::m_lruOrder, most recently used first
  sizes,        \* sizes[p]: size of p's image in m_memoryCache, 0: not in it
  currentSize,  \* m_currentSizeBytes
  pixmaps,      \* m_previewPixmapCache, most recently used first
  tasks,        \* tasks[p]: preview tasks that have not loaded the image of p
  adding,       \* photos in the cache that their task has not announced yet
  announced,    \* NfPhotoLoader::m_previewsQueue
  failed,       \* history: the last task for the current photo failed
  current,      \* NfPhotoPreviewView::m_previewIndex
  lookups,      \* photos getPreview of the model has not looked up yet
  shown,        \* the photo whose pixmap the view shows; none: the placeholder
  crashed       \* a pixmap was used that is not there

cacheVars == <<lruOrder, sizes, currentSize>>
taskVars == <<tasks, adding, announced, failed>>
viewVars == <<current, lookups, shown, crashed>>
previewVars == <<cacheVars, pixmaps, taskVars, viewVars>>

Cached == {p \in Rows : sizes[p] > 0}

\* Lists of photos, each with a photo once.
Position(order, p) == CHOOSE i \in DOMAIN order : order[i] = p
ToFront(order, p) == <<p>> \o RemoveAt(order, Position(order, p))

\* What the images of a list take up, as the number of their bytes.
Bytes(order, size) == UNION {{order[i]} \X (1..size[order[i]]) : i \in DOMAIN order}
Total(order, size) == Cardinality(Bytes(order, size))

\* What is left of a list when the last go until there is room within the limit.
Kept(order, size, room, limit) ==
  SubSeq(order, 1, Max({0} \union
    {n \in 0..Len(order) : Total(SubSeq(order, 1, n), size) + room <= limit}))

PreviewInit ==
  /\ lruOrder = <<>> /\ sizes = [p \in Rows |-> 0] /\ currentSize = 0
  /\ pixmaps = <<>>
  /\ tasks = [p \in Rows |-> 0] /\ adding = {} /\ announced = {} /\ failed = FALSE
  /\ current = NoRow /\ lookups = <<>> /\ shown = NoRow /\ crashed = FALSE

-----------------------------------------------------------------------------
(* NfCache                                                                 *)

\* evictUntilFits: there must be room for required bytes and for three tenths
\* of the cache; 0.3 is cut off.
EvictUntilFits(required) ==
  Kept(lruOrder, sizes, Max({required, (3 * MaxSizeBytes) \div 10}), MaxSizeBytes)

\* Mutant: a newer image of the photo takes the place of the older one.
AddImageReplacing(p, size) ==
  IF size > MaxSizeBytes THEN UNCHANGED cacheVars
  ELSE IF p \in Cached
  THEN /\ lruOrder' = ToFront(lruOrder, p)
       /\ sizes' = [sizes EXCEPT ![p] = size]
       /\ currentSize' = currentSize - sizes[p] + size
  ELSE LET kept == IF currentSize + size > MaxSizeBytes
                   THEN EvictUntilFits(size) ELSE lruOrder
       IN /\ lruOrder' = <<p>> \o kept
          /\ sizes' = [q \in Rows |->
               IF q = p THEN size ELSE IF q \in ToSet(kept) THEN sizes[q] ELSE 0]
          /\ currentSize' = Total(kept, sizes) + size

\* add, which its callers do not ask to replace anything.
AddImage(p, size) ==
  IF size > MaxSizeBytes THEN UNCHANGED cacheVars
  ELSE IF p \in Cached
  THEN /\ lruOrder' = ToFront(lruOrder, p)
       /\ UNCHANGED <<sizes, currentSize>>
  ELSE LET kept == IF currentSize + size > MaxSizeBytes
                   THEN EvictUntilFits(size) ELSE lruOrder
       IN /\ lruOrder' = <<p>> \o kept
          /\ sizes' = [q \in Rows |->
               IF q = p THEN size ELSE IF q \in ToSet(kept) THEN sizes[q] ELSE 0]
          /\ currentSize' = currentSize + size
                            - (Total(lruOrder, sizes) - Total(kept, sizes))

-----------------------------------------------------------------------------
(* The tasks, on the threads of the foreground pool.                       *)

\* The result handler of a preview task: the image goes into the cache ...
LoadImage(p) ==
  /\ tasks[p] > 0 /\ p \notin adding
  /\ \E size \in ImageSizes[p] : AddImage(p, size)
  /\ tasks' = [tasks EXCEPT ![p] = @ - 1] /\ adding' = adding \union {p}
  /\ UNCHANGED <<pixmaps, announced, failed, viewVars>>

\* Mutant: what was evicted meanwhile is not announced.
AnnounceIfCached(p) ==
  /\ p \in adding
  /\ adding' = adding \ {p}
  /\ announced' = IF p \in Cached THEN announced \union {p} ELSE announced
  /\ UNCHANGED <<cacheVars, pixmaps, tasks, failed, viewVars>>

\* ... and its id into the queue.
Announce(p) ==
  /\ p \in adding
  /\ adding' = adding \ {p} /\ announced' = announced \union {p}
  /\ UNCHANGED <<cacheVars, pixmaps, tasks, failed, viewVars>>

FailToLoad(p) ==
  /\ tasks[p] > 0
  /\ tasks' = [tasks EXCEPT ![p] = @ - 1] /\ failed' = (failed \/ p = current)
  /\ UNCHANGED <<cacheVars, pixmaps, adding, announced, viewVars>>

-----------------------------------------------------------------------------
(* The GUI thread.                                                         *)

\* NfBrowserModel::getPreview: the photo, then those around it.
Around(p) ==
  LET start == Max({1, p - PreviewRange})
      end == Min({RowCount, p + PreviewRange})
  IN <<p>> \o [i \in 1..p - start |-> start + i - 1] \o [i \in 1..end - p |-> p + i]

\* The user turns to a photo.
SetPhotoIndex(p) ==
  /\ ~crashed /\ lookups = <<>> /\ p # current
  /\ current' = p /\ lookups' = Around(p) /\ failed' = FALSE
  /\ UNCHANGED <<cacheVars, pixmaps, tasks, adding, announced, shown, crashed>>

\* takePreviews, by the timer of the provider: the view looks again if its
\* photo is among them.
TakePreviews ==
  /\ ~crashed /\ lookups = <<>> /\ announced # {}
  /\ announced' = {}
  /\ lookups' = IF current \in announced THEN Around(current) ELSE <<>>
  /\ UNCHANGED <<cacheVars, pixmaps, tasks, adding, failed, current, shown, crashed>>

Wanted == Head(lookups)

\* What the view gets: only the photo in front is painted.
Give(result) ==
  /\ lookups' = Tail(lookups)
  /\ shown' = IF Wanted = current THEN result ELSE shown
  /\ UNCHANGED current

\* NfPhotoProvider::getPreview of a photo with a pixmap ...
FindPixmap ==
  /\ ~crashed /\ lookups # <<>> /\ Wanted \in ToSet(pixmaps)
  /\ pixmaps' = ToFront(pixmaps, Wanted)
  /\ Give(Wanted)
  /\ UNCHANGED <<cacheVars, taskVars, crashed>>

\* QCache::insert: pixmaps that were used longest ago go; one that is larger
\* than the cache is deleted at once.
Insert(p) ==
  pixmaps' = IF PixmapSize[p] > MaxCost THEN pixmaps
             ELSE <<p>> \o Kept(pixmaps, PixmapSize, PixmapSize[p], MaxCost)

\* The pixmap outlives its insertion.
Usable(p) == p \in Convertible /\ PixmapSize[p] <= MaxCost

\* ... of one with an image in the cache, which is converted.  Where that fails
\* the result is a null pointer, where the pixmap is too large one to what was
\* deleted; both are dereferenced, which ends the program, or in the second
\* case may still find what was there ...
FindImage ==
  /\ ~crashed /\ lookups # <<>>
  /\ Wanted \notin ToSet(pixmaps) /\ Wanted \in Cached
  /\ lruOrder' = ToFront(lruOrder, Wanted)
  /\ \/ /\ Wanted \in Convertible
        /\ Insert(Wanted) /\ Give(Wanted) /\ UNCHANGED crashed
     \/ /\ ~Usable(Wanted)
        /\ crashed' = TRUE /\ UNCHANGED <<pixmaps, current, lookups, shown>>
  /\ UNCHANGED <<sizes, currentSize, taskVars>>

\* ... and of one with neither, which is asked for.
RequestPreview ==
  /\ ~crashed /\ lookups # <<>>
  /\ Wanted \notin ToSet(pixmaps) \union Cached
  /\ tasks' = [tasks EXCEPT ![Wanted] = Min({@ + 1, MaxTasks[Wanted]})]
  /\ failed' = (failed /\ Wanted # current)
  /\ Give(NoRow)
  /\ UNCHANGED <<cacheVars, pixmaps, adding, announced, crashed>>

LookUp == FindPixmap \/ FindImage \/ RequestPreview

TaskStep(p) == LoadImage(p) \/ Announce(p) \/ FailToLoad(p)

PreviewNext ==
  \/ \E p \in Rows : TaskStep(p) \/ SetPhotoIndex(p)
  \/ TakePreviews \/ LookUp

PreviewSpec == PreviewInit /\ [][PreviewNext]_previewVars

\* The threads of the pool run, the timer fires, the GUI thread goes on.
FairPreviewSpec ==
  /\ PreviewSpec
  /\ \A p \in Rows : WF_previewVars(TaskStep(p))
  /\ WF_previewVars(TakePreviews) /\ WF_previewVars(LookUp)

-----------------------------------------------------------------------------
(* Properties.                                                             *)

\* The largest images of the photos around p are in the cache together.
AroundFits(p) ==
  Total(Around(p), [q \in Rows |-> Max(ImageSizes[q])]) <= MaxSizeBytes

\* NfCache keeps to its limit, also when the file of a photo has changed and
\* its image comes in another size: the list holds each image in the map once,
\* and m_currentSizeBytes is the sum of their sizes.
CacheWithinLimit ==
  /\ ToSet(lruOrder) = Cached /\ Len(lruOrder) = Cardinality(Cached)
  /\ currentSize = Total(lruOrder, sizes)
  /\ currentSize <= MaxSizeBytes

\* The photo in front of the user is shown, or its preview is on the way, in a
\* task, between the cache and the queue, or in the queue, or the last task for
\* it has failed: the view never waits for what nobody is at, also when an image
\* is evicted before it is looked up (getPreview, the task's handler,
\* takePreviews, onDataChanged).
PreviewIsComing ==
  current # NoRow =>
    \/ shown = current \/ failed \/ crashed
    \/ tasks[current] > 0 \/ current \in adding \union announced
    \/ lookups # <<>> /\ Wanted = current

\* The cache and what passes through it.
PreviewsAreSound == CacheWithinLimit /\ PreviewIsComing

\* The photo the user stays with is shown, if it loads and the cache has room
\* for it and those around it (if not, they keep evicting each other): no
\* announcement is lost between the cache, the queue and the timer, and what is
\* evicted before it is looked up is loaded again, until the images asked for
\* earlier are through.  The exception is a photo there or next to it, as those
\* are converted too, whose image does not convert or makes too large a pixmap.
PreviewGetsShown ==
  \A p \in Rows :
    current = p /\ AroundFits(p) ~> current # p \/ shown = p \/ failed \/ crashed
=============================================================================
