---------------------------- MODULE NfDiskCache ----------------------------
(***************************************************************************)
(* NfDiskCache: image files under a size quota, written by one thread from *)
(* a queue and read by the image tasks.  A file is written under a         *)
(* temporary name, room is made for it by deleting the least recently used *)
(* files, and it is renamed.  put holds m_mutex all along, but is cut into *)
(* the steps between which the process may die or somebody else may delete *)
(* a file; a restart builds the index anew from the files it finds, with   *)
(* the quota that the settings have by then.                               *)
(*                                                                         *)
(* A key is a cache type with a photo id.  Writing, opening, renaming and  *)
(* asking for a file's size or time may fail; std::filesystem::remove      *)
(* fails only where there is no file.  The directory is always the same.   *)
(***************************************************************************)
EXTENDS Integers, Sequences, FiniteSets, SequencesExt

CONSTANTS Keys,            \* the keys of the images
          NoKey,           \* the worker has no request
          FileSize,        \* FileSize[k]: bytes of header and pixels of k
          Quotas,          \* values of NfDiskCacheSettings::maxSizeBytes
          FilesMayVanish,  \* whether others delete files of the cache
          Doubtful         \* keys of the files whose size or time may not be learnt

ASSUME DiskCacheAssumption ==
  /\ NoKey \notin Keys
  /\ FileSize \in [Keys -> Nat \ {0}]
  /\ Quotas \subseteq Nat
  /\ FilesMayVanish \in BOOLEAN /\ Doubtful \subseteq Keys

VARIABLES
  files,        \* the .nfc files, last written first
  temporaries,  \* keys that have a .tmp file
  leftovers,    \* history: keys that had one when the process last died
  overlooked,   \* history: keys of files whose size or time was not learnt
  inherited,    \* history: bytes found at the start if they were more than
                \* the quota, until a file is written; 0 otherwise
  process,      \* "running" or "down"
  maxSizeBytes, \* m_settings.maxSizeBytes
  lruOrder,     \* m_lruOrder, most recently used first
  lruOrderById, \* the keys of m_lruOrderById
  currentSize,  \* m_currentCacheSize
  writeQueue,   \* m_writeQueue, the keys of its requests
  queuedIds,    \* m_queuedThumbnailIds and m_queuedPreviewIds
  stopping,     \* m_stopping
  worker,       \* where the writing thread is
  request       \* the key of the request it took

diskVars == <<files, temporaries, leftovers>>
historyVars == <<overlooked, inherited>>
indexVars == <<maxSizeBytes, lruOrder, lruOrderById, currentSize>>
queueVars == <<writeQueue, queuedIds, stopping>>
workerVars == <<worker, request>>
vars == <<diskVars, historyVars, process, indexVars, queueVars, workerVars>>

WorkerStates == {"idle", "put", "evicting", "renaming", "release"}

\* Lists of entries and of files; each has a key once.
KeysOf(s) == {s[i].key : i \in DOMAIN s}
Position(s, k) == CHOOSE i \in DOMAIN s : s[i].key = k
Without(s, k) == IF k \in KeysOf(s) THEN RemoveAt(s, Position(s, k)) ELSE s
EntryOf(s, k) == s[Position(s, k)]

\* The sum of the sizes in s is the number of its bytes.
Bytes(s) == UNION {{s[i].key} \X (1..s[i].size) : i \in DOMAIN s}
TotalSize(s) == Cardinality(Bytes(s))
AtMost(a, b) == IF a <= b THEN a ELSE b
AtLeast(a, b) == IF a <= b THEN b ELSE a

\* What the index says of k's size, 0 if nothing.
SizeInIndex(k) == IF k \in lruOrderById THEN EntryOf(lruOrder, k).size ELSE 0

\* put holds m_mutex from its first look at the disk to its end.
MutexFree == worker \notin {"evicting", "renaming"}

-----------------------------------------------------------------------------
\* What the process knows before the constructor, or after its end.
NothingKnown ==
  /\ lruOrder' = <<>> /\ lruOrderById' = {} /\ currentSize' = 0
  /\ writeQueue' = <<>> /\ queuedIds' = {} /\ stopping' = FALSE
  /\ worker' = "idle" /\ request' = NoKey

Init ==
  /\ files = <<>> /\ temporaries = {} /\ leftovers = {}
  /\ overlooked = {} /\ inherited = 0
  /\ maxSizeBytes \in Quotas
  /\ process = "running"
  /\ lruOrder = <<>> /\ lruOrderById = {} /\ currentSize = 0
  /\ writeQueue = <<>> /\ queuedIds = {} /\ stopping = FALSE
  /\ worker = "idle" /\ request = NoKey

-----------------------------------------------------------------------------
(* Calls of the image tasks and the memory caches.                         *)

\* enqueue, under both locks.
Enqueue(k) ==
  /\ process = "running" /\ ~ stopping /\ MutexFree
  /\ k \notin lruOrderById /\ k \notin queuedIds
  /\ writeQueue' = Append(writeQueue, k)
  /\ queuedIds' = queuedIds \union {k}
  /\ UNCHANGED <<diskVars, historyVars, process, indexVars, stopping, workerVars>>

\* Mutant: the size of a removed entry stays in the sum.
RemoveEntryKeepSize(k) ==
  /\ lruOrder' = Without(lruOrder, k)
  /\ lruOrderById' = lruOrderById \ {k}
  /\ UNCHANGED currentSize

\* removeEntry
RemoveEntry(k) ==
  /\ lruOrder' = Without(lruOrder, k)
  /\ lruOrderById' = lruOrderById \ {k}
  /\ currentSize' = currentSize - AtMost(currentSize, SizeInIndex(k))

\* Some image task calls get.
Getting == process = "running" /\ ~ stopping /\ MutexFree

\* get of a file that is whole: touchEntry makes it the most recently used.
GetHit(k) ==
  /\ Getting
  /\ \E i \in DOMAIN files : files[i].key = k /\ files[i].whole
  /\ lruOrder' = IF k \in lruOrderById
                 THEN <<EntryOf(lruOrder, k)>> \o Without(lruOrder, k) ELSE lruOrder
  /\ UNCHANGED <<diskVars, historyVars, process, maxSizeBytes, lruOrderById, currentSize,
                 queueVars, workerVars>>

\* get of a file that is not there, or whose size it cannot learn.
GetMissing(k) ==
  /\ Getting
  /\ k \notin KeysOf(files) \/ k \in Doubtful
  /\ RemoveEntry(k)
  /\ overlooked' = overlooked \union ({k} \intersect KeysOf(files))
  /\ UNCHANGED <<diskVars, inherited, process, maxSizeBytes, queueVars, workerVars>>

\* Mutant: a damaged file is forgotten and stays on disk.
GetInvalidKeepFile(k) ==
  /\ Getting
  /\ \E i \in DOMAIN files : files[i].key = k /\ ~ files[i].whole
  /\ RemoveEntry(k)
  /\ UNCHANGED <<diskVars, historyVars, process, maxSizeBytes, queueVars, workerVars>>

\* get of a file that is damaged: it is deleted.
GetInvalid(k) ==
  /\ Getting
  /\ \E i \in DOMAIN files : files[i].key = k /\ ~ files[i].whole
  /\ files' = Without(files, k)
  /\ RemoveEntry(k)
  /\ UNCHANGED <<temporaries, leftovers, historyVars, process, maxSizeBytes, queueVars,
                 workerVars>>

-----------------------------------------------------------------------------
(* The writing thread: workerLoop and put.                                 *)

\* Mutant: a stopping worker takes no more requests.
DequeueUnlessStopping ==
  /\ process = "running" /\ worker = "idle" /\ ~ stopping
  /\ writeQueue # <<>>
  /\ request' = Head(writeQueue)
  /\ writeQueue' = Tail(writeQueue)
  /\ worker' = "put"
  /\ UNCHANGED <<diskVars, historyVars, process, indexVars, queuedIds, stopping>>

Dequeue ==
  /\ process = "running" /\ worker = "idle"
  /\ writeQueue # <<>>
  /\ request' = Head(writeQueue)
  /\ writeQueue' = Tail(writeQueue)
  /\ worker' = "put"
  /\ UNCHANGED <<diskVars, historyVars, process, indexVars, queuedIds, stopping>>

\* put gives up before it writes: the image is bad or larger than the quota,
\* there is no directory or no free space, or the temporary file cannot be
\* opened or written (then it is deleted).
PutFails ==
  /\ worker = "put"
  /\ temporaries' = temporaries \/ temporaries' = temporaries \ {request}
  /\ worker' = "release"
  /\ UNCHANGED <<files, leftovers, historyVars, process, indexVars, queueVars, request>>

\* Mutant: the other files are not counted.
FitsAlone == FileSize[request] <= maxSizeBytes

\* The new file fits beside the others.
Fits ==
  LET others == currentSize - AtMost(currentSize, SizeInIndex(request)) IN
  others <= maxSizeBytes /\ FileSize[request] <= maxSizeBytes - others

\* Bytes evictToFit is asked for.
AdditionalBytes ==
  IF FileSize[request] > SizeInIndex(request)
  THEN FileSize[request] - SizeInIndex(request) ELSE 0

\* The temporary file is written.
WriteTemporary ==
  /\ worker = "put"
  /\ FileSize[request] <= maxSizeBytes
  /\ temporaries' = temporaries \union {request}
  /\ worker' = IF Fits \/ AdditionalBytes = 0 THEN "renaming" ELSE "evicting"
  /\ UNCHANGED <<files, leftovers, historyVars, process, indexVars, queueVars, request>>

\* evictToFit frees a tenth of the quota at least.
TargetSize ==
  LET tenth == maxSizeBytes \div 10 IN
  maxSizeBytes - (IF AdditionalBytes < tenth THEN tenth ELSE AdditionalBytes)

ReachedTarget ==
  currentSize - AtMost(currentSize, SizeInIndex(request)) <= TargetSize

\* Position of the entry to evict: the last one but the request's own; 0 if
\* there is none.
Victim ==
  LET n == Len(lruOrder) IN
  IF n > 0 /\ lruOrder[n].key = request THEN n - 1 ELSE n

VictimHasFile == lruOrder[Victim].key \in KeysOf(files)

\* One turn of the loop: the file is deleted and the entry with it ...
EvictFile ==
  /\ worker = "evicting"
  /\ ~ ReachedTarget /\ Victim > 0 /\ VictimHasFile
  /\ LET e == lruOrder[Victim] IN
     /\ files' = Without(files, e.key)
     /\ currentSize' = currentSize - e.size
     /\ lruOrder' = Without(lruOrder, e.key)
     /\ lruOrderById' = lruOrderById \ {e.key}
  /\ UNCHANGED <<temporaries, leftovers, historyVars, process, maxSizeBytes, queueVars,
                 workerVars>>

\* ... or there is no file to delete and the entry moves to the front.
SkipMissingFile ==
  /\ worker = "evicting"
  /\ ~ ReachedTarget /\ Victim > 1 /\ ~ VictimHasFile
  /\ LET e == lruOrder[Victim] IN
     lruOrder' = <<e>> \o Without(lruOrder, e.key)
  /\ UNCHANGED <<diskVars, historyVars, process, maxSizeBytes, lruOrderById, currentSize,
                 queueVars, workerVars>>

\* The loop is over: room was made, or nothing is left that could be evicted.
EndEviction ==
  /\ worker = "evicting"
  /\ ReachedTarget \/ Victim = 0 \/ (Victim = 1 /\ ~ VictimHasFile)
  /\ worker' = IF ReachedTarget THEN "renaming" ELSE "release"
  /\ temporaries' = IF ReachedTarget THEN temporaries ELSE temporaries \ {request}
  /\ UNCHANGED <<files, leftovers, historyVars, process, indexVars, queueVars, request>>

\* The temporary file becomes k's file, and the index learns of it.
Rename ==
  /\ worker = "renaming"
  /\ LET k == request
         size == FileSize[k] IN
     /\ files' = <<[key |-> k, size |-> size, whole |-> TRUE]>> \o Without(files, k)
     /\ temporaries' = temporaries \ {k}
     /\ lruOrder' = <<[key |-> k, size |-> size]>> \o Without(lruOrder, k)
     /\ lruOrderById' = lruOrderById \union {k}
     /\ currentSize' = (currentSize - SizeInIndex(k)) + size
     /\ overlooked' = overlooked \ {k}
  /\ inherited' = 0
  /\ worker' = "release"
  /\ UNCHANGED <<leftovers, process, maxSizeBytes, queueVars, request>>

\* Renaming fails, also after the file in its way was deleted.
RenameFails ==
  /\ worker = "renaming"
  /\ worker' = "release"
  /\ files' = files \/ files' = Without(files, request)
  /\ temporaries' = temporaries \ {request}
  /\ UNCHANGED <<leftovers, historyVars, process, indexVars, queueVars, request>>

\* Mutant: the id of a request that was served stays queued.
RemoveQueuedIdNot ==
  /\ worker = "release"
  /\ worker' = "idle" /\ request' = NoKey
  /\ UNCHANGED <<diskVars, historyVars, process, indexVars, queueVars>>

RemoveQueuedId ==
  /\ worker = "release"
  /\ queuedIds' = queuedIds \ {request}
  /\ worker' = "idle" /\ request' = NoKey
  /\ UNCHANGED <<diskVars, historyVars, process, indexVars, writeQueue, stopping>>

\* The worker ends once the queue is empty, and the destructor with it.
EndWorker ==
  /\ process = "running" /\ worker = "idle"
  /\ stopping /\ writeQueue = <<>>
  /\ process' = "down"
  /\ NothingKnown
  /\ UNCHANGED <<diskVars, historyVars, maxSizeBytes>>

WorkerStep ==
  \/ Dequeue \/ PutFails \/ WriteTemporary \/ EvictFile \/ SkipMissingFile
  \/ EndEviction \/ Rename \/ RenameFails \/ RemoveQueuedId \/ EndWorker

-----------------------------------------------------------------------------
(* The owner, and what happens to the process and its files.               *)

\* indexEntries finds the files at these places, last written first.  It ends
\* or goes on at those whose kind, size or time it cannot learn.
Index(n, place) ==
  lruOrder' = [i \in 1..n |-> [key |-> files[place[i]].key, size |-> files[place[i]].size]]

\* The constructor takes the settings as they are loaded now and indexes the
\* files.  It deletes none, also if they are more than the quota.
Construct ==
  /\ process = "down"
  /\ process' = "running"
  /\ maxSizeBytes' \in Quotas
  /\ \E n \in 0..Len(files) : \E place \in [1..n -> DOMAIN files] :
       /\ \A i, j \in 1..n : i < j => place[i] < place[j]
       /\ KeysOf(files) \ Doubtful \subseteq {files[place[i]].key : i \in 1..n}
       /\ Index(n, place)
  /\ lruOrderById' = KeysOf(lruOrder')
  /\ currentSize' = TotalSize(lruOrder')
  /\ overlooked' = KeysOf(files) \ KeysOf(lruOrder')
  /\ inherited' = IF currentSize' > maxSizeBytes' THEN currentSize' ELSE 0
  /\ UNCHANGED <<diskVars, queueVars, workerVars>>

\* The destructor, up to the join.
Destruct ==
  /\ process = "running" /\ ~ stopping
  /\ stopping' = TRUE
  /\ UNCHANGED <<diskVars, historyVars, process, indexVars, writeQueue, queuedIds, workerVars>>

\* The process dies.  Nothing is synced: if the machine dies with it, files
\* may come back cut short.
Crash ==
  /\ process = "running"
  /\ process' = "down"
  /\ \E cut \in SUBSET KeysOf(files) :
       files' = [i \in DOMAIN files |->
                   IF files[i].key \in cut
                   THEN [files[i] EXCEPT !.size = 1, !.whole = FALSE] ELSE files[i]]
  /\ leftovers' = temporaries
  /\ NothingKnown
  /\ UNCHANGED <<temporaries, historyVars, maxSizeBytes>>

\* Somebody else deletes a file of the cache directory.
Vanish(k) ==
  /\ FilesMayVanish
  /\ process = "running"
  /\ k \in KeysOf(files)
  /\ files' = Without(files, k)
  /\ UNCHANGED <<temporaries, leftovers, historyVars, process, indexVars, queueVars, workerVars>>

Next ==
  \/ \E k \in Keys :
       Enqueue(k) \/ GetHit(k) \/ GetMissing(k) \/ GetInvalid(k) \/ Vanish(k)
  \/ WorkerStep
  \/ Construct \/ Destruct \/ Crash

Spec == Init /\ [][Next]_vars

\* The writing thread runs.
FairSpec == Spec /\ WF_vars(WorkerStep)

-----------------------------------------------------------------------------
(* Properties.                                                             *)

\* Every variable keeps its type.
TypeOK ==
  /\ files \in Seq([key : Keys, size : Nat \ {0}, whole : BOOLEAN])
  /\ temporaries \subseteq Keys /\ leftovers \subseteq Keys
  /\ overlooked \subseteq Keys /\ inherited \in Nat
  /\ process \in {"running", "down"}
  /\ maxSizeBytes \in Quotas
  /\ lruOrder \in Seq([key : Keys, size : Nat \ {0}])
  /\ lruOrderById \subseteq Keys
  /\ currentSize \in Nat
  /\ writeQueue \in Seq(Keys)
  /\ queuedIds \subseteq Keys
  /\ stopping \in BOOLEAN
  /\ worker \in WorkerStates
  /\ request \in Keys \union {NoKey}

\* List, map and size sum are three views of one index, without duplicates:
\* a list iterator in the map never dangles, the sum never drifts.
IndexConsistent ==
  /\ lruOrderById = KeysOf(lruOrder)
  /\ Cardinality(lruOrderById) = Len(lruOrder)
  /\ currentSize = TotalSize(lruOrder)

\* The image files never take more than the quota, also in the middle of put and
\* after a crash there.  The constructor makes no room: what it finds may be more
\* than a quota that was lowered meanwhile.  Such a directory never grows, and the
\* first file that is written brings it within the quota.  Nothing is said of
\* files that were overlooked.
DiskWithinQuota ==
  Cardinality({b \in Bytes(files) : b[1] \notin overlooked})
    <= AtLeast(maxSizeBytes, inherited)

\* Between puts, no file is on disk that the index does not count, so every
\* file can be evicted one day, except those that were overlooked.
FilesAccounted ==
  process = "running" /\ MutexFree =>
    \A i \in DOMAIN files :
      files[i].key \in overlooked \/
      \E j \in DOMAIN lruOrder :
        lruOrder[j].key = files[i].key /\ lruOrder[j].size >= files[i].size

\* A queued image is not on disk already and is queued once: put never finds
\* an existing entry, and no two requests write the same file.
QueuedOnce ==
  /\ \A i \in DOMAIN writeQueue : writeQueue[i] \notin lruOrderById
  /\ \A i, j \in DOMAIN writeQueue : writeQueue[i] = writeQueue[j] => i = j
  /\ worker \in {"put", "evicting", "renaming"} => request \notin lruOrderById
  /\ queuedIds = ToSet(writeQueue) \union ({request} \ {NoKey})

\* A temporary file outlives put only when the process died.
NoTemporaryLeft == MutexFree => temporaries \subseteq leftovers

\* Entries of the index whose file is gone.
Missing == {k \in lruOrderById : k \notin KeysOf(files)}

\* Every queued image is written or given up, unless two files or more have
\* vanished under the index: then evictToFit turns for ever, moving one of them
\* to the front after the other, against its comment, which says that it breaks.
WriteEndsUnlessFilesVanish ==
  \A k \in Keys :
    k \in queuedIds ~> k \notin queuedIds \/ Cardinality(Missing) >= 2

\* The destructor returns, with the same exception.
DestructorEnds == stopping ~> ~ stopping \/ Cardinality(Missing) >= 2

\* The index and the write queue, between any two critical sections.
IndexIsSound == TypeOK /\ IndexConsistent /\ QueuedOnce

\* What is on the disk is known to the index, or is left by a crash.
FilesAreSound == FilesAccounted /\ NoTemporaryLeft
=============================================================================
