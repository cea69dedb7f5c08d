---------------------- MODULE NfThreadAllocationManager ----------------------
(***************************************************************************)
(* NfThreadAllocationManager: how many threads the two pools get, worked   *)
(* out once, when NeofluxonCore::initialize constructs it.  The counts are *)
(* unsigned ints.                                                          *)
(***************************************************************************)
EXTENDS Integers, FiniteSetsExt

CONSTANTS UintRange,   \* 2^32 in the code
          MaxHardware  \* bound on what hardware_concurrency returns

VARIABLES
  hardwareConcurrency,    \* what the standard library says; 0: unknown
  totalAvailableThreads,  \* m_totalAvailableThreads
  foregroundThreads,      \* m_foregroundThreads
  backgroundThreads       \* m_backgroundThreads

vars == <<hardwareConcurrency, totalAvailableThreads, foregroundThreads,
          backgroundThreads>>

\* Subtraction of unsigned ints.
Minus(a, b) == (a + UintRange - b) % UintRange

Init ==
  /\ hardwareConcurrency \in 0..MaxHardware
  /\ totalAvailableThreads = 0
  /\ foregroundThreads = 0 /\ backgroundThreads = 0

\* The constructor, with calculateAllocation.
Construct ==
  /\ totalAvailableThreads = 0
  /\ totalAvailableThreads' = IF hardwareConcurrency = 0 THEN 4 ELSE hardwareConcurrency
  /\ IF totalAvailableThreads' <= 6
     THEN /\ foregroundThreads' = Max({1, Minus(totalAvailableThreads', 5)})
          /\ backgroundThreads' = 1
     ELSE /\ foregroundThreads' = Minus(totalAvailableThreads', 6)
          /\ backgroundThreads' = 2
  /\ UNCHANGED hardwareConcurrency

Spec == Init /\ [][Construct]_vars

\* "Account for 6 threads outside the foreground pool": the foreground pool
\* gets what the others leave of the hardware, and one thread at least.
ForegroundFitsHardware ==
  foregroundThreads <= Max({1, totalAvailableThreads - 5})
=============================================================================
