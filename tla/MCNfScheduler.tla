--------------------------- MODULE MCNfScheduler ---------------------------
(***************************************************************************)
(* The small instance of NfScheduler for TLC: three tasks on two workers   *)
(* with two priorities, so that both orderings, re-prioritising ahead of   *)
(* an older task and a sleeping worker beside a busy one all occur.        *)
(***************************************************************************)
EXTENDS NfScheduler

MCTasks == 1..3
MCPriorities == {Immediate, 80}
=============================================================================
