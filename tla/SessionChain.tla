---------------------------- MODULE SessionChain ----------------------------
(***************************************************************************)
(* What the DFX Manager promises to the program that starts it, without    *)
(* its state machines, its read port or its bus: the sessions of the table *)
(* are run one at a time along their next_session chain, from row 0; a     *)
(* session has a reconfiguration part and an execution part, which finish  *)
(* in any order or together; the next session begins only when both have   *)
(* finished; each time the last session ends a round, its queries are      *)
(* counted; the run ends, and the interrupt is raised, exactly at the end  *)
(* of the round that completes the query budget.                           *)
(***************************************************************************)
EXTENDS Naturals

CONSTANTS Slot, Query, QueryMod

VARIABLES
  running,        \* a run is in progress
  config,         \* last_session, amt_query, amt_query_per_iter, intr_ena
  next_session,   \* the chain: [Slot -> Slot]
  session,        \* the session being run (0 when none is)
  recon_done,     \* its reconfiguration part has finished
  exec_done,      \* its execution part has finished
  queries,        \* queries completed in this run (0 when none is)
  intr            \* the interrupt line

program == <<config, next_session>>
progress == <<session, recon_done, exec_done, queries>>
chain_vars == <<running, program, progress, intr>>

NoProgress(s, q) ==
  session' = s /\ recon_done' = FALSE /\ exec_done' = FALSE /\ queries' = q

ChainInit ==
  /\ ~running /\ ~intr
  /\ session = 0 /\ ~recon_done /\ ~exec_done /\ queries = 0

(* The table and the budget change only between runs. *)
Configure ==
  /\ ~running /\ UNCHANGED <<running, progress, intr>>

Start ==
  /\ ~running /\ running' = TRUE
  /\ NoProgress(0, 0) /\ intr' = FALSE
  /\ UNCHANGED program

(* One part of the session finishes, or both do. *)
Work ==
  /\ running
  /\ recon_done' \in {recon_done, TRUE} /\ exec_done' \in {exec_done, TRUE}
  /\ UNCHANGED <<running, program, session, queries, intr>>

SessionEnds == running /\ recon_done /\ exec_done
RoundEnds == SessionEnds /\ session = config.last_session
Counted     == (queries + config.amt_query_per_iter) % QueryMod
RunEnds     == RoundEnds /\ Counted = config.amt_query

Advance ==
  /\ SessionEnds /\ ~RunEnds
  /\ NoProgress(next_session[session], IF RoundEnds THEN Counted ELSE queries)
  /\ UNCHANGED <<running, program, intr>>

Finish ==
  /\ RunEnds
  /\ running' = FALSE /\ NoProgress(0, 0)
  /\ intr' = (intr \/ config.intr_ena)
  /\ UNCHANGED program

(* CLEAR, SHUTDOWN or a hardware reset, which also disables the interrupt. *)
Stop ==
  /\ running' = FALSE /\ NoProgress(0, 0)
  /\ intr' \in {intr, FALSE}
  /\ UNCHANGED next_session
  /\ config' \in {config, [config EXCEPT !.intr_ena = FALSE]}

ChainNext == Configure \/ Start \/ Work \/ Advance \/ Finish \/ Stop

ChainSpec == ChainInit /\ [][ChainNext]_chain_vars
=============================================================================
