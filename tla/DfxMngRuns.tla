----------------------------- MODULE DfxMngRuns -----------------------------
(***************************************************************************)
(* What a run of the engine needs of the session table it is given, and    *)
(* what it then keeps at every clock edge.  The properties of              *)
(* DfxMngProperties that depend on the table follow from these (proved in  *)
(* DfxMngRunProofs); the conditions are those of the tables the notebooks  *)
(* write.                                                                  *)
(***************************************************************************)
EXTENDS DfxMngProperties

-----------------------------------------------------------------------------
(* Conditions on a table t and a bank 0 c. *)

RegionsOf(sel) == {RegionOf[m] : m \in sel}

(* set_slot takes an RM select with at most one bit set; and a session      *)
(* reconfigures another region than the one it executes in.                *)
SelectsApart(t) ==
  \A s \in Slot :
    /\ \A m, n \in t[s].recon_select : m = n
    /\ \A m, n \in t[s].exec_select : m = n
    /\ RegionsOf(t[s].recon_select) \cap RegionsOf(t[s].exec_select) = {}

(* holds[s][r]: the RM that is in region r whenever session s begins, or    *)
(* None if that is not known.  A session executes an RM that is there.     *)
LoadPlan(t, holds) ==
  /\ \A r \in Region : holds[0][r] = None
  /\ \A s \in Slot : \A m \in t[s].exec_select : holds[s][RegionOf[m]] = m
  /\ \A s \in Slot, r \in Region :
       LET m == holds[t[s].next_session][r] IN
       \/ m = None
       \/ m \in t[s].recon_select /\ RegionOf[m] = r
       \/ r \notin RegionsOf(t[s].recon_select) /\ m = holds[s][r]

StoresByDma(row) == row.exec_select # {} /\ DMA \in row.store_mask

(* One round.  ahead[s]: the sessions still to come when s begins.  Every   *)
(* session of the round runs once, its COMPLETE_MASK written as empty, and *)
(* one of them at most stores through the DMA.                             *)
OneRoundPlan(t, c, ahead) ==
  /\ \A s \in Slot : s # c.last_session =>
       t[s].next_session \in ahead[s] /\ ahead[t[s].next_session] \subseteq ahead[s]
  /\ \A s \in Slot : s \notin ahead[s]
  /\ \A s \in Slot : StoresByDma(t[s]) => \A q \in ahead[s] : ~StoresByDma(t[q])

Holdings == [Slot -> [Region -> RM \cup {None}]]
Orders   == [Slot -> SUBSET Slot]

RunsOnce(t, c) ==
  /\ c.amt_query = c.amt_query_per_iter
  /\ \A s \in Slot : t[s].complete_mask = {}
  /\ \E ahead \in Orders : OneRoundPlan(t, c, ahead)

(* validate_query_config, and at least one query.                          *)
Validated(c) ==
  c.amt_query # 0 /\ c.amt_query_per_iter # 0 /\ c.amt_query % c.amt_query_per_iter = 0

JobsValidated == \A job \in Jobs : Validated(job[2])
JobsApart     == \A job \in Jobs : SelectsApart(job[1])
JobsPlanned   == \A job \in Jobs : \E holds \in Holdings : LoadPlan(job[1], holds)
JobsRunOnce   == \A job \in Jobs : RunsOnce(job[1], job[2])

-----------------------------------------------------------------------------
(* The inductive invariants.  row is the session being run. *)

row == b1[b1_read_indexer]

(* The queries done are a multiple of a round's, and some are left.        *)
BudgetInOrder ==
  Busy => /\ Validated(b0)
          /\ cur_query % b0.amt_query_per_iter = 0 /\ cur_query < b0.amt_query

(* Nothing is asked of a region and nothing happens in it.                 *)
Settled(r) == rm_phase[r] = "UP" /\ \A t \in triggered : RegionOf[t] # r

(* The reconfiguration part follows the one load it has asked for: it waits *)
(* for the reset until the region has been loaded, and for the region until *)
(* the reset has been released.                                            *)
LoadFollowed(m) ==
  /\ \A r \in Region : r # RegionOf[m] => Settled(r)
  /\ \/ /\ recon_state = "W4SLAVERESET" /\ triggered = {m}
        /\ rm_phase[RegionOf[m]] = "UP"
     \/ /\ recon_state = "W4SLAVERESET" /\ triggered = {}
        /\ rm_phase[RegionOf[m]] \in {"LOADING", "RESET"} /\ loaded[RegionOf[m]] = m
     \/ /\ recon_state = "W4SLAVEOP" /\ triggered = {}
        /\ rm_phase[RegionOf[m]] \in {"RESET", "UP"} /\ loaded[RegionOf[m]] = m

ReconInOrder ==
  Busy =>
    /\ SelectsApart(b1)
    /\ IF recon_state \in {"W4SLAVERESET", "W4SLAVEOP"}
       THEN \E m \in row.recon_select : LoadFollowed(m)
       ELSE \A r \in Region : Settled(r)
    /\ recon_state = "FIN_SYNC" \/ main_state = "PRE_SHUTDOWN" =>
         \A m \in row.recon_select : loaded[RegionOf[m]] = m

(* A region the session does not reconfigure holds what is planned.        *)
LoadsInOrder ==
  Busy => \E holds \in Holdings :
    /\ LoadPlan(b1, holds)
    /\ \A r \in Region :
         r \notin RegionsOf(row.recon_select) /\ holds[b1_read_indexer][r] # None
           => loaded[r] = holds[b1_read_indexer][r]

(* The DMA has taken the data of task n of the current sequence.           *)
Sent(n) ==
  dma_init_task # None /\ (dma_init_task > n
                           \/ (dma_init_task = n /\ axi_state \in {"RESP", "UNLOCK"}))

(* What a sequence has written so far is in the DMA's registers, and it is  *)
(* written only for a session that executes and uses the DMA.              *)
TransferInOrder ==
  main_state = "PROCESS" =>
    /\ exec_state \notin {"SHUTDOWN", "PR_CTRL_REQ_SKIP_CHECK", "FIN_SYNC"}
         => row.exec_select # {}
    /\ exec_state = "SET_DMA_LOAD" =>
         /\ Sent(2) => dma.mm2s_run
         /\ Sent(3) => dma.mm2s_addr = row.src_addr
    /\ exec_state = "SET_DMA_STORE" =>
         /\ DMA \in row.store_mask
         /\ Sent(5) => dma.s2mm_run
         /\ Sent(6) => dma.s2mm_addr = row.des_addr

(* Before the streamers of a session get their init pulse.                 *)
NotInitialised ==
  main_state = "PROCESS" /\ exec_state \in {"SHUTDOWN", "PR_CTRL_REQ_SKIP_CHECK",
                     "INITIALIZE_PR_CTRL", "CLEAR_MGS", "INITIALIZE_MGS"}

(* Nothing stores before the streamers are initialised; then those store    *)
(* that are not yet in COMPLETE_MASK; at the end of the session none does. *)
StreamersInOrder ==
  /\ NotInitialised => storing = {} /\ row.complete_mask \subseteq {DMA}
  /\ row.exec_select = {} \/ exec_state = "FIN_SYNC" \/ main_state = "PRE_SHUTDOWN"
       => storing = {}
  /\ ~NotInitialised /\ row.exec_select # {} =>
       storing = (row.store_mask \ {DMA}) \ row.complete_mask

(* The DMA has been told to store for this session.                        *)
Launched ==
  \/ exec_state = "SET_DMA_STORE" /\ Sent(7)
  \/ exec_state \in {"TRIGGERING", "WAIT4FIN", "FIN_SYNC"}
  \/ main_state = "PRE_SHUTDOWN"

DmaUntouched == ~dma.storing /\ ~dma.irq

(* The DMA is untouched until the session that stores through it has told   *)
(* it to; then that session's bit says that the store is over.             *)
DmaInOrder ==
  IF Launched
  THEN StoresByDma(row) =>
         /\ dma.irq \/ DMA \in row.complete_mask => ~dma.storing
         /\ exec_state = "FIN_SYNC" => DMA \in row.complete_mask
  ELSE StoresByDma(row) => DmaUntouched /\ DMA \notin row.complete_mask

StoresInOrder ==
  Busy =>
    /\ b0.amt_query = b0.amt_query_per_iter /\ cur_query = 0
    /\ StreamersInOrder /\ DmaInOrder
    /\ \E ahead \in Orders :
         /\ OneRoundPlan(b1, b0, ahead)
         /\ \A s \in ahead[b1_read_indexer] :
              b1[s].complete_mask = {} /\ (StoresByDma(b1[s]) => DmaUntouched)

(* What every step of a run of planned and validated tables preserves ...   *)
RoundsInvariant ==
  /\ JobsValidated /\ JobsApart /\ JobsPlanned
  /\ EngineInvariant /\ BudgetInOrder /\ ReconInOrder /\ LoadsInOrder /\ TransferInOrder

(* ... and of one round of one.                                            *)
RunInvariant == RoundsInvariant /\ JobsRunOnce /\ StoresInOrder
=============================================================================
