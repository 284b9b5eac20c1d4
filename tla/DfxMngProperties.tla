-------------------------- MODULE DfxMngProperties --------------------------
(* What must be true of DfxMng, and the fairness under which a run ends.   *)
EXTENDS DfxMng

-----------------------------------------------------------------------------
(* Safety. *)

(* A session's fields as the program wrote them: all but COMPLETE_MASK,     *)
(* which the session itself changes.                                       *)
Settings(row) == [row EXCEPT !.complete_mask = {}]

InSession ==
  \/ main_state = "PRE_SHUTDOWN"
  \/ main_state = "PROCESS" /\ (recon_state # "SHUTDOWN" \/ exec_state # "SHUTDOWN")

(* Bank 1 is read one edge late, and the state machines use the read port  *)
(* without waiting for it ("data from bank 1 is ready from this state").   *)
(* Whenever one of them is in a state that may look at it, the port shows  *)
(* the session being run, never the one before.                            *)
ReadPortCurrent ==
  InSession => /\ Settings(read_val) = Settings(b1[b1_read_indexer])
               /\ read_val.complete_mask \subseteq b1[b1_read_indexer].complete_mask

(* The writer's address and data follow the task register throughout a     *)
(* transaction: at the data and response handshakes of a running session   *)
(* the task must still be the one whose address the slave has taken.       *)
WriteIsWhole ==
  main_state = "PROCESS" /\ axi_state \in {"WDATA", "RESP", "UNLOCK"} => awaddr = AWADDR

(* A LENGTH write starts the DMA.  By then the channel is running, it holds *)
(* this session's address, and no completion of an earlier store is still  *)
(* signalled.                                                              *)
TransferConfigured ==
  main_state = "PROCESS" /\ axi_state = "WDATA" =>
    /\ awaddr = <<"DMA", "MM2S_LENGTH">> =>
         dma.mm2s_run /\ dma.mm2s_addr = b1[b1_read_indexer].src_addr
    /\ awaddr = <<"DMA", "S2MM_LENGTH">> =>
         /\ dma.s2mm_run /\ dma.s2mm_addr = b1[b1_read_indexer].des_addr
         /\ ~dma.irq /\ ~dma.storing

Executing == main_state = "PROCESS" /\ exec_state \notin
               {"SHUTDOWN", "PR_CTRL_REQ_SKIP_CHECK", "FIN_SYNC"}

(* While a session drives an RM, its region holds that RM, out of reset and *)
(* with no reconfiguration pending: the reconfiguration of an earlier      *)
(* session is over, the one running beside it is for another region.       *)
ExecutesLoadedRM ==
  Executing => \A m \in b1[b1_read_indexer].exec_select :
                 /\ loaded[RegionOf[m]] = m /\ rm_phase[RegionOf[m]] = "UP"
                 /\ \A t \in triggered : RegionOf[t] # RegionOf[m]

(* When the execution part of a session is over, every store it asked for  *)
(* is over: no streamer of STORE_MASK, nor the DMA, is still writing.      *)
(* ("COMPLETE_MASK: tracks which store operations have completed.")        *)
StoresFinished ==
  main_state = "PROCESS" /\ exec_state = "FIN_SYNC" =>
    \A m \in read_val.exec_select :
      /\ read_val.store_mask \cap storing = {}
      /\ DMA \in read_val.store_mask => ~dma.storing

(* A streamer takes reset and init pulses only when it is idle: none may   *)
(* be sent to one that is still storing.                                   *)
PulsesFindIdleStreamer ==
  storing \cap (dfx_stream_store_reset \cup dfx_stream_load_reset \cup
                dfx_stream_store_init  \cup dfx_stream_load_init) = {}

(* Sessions change only at rest: both sub-machines idle, no task asked of  *)
(* the writer and no write in flight.                                      *)
SessionBarrier ==
  [][ main_state # "SHUTDOWN" /\ main_state' # "SHUTDOWN"
        /\ b1_read_indexer' # b1_read_indexer
      => /\ recon_state = "SHUTDOWN" /\ exec_state = "SHUTDOWN"
         /\ axi_state = "IDLE" /\ dma_init_task = None /\ pr_ctrl_task = None
         /\ b1_read_indexer' = b1[b1_read_indexer].next_session ]_vars

(* Each pass over a session moves its DMA addresses by its own sizes (the  *)
(* sum is taken from the read port), so the next round uses the next block. *)
AddressesAdvance ==
  [][ main_state = "PRE_SHUTDOWN" =>
        LET row == b1[b1_read_indexer] IN
        /\ b1'[b1_read_indexer].src_addr = (row.src_addr + row.src_size) % AddrMod
        /\ b1'[b1_read_indexer].des_addr = (row.des_addr + row.des_size) % AddrMod ]_vars

(* The run stays within the budget a validated configuration gives it      *)
(* (validate_query_config: amt_query is a multiple of amt_query_per_iter).  *)
WithinBudget == main_state # "SHUTDOWN" => cur_query < b0.amt_query

-----------------------------------------------------------------------------
(* The inductive invariant behind the safety properties that hold for every *)
(* table, budget and width (proved in DfxMngProofs).                       *)

(* The sub-machines leave SHUTDOWN together and return to it together, and  *)
(* the main machine is in PRE_SHUTDOWN only when both are back.            *)
Lockstep ==
  /\ main_state = "PRE_SHUTDOWN" => recon_state = "SHUTDOWN" /\ exec_state = "SHUTDOWN"
  /\ main_state = "PROCESS" => (recon_state = "SHUTDOWN" <=> exec_state = "SHUTDOWN")

(* During a run the writer is busy only on behalf of the current state.    *)
WriterServesTask ==
  main_state # "SHUTDOWN" /\ dma_init_task = None /\ pr_ctrl_task = None
    => axi_state = "IDLE"

(* What every step of the engine preserves: its machines, task registers,   *)
(* read port and writer agree on the session and on the write in flight.   *)
EngineInvariant ==
  TypeOK /\ Lockstep /\ TaskPhase /\ WriterServesTask /\ ReadPortCurrent /\ WriteIsWhole

-----------------------------------------------------------------------------
(* The session chain the engine implements.  A part of a session is        *)
(* finished from its FIN_SYNC until the main machine has moved on.         *)

Busy == main_state # "SHUTDOWN"

Chain == INSTANCE SessionChain WITH
  running      <- Busy,
  config       <- b0,
  next_session <- [s \in Slot |-> b1[s].next_session],
  session      <- IF Busy THEN b1_read_indexer ELSE 0,
  recon_done   <- Busy /\ (recon_state = "FIN_SYNC" \/ main_state = "PRE_SHUTDOWN"),
  exec_done    <- Busy /\ (exec_state = "FIN_SYNC" \/ main_state = "PRE_SHUTDOWN"),
  queries      <- IF Busy THEN cur_query ELSE 0,
  intr         <- intr_status

(* The engine runs sessions one at a time, in chain order, and interrupts  *)
(* exactly when the query budget is done.                                  *)
ImplementsChain == Chain!ChainSpec

-----------------------------------------------------------------------------
(* Liveness.  The clock ticks, a slave that is asked answers, a store and a *)
(* reconfiguration that have begun end.  S_AXI spends three cycles on a    *)
(* write, so cycles in which the PS writes nothing keep coming; fairness   *)
(* is asked of those only.                                                 *)

QuietInputs ==
  [ ps : {NoWrite}, rd : {None}, ready : {FALSE, AxiWaits}, done : SUBSET storing,
    dma_done : {FALSE, dma.storing}, reg : Region \cup {None} ]

Clock         == \E in \in QuietInputs : Tick(in)
AxiAnswers    == \E in \in QuietInputs : in.ready /\ Tick(in)
DmaFinishes   == \E in \in QuietInputs : in.dma_done /\ Tick(in)
StoreEnds(s)  == \E in \in QuietInputs : s \in in.done /\ Tick(in)
Reconfigures(r) == \E in \in QuietInputs : in.reg = r /\ Tick(in)

Fairness ==
  /\ WF_vars(Clock) /\ WF_vars(AxiAnswers) /\ WF_vars(DmaFinishes)
  /\ \A s \in Stream : WF_vars(StoreEnds(s))
  /\ \A r \in Region : WF_vars(Reconfigures(r))

FairSpec == Spec /\ Fairness

(* A run that was started comes to its end.                                *)
RunTerminates == Busy ~> ~Busy

-----------------------------------------------------------------------------
(* Statements of the repository's documents that the code does not keep.    *)

(* sw/driver/dfx_mng.py, validate_query_config: "Returns True if amt_query  *)
(* will terminate cleanly", and for a budget of zero it prints "OK - 0      *)
(* iteration(s)".  A run whose budget passed the check begins no session    *)
(* when more queries than the budget have been worked off.                 *)
StopsAtBudget ==
  b0.amt_query_per_iter # 0 /\ b0.amt_query % b0.amt_query_per_iter = 0
    => (main_state = "PROCESS" => cur_query <= b0.amt_query)

(* doc/tech_report/main.tex, CTRL_REG: "SHUTDOWN (halt gracefully)".  Here  *)
(* the engine is stopped with SHUTDOWN in the middle of a session and      *)
(* started again once the driven parts are idle and the reconfiguration is *)
(* over.  (S_AXI takes some cycles per write: never two at once.)          *)
RestartStart(ps) ==
  /\ ps.cmd = "START" => /\ main_state = "SHUTDOWN" /\ PartsIdle
                         /\ recon_state \in {"SHUTDOWN", "FIN_SYNC"}
                         /\ <<b1, b0>> \in Jobs
  /\ ps.cmd = "SHUTDOWN" => /\ main_state = "PROCESS"
                            /\ recon_state \notin {"SHUTDOWN", "REPROG"}

Restarting(in) == RestartStart(in.ps) /\ Tick(in)

RestartSpec ==
  Init /\ [][\E in \in Inputs : Restarting(in)]_vars /\ Fairness
=============================================================================
