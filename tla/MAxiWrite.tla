------------------------------ MODULE MAxiWrite ------------------------------
(***************************************************************************)
(* The DMA / PR ctrl connector (hw/ip_src/dfx_mng/m_axi_write.v): turns the *)
(* core's current task into one AXI-Lite write.  Address, data and the     *)
(* finished-task report are combinational in the task registers and in the *)
(* core's bank 1 read port, so they follow those registers at every moment *)
(* of the transaction.                                                     *)
(*                                                                         *)
(* An address is a register of the DMA (<<"DMA", register>>) or of the PR  *)
(* ctrl IP of a region (<<"PR", register, region>>); ZeroAddr is the       *)
(* all-zero default.  Control words are 1 (the one bit that matters).      *)
(***************************************************************************)
EXTENDS DfxMngCore

VARIABLE axi_state        \* where the current write transaction is

AxiState == {"IDLE", "WADDR", "WDATA", "RESP", "UNLOCK"}

(* The register of the DMA a task writes. *)
DmaReg == [ t \in DmaTask |->
  CASE t = 0 -> "MM2S_DMASR" [] t = 1 -> "S2MM_DMASR"
    [] t = 2 -> "MM2S_DMACR" [] t = 3 -> "MM2S_SA" [] t = 4 -> "MM2S_LENGTH"
    [] t = 5 -> "S2MM_DMACR" [] t = 6 -> "S2MM_DA" [] t = 7 -> "S2MM_LENGTH" ]

PrReg == [ t \in PrTask |-> IF t = BATCH_SIZE THEN "BATCH_SIZE" ELSE "AP_CTRL" ]

ZeroAddr == <<"ZERO">>

(* The loop of the source keeps the last RM of the mask; RMs are numbered. *)
LastRM(sel) == CHOOSE m \in sel : \A n \in sel : n <= m

AWADDR ==
  IF dma_init_task # None THEN <<"DMA", DmaReg[dma_init_task]>>
  ELSE IF pr_ctrl_task # None /\ read_val.exec_select # {}
       THEN <<"PR", PrReg[pr_ctrl_task], RegionOf[LastRM(read_val.exec_select)]>>
       ELSE ZeroAddr

WDATA ==
  CASE dma_init_task # None ->
         (CASE dma_init_task = 3 -> read_val.src_addr
            [] dma_init_task = 4 -> read_val.src_size
            [] dma_init_task = 6 -> read_val.des_addr
            [] dma_init_task = 7 -> read_val.des_size
            [] OTHER -> 1)
    [] dma_init_task = None /\ pr_ctrl_task # None ->
         IF pr_ctrl_task = BATCH_SIZE THEN b0.amt_query_per_iter ELSE 1
    [] OTHER -> 0

(* Mutant: the task is reported finished a state too early. *)
DmaFin_InResp == axi_state = "RESP" /\ dma_init_task # None

(* dma_fin_task # 0 and pr_ctrl_fin_task # 0: the DMA task goes first. *)
DmaFin == axi_state = "UNLOCK" /\ dma_init_task # None
PrFin  == axi_state = "UNLOCK" /\ dma_init_task = None /\ pr_ctrl_task # None

(* ready: the slave answers on the channel the writer is waiting on. *)
AxiStep(ready) ==
  \/ /\ axi_state = "IDLE"
     /\ axi_state' = IF dma_init_task # None \/ pr_ctrl_task # None
                     THEN "WADDR" ELSE "IDLE"
  \/ axi_state = "WADDR"  /\ axi_state' = IF ready THEN "WDATA" ELSE "WADDR"
  \/ axi_state = "WDATA"  /\ axi_state' = IF ready THEN "RESP" ELSE "WDATA"
  \/ axi_state = "RESP"   /\ axi_state' = IF ready THEN "UNLOCK" ELSE "RESP"
  \/ axi_state = "UNLOCK" /\ axi_state' = "IDLE"

-----------------------------------------------------------------------------
(* What the execution machine and the writer rely on, wherever they are used. *)

TasksOf(state) ==
  CASE state = "INITIALIZE_DMA" -> RESET_INTR_BEG .. RESET_INTR_END
    [] state = "SET_DMA_LOAD"   -> LOAD_TASK_BEG .. LOAD_TASK_END
    [] state = "SET_DMA_STORE"  -> STORE_TASK_BEG .. STORE_TASK_END
    [] OTHER -> {None}

(* A task is asked for exactly in the states that wait for it.             *)
TaskPhase ==
  /\ dma_init_task \in TasksOf(exec_state)
  /\ IF exec_state = "INITIALIZE_PR_CTRL" THEN pr_ctrl_task # None ELSE pr_ctrl_task = None

(* Nothing of a session is left: no machine moves without a command.        *)
EngineAtRest ==
  /\ recon_state = "SHUTDOWN" /\ exec_state = "SHUTDOWN" /\ axi_state = "IDLE"
  /\ dma_init_task = None /\ pr_ctrl_task = None
=============================================================================
