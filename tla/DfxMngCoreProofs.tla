-------------------------- MODULE DfxMngCoreProofs --------------------------
(***************************************************************************)
(* The core and its writer, for whatever the PS and the driven parts put on *)
(* their inputs: type correctness, one lemma per always block, and how the *)
(* sub-machines, their task registers and the writer move together.        *)
(***************************************************************************)
EXTENDS MAxiWrite, TLAPS

(* Sums taken at the width of a register fit in it.                         *)
LEMMA WidthKept == 
  ASSUME NEW n \in Nat \ {0}, NEW a \in Nat, NEW b \in Nat
  PROVE  (a + b) % n \in 0 .. (n - 1)
  OBVIOUS

LEMMA MainStepTyped ==
  ASSUME CoreTypeOK, NEW cmd \in Cmd \cup {None}, NEW rd \in Slot \cup {None},
         MainStep(cmd, rd)
  PROVE  /\ main_state' \in MainState /\ b1_read_indexer' \in Slot
         /\ cur_query' \in Query /\ intr_status' \in BOOLEAN
<1> USE CoreAssumption DEF CoreTypeOK
<1>1. 0 \in Query
  BY DEF Query
<1>2. NextQuery \in Query
  <2>1. cur_query \in Nat /\ b0.amt_query_per_iter \in Nat /\ QueryMod \in Nat \ {0}
    BY DEF Query, Config
  <2> QED
    BY <2>1, WidthKept DEF NextQuery, Query
<1>3. RoundEnds \in BOOLEAN /\ RunEnds \in BOOLEAN /\ AllSync \in BOOLEAN
  BY DEF RoundEnds, RunEnds, AllSync
<1>4. read_val.next_session \in Slot /\ b0.intr_ena \in BOOLEAN
  BY DEF SlotRow, Config
<1>5. CASE MainClear
  BY <1>1, <1>5 DEF MainClear, MainState
<1>6. CASE MainShutdownCmd
  BY <1>6 DEF MainShutdownCmd, MainState
<1>7. CASE MainStart
  BY <1>1, <1>7 DEF MainStart, MainState
<1>8. CASE MainIdle(rd)
  BY <1>1, <1>8 DEF MainIdle, MainState
<1>9. CASE MainProcess
  BY <1>3, <1>9 DEF MainProcess, MainState
<1>10. CASE MainPreShutdown
  BY <1>2, <1>3, <1>4, <1>10 DEF MainPreShutdown, MainState
<1> QED
  BY <1>5, <1>6, <1>7, <1>8, <1>9, <1>10 DEF MainStep

LEMMA ReconStepTyped ==
  ASSUME CoreTypeOK, NEW cmd \in Cmd \cup {None}, NEW rm_nreset,
         ReconStep(cmd, rm_nreset)
  PROVE  recon_state' \in ReconState
BY DEF CoreTypeOK, ReconStep, ReconAdvances, ReconWaits, AfterStart, ReconState

LEMMA ExecStepTyped ==
  ASSUME CoreTypeOK, NEW cmd \in Cmd \cup {None}, NEW dma_fin, NEW pr_fin,
         ExecStep(cmd, dma_fin, pr_fin)
  PROVE  /\ exec_state' \in ExecState
         /\ dma_init_task' \in DmaTask \cup {None}
         /\ pr_ctrl_task' \in PrTask \cup {None}
<1> USE DEF CoreTypeOK, ExecState
<1>1. CASE cmd = "CLEAR" /\ exec_state' = "SHUTDOWN"
             /\ dma_init_task' = None /\ pr_ctrl_task' = None
  BY <1>1
<1>2. CASE ExecMoves /\ UNCHANGED task_vars
  BY <1>2 DEF ExecMoves, ExecGoes, task_vars
<1>3. CASE ExecPrMoves(pr_fin) /\ UNCHANGED dma_init_task
  BY <1>3 DEF ExecPrMoves, ExecGoes, PrTask, BATCH_SIZE
<1>4. CASE ExecDmaMoves(dma_fin) /\ UNCHANGED pr_ctrl_task
  BY <1>4 DEF ExecDmaMoves, ExecToStoreOrTrigger, ExecGoes, DmaTask,
              RESET_INTR_BEG, LOAD_TASK_BEG, STORE_TASK_BEG
<1>5. CASE /\ exec_state' = AfterStart(cmd, exec_state)
           /\ \/ ExecNextPrTask(pr_fin)
              \/ ExecNextDmaTask(dma_fin)
              \/ ExecWaits(dma_fin, pr_fin) /\ UNCHANGED task_vars
  <2>1. exec_state' \in ExecState
    BY <1>5 DEF AfterStart
  <2>2. CASE ExecNextPrTask(pr_fin)
    BY <2>1, <2>2 DEF ExecNextPrTask, ShiftPr
  <2>3. CASE ExecNextDmaTask(dma_fin)
    BY <2>1, <2>3 DEF ExecNextDmaTask, ShiftDma
  <2>4. CASE UNCHANGED task_vars
    BY <2>1, <2>4 DEF task_vars
  <2> QED
    BY <1>5, <2>2, <2>3, <2>4
<1> QED
  BY <1>1, <1>2, <1>3, <1>4, <1>5 DEF ExecStep

(* Without CLEAR, and with START only at rest, the sub-machines are back in  *)
(* SHUTDOWN at the edge at which both have finished, and only then.        *)
LEMMA SubmachinesReturn ==
  ASSUME NEW cmd, cmd # "CLEAR", NEW nreset, NEW dma_fin, NEW pr_fin,
         cmd = "START" => recon_state = "SHUTDOWN" /\ exec_state = "SHUTDOWN",
         ReconStep(cmd, nreset), ExecStep(cmd, dma_fin, pr_fin)
  PROVE  /\ recon_state' = "SHUTDOWN" <=>
              \/ recon_state = "SHUTDOWN" /\ main_state # "PROCESS"
              \/ recon_state = "FIN_SYNC" /\ AllSync
         /\ exec_state' = "SHUTDOWN" <=>
              \/ exec_state = "SHUTDOWN" /\ main_state # "PROCESS"
              \/ exec_state = "FIN_SYNC" /\ AllSync
<1>1. ReconAdvances(nreset) \/ (ReconWaits(nreset) /\ UNCHANGED recon_state)
  BY DEF ReconStep, AfterStart
<1>2. \/ ExecMoves \/ ExecPrMoves(pr_fin) \/ ExecDmaMoves(dma_fin)
      \/ UNCHANGED exec_state /\ exec_state = "SHUTDOWN" /\ main_state # "PROCESS"
      \/ UNCHANGED exec_state /\ exec_state # "SHUTDOWN" /\ ~AllSync
  BY DEF ExecStep, AfterStart, ExecNextPrTask, ExecNextDmaTask, ExecWaits, LastDmaTask, AllSync
<1>3. recon_state' = "SHUTDOWN" <=>
        \/ recon_state = "SHUTDOWN" /\ main_state # "PROCESS"
        \/ recon_state = "FIN_SYNC" /\ AllSync
  BY <1>1 DEF ReconAdvances, ReconWaits
<1>4. exec_state' = "SHUTDOWN" <=>
        \/ exec_state = "SHUTDOWN" /\ main_state # "PROCESS"
        \/ exec_state = "FIN_SYNC" /\ AllSync
  BY <1>2 DEF ExecMoves, ExecPrMoves, ExecDmaMoves, ExecToStoreOrTrigger, ExecGoes, AllSync
<1> QED
  BY <1>3, <1>4

LEMMA TaskPhaseStep ==
  ASSUME CoreTypeOK, TaskPhase, NEW cmd, NEW dma_fin, NEW pr_fin,
         cmd = "START" => exec_state = "SHUTDOWN",
         ExecStep(cmd, dma_fin, pr_fin)
  PROVE  TaskPhase'
<1> USE DEF TaskPhase, TasksOf, RESET_INTR_BEG, RESET_INTR_END, LOAD_TASK_BEG,
            LOAD_TASK_END, STORE_TASK_BEG, STORE_TASK_END, BATCH_SIZE, AP_START
<1>1. None \notin Nat
  BY CoreAssumption
<1>2. CASE exec_state' = "SHUTDOWN" /\ dma_init_task' = None /\ pr_ctrl_task' = None
  BY <1>2
<1>3. CASE ExecMoves /\ UNCHANGED task_vars
  BY <1>3 DEF ExecMoves, ExecGoes, task_vars
<1>4. CASE ExecPrMoves(pr_fin) /\ UNCHANGED dma_init_task
  BY <1>1, <1>4 DEF ExecPrMoves, ExecGoes
<1>5. CASE ExecDmaMoves(dma_fin) /\ UNCHANGED pr_ctrl_task
  BY <1>5 DEF ExecDmaMoves, ExecToStoreOrTrigger, ExecGoes
<1>6. CASE UNCHANGED exec_state /\ ExecNextPrTask(pr_fin)
  <2>1. pr_ctrl_task = 0
    BY <1>6 DEF ExecNextPrTask, CoreTypeOK, PrTask
  <2>2. pr_ctrl_task' = 1
    BY <1>6, <2>1 DEF ExecNextPrTask, ShiftPr, PrTask
  <2> QED
    BY <1>1, <1>6, <2>2 DEF ExecNextPrTask
<1>7. CASE UNCHANGED exec_state /\ ExecNextDmaTask(dma_fin)
  BY <1>1, <1>7 DEF ExecNextDmaTask, ShiftDma, DmaTask, LastDmaTask
<1>8. CASE UNCHANGED <<exec_state, task_vars>>
  BY <1>8 DEF task_vars
<1>9. \/ exec_state' = "SHUTDOWN" /\ dma_init_task' = None /\ pr_ctrl_task' = None
      \/ ExecMoves /\ UNCHANGED task_vars
      \/ ExecPrMoves(pr_fin) /\ UNCHANGED dma_init_task
      \/ ExecDmaMoves(dma_fin) /\ UNCHANGED pr_ctrl_task
      \/ UNCHANGED exec_state /\ ExecNextPrTask(pr_fin)
      \/ UNCHANGED exec_state /\ ExecNextDmaTask(dma_fin)
      \/ UNCHANGED <<exec_state, task_vars>>
  BY DEF ExecStep, AfterStart
<1> QED
  BY <1>2, <1>3, <1>4, <1>5, <1>6, <1>7, <1>8, <1>9

(* If the writer is busy only for a task, a task register changes only while *)
(* no write is in flight or as the write it asked for ends.                 *)
LEMMA TasksMoveAtRest ==
  ASSUME TaskPhase, dma_init_task = None /\ pr_ctrl_task = None => axi_state = "IDLE",
         NEW cmd, cmd # "CLEAR", cmd = "START" => exec_state = "SHUTDOWN",
         NEW ready, ExecStep(cmd, DmaFin, PrFin), AxiStep(ready)
  PROVE  UNCHANGED task_vars \/ axi_state' = "IDLE"
<1>1. CASE dma_init_task = None /\ pr_ctrl_task = None
  BY <1>1 DEF AxiStep
<1>2. CASE axi_state = "UNLOCK"
  BY <1>2 DEF AxiStep
<1>3. CASE (dma_init_task # None \/ pr_ctrl_task # None) /\ axi_state # "UNLOCK"
  <2>1. ~DmaFin /\ ~PrFin
    BY <1>3 DEF DmaFin, PrFin
  <2>2. exec_state \in {"INITIALIZE_PR_CTRL", "INITIALIZE_DMA", "SET_DMA_LOAD", "SET_DMA_STORE"}
    BY <1>3 DEF TaskPhase, TasksOf
  <2> QED
    BY <2>1, <2>2
       DEF ExecStep, ExecMoves, ExecPrMoves, ExecDmaMoves, ExecGoes, ExecNextPrTask,
           ExecNextDmaTask, task_vars
<1> QED
  BY <1>1, <1>2, <1>3

LEMMA BankStepsTyped ==
  ASSUME CoreTypeOK, NEW wr0 \in Config \cup {None},
         NEW wr1 \in [row : Slot, new : SlotRow] \cup {None},
         NEW fin \in SUBSET Stream, Bank1Step(wr1, fin)
  PROVE  /\ Bank0Step(wr0) => b0' \in Config
         /\ b1' \in [Slot -> SlotRow] /\ read_val' \in SlotRow
<1> USE CoreAssumption DEF CoreTypeOK
<1>1. Bank0Step(wr0) => b0' \in Config
  BY DEF Bank0Step
<1>2. read_val' \in SlotRow
  BY DEF Bank1Step
<1>3. CASE main_state = "SHUTDOWN"
  BY <1>1, <1>2, <1>3 DEF Bank1Step
<1>4. CASE main_state = "PROCESS"
  <2>1. [b1[b1_read_indexer] EXCEPT !.complete_mask = @ \cup fin] \in SlotRow
    <3>1. b1[b1_read_indexer] \in SlotRow
      OBVIOUS
    <3> QED
      BY <3>1 DEF SlotRow
  <2>2. b1' = [b1 EXCEPT ![b1_read_indexer] =
                 [b1[b1_read_indexer] EXCEPT !.complete_mask = @ \cup fin]]
    BY <1>4 DEF Bank1Step
  <2> QED
    BY <1>1, <1>2, <2>1, <2>2
<1>5. CASE main_state = "PRE_SHUTDOWN"
  <2> DEFINE src == (read_val.src_addr + read_val.src_size) % AddrMod
             des == (read_val.des_addr + read_val.des_size) % AddrMod
  <2>1. src \in Addr /\ des \in Addr
    <3>1. /\ AddrMod \in Nat \ {0}
          /\ read_val.src_addr \in Nat /\ read_val.src_size \in Nat
          /\ read_val.des_addr \in Nat /\ read_val.des_size \in Nat
      BY DEF Addr, SlotRow
    <3> QED
      BY <3>1, WidthKept DEF Addr
  <2>2. [b1[b1_read_indexer] EXCEPT !.src_addr = src, !.des_addr = des] \in SlotRow
    <3>1. b1[b1_read_indexer] \in SlotRow
      OBVIOUS
    <3> QED
      BY <2>1, <3>1 DEF SlotRow
  <2>3. b1' = [b1 EXCEPT ![b1_read_indexer] =
                 [b1[b1_read_indexer] EXCEPT !.src_addr = src, !.des_addr = des]]
    BY <1>5 DEF Bank1Step
  <2> QED
    BY <1>1, <1>2, <2>2, <2>3
<1> QED
  BY <1>3, <1>4, <1>5 DEF MainState
=============================================================================
