----------------------------- MODULE DfxMngCore -----------------------------
(***************************************************************************)
(* The DFX Manager Core (hw/ip_src/dfx_mng/dfx_mng_core.v).                 *)
(*                                                                         *)
(* The module is one synchronous block: every register changes at the same *)
(* clock edge, from the values all registers and wires had before it.  A   *)
(* step of the model is therefore one clock edge, and each always block of *)
(* the source is one conjunct of it: MainStep, ReconStep, ExecStep,        *)
(* Bank0Step and Bank1Step.  Wires are state functions (AllSync,           *)
(* dfx_rm_program, ...); inputs of the block are parameters of the steps.  *)
(*                                                                         *)
(* Data abstraction: a bit mask over streamers or over reconfigurable      *)
(* modules (RMs) is the set of its one bits; a one-hot task register is    *)
(* the number of its bit, or None when it is zero; addresses and sizes are *)
(* numbers modulo AddrMod, the query counters numbers modulo QueryMod (the *)
(* register widths).  The profiling counters are left out.                 *)
(***************************************************************************)
EXTENDS Naturals

CONSTANTS
  Slot,          \* rows of bank 1, one per session; START begins at row 0
  Stream,        \* bits of the stream masks; bit 0 is the DMA
  Region,        \* reconfigurable regions
  RM,            \* bits of the RM select fields
  RegionOf,      \* the region an RM is built for: [RM -> Region]
  AddrMod,       \* 2^32 in the code
  QueryMod,      \* 2^BANK0_QUERY_BIT_LEN in the code
  None           \* "no bit set" of a one-hot register, "no request" of a port

DMA == 0                                  \* the stream bit of the DMA

Addr  == 0 .. (AddrMod - 1)
Query == 0 .. (QueryMod - 1)

SlotRow == [ src_addr : Addr, src_size : Addr, des_addr : Addr, des_size : Addr,
             recon_select : SUBSET RM,     exec_select : SUBSET RM,
             load_mask    : SUBSET Stream, store_mask  : SUBSET Stream,
             complete_mask : SUBSET Stream, next_session : Slot ]

Config == [ last_session : Slot, amt_query : Query, amt_query_per_iter : Query,
            intr_ena : BOOLEAN ]

ASSUME CoreAssumption ==
  /\ 0 \in Slot
  /\ 0 \in Stream
  /\ RM \subseteq Nat
  /\ RegionOf \in [RM -> Region]
  /\ AddrMod \in Nat \ {0}
  /\ QueryMod \in Nat \ {0}
  /\ None \notin Nat
  /\ None \notin Slot /\ None \notin Config /\ None \notin [row : Slot, new : SlotRow]

MainState  == {"SHUTDOWN", "PROCESS", "PRE_SHUTDOWN"}
ReconState == {"SHUTDOWN", "REPROG", "W4SLAVERESET", "W4SLAVEOP", "FIN_SYNC"}
ExecState  == {"SHUTDOWN", "PR_CTRL_REQ_SKIP_CHECK", "INITIALIZE_PR_CTRL",
               "CLEAR_MGS", "INITIALIZE_MGS", "INITIALIZE_DMA", "SET_DMA_LOAD",
               "SET_DMA_STORE", "TRIGGERING", "WAIT4FIN", "FIN_SYNC"}

(* Bit numbers of the two task registers. *)
RESET_INTR_BEG == 0
RESET_INTR_END == 1
LOAD_TASK_BEG  == 2
LOAD_TASK_END  == 4
STORE_TASK_BEG == 5
STORE_TASK_END == 7
BATCH_SIZE     == 0
AP_START       == 1
DmaTask == 0 .. 7
PrTask  == 0 .. 1

(* What the PS can write to CTRL_REG; a cycle without a write is None. *)
Cmd == {"CLEAR", "SHUTDOWN", "START"}

ASSUME NoneIsNoCommand == None \notin Cmd

VARIABLES
  main_state, recon_state, exec_state,    \* the three state machines
  b0,                  \* bank 0, the registers the PS configures
  cur_query,           \* queries finished in this run
  intr_status,         \* the interrupt line to the PS
  b1,                  \* bank 1, the session table
  b1_read_indexer,     \* the session being run (or the row the PS reads)
  read_val,            \* bank 1's read port: row b1_read_indexer, one edge late
  dma_init_task,       \* the task asked of the M_AXI writer for the DMA
  pr_ctrl_task         \* the task asked of it for the accelerator's PR ctrl IP

fsm_vars  == <<main_state, recon_state, exec_state>>
bank_vars == <<b0, b1, read_val>>
task_vars == <<dma_init_task, pr_ctrl_task>>
core_vars == <<fsm_vars, bank_vars, task_vars, cur_query, intr_status, b1_read_indexer>>

CoreTypeOK ==
  /\ main_state \in MainState
  /\ recon_state \in ReconState
  /\ exec_state \in ExecState
  /\ b0 \in Config
  /\ cur_query \in Query
  /\ intr_status \in BOOLEAN
  /\ b1 \in [Slot -> SlotRow]
  /\ b1_read_indexer \in Slot
  /\ read_val \in SlotRow
  /\ dma_init_task \in DmaTask \cup {None}
  /\ pr_ctrl_task \in PrTask \cup {None}

-----------------------------------------------------------------------------
(* Wires. *)

(* Mutant: the barrier looks at the execution part only. *)
AllSync_ExecOnly == exec_state = "FIN_SYNC"

AllSync == recon_state = "FIN_SYNC" /\ exec_state = "FIN_SYNC"

Pulse(in_state, set) == IF main_state = "PROCESS" /\ in_state THEN set ELSE {}

dfx_stream_store_reset == Pulse(exec_state = "CLEAR_MGS", read_val.store_mask)
dfx_stream_load_reset  == Pulse(exec_state = "CLEAR_MGS", read_val.load_mask)
dfx_stream_store_init  == Pulse(exec_state = "INITIALIZE_MGS", read_val.store_mask)
dfx_stream_load_init   == Pulse(exec_state = "INITIALIZE_MGS", read_val.load_mask)
dfx_rm_program         == Pulse(recon_state = "REPROG", read_val.recon_select)

(* rm_nreset: the regions whose (active low) reset is released. *)
NresetCurrent(rm_nreset) ==
  \E m \in read_val.recon_select : RegionOf[m] \in rm_nreset

(* A one-hot register shifted left by one. *)
ShiftDma(t) == IF t + 1 \in DmaTask THEN t + 1 ELSE None
ShiftPr(t)  == IF t + 1 \in PrTask  THEN t + 1 ELSE None

-----------------------------------------------------------------------------
(* The main state machine.  A command takes the place of the state's own   *)
(* transition for that edge.  rd is the row a PS read asks for.            *)

MainClear ==
  /\ main_state' = "SHUTDOWN"
  /\ b1_read_indexer' = 0
  /\ cur_query' = 0
  /\ UNCHANGED intr_status

MainShutdownCmd ==
  /\ main_state' = "SHUTDOWN"
  /\ UNCHANGED <<b1_read_indexer, cur_query, intr_status>>

(* Mutant: START does not return to row 0. *)
MainStart_KeepsRow ==
  /\ main_state' = "PROCESS"
  /\ intr_status' = FALSE
  /\ cur_query' = 0
  /\ UNCHANGED b1_read_indexer

MainStart ==
  /\ main_state' = "PROCESS"
  /\ intr_status' = FALSE
  /\ b1_read_indexer' = 0
  /\ cur_query' = 0

MainIdle(rd) ==
  /\ main_state = "SHUTDOWN"
  /\ b1_read_indexer' = IF rd = None THEN b1_read_indexer ELSE rd
  /\ cur_query' = 0
  /\ UNCHANGED <<main_state, intr_status>>

(* Mutant: the session ends when either part has finished. *)
MainProcess_Either ==
  /\ main_state = "PROCESS"
  /\ main_state' = IF recon_state = "FIN_SYNC" \/ exec_state = "FIN_SYNC"
                   THEN "PRE_SHUTDOWN" ELSE "PROCESS"
  /\ UNCHANGED <<b1_read_indexer, cur_query, intr_status>>

MainProcess ==
  /\ main_state = "PROCESS"
  /\ main_state' = IF AllSync THEN "PRE_SHUTDOWN" ELSE "PROCESS"
  /\ UNCHANGED <<b1_read_indexer, cur_query, intr_status>>

NextQuery == (cur_query + b0.amt_query_per_iter) % QueryMod
RoundEnds == b0.last_session = b1_read_indexer
(* Mutant: the budget is compared before the round is counted. *)
RunEnds_OneRoundLate == RoundEnds /\ cur_query = b0.amt_query
RunEnds == RoundEnds /\ NextQuery = b0.amt_query

MainPreShutdown ==
  /\ main_state = "PRE_SHUTDOWN"
  /\ main_state' = IF RunEnds THEN "SHUTDOWN" ELSE "PROCESS"
  /\ b1_read_indexer' = read_val.next_session
  /\ cur_query' = IF RoundEnds THEN NextQuery ELSE cur_query
  /\ intr_status' = (intr_status \/ (RunEnds /\ b0.intr_ena))

(* Mutant: PS reads move the row outside SHUTDOWN too. *)
MainStep_ReadsAnyTime(cmd, rd) ==
  \/ cmd = "CLEAR"    /\ MainClear
  \/ cmd = "SHUTDOWN" /\ MainShutdownCmd
  \/ cmd = "START"    /\ MainStart
  \/ cmd = None /\ (MainIdle(rd) \/ MainProcess \/ MainPreShutdown)
  \/ /\ cmd = None /\ rd # None /\ main_state = "PROCESS"
     /\ b1_read_indexer' = rd
     /\ UNCHANGED <<main_state, cur_query, intr_status>>

MainStep(cmd, rd) ==
  \/ cmd = "CLEAR"    /\ MainClear
  \/ cmd = "SHUTDOWN" /\ MainShutdownCmd
  \/ cmd = "START"    /\ MainStart
  \/ cmd = None /\ (MainIdle(rd) \/ MainProcess \/ MainPreShutdown)

-----------------------------------------------------------------------------
(* The two sub-machines run whatever the main state is.  START assigns     *)
(* SHUTDOWN to them too, but in an earlier statement of the same always    *)
(* block: where the machine's own case assigns a state, that one wins.     *)

AfterStart(cmd, state) == IF cmd = "START" THEN "SHUTDOWN" ELSE state

(* Mutant: an empty selection does not skip the wait for the region. *)
ReconAdvances_NoSkip(rm_nreset) ==
  \/ /\ recon_state = "SHUTDOWN" /\ main_state = "PROCESS"
     /\ recon_state' = "REPROG"
  \/ /\ recon_state = "REPROG"
     /\ recon_state' = "W4SLAVERESET"
  \/ /\ recon_state = "W4SLAVERESET" /\ ~NresetCurrent(rm_nreset)
     /\ recon_state' = "W4SLAVEOP"
  \/ /\ recon_state = "W4SLAVEOP" /\ NresetCurrent(rm_nreset)
     /\ recon_state' = "FIN_SYNC"
  \/ /\ recon_state = "FIN_SYNC" /\ AllSync
     /\ recon_state' = "SHUTDOWN"

(* Mutant: the region's reset is not waited for. *)
ReconAdvances_NoReset(rm_nreset) ==
  \/ /\ recon_state = "SHUTDOWN" /\ main_state = "PROCESS"
     /\ recon_state' = "REPROG"
  \/ /\ recon_state = "REPROG"
     /\ recon_state' = IF read_val.recon_select = {} THEN "FIN_SYNC" ELSE "W4SLAVEOP"
  \/ /\ recon_state = "W4SLAVEOP" /\ NresetCurrent(rm_nreset)
     /\ recon_state' = "FIN_SYNC"
  \/ /\ recon_state = "FIN_SYNC" /\ AllSync
     /\ recon_state' = "SHUTDOWN"

ReconAdvances(rm_nreset) ==
  \/ /\ recon_state = "SHUTDOWN" /\ main_state = "PROCESS"
     /\ recon_state' = "REPROG"
  \/ /\ recon_state = "REPROG" /\ read_val.recon_select = {}
     /\ recon_state' = "FIN_SYNC"
  \/ /\ recon_state = "REPROG" /\ read_val.recon_select # {}
     /\ recon_state' = "W4SLAVERESET"
  \/ /\ recon_state = "W4SLAVERESET" /\ ~NresetCurrent(rm_nreset)
     /\ recon_state' = "W4SLAVEOP"
  \/ /\ recon_state = "W4SLAVEOP" /\ NresetCurrent(rm_nreset)
     /\ recon_state' = "FIN_SYNC"
  \/ /\ recon_state = "FIN_SYNC" /\ AllSync
     /\ recon_state' = "SHUTDOWN"

ReconWaits(rm_nreset) ==
  \/ recon_state = "SHUTDOWN" /\ main_state # "PROCESS"
  \/ recon_state = "W4SLAVERESET" /\ NresetCurrent(rm_nreset)
  \/ recon_state = "W4SLAVEOP" /\ ~NresetCurrent(rm_nreset)
  \/ recon_state = "FIN_SYNC" /\ ~AllSync

ReconStep(cmd, rm_nreset) ==
  \/ cmd = "CLEAR" /\ recon_state' = "SHUTDOWN"
  \/ cmd # "CLEAR" /\ ReconAdvances(rm_nreset)
  \/ /\ cmd # "CLEAR" /\ ReconWaits(rm_nreset)
     /\ recon_state' = AfterStart(cmd, recon_state)

-----------------------------------------------------------------------------
(* The execution sub-machine.  dma_fin and pr_fin say that the M_AXI       *)
(* writer reports the current task of that register finished.              *)

ExecGoes(from, to) == exec_state = from /\ exec_state' = to

(* Mutant: any subset of the stores is enough. *)
ExecMoves_AnySubset ==
  \/ ExecGoes("SHUTDOWN", "PR_CTRL_REQ_SKIP_CHECK") /\ main_state = "PROCESS"
  \/ ExecGoes("PR_CTRL_REQ_SKIP_CHECK", "FIN_SYNC") /\ read_val.exec_select = {}
  \/ ExecGoes("CLEAR_MGS", "INITIALIZE_MGS")
  \/ ExecGoes("TRIGGERING", "WAIT4FIN")
  \/ /\ ExecGoes("WAIT4FIN", "FIN_SYNC")
     /\ read_val.complete_mask \subseteq read_val.store_mask
  \/ ExecGoes("FIN_SYNC", "SHUTDOWN") /\ AllSync

(* One-edge states and the waits on the other machines: no task changes. *)
ExecMoves ==
  \/ ExecGoes("SHUTDOWN", "PR_CTRL_REQ_SKIP_CHECK") /\ main_state = "PROCESS"
  \/ ExecGoes("PR_CTRL_REQ_SKIP_CHECK", "FIN_SYNC") /\ read_val.exec_select = {}
  \/ ExecGoes("CLEAR_MGS", "INITIALIZE_MGS")
  \/ ExecGoes("TRIGGERING", "WAIT4FIN")
  \/ /\ ExecGoes("WAIT4FIN", "FIN_SYNC")
     /\ read_val.store_mask = read_val.complete_mask
  \/ ExecGoes("FIN_SYNC", "SHUTDOWN") /\ AllSync

(* States that start, or finish, a sequence of PR ctrl writes. *)
ExecPrMoves(pr_fin) ==
  \/ /\ ExecGoes("PR_CTRL_REQ_SKIP_CHECK", "INITIALIZE_PR_CTRL")
     /\ read_val.exec_select # {}
     /\ pr_ctrl_task' = BATCH_SIZE
  \/ /\ ExecGoes("INITIALIZE_PR_CTRL", "CLEAR_MGS")
     /\ pr_fin /\ pr_ctrl_task = AP_START
     /\ pr_ctrl_task' = None

(* Mutant: the store sequence begins one task late. *)
ExecToStoreOrTrigger_Late ==
  \/ /\ DMA \in read_val.store_mask
     /\ exec_state' = "SET_DMA_STORE" /\ dma_init_task' = STORE_TASK_BEG + 1
  \/ /\ DMA \notin read_val.store_mask
     /\ exec_state' = "TRIGGERING" /\ dma_init_task' = None

(* Where a finished sequence of DMA writes leads. *)
ExecToStoreOrTrigger ==
  \/ /\ DMA \in read_val.store_mask
     /\ exec_state' = "SET_DMA_STORE" /\ dma_init_task' = STORE_TASK_BEG
  \/ /\ DMA \notin read_val.store_mask
     /\ exec_state' = "TRIGGERING" /\ dma_init_task' = None

ExecDmaMoves(dma_fin) ==
  \/ ExecGoes("INITIALIZE_MGS", "INITIALIZE_DMA") /\ dma_init_task' = RESET_INTR_BEG
  \/ /\ exec_state = "INITIALIZE_DMA" /\ dma_fin /\ dma_init_task = RESET_INTR_END
     /\ \/ /\ DMA \in read_val.load_mask
           /\ exec_state' = "SET_DMA_LOAD" /\ dma_init_task' = LOAD_TASK_BEG
        \/ DMA \notin read_val.load_mask /\ ExecToStoreOrTrigger
  \/ /\ exec_state = "SET_DMA_LOAD" /\ dma_fin /\ dma_init_task = LOAD_TASK_END
     /\ ExecToStoreOrTrigger
  \/ /\ ExecGoes("SET_DMA_STORE", "TRIGGERING")
     /\ dma_fin /\ dma_init_task = STORE_TASK_END
     /\ dma_init_task' = None

LastDmaTask == [ INITIALIZE_DMA |-> RESET_INTR_END, SET_DMA_LOAD |-> LOAD_TASK_END,
                 SET_DMA_STORE  |-> STORE_TASK_END ]

(* The state does not change; within a sequence the next task may start. *)
ExecNextPrTask(pr_fin) ==
  /\ exec_state = "INITIALIZE_PR_CTRL" /\ pr_fin /\ pr_ctrl_task # AP_START
  /\ pr_ctrl_task' = ShiftPr(pr_ctrl_task)
  /\ UNCHANGED dma_init_task

ExecNextDmaTask(dma_fin) ==
  /\ exec_state \in DOMAIN LastDmaTask /\ dma_fin
  /\ dma_init_task # LastDmaTask[exec_state]
  /\ dma_init_task' = ShiftDma(dma_init_task)
  /\ UNCHANGED pr_ctrl_task

ExecWaits(dma_fin, pr_fin) ==
  \/ exec_state = "SHUTDOWN" /\ main_state # "PROCESS"
  \/ exec_state = "INITIALIZE_PR_CTRL" /\ ~pr_fin
  \/ exec_state \in DOMAIN LastDmaTask /\ ~dma_fin
  \/ exec_state = "WAIT4FIN" /\ read_val.store_mask # read_val.complete_mask
  \/ exec_state = "FIN_SYNC" /\ ~AllSync

ExecStep(cmd, dma_fin, pr_fin) ==
  \/ /\ cmd = "CLEAR"
     /\ exec_state' = "SHUTDOWN" /\ dma_init_task' = None /\ pr_ctrl_task' = None
  \/ cmd # "CLEAR" /\ ExecMoves /\ UNCHANGED task_vars
  \/ cmd # "CLEAR" /\ ExecPrMoves(pr_fin) /\ UNCHANGED dma_init_task
  \/ cmd # "CLEAR" /\ ExecDmaMoves(dma_fin) /\ UNCHANGED pr_ctrl_task
  \/ /\ cmd # "CLEAR"
     /\ exec_state' = AfterStart(cmd, exec_state)
     /\ \/ ExecNextPrTask(pr_fin)
        \/ ExecNextDmaTask(dma_fin)
        \/ ExecWaits(dma_fin, pr_fin) /\ UNCHANGED task_vars

-----------------------------------------------------------------------------
(* The register banks.  wr0 and wr1 are the PS's write requests: the new   *)
(* bank 0, and a row of bank 1 with its new contents.  They are taken only *)
(* in SHUTDOWN; anywhere else the write is lost.                           *)

(* Mutant: bank 0 is writable in every state. *)
Bank0Step_AnyTime(wr0) == b0' = IF wr0 # None THEN wr0 ELSE b0

Bank0Step(wr0) ==
  b0' = IF wr0 # None /\ main_state = "SHUTDOWN" THEN wr0 ELSE b0

(* Mutant: the destination address does not advance. *)
Bank1Step_SameDestination(wr1, stream_fin) ==
  /\ read_val' = b1[b1_read_indexer]
  /\ \/ main_state = "SHUTDOWN" /\ wr1 = None /\ UNCHANGED b1
     \/ /\ main_state = "SHUTDOWN" /\ wr1 # None
        /\ b1' = [b1 EXCEPT ![wr1.row] = wr1.new]
     \/ /\ main_state = "PROCESS"
        /\ b1' = [b1 EXCEPT ![b1_read_indexer].complete_mask = @ \cup stream_fin]
     \/ /\ main_state = "PRE_SHUTDOWN"
        /\ b1' = [b1 EXCEPT ![b1_read_indexer].src_addr =
                               (read_val.src_addr + read_val.src_size) % AddrMod]

(* In PROCESS the finished streamers are added to the session's            *)
(* COMPLETE_MASK; no hardware step removes them.  In PRE_SHUTDOWN the DMA  *)
(* addresses move on by the size just used.                                *)
Bank1Step(wr1, stream_fin) ==
  /\ read_val' = b1[b1_read_indexer]
  /\ \/ /\ main_state = "SHUTDOWN" /\ wr1 = None
        /\ UNCHANGED b1
     \/ /\ main_state = "SHUTDOWN" /\ wr1 # None
        /\ b1' = [b1 EXCEPT ![wr1.row] = wr1.new]
     \/ /\ main_state = "PROCESS"
        /\ b1' = [b1 EXCEPT ![b1_read_indexer].complete_mask = @ \cup stream_fin]
     \/ /\ main_state = "PRE_SHUTDOWN"
        /\ b1' = [b1 EXCEPT
                    ![b1_read_indexer].src_addr =
                        (read_val.src_addr + read_val.src_size) % AddrMod,
                    ![b1_read_indexer].des_addr =
                        (read_val.des_addr + read_val.des_size) % AddrMod]

(* Hardware reset: the state machines and INTR_ENA; bank 1 is not reset.   *)
CoreReset ==
  /\ main_state' = "SHUTDOWN" /\ recon_state' = "SHUTDOWN" /\ exec_state' = "SHUTDOWN"
  /\ intr_status' = FALSE /\ b1_read_indexer' = 0 /\ cur_query' = 0
  /\ dma_init_task' = None /\ pr_ctrl_task' = None
  /\ b0' = [b0 EXCEPT !.intr_ena = FALSE]
=============================================================================
