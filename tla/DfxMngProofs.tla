---------------------------- MODULE DfxMngProofs ----------------------------
(***************************************************************************)
(* Proofs about the DFX Manager for every session table, query budget and  *)
(* register width.  EngineInvariant is inductive; the safety properties    *)
(* below, and the implementation of SessionChain, follow from it.          *)
(***************************************************************************)
EXTENDS DfxMngProperties, DfxMngCoreProofs

-----------------------------------------------------------------------------
(* What a PS program can put on S_AXI, without its values.                  *)

PsRequest ==
  [ cmd : Cmd \cup {None}, wr0 : Config \cup {None},
    wr1 : [row : Slot, new : SlotRow] \cup {None} ]

(* A write of one field of a row gives a row.                               *)
LEMMA FieldWritesTyped ==
  ASSUME CoreTypeOK, NEW s \in Slot, NEW p \in Programs
  PROVE  FieldWrites(s, p) \subseteq SlotRow
<1>1. b1[s] \in SlotRow /\ p[s] \in SlotRow
  BY ProgramAssumption DEF CoreTypeOK
<1> QED
  BY <1>1, SMTT(60) DEF FieldWrites, SlotRow

LEMMA Bank0WritesTyped ==
  ASSUME CoreTypeOK
  PROVE  Bank0Writes \subseteq Config
<1>1. ASSUME NEW c \in Configs
      PROVE  { [b0 EXCEPT !.last_session = c.last_session],
               [b0 EXCEPT !.amt_query = c.amt_query],
               [b0 EXCEPT !.amt_query_per_iter = c.amt_query_per_iter],
               [b0 EXCEPT !.intr_ena = c.intr_ena] } \subseteq Config
  <2>1. b0 \in Config /\ c \in Config
    BY ProgramAssumption DEF CoreTypeOK
  <2> QED
    BY <2>1 DEF Config
<1> QED
  BY <1>1 DEF Bank0Writes

(* In one cycle the PS sends a command, or writes one register, or neither. *)
LEMMA PsRequestTyped ==
  ASSUME CoreTypeOK, NEW ps \in PsWrites \cup {NoWrite}
  PROVE  /\ ps \in PsRequest
         /\ ps.cmd # None => ps.wr0 = None /\ ps.wr1 = None
<1>1. CASE ps = NoWrite
  BY <1>1 DEF NoWrite, PsRequest
<1>2. CASE ps \in {[NoWrite EXCEPT !.cmd = c] : c \in PsCommands}
  BY <1>2, ProgramAssumption DEF NoWrite, PsRequest
<1>3. CASE ps \in {[NoWrite EXCEPT !.wr0 = w] : w \in Bank0Writes}
  BY <1>3, Bank0WritesTyped DEF NoWrite, PsRequest
<1>4. CASE ps \in {[NoWrite EXCEPT !.wr1 = w] : w \in Bank1Writes}
  <2>1. Bank1Writes \subseteq [row : Slot, new : SlotRow]
    BY FieldWritesTyped DEF Bank1Writes
  <2> QED
    BY <1>4, <2>1 DEF NoWrite, PsRequest
<1> QED
  BY <1>1, <1>2, <1>3, <1>4 DEF PsWrites

(* What can come from outside in one clock cycle, whatever the program is:  *)
(* at most one register write, and only stores in progress end.            *)
Feasible(in) ==
  /\ in.ps \in PsRequest
  /\ in.ps.cmd # None => in.ps.wr0 = None /\ in.ps.wr1 = None
  /\ in.rd \in Slot \cup {None}
  /\ in.ready \in BOOLEAN
  /\ in.done \subseteq storing
  /\ in.dma_done => dma.storing
  /\ in.reg \in Region \cup {None}

LEMMA InputsFeasible ==
  ASSUME TypeOK, NEW in \in Inputs
  PROVE  Feasible(in)
<1>1. /\ in.ps \in PsWrites \cup {NoWrite}
      /\ in.rd \in PsReads \cup {None}
      /\ in.ready \in {FALSE, AxiWaits}
      /\ in.done \in SUBSET storing
      /\ in.dma_done \in {FALSE, dma.storing}
      /\ in.reg \in Region \cup {None}
  BY DEF Inputs
<1>2. CoreTypeOK
  BY DEF TypeOK
<1>3. AxiWaits \in BOOLEAN
  BY DEF AxiWaits
<1> QED
  BY <1>1, <1>2, <1>3, PsRequestTyped, ProgramAssumption DEF Feasible

(* What the core sees of it.                                               *)
LEMMA InputsTyped ==
  ASSUME TypeOK, NEW in, Feasible(in)
  PROVE  /\ in.ps \in PsRequest
         /\ in.ps.cmd # None => in.ps.wr0 = None /\ in.ps.wr1 = None
         /\ in.rd \in Slot \cup {None}
         /\ in.ready \in BOOLEAN
         /\ in.done \subseteq Stream \ {DMA}
         /\ in.reg \in Region \cup {None}
BY DEF Feasible, TypeOK, EnvTypeOK

-----------------------------------------------------------------------------
(* Type correctness, one lemma per always block of the core and per part    *)
(* that it drives.                                                          *)

LEMMA InitTyped == Init => TypeOK
<1> SUFFICES ASSUME Init PROVE TypeOK
  OBVIOUS
<1>1. CoreTypeOK
  <2>0. b1 \in Programs /\ b0 \in Configs
    BY ProgramAssumption DEF Init
  <2>1. b0 \in Config /\ b1 \in [Slot -> SlotRow] /\ read_val \in SlotRow
    BY <2>0, CoreAssumption, ProgramAssumption DEF Init
  <2>2. 0 \in Query /\ 0 \in Slot
    BY CoreAssumption DEF Query
  <2> QED
    BY <2>1, <2>2 DEF Init, CoreTypeOK, MainState, ReconState, ExecState
<1>2. axi_state \in AxiState
  BY DEF Init, AxiState
<1>3. EnvTypeOK
  BY CoreAssumption DEF Init, EnvTypeOK, DmaIdle, DmaState
<1> QED
  BY <1>1, <1>2, <1>3 DEF TypeOK

LEMMA DmaStepTyped ==
  ASSUME TypeOK, NEW ready \in BOOLEAN, NEW dma_done, DmaStep(ready, dma_done)
  PROVE  dma' \in DmaState
<1>1. dma \in DmaState
  BY DEF TypeOK, EnvTypeOK
<1>2. ASSUME NEW reg PROVE DmaWritten(reg, WDATA) \in DmaState
  <2>1. WDATA \in Nat
    <3>1. /\ read_val.src_addr \in Nat /\ read_val.src_size \in Nat
          /\ read_val.des_addr \in Nat /\ read_val.des_size \in Nat
          /\ b0.amt_query_per_iter \in Nat
      BY CoreAssumption DEF TypeOK, CoreTypeOK, SlotRow, Config, Addr, Query
    <3> QED
      BY <3>1 DEF WDATA
  <2>2. (WDATA # 1) \in BOOLEAN /\ (WDATA = 1) \in BOOLEAN
    OBVIOUS
  <2> QED
    BY <1>1, <2>1, <2>2 DEF DmaWritten, DmaState
<1>3. [dma EXCEPT !.storing = FALSE, !.irq = TRUE] \in DmaState
  BY <1>1 DEF DmaState
<1> QED
  BY <1>1, <1>2, <1>3 DEF DmaStep

LEMMA DfxControllerStepTyped ==
  ASSUME TypeOK, NEW reg \in Region \cup {None}, DfxControllerStep(reg)
  PROVE  /\ rm_phase' \in [Region -> {"UP", "LOADING", "RESET"}]
         /\ loaded' \in [Region -> RM \cup {None}]
         /\ triggered' \subseteq RM
<1>1. /\ rm_phase \in [Region -> {"UP", "LOADING", "RESET"}]
      /\ loaded \in [Region -> RM \cup {None}] /\ triggered \subseteq RM
  BY DEF TypeOK, EnvTypeOK
<1>2. dfx_rm_program \subseteq RM
  BY DEF TypeOK, CoreTypeOK, SlotRow, dfx_rm_program, Pulse
<1> QED
  BY <1>1, <1>2 DEF DfxControllerStep

LEMMA TickTyped ==
  ASSUME TypeOK, NEW in, Feasible(in), Tick(in)
  PROVE  TypeOK'
<1> USE DEF TypeOK
<1>1. /\ in.ps.cmd \in Cmd \cup {None} /\ in.ps.wr0 \in Config \cup {None}
      /\ in.ps.wr1 \in [row : Slot, new : SlotRow] \cup {None}
      /\ in.rd \in Slot \cup {None} /\ in.ready \in BOOLEAN
      /\ in.done \subseteq Stream \ {DMA} /\ in.reg \in Region \cup {None}
  BY InputsTyped DEF PsRequest
<1>2. StreamFin(in.done) \in SUBSET Stream
  BY <1>1, CoreAssumption DEF StreamFin, DMA
<1>3. CoreTypeOK'
  <2>1. /\ main_state' \in MainState /\ b1_read_indexer' \in Slot
        /\ cur_query' \in Query /\ intr_status' \in BOOLEAN
    BY <1>1, MainStepTyped DEF Tick
  <2>2. recon_state' \in ReconState
    BY <1>1, ReconStepTyped DEF Tick
  <2>3. /\ exec_state' \in ExecState /\ dma_init_task' \in DmaTask \cup {None}
        /\ pr_ctrl_task' \in PrTask \cup {None}
    BY <1>1, ExecStepTyped DEF Tick
  <2>4. b0' \in Config /\ b1' \in [Slot -> SlotRow] /\ read_val' \in SlotRow
    BY <1>1, <1>2, BankStepsTyped DEF Tick
  <2> QED
    BY <2>1, <2>2, <2>3, <2>4 DEF CoreTypeOK
<1>4. axi_state' \in AxiState
  BY DEF Tick, AxiStep, AxiState
<1>5. EnvTypeOK'
  <2>1. dma' \in DmaState
    BY <1>1, DmaStepTyped DEF Tick
  <2>2. storing' \subseteq Stream \ {DMA}
    BY DEF Tick, StreamersStep, dfx_stream_store_init, Pulse, EnvTypeOK, CoreTypeOK, SlotRow
  <2>3. /\ rm_phase' \in [Region -> {"UP", "LOADING", "RESET"}]
        /\ loaded' \in [Region -> RM \cup {None}]
        /\ triggered' \subseteq RM
    BY <1>1, DfxControllerStepTyped DEF Tick
  <2> QED
    BY <2>1, <2>2, <2>3 DEF EnvTypeOK
<1> QED
  BY <1>3, <1>4, <1>5

LEMMA HardwareResetTyped ==
  ASSUME TypeOK, HardwareReset
  PROVE  TypeOK'
<1> USE DEF TypeOK
<1>1. CoreTypeOK'
  <2>1. b1' \in [Slot -> SlotRow] /\ read_val' \in SlotRow
    <3>1. StreamFin({}) \in SUBSET Stream
      BY CoreAssumption DEF StreamFin, DMA
    <3>2. None \in Config \cup {None} /\ None \in [row : Slot, new : SlotRow] \cup {None}
      OBVIOUS
    <3> QED
      BY <3>1, <3>2, BankStepsTyped DEF HardwareReset
  <2>2. b0' \in Config
    BY DEF HardwareReset, CoreReset, CoreTypeOK, Config
  <2>3. 0 \in Query /\ 0 \in Slot
    BY CoreAssumption DEF Query
  <2> QED
    BY <2>1, <2>2, <2>3
       DEF HardwareReset, CoreReset, CoreTypeOK, MainState, ReconState, ExecState
<1>2. axi_state' \in AxiState
  BY DEF HardwareReset, AxiState
<1>3. EnvTypeOK'
  BY DEF HardwareReset, EnvTypeOK, DmaIdle, DmaState
<1> QED
  BY <1>1, <1>2, <1>3

LEMMA PsResetsDmaTyped ==
  ASSUME TypeOK, PsResetsDma
  PROVE  TypeOK'
<1>1. DmaIdle \in DmaState
  BY DEF DmaIdle, DmaState
<1> QED
  BY <1>1 DEF PsResetsDma, TypeOK, CoreTypeOK, EnvTypeOK,
              core_vars, fsm_vars, bank_vars, task_vars

LEMMA StutterTyped ==
  ASSUME TypeOK, UNCHANGED vars
  PROVE  TypeOK'
BY DEF vars, core_vars, fsm_vars, bank_vars, task_vars, env_vars,
       TypeOK, CoreTypeOK, EnvTypeOK

(* Every register of the engine always holds a value of its width, for     *)
(* tables of any length and counters and addresses of any width.           *)
THEOREM TypeCorrect == Spec => []TypeOK
<1>1. TypeOK /\ [Next]_vars => TypeOK'
  BY TickTyped, InputsFeasible, HardwareResetTyped, PsResetsDmaTyped, StutterTyped DEF Next
<1> QED
  BY InitTyped, <1>1, PTL DEF Spec

-----------------------------------------------------------------------------
(* The inductive invariant.  Each lemma takes one conjunct through a clock  *)
(* edge: the one that CarefulStart allows, with any input.                  *)

(* START is given at rest, so at that edge the sub-machines do not move.    *)
LEMMA StartAtRest ==
  ASSUME NEW in, Feasible(in), CarefulStart(in.ps), Tick(in), in.ps.cmd = "START"
  PROVE  /\ EngineIdle /\ main_state' = "PROCESS"
         /\ recon_state' = "SHUTDOWN" /\ exec_state' = "SHUTDOWN"
BY NoneIsNoCommand
   DEF Cmd, CarefulStart, EngineIdle, Tick, MainStep, MainStart, MainClear, MainShutdownCmd,
       ReconStep, ReconAdvances, ReconWaits, AfterStart, AllSync,
       ExecStep, ExecMoves, ExecPrMoves, ExecDmaMoves, ExecNextPrTask,
       ExecNextDmaTask, ExecWaits, ExecGoes, LastDmaTask

(* Without START the main machine can only go on or stop.                   *)
LEMMA MainGoesOn ==
  ASSUME TypeOK, NEW in, Feasible(in), Tick(in), in.ps.cmd # "START", main_state' # "SHUTDOWN"
  PROVE  /\ in.ps.cmd = None
         /\ \/ main_state = "PROCESS" /\ main_state' = "PROCESS" /\ ~AllSync
            \/ main_state = "PROCESS" /\ main_state' = "PRE_SHUTDOWN" /\ AllSync
            \/ main_state = "PRE_SHUTDOWN" /\ main_state' = "PROCESS" /\ MainPreShutdown
         /\ main_state = "PROCESS" => UNCHANGED b1_read_indexer
BY InputsTyped, NoneIsNoCommand
   DEF Tick, MainStep, MainClear, MainShutdownCmd, MainIdle, MainProcess, MainPreShutdown,
       PsRequest, TypeOK, CoreTypeOK, MainState, Cmd

LEMMA LockstepKept ==
  ASSUME TypeOK, Lockstep, NEW in, Feasible(in), CarefulStart(in.ps), Tick(in)
  PROVE  Lockstep'
<1>1. CASE in.ps.cmd = "START"
  BY <1>1, StartAtRest DEF Lockstep
<1>2. CASE main_state' = "SHUTDOWN"
  BY <1>2 DEF Lockstep
<1>3. CASE in.ps.cmd # "START" /\ main_state' # "SHUTDOWN"
  <2>1. in.ps.cmd = None /\ None # "CLEAR" /\ None # "START"
    BY <1>3, MainGoesOn, NoneIsNoCommand DEF Cmd
  <2>2. ReconStep(in.ps.cmd, Released) /\ ExecStep(in.ps.cmd, DmaFin, PrFin)
    BY DEF Tick
  <2>3. /\ recon_state' = "SHUTDOWN" <=>
             \/ recon_state = "SHUTDOWN" /\ main_state # "PROCESS"
             \/ recon_state = "FIN_SYNC" /\ AllSync
        /\ exec_state' = "SHUTDOWN" <=>
             \/ exec_state = "SHUTDOWN" /\ main_state # "PROCESS"
             \/ exec_state = "FIN_SYNC" /\ AllSync
    BY <1>3, <2>1, <2>2, SubmachinesReturn
  <2> QED
    BY <1>3, <2>3, MainGoesOn DEF Lockstep, AllSync
<1> QED
  BY <1>1, <1>2, <1>3

LEMMA TaskPhaseKept ==
  ASSUME TypeOK, TaskPhase, NEW in, Feasible(in), CarefulStart(in.ps), Tick(in)
  PROVE  TaskPhase'
<1>1. in.ps.cmd = "START" => exec_state = "SHUTDOWN"
  BY StartAtRest DEF EngineIdle
<1>2. CoreTypeOK /\ ExecStep(in.ps.cmd, DmaFin, PrFin)
  BY DEF TypeOK, Tick
<1> QED
  BY <1>1, <1>2, TaskPhaseStep

(* While a session runs, bank 1 changes only in its COMPLETE_MASK.          *)
LEMMA ProcessKeepsSettings ==
  ASSUME TypeOK, NEW fin \in SUBSET Stream, main_state = "PROCESS", Bank1Step(None, fin)
  PROVE  /\ \A s \in Slot : Settings(b1'[s]) = Settings(b1[s])
         /\ b1[b1_read_indexer].complete_mask \subseteq b1'[b1_read_indexer].complete_mask
         /\ read_val' = b1[b1_read_indexer]
<1>1. /\ b1' = [b1 EXCEPT ![b1_read_indexer] =
                  [b1[b1_read_indexer] EXCEPT !.complete_mask = @ \cup fin]]
      /\ read_val' = b1[b1_read_indexer]
  BY DEF Bank1Step
<1>2. b1 \in [Slot -> SlotRow] /\ b1_read_indexer \in Slot
  BY DEF TypeOK, CoreTypeOK
<1>3. ASSUME NEW r \in SlotRow
      PROVE  /\ Settings([r EXCEPT !.complete_mask = @ \cup fin]) = Settings(r)
             /\ r.complete_mask \subseteq [r EXCEPT !.complete_mask = @ \cup fin].complete_mask
  BY DEF Settings, SlotRow
<1> QED
  BY <1>1, <1>2, <1>3

LEMMA ReadPortKept ==
  ASSUME TypeOK, Lockstep, NEW in, Feasible(in), CarefulStart(in.ps), Tick(in)
  PROVE  ReadPortCurrent'
<1>1. CASE in.ps.cmd = "START"
  BY <1>1, StartAtRest DEF ReadPortCurrent, InSession
<1>2. CASE main_state' = "SHUTDOWN"
  BY <1>2 DEF ReadPortCurrent, InSession
<1>3. CASE in.ps.cmd # "START" /\ main_state = "PROCESS" /\ main_state' # "SHUTDOWN"
  <2>1. in.ps.cmd = None /\ UNCHANGED b1_read_indexer
    BY <1>3, MainGoesOn
  <2>2. StreamFin(in.done) \in SUBSET Stream
    BY InputsTyped, CoreAssumption DEF StreamFin, DMA
  <2>3. Bank1Step(None, StreamFin(in.done))
    BY <1>3 DEF Tick, Bank1Step
  <2>4. b1_read_indexer \in Slot
    BY DEF TypeOK, CoreTypeOK
  <2> QED
    BY <1>3, <2>1, <2>2, <2>3, <2>4, ProcessKeepsSettings DEF ReadPortCurrent
<1>4. CASE in.ps.cmd # "START" /\ main_state # "PROCESS" /\ main_state' # "SHUTDOWN"
  <2>1. /\ in.ps.cmd = None /\ main_state = "PRE_SHUTDOWN" /\ main_state' = "PROCESS"
        /\ None # "CLEAR" /\ None # "START"
    BY <1>4, MainGoesOn, NoneIsNoCommand DEF Cmd
  <2>2. recon_state = "SHUTDOWN" /\ exec_state = "SHUTDOWN"
    BY <2>1 DEF Lockstep
  <2>3. recon_state' = "SHUTDOWN" /\ exec_state' = "SHUTDOWN"
    BY <2>1, <2>2 DEF Tick, ReconStep, ReconAdvances, ReconWaits, AfterStart,
       ExecStep, ExecMoves, ExecPrMoves, ExecDmaMoves, ExecNextPrTask, ExecNextDmaTask,
       ExecWaits, ExecGoes, LastDmaTask
  <2> QED
    BY <2>1, <2>3 DEF ReadPortCurrent, InSession
<1> QED
  BY <1>1, <1>2, <1>3, <1>4

(* During a run, a task register changes only while no write is in flight   *)
(* or as the write it asked for ends.                                       *)
LEMMA TasksChangeAtRest ==
  ASSUME TypeOK, TaskPhase, WriterServesTask, NEW in, Feasible(in), Tick(in),
         in.ps.cmd = None, main_state # "SHUTDOWN"
  PROVE  UNCHANGED task_vars \/ axi_state' = "IDLE"
<1>1. ExecStep(in.ps.cmd, DmaFin, PrFin) /\ AxiStep(in.ready)
  BY DEF Tick
<1>2. in.ps.cmd # "CLEAR" /\ in.ps.cmd # "START"
  BY NoneIsNoCommand DEF Cmd
<1> QED
  BY <1>1, <1>2, TasksMoveAtRest DEF WriterServesTask

LEMMA WriterServesTaskKept ==
  ASSUME TypeOK, Lockstep, TaskPhase, WriterServesTask,
         NEW in, Feasible(in), CarefulStart(in.ps), Tick(in)
  PROVE  WriterServesTask'
<1>1. CASE in.ps.cmd = "START"
  <2>1. dma_init_task = None /\ pr_ctrl_task = None /\ axi_state = "IDLE"
    BY <1>1, StartAtRest DEF EngineIdle, TaskPhase, TasksOf
  <2> QED
    BY <2>1 DEF WriterServesTask, Tick, AxiStep
<1>2. CASE main_state' = "SHUTDOWN"
  BY <1>2 DEF WriterServesTask
<1>3. CASE in.ps.cmd # "START" /\ main_state' # "SHUTDOWN"
  <2>1. in.ps.cmd = None /\ main_state # "SHUTDOWN"
    BY <1>3, MainGoesOn
  <2>2. CASE UNCHANGED task_vars
    BY <2>1, <2>2 DEF WriterServesTask, task_vars, Tick, AxiStep
  <2> QED
    BY <2>1, <2>2, TasksChangeAtRest DEF WriterServesTask
<1> QED
  BY <1>1, <1>2, <1>3

LEMMA WriteIsWholeKept ==
  ASSUME TypeOK, Lockstep, TaskPhase, WriterServesTask, ReadPortCurrent, WriteIsWhole,
         NEW in, Feasible(in), CarefulStart(in.ps), Tick(in)
  PROVE  WriteIsWhole'
<1>1. CASE in.ps.cmd = "START"
  <2>1. dma_init_task = None /\ pr_ctrl_task = None /\ axi_state = "IDLE"
    BY <1>1, StartAtRest DEF EngineIdle, TaskPhase, TasksOf
  <2> QED
    BY <2>1 DEF WriteIsWhole, Tick, AxiStep
<1>2. CASE main_state' # "PROCESS" \/ axi_state' \notin {"WDATA", "RESP", "UNLOCK"}
  BY <1>2 DEF WriteIsWhole
<1>3. CASE /\ in.ps.cmd # "START" /\ main_state' = "PROCESS"
           /\ axi_state' \in {"WDATA", "RESP", "UNLOCK"}
  <2>1. in.ps.cmd = None /\ main_state # "SHUTDOWN"
    BY <1>3, MainGoesOn
  <2>2. UNCHANGED task_vars
    BY <1>3, <2>1, TasksChangeAtRest
  <2>3. axi_state # "IDLE"
    BY <1>3 DEF Tick, AxiStep
  <2>4. dma_init_task # None \/ pr_ctrl_task # None
    BY <2>1, <2>3 DEF WriterServesTask
  <2>5. exec_state # "SHUTDOWN" /\ main_state = "PROCESS"
    BY <1>3, <2>4, MainGoesOn DEF TaskPhase, TasksOf, Lockstep
  <2>6. read_val'.exec_select = read_val.exec_select
    <3>1. Settings(read_val) = Settings(b1[b1_read_indexer])
      BY <2>5 DEF ReadPortCurrent, InSession
    <3>2. read_val' = b1[b1_read_indexer]
      BY DEF Tick, Bank1Step
    <3>3. /\ Settings(read_val).exec_select = read_val.exec_select
          /\ Settings(read_val').exec_select = read_val'.exec_select
      BY <3>2 DEF Settings, TypeOK, CoreTypeOK, SlotRow
    <3> QED
      BY <3>1, <3>2, <3>3
  <2>7. AWADDR' = AWADDR
    BY <2>2, <2>6 DEF AWADDR, task_vars
  <2>8. awaddr' = AWADDR
    BY <1>3, <2>5 DEF WriteIsWhole, Tick, AxiStep, InterconnectStep
  <2> QED
    BY <2>7, <2>8 DEF WriteIsWhole
<1> QED
  BY <1>1, <1>2, <1>3

LEMMA HardwareResetKeeps ==
  ASSUME EngineInvariant, HardwareReset
  PROVE  EngineInvariant'
<1>1. TypeOK'
  BY HardwareResetTyped DEF EngineInvariant
<1>2. /\ main_state' = "SHUTDOWN" /\ exec_state' = "SHUTDOWN"
      /\ dma_init_task' = None /\ pr_ctrl_task' = None
  BY DEF HardwareReset, CoreReset
<1>3. Lockstep' /\ WriterServesTask' /\ ReadPortCurrent' /\ WriteIsWhole'
  BY <1>2 DEF Lockstep, WriterServesTask, ReadPortCurrent, InSession, WriteIsWhole
<1>4. TaskPhase'
  BY <1>2 DEF TaskPhase, TasksOf
<1> QED
  BY <1>1, <1>3, <1>4 DEF EngineInvariant

(* The PS resets the DMA, or nothing happens: the engine is not touched.    *)
LEMMA UntouchedKeeps ==
  ASSUME EngineInvariant, TypeOK', UNCHANGED <<core_vars, axi_state, awaddr>>
  PROVE  EngineInvariant'
<1> USE DEF core_vars, fsm_vars, bank_vars, task_vars
<1>1. Lockstep' /\ TaskPhase' /\ WriterServesTask'
  BY DEF EngineInvariant, Lockstep, TaskPhase, WriterServesTask
<1>2. ReadPortCurrent'
  BY DEF EngineInvariant, ReadPortCurrent, InSession, Settings
<1>3. WriteIsWhole'
  BY DEF EngineInvariant, WriteIsWhole, AWADDR
<1> QED
  BY <1>1, <1>2, <1>3 DEF EngineInvariant

LEMMA TickKeeps ==
  ASSUME EngineInvariant, NEW in, Feasible(in), CarefulStart(in.ps), Tick(in)
  PROVE  EngineInvariant'
BY TickTyped, LockstepKept, TaskPhaseKept, WriterServesTaskKept, ReadPortKept,
   WriteIsWholeKept
   DEF EngineInvariant

LEMMA InitInvariant == Init => EngineInvariant
<1> SUFFICES ASSUME Init PROVE EngineInvariant
  OBVIOUS
<1>1. TypeOK
  BY InitTyped
<1>2. Lockstep /\ WriterServesTask /\ ReadPortCurrent /\ WriteIsWhole
  BY DEF Init, Lockstep, WriterServesTask, ReadPortCurrent, InSession, WriteIsWhole
<1>3. TaskPhase
  BY DEF Init, TaskPhase, TasksOf
<1> QED
  BY <1>1, <1>2, <1>3 DEF EngineInvariant

LEMMA NextKeeps == EngineInvariant /\ [Next]_vars => EngineInvariant'
<1> SUFFICES ASSUME EngineInvariant, [Next]_vars PROVE EngineInvariant'
  OBVIOUS
<1>1. ASSUME NEW in \in Inputs, CarefulStart(in.ps), Tick(in) PROVE EngineInvariant'
  BY <1>1, TickKeeps, InputsFeasible DEF EngineInvariant
<1>2. CASE PsResetsDma
  <2>1. TypeOK'
    BY <1>2, PsResetsDmaTyped DEF EngineInvariant
  <2> QED
    BY <1>2, <2>1, UntouchedKeeps DEF PsResetsDma
<1>3. CASE HardwareReset
  BY <1>3, HardwareResetKeeps
<1>4. CASE UNCHANGED vars
  <2>1. TypeOK'
    BY <1>4, StutterTyped DEF EngineInvariant
  <2> QED
    BY <1>4, <2>1, UntouchedKeeps DEF vars, env_vars
<1> QED
  BY <1>1, <1>2, <1>3, <1>4 DEF Next

(* The engine's machines, task registers, read port and writer agree, at    *)
(* every clock edge, on the session being run and on the write in flight.   *)
THEOREM InvariantHolds == Spec => []EngineInvariant
BY InitInvariant, NextKeeps, PTL DEF Spec

(* dfx_mng_core.v reads bank 1 through a register that lags its address by  *)
(* one edge; no machine ever acts on the row of an earlier session.         *)
THEOREM ReadPortIsCurrent == Spec => []ReadPortCurrent
<1>1. EngineInvariant => ReadPortCurrent
  BY DEF EngineInvariant
<1> QED
  BY InvariantHolds, <1>1, PTL

(* m_axi_write.v takes address and data straight from the task registers;   *)
(* within a run they never change under a write that has begun.             *)
THEOREM WritesAreWhole == Spec => []WriteIsWhole
<1>1. EngineInvariant => WriteIsWhole
  BY DEF EngineInvariant
<1> QED
  BY InvariantHolds, <1>1, PTL

-----------------------------------------------------------------------------
(* Action properties.                                                       *)

(* What the end of a session starts from.                                   *)
LEMMA PreShutdownAtRest ==
  ASSUME EngineInvariant, main_state = "PRE_SHUTDOWN"
  PROVE  /\ recon_state = "SHUTDOWN" /\ exec_state = "SHUTDOWN"
         /\ axi_state = "IDLE" /\ dma_init_task = None /\ pr_ctrl_task = None
         /\ Settings(read_val) = Settings(b1[b1_read_indexer])
BY DEF EngineInvariant, Lockstep, TaskPhase, TasksOf, WriterServesTask, ReadPortCurrent,
       InSession

(* The fields of two rows with the same settings are the same.              *)
LEMMA SettingsAgree ==
  ASSUME NEW r \in SlotRow, NEW s \in SlotRow, Settings(r) = Settings(s)
  PROVE  /\ r.src_addr = s.src_addr /\ r.src_size = s.src_size
         /\ r.des_addr = s.des_addr /\ r.des_size = s.des_size
         /\ r.next_session = s.next_session
<1>1. ASSUME NEW q \in SlotRow
      PROVE  /\ Settings(q).src_addr = q.src_addr /\ Settings(q).src_size = q.src_size
             /\ Settings(q).des_addr = q.des_addr /\ Settings(q).des_size = q.des_size
             /\ Settings(q).next_session = q.next_session
  BY DEF Settings, SlotRow
<1> QED
  BY <1>1

LEMMA BarrierStep ==
  ASSUME EngineInvariant, [Next]_vars, main_state # "SHUTDOWN", main_state' # "SHUTDOWN",
         b1_read_indexer' # b1_read_indexer
  PROVE  /\ recon_state = "SHUTDOWN" /\ exec_state = "SHUTDOWN"
         /\ axi_state = "IDLE" /\ dma_init_task = None /\ pr_ctrl_task = None
         /\ b1_read_indexer' = b1[b1_read_indexer].next_session
<1>1. TypeOK
  BY DEF EngineInvariant
<1>2. PICK in \in Inputs : CarefulStart(in.ps) /\ Tick(in)
  BY DEF Next, PsResetsDma, HardwareReset, CoreReset, vars, core_vars
<1>3. in.ps.cmd # "START" /\ Feasible(in)
  BY <1>1, <1>2, StartAtRest, InputsFeasible DEF EngineIdle
<1>4. main_state = "PRE_SHUTDOWN" /\ MainPreShutdown
  BY <1>1, <1>2, <1>3, MainGoesOn
<1>5. /\ read_val \in SlotRow /\ b1[b1_read_indexer] \in SlotRow
      /\ Settings(read_val) = Settings(b1[b1_read_indexer])
  BY <1>1, <1>4, PreShutdownAtRest DEF TypeOK, CoreTypeOK
<1>6. b1_read_indexer' = b1[b1_read_indexer].next_session
  BY <1>4, <1>5, SettingsAgree DEF MainPreShutdown
<1> QED
  BY <1>4, <1>6, PreShutdownAtRest

(* The engine passes from one session to the next only when both of its     *)
(* sub-machines and its bus writer are at rest, and only along the chain.   *)
THEOREM SessionsAreBarriers == Spec => SessionBarrier
<1>1. EngineInvariant /\ [Next]_vars =>
        [ main_state # "SHUTDOWN" /\ main_state' # "SHUTDOWN"
            /\ b1_read_indexer' # b1_read_indexer
          => /\ recon_state = "SHUTDOWN" /\ exec_state = "SHUTDOWN"
             /\ axi_state = "IDLE" /\ dma_init_task = None /\ pr_ctrl_task = None
             /\ b1_read_indexer' = b1[b1_read_indexer].next_session ]_vars
  BY BarrierStep
<1> QED
  BY InvariantHolds, <1>1, PTL DEF Spec, SessionBarrier

LEMMA AdvanceStep ==
  ASSUME EngineInvariant, Next, main_state = "PRE_SHUTDOWN"
  PROVE  LET row == b1[b1_read_indexer] IN
         /\ b1'[b1_read_indexer].src_addr = (row.src_addr + row.src_size) % AddrMod
         /\ b1'[b1_read_indexer].des_addr = (row.des_addr + row.des_size) % AddrMod
<1> DEFINE row == b1[b1_read_indexer]
           src == (read_val.src_addr + read_val.src_size) % AddrMod
           des == (read_val.des_addr + read_val.des_size) % AddrMod
<1>1. read_val \in SlotRow /\ row \in SlotRow /\ Settings(read_val) = Settings(row)
      /\ b1 \in [Slot -> SlotRow] /\ b1_read_indexer \in Slot
  BY PreShutdownAtRest DEF EngineInvariant, TypeOK, CoreTypeOK
<1>2. b1' = [b1 EXCEPT ![b1_read_indexer] = [row EXCEPT !.src_addr = src, !.des_addr = des]]
  BY DEF Next, Tick, HardwareReset, PsResetsDma, EngineIdle, Bank1Step
<1>3. b1'[b1_read_indexer] = [row EXCEPT !.src_addr = src, !.des_addr = des]
  BY <1>1, <1>2
<1>4. b1'[b1_read_indexer].src_addr = src /\ b1'[b1_read_indexer].des_addr = des
  BY <1>1, <1>3 DEF SlotRow
<1> QED
  BY <1>1, <1>4, SettingsAgree

(* Each pass over a session moves its DMA addresses by its own sizes.       *)
THEOREM AddressesDoAdvance == Spec => AddressesAdvance
<1>1. EngineInvariant /\ [Next]_vars =>
        [ main_state = "PRE_SHUTDOWN" =>
            LET row == b1[b1_read_indexer] IN
            /\ b1'[b1_read_indexer].src_addr = (row.src_addr + row.src_size) % AddrMod
            /\ b1'[b1_read_indexer].des_addr = (row.des_addr + row.des_size) % AddrMod ]_vars
  BY AdvanceStep
<1> QED
  BY InvariantHolds, <1>1, PTL DEF Spec, AddressesAdvance

-----------------------------------------------------------------------------
(* The engine implements SessionChain.                                      *)

LEMMA InitMaps == Init => Chain!ChainInit
BY DEF Init, Chain!ChainInit, Busy

(* CLEAR, SHUTDOWN or a reset at any moment is a Stop of the chain.         *)
LEMMA StopMaps ==
  ASSUME main_state' = "SHUTDOWN",
         [s \in Slot |-> b1[s].next_session]' = [s \in Slot |-> b1[s].next_session],
         intr_status' \in {intr_status, FALSE},
         b0' \in {b0, [b0 EXCEPT !.intr_ena = FALSE]}
  PROVE  Chain!Stop
BY DEF Chain!Stop, Chain!NoProgress, Busy

(* The chain column of bank 1 is the same after an edge that writes no row. *)
LEMMA ChainKept ==
  ASSUME TypeOK, NEW fin \in SUBSET Stream, Bank1Step(None, fin)
  PROVE  [s \in Slot |-> b1[s].next_session]' = [s \in Slot |-> b1[s].next_session]
<1>1. b1 \in [Slot -> SlotRow] /\ b1_read_indexer \in Slot
      /\ main_state \in {"SHUTDOWN", "PROCESS", "PRE_SHUTDOWN"}
  BY DEF TypeOK, CoreTypeOK, MainState
<1>2. ASSUME NEW s \in Slot PROVE b1'[s].next_session = b1[s].next_session
  <2> DEFINE row == b1[b1_read_indexer]
             src == (read_val.src_addr + read_val.src_size) % AddrMod
             des == (read_val.des_addr + read_val.des_size) % AddrMod
  <2>1. b1[s] \in SlotRow /\ row \in SlotRow
    BY <1>1
  <2>2. CASE main_state = "SHUTDOWN"
    BY <2>2 DEF Bank1Step
  <2>3. CASE main_state = "PROCESS"
    <3>1. b1' = [b1 EXCEPT ![b1_read_indexer] = [row EXCEPT !.complete_mask = @ \cup fin]]
      BY <2>3 DEF Bank1Step
    <3>2. [row EXCEPT !.complete_mask = @ \cup fin].next_session = row.next_session
      BY <2>1 DEF SlotRow
    <3> QED
      BY <1>1, <3>1, <3>2
  <2>4. CASE main_state = "PRE_SHUTDOWN"
    <3>1. b1' = [b1 EXCEPT ![b1_read_indexer] =
                   [row EXCEPT !.src_addr = src, !.des_addr = des]]
      BY <2>4 DEF Bank1Step
    <3>2. [row EXCEPT !.src_addr = src, !.des_addr = des].next_session = row.next_session
      BY <2>1 DEF SlotRow
    <3> QED
      BY <1>1, <3>1, <3>2
  <2> QED
    BY <1>1, <2>2, <2>3, <2>4
<1> QED
  BY <1>2

LEMMA TickMaps ==
  ASSUME EngineInvariant, NEW in, Feasible(in), CarefulStart(in.ps), Tick(in)
  PROVE  [Chain!ChainNext]_(Chain!chain_vars)
<1> DEFINE next == [s \in Slot |-> b1[s].next_session]
<1> USE DEF Busy
<1>1. /\ TypeOK /\ in.ps.cmd \in Cmd \cup {None}
      /\ in.ps.cmd # None => in.ps.wr0 = None /\ in.ps.wr1 = None
  BY InputsTyped DEF EngineInvariant, PsRequest
<1>2. main_state # "SHUTDOWN" \/ in.ps.cmd # None => next' = next /\ b0' = b0
  <2>1. SUFFICES ASSUME main_state # "SHUTDOWN" \/ in.ps.cmd # None
                 PROVE  next' = next /\ b0' = b0
    OBVIOUS
  <2>2. Bank1Step(None, StreamFin(in.done)) /\ b0' = b0
    BY <1>1, <2>1 DEF Tick, Bank1Step, Bank0Step
  <2>3. StreamFin(in.done) \in SUBSET Stream
    BY <1>1, InputsTyped, CoreAssumption DEF StreamFin, DMA
  <2> QED
    BY <1>1, <2>2, <2>3, ChainKept
<1>3. CASE in.ps.cmd = "START"
  <2>1. MainStart /\ main_state = "SHUTDOWN"
    BY <1>3, StartAtRest, NoneIsNoCommand DEF EngineIdle, Tick, MainStep, Cmd
  <2>2. Chain!Start
    BY <1>2, <1>3, <2>1, StartAtRest, NoneIsNoCommand
       DEF Chain!Start, Chain!NoProgress, Chain!program, MainStart, Cmd
  <2> QED
    BY <2>2 DEF Chain!ChainNext
<1>4. CASE in.ps.cmd \in {"CLEAR", "SHUTDOWN"}
  <2>1. main_state' = "SHUTDOWN" /\ intr_status' = intr_status
    BY <1>4, NoneIsNoCommand DEF Tick, MainStep, MainClear, MainShutdownCmd, Cmd
  <2>2. in.ps.cmd # None
    BY <1>4, NoneIsNoCommand DEF Cmd
  <2>3. Chain!Stop
    BY <1>2, <2>1, <2>2, StopMaps
  <2> QED
    BY <2>3 DEF Chain!ChainNext
<1>5. CASE in.ps.cmd = None /\ main_state = "SHUTDOWN"
  <2>1. main_state' = "SHUTDOWN" /\ intr_status' = intr_status
    BY <1>5, NoneIsNoCommand
       DEF Tick, MainStep, MainIdle, MainProcess, MainPreShutdown, Cmd
  <2>2. Chain!Configure
    BY <1>5, <2>1 DEF Chain!Configure, Chain!progress
  <2> QED
    BY <2>2 DEF Chain!ChainNext
<1>6. CASE in.ps.cmd = None /\ main_state = "PROCESS"
  <2>1. MainProcess
    BY <1>6, NoneIsNoCommand DEF Tick, MainStep, MainIdle, MainPreShutdown, Cmd
  <2>2. recon_state = "FIN_SYNC" =>
          recon_state' = "FIN_SYNC" \/ main_state' = "PRE_SHUTDOWN"
    BY <1>6, <2>1, NoneIsNoCommand
       DEF Tick, ReconStep, ReconAdvances, ReconWaits, AfterStart, MainProcess, Cmd
  <2>3. exec_state = "FIN_SYNC" =>
          exec_state' = "FIN_SYNC" \/ main_state' = "PRE_SHUTDOWN"
    BY <1>6, <2>1, NoneIsNoCommand
       DEF Tick, ExecStep, ExecMoves, ExecPrMoves, ExecDmaMoves, ExecNextPrTask,
           ExecNextDmaTask, ExecWaits, ExecGoes, LastDmaTask, AfterStart, MainProcess, Cmd
  <2>4. Chain!Work
    BY <1>2, <1>6, <2>1, <2>2, <2>3 DEF Chain!Work, Chain!program, MainProcess
  <2> QED
    BY <2>4 DEF Chain!ChainNext
<1>7. CASE in.ps.cmd = None /\ main_state = "PRE_SHUTDOWN"
  <2>1. MainPreShutdown /\ recon_state' = "SHUTDOWN" /\ exec_state' = "SHUTDOWN"
    <3>1. recon_state = "SHUTDOWN" /\ exec_state = "SHUTDOWN"
      BY <1>7, PreShutdownAtRest
    <3> QED
      BY <1>7, <3>1, NoneIsNoCommand
         DEF Tick, MainStep, MainIdle, MainProcess, ReconStep, ReconAdvances, ReconWaits,
             ExecStep, ExecMoves, ExecPrMoves, ExecDmaMoves, ExecNextPrTask,
             ExecNextDmaTask, ExecWaits, ExecGoes, LastDmaTask, AfterStart, Cmd
  <2>2. read_val.next_session = next[b1_read_indexer]
    <3>1. /\ read_val \in SlotRow /\ b1[b1_read_indexer] \in SlotRow
          /\ Settings(read_val) = Settings(b1[b1_read_indexer]) /\ b1_read_indexer \in Slot
      BY <1>1, <1>7, PreShutdownAtRest DEF TypeOK, CoreTypeOK
    <3> QED
      BY <3>1, SettingsAgree
  <2>3. CASE RunEnds
    <3>1. Chain!Finish
      BY <1>2, <1>7, <2>1, <2>3
         DEF Chain!Finish, Chain!RunEnds, Chain!RoundEnds, Chain!SessionEnds, Chain!Counted,
             Chain!NoProgress, Chain!program, MainPreShutdown, RunEnds, RoundEnds, NextQuery
    <3> QED
      BY <3>1 DEF Chain!ChainNext
  <2>4. CASE ~RunEnds
    <3>1. Chain!Advance
      BY <1>1, <1>2, <1>7, <2>1, <2>2, <2>4
         DEF Chain!Advance, Chain!RunEnds, Chain!RoundEnds, Chain!SessionEnds, Chain!Counted,
             Chain!NoProgress, Chain!program, MainPreShutdown, RunEnds, RoundEnds, NextQuery,
             TypeOK, CoreTypeOK
    <3> QED
      BY <3>1 DEF Chain!ChainNext
  <2> QED
    BY <2>3, <2>4
<1> QED
  BY <1>1, <1>3, <1>4, <1>5, <1>6, <1>7 DEF Cmd, TypeOK, CoreTypeOK, MainState

LEMMA StepMaps ==
  EngineInvariant /\ [Next]_vars => [Chain!ChainNext]_(Chain!chain_vars)
<1> SUFFICES ASSUME EngineInvariant, [Next]_vars
             PROVE  [Chain!ChainNext]_(Chain!chain_vars)
  OBVIOUS
<1>1. ASSUME NEW in \in Inputs, CarefulStart(in.ps), Tick(in)
      PROVE  [Chain!ChainNext]_(Chain!chain_vars)
  BY <1>1, TickMaps, InputsFeasible DEF EngineInvariant
<1>2. CASE PsResetsDma \/ UNCHANGED vars
  BY <1>2 DEF PsResetsDma, vars, core_vars, fsm_vars, bank_vars, task_vars,
              Chain!chain_vars, Chain!program, Chain!progress, Busy
<1>3. CASE HardwareReset
  <2>1. StreamFin({}) \in SUBSET Stream
    BY CoreAssumption DEF StreamFin, DMA, EngineInvariant, TypeOK
  <2>2. [s \in Slot |-> b1[s].next_session]' = [s \in Slot |-> b1[s].next_session]
    BY <1>3, <2>1, ChainKept DEF HardwareReset, EngineInvariant
  <2>3. Chain!Stop
    BY <1>3, <2>2, StopMaps DEF HardwareReset, CoreReset
  <2> QED
    BY <2>3 DEF Chain!ChainNext
<1> QED
  BY <1>1, <1>2, <1>3 DEF Next

(* dfx_mng_core.v runs the sessions one at a time along next_session, counts *)
(* a round's queries when its last session ends, and interrupts exactly at  *)
(* the end of the round that completes the budget.                          *)
THEOREM EngineImplementsChain == Spec => ImplementsChain
BY InitMaps, StepMaps, InvariantHolds, PTL DEF Spec, ImplementsChain, Chain!ChainSpec
=============================================================================
