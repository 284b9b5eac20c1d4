-------------------------- MODULE DeploymentProofs --------------------------
(***************************************************************************)
(* Proofs about a deployment: type correctness for any PS program, and for  *)
(* one that waits for its first loads the invariant that ties the cell     *)
(* being run to the engine, the DFX Controller and the decouplers.         *)
(***************************************************************************)
EXTENDS Deployment, DfxMngRunProofs

-----------------------------------------------------------------------------
(* Type correctness. *)

(* What the PS and the parts do in a cycle is what DfxMng allows for.       *)
LEMMA DeployInputsFeasible ==
  ASSUME TypeOK, NEW in \in DeployInputs
  PROVE  /\ Feasible(in)
         /\ in.ps.cmd \in {None, CommandOf(cell)} /\ in.ps.wr0 = None /\ in.ps.wr1 = None
<1>1. /\ in.ps \in {NoWrite, [NoWrite EXCEPT !.cmd = CommandOf(cell)]}
      /\ in.rd = None /\ in.ready \in {FALSE, AxiWaits} /\ in.done \subseteq storing
      /\ in.dma_done \in {FALSE, dma.storing} /\ in.reg \in Region \cup {None}
  BY DEF DeployInputs
<1>2. CommandOf(cell) \in Cmd \cup {None} /\ AxiWaits \in BOOLEAN
  BY DEF CommandOf, Cmd, AxiWaits
<1>3. /\ in.ps \in PsRequest /\ in.ps.cmd \in {None, CommandOf(cell)}
      /\ in.ps.wr0 = None /\ in.ps.wr1 = None
  BY <1>1, <1>2 DEF NoWrite, PsRequest
<1> QED
  BY <1>1, <1>2, <1>3 DEF Feasible

(* The order of the cells, and what each of them loops over.                *)
LEMMA Cells ==
  /\ NextCell["inspect_grant"] = "inspect" /\ NextCell["inspect"] = "meta"
  /\ NextCell["meta"] = "hold" /\ NextCell["hold"] = "load" /\ NextCell["load"] = "grant"
  /\ NextCell["grant"] = "start" /\ NextCell["start"] = "await"
  /\ NextCell["await"] = "stop" /\ NextCell["stop"] = "regrant"
  /\ NextCell["regrant"] = "release" /\ NextCell["release"] = "done"
BY DEF NextCell

LEMMA CellEndsTyped ==
  ASSUME cell \in Cell \ {"done"}, CellEnds(cell)
  PROVE  cell' \in Cell /\ todo' \subseteq (IF cell' = "meta" THEN RM ELSE Region)
<1>1. cell' = NextCell[cell] /\ todo' = LoopOf(NextCell[cell])
  BY DEF CellEnds
<1>2. NextCell[cell] \in Cell
  BY Cells DEF Cell
<1> QED
  BY <1>1, <1>2 DEF LoopOf

LEMMA FirstRMIs ==
  ASSUME NEW r \in Region
  PROVE  FirstRM(r) \in RM /\ RegionOf[FirstRM(r)] = r
BY RegionAssumption DEF FirstRM

(* A step of the PS changes nothing of the engine but what a first load     *)
(* asks of the controller.                                                 *)
LEMMA PsStepUntouched ==
  ASSUME PsStep \/ \E r \in Region : UseBitsMeanwhile(r)
  PROVE  \/ UNCHANGED vars
         \/ \E r \in Region :
              /\ cell = "load" /\ cell' = "load" /\ triggered' = triggered \cup {FirstRM(r)}
              /\ UNCHANGED <<core_vars, axi_state, awaddr, dma, storing, rm_phase, loaded>>
BY DEF PsStep, UseBitsMeanwhile, grant_decoupler_to_ps, grant_decoupler_to_dfx_ctrl,
       release_decup, hold_decup, trig_and_restart, Visits, set_simple_meta_data, LeaveLoop,
       AwaitInterrupt

LEMMA PsStepEngineTyped ==
  ASSUME TypeOK, PsStep \/ \E r \in Region : UseBitsMeanwhile(r)
  PROVE  TypeOK'
<1>1. CASE UNCHANGED vars
  BY <1>1, StutterTyped
<1>2. ASSUME NEW r \in Region, triggered' = triggered \cup {FirstRM(r)},
             UNCHANGED <<core_vars, axi_state, awaddr, dma, storing, rm_phase, loaded>>
      PROVE  TypeOK'
  BY <1>2, FirstRMIs DEF TypeOK, CoreTypeOK, EnvTypeOK, core_vars, fsm_vars, bank_vars, task_vars
<1> QED
  BY <1>1, <1>2, PsStepUntouched

LEMMA PsStepTyped ==
  ASSUME DeployTypeOK, PsStep
  PROVE  /\ cell' \in Cell /\ todo' \subseteq (IF cell' = "meta" THEN RM ELSE Region)
         /\ decup_shadow' \in DecupRegister /\ vs_shutdown' \subseteq Region /\ meta' \subseteq RM
<1> USE DEF DeployTypeOK
<1>1. CASE grant_decoupler_to_ps
  <2>1. cell \in Cell \ {"done"} /\ CellEnds(cell)
    BY <1>1 DEF grant_decoupler_to_ps, CellEnds
  <2> QED
    BY <1>1, <2>1, CellEndsTyped DEF grant_decoupler_to_ps, DecupRegister
<1>2. CASE grant_decoupler_to_dfx_ctrl
  <2>1. cell \in Cell \ {"done"} /\ CellEnds(cell)
    BY <1>2 DEF grant_decoupler_to_dfx_ctrl, CellEnds
  <2> QED
    BY <1>2, <2>1, CellEndsTyped DEF grant_decoupler_to_dfx_ctrl, DecupRegister
<1>3. ASSUME NEW r \in Region, release_decup(r) \/ hold_decup(r) \/ trig_and_restart(r)
      PROVE  /\ cell' \in Cell /\ todo' \subseteq (IF cell' = "meta" THEN RM ELSE Region)
             /\ decup_shadow' \in DecupRegister /\ vs_shutdown' \subseteq Region
             /\ meta' \subseteq RM
  BY <1>3 DEF release_decup, hold_decup, trig_and_restart, Visits, DecupRegister
<1>4. ASSUME NEW m \in RM, set_simple_meta_data(m)
      PROVE  /\ cell' \in Cell /\ todo' \subseteq (IF cell' = "meta" THEN RM ELSE Region)
             /\ decup_shadow' \in DecupRegister /\ vs_shutdown' \subseteq Region
             /\ meta' \subseteq RM
  BY <1>4 DEF set_simple_meta_data, Visits
<1>5. CASE LeaveLoop
  <2>1. cell # "done"
    BY <1>5 DEF LeaveLoop, LoopOf
  <2> QED
    BY <1>5, <2>1, CellEndsTyped DEF LeaveLoop
<1>6. CASE AwaitInterrupt
  <2>1. cell \in Cell \ {"done"} /\ CellEnds(cell)
    BY <1>6 DEF AwaitInterrupt, CellEnds
  <2> QED
    BY <1>6, <2>1, CellEndsTyped DEF AwaitInterrupt
<1> QED
  BY <1>1, <1>2, <1>3, <1>4, <1>5, <1>6 DEF PsStep

LEMMA ClockedCell ==
  ASSUME TypeOK, cell \in Cell, NEW in \in DeployInputs, Clocked(in)
  PROVE  \/ in.ps.cmd = None /\ UNCHANGED <<cell, todo>>
         \/ in.ps.cmd = "START" /\ cell = "start" /\ cell' = "await" /\ todo' = {}
         \/ in.ps.cmd = "SHUTDOWN" /\ cell = "stop" /\ cell' = "regrant" /\ todo' = {}
<1>1. in.ps.cmd # None => in.ps.cmd = CommandOf(cell) /\ CommandOf(cell) # None
  BY DeployInputsFeasible
<1> QED
  BY <1>1, Cells DEF Clocked, CommandOf, CellEnds, LoopOf

LEMMA DeployInitTyped == DeployInit => DeployTypeOK
BY InitTyped DEF DeployInit, DeployTypeOK, Cell, DecupRegister

LEMMA DeployStepTyped == DeployTypeOK /\ [DeployNext]_deploy_vars => DeployTypeOK'
<1> SUFFICES ASSUME DeployTypeOK, [DeployNext]_deploy_vars PROVE DeployTypeOK'
  OBVIOUS
<1> USE DEF DeployTypeOK
<1>1. CASE PsStep
  BY <1>1, PsStepTyped, PsStepEngineTyped
<1>2. ASSUME NEW r \in Region, UseBitsMeanwhile(r) PROVE DeployTypeOK'
  <2>1. TypeOK'
    BY <1>2, PsStepEngineTyped
  <2> QED
    BY <1>2, <2>1 DEF UseBitsMeanwhile, DecupRegister
<1>3. ASSUME NEW in \in DeployInputs, Clocked(in) PROVE DeployTypeOK'
  <2>1. TypeOK'
    BY <1>3, DeployInputsFeasible, TickTyped DEF Clocked
  <2>2. cell' \in Cell /\ todo' \subseteq (IF cell' = "meta" THEN RM ELSE Region)
    BY <1>3, ClockedCell DEF Cell
  <2> QED
    BY <1>3, <2>1, <2>2 DEF Clocked
<1>4. CASE UNCHANGED deploy_vars
  BY <1>4, StutterTyped DEF deploy_vars, ps_vars
<1> QED
  BY <1>1, <1>2, <1>3, <1>4 DEF DeployNext

(* Whatever the PS waits for, its program and the engine stay within their  *)
(* types.                                                                  *)
THEOREM DeployTypeCorrect == DeploySpec => []DeployTypeOK
BY DeployInitTyped, DeployStepTyped, PTL DEF DeploySpec

-----------------------------------------------------------------------------
(* The engine, cell by cell. *)

(* At rest, a cycle without START leaves the engine at rest, and the parts  *)
(* it drives to themselves.                                                *)
LEMMA RestKept ==
  ASSUME EngineAtRest, ~Busy, NEW in, Feasible(in), Tick(in),
         in.ps.cmd \in {None, "SHUTDOWN"}, in.ps.wr0 = None, in.ps.wr1 = None
  PROVE  /\ EngineAtRest' /\ ~Busy' /\ UNCHANGED <<b0, b1>>
         /\ dfx_rm_program = {} /\ storing' \subseteq storing
         /\ ~dma.storing => dma' = dma
<1>1. /\ None # "CLEAR" /\ None # "START" /\ main_state = "SHUTDOWN"
      /\ in.ps.cmd # "CLEAR" /\ in.ps.cmd # "START"
  BY NoneIsNoCommand DEF Cmd, Busy
<1>2. ~Busy' /\ UNCHANGED <<b0, b1>>
  BY <1>1 DEF Tick, MainStep, MainShutdownCmd, MainIdle, MainProcess, MainPreShutdown,
              Bank0Step, Bank1Step, Busy
<1>3. recon_state' = "SHUTDOWN" /\ exec_state' = "SHUTDOWN"
  BY <1>1, RestingStays DEF Tick, EngineAtRest
<1>4. UNCHANGED task_vars
  BY <1>1 DEF Tick, EngineAtRest, ExecStep, ExecMoves, ExecPrMoves, ExecDmaMoves, ExecGoes,
              ExecNextPrTask, ExecNextDmaTask, task_vars, LastDmaTask
<1>5. axi_state' = "IDLE" /\ (~dma.storing => dma' = dma)
  BY DEF Tick, EngineAtRest, AxiStep, DmaStep, DataAccepted, Feasible
<1>6. dfx_rm_program = {} /\ storing' \subseteq storing
  BY <1>1 DEF Tick, StreamersStep, dfx_rm_program, dfx_stream_store_init, Pulse
<1> QED
  BY <1>2, <1>3, <1>4, <1>5, <1>6 DEF EngineAtRest, task_vars

(* A run ends at rest, and raises its interrupt only as it ends.            *)
LEMMA RunEndsAtRest ==
  ASSUME EngineInvariant, ReconInOrder, Busy, ~intr_status,
         NEW in, Feasible(in), Tick(in), in.ps.cmd = None
  PROVE  /\ intr_status' => ~Busy'
         /\ ~Busy' => EngineAtRest' /\ \A r \in Region : Settled(r)'
<1>1. None # "CLEAR" /\ None # "START"
  BY NoneIsNoCommand DEF Cmd
<1>2. \/ main_state = "PROCESS" /\ MainProcess
      \/ main_state = "PRE_SHUTDOWN" /\ MainPreShutdown
  BY NoneIsNoCommand DEF Tick, MainStep, MainIdle, MainProcess, MainPreShutdown, Busy, Cmd
<1>3. CASE main_state = "PROCESS" /\ MainProcess
  BY <1>3 DEF MainProcess, Busy
<1>4. CASE main_state = "PRE_SHUTDOWN" /\ MainPreShutdown
  <2>1. /\ recon_state = "SHUTDOWN" /\ exec_state = "SHUTDOWN" /\ axi_state = "IDLE"
        /\ dma_init_task = None /\ pr_ctrl_task = None
    BY <1>4, PreShutdownAtRest
  <2>2. recon_state' = "SHUTDOWN" /\ exec_state' = "SHUTDOWN"
    BY <1>1, <1>4, <2>1, RestingStays DEF Tick
  <2>3. UNCHANGED task_vars /\ axi_state' = "IDLE"
    BY <1>1, <2>1 DEF Tick, AxiStep, ExecStep, ExecMoves, ExecPrMoves, ExecDmaMoves, ExecGoes,
                      ExecNextPrTask, ExecNextDmaTask, task_vars, LastDmaTask
  <2>4. \A r \in Region : Settled(r)
    BY <2>1 DEF ReconInOrder
  <2>5. dfx_rm_program = {}
    BY <1>4 DEF dfx_rm_program, Pulse
  <2>6. UNCHANGED <<triggered, rm_phase>>
    BY <2>4, <2>5, NothingAsked DEF Feasible, Tick, EngineInvariant
  <2>7. intr_status' => ~Busy'
    BY <1>4 DEF MainPreShutdown, Busy
  <2> QED
    BY <2>1, <2>2, <2>3, <2>4, <2>6, <2>7 DEF EngineAtRest, task_vars, Settled
<1> QED
  BY <1>2, <1>3, <1>4

(* START is given as CarefulStart asks.                                     *)
LEMMA StartIsCareful ==
  ASSUME DeployInvariant, NEW in \in DeployInputs, Clocked(in)
  PROVE  CarefulStart(in.ps)
<1> SUFFICES ASSUME in.ps.cmd = "START"
             PROVE  EngineIdle /\ PartsIdle /\ <<b1, b0>> \in Jobs
  BY DEF CarefulStart
<1>1. TypeOK /\ cell \in Cell
  BY DEF DeployInvariant, DeployTypeOK
<1>2. cell = "start"
  BY <1>1, ClockedCell, NoneIsNoCommand DEF Cmd
<1>3. /\ EngineAtRest /\ ~Busy /\ <<b1, b0>> \in Jobs
      /\ storing = {} /\ ~dma.storing /\ ~dma.irq
  BY <1>2 DEF DeployInvariant, EngineInCell, BeforeRun
<1>4. \A r \in Region : Settled(r)
  BY <1>2, <1>3 DEF DeployInvariant, LoadsInCell
<1>5. triggered = {}
  BY <1>1, <1>4, CoreAssumption DEF TypeOK, EnvTypeOK, Settled
<1> QED
  BY <1>3, <1>4, <1>5 DEF EngineIdle, EngineAtRest, PartsIdle, Settled, Busy

LEMMA ClockedKeeps ==
  ASSUME DeployInvariant, NEW in \in DeployInputs, Clocked(in)
  PROVE  /\ EngineInvariant' /\ ReconInOrder'
         /\ EngineInCell' /\ LoadsInCell' /\ DecouplersInCell'
<1>1. /\ Feasible(in) /\ Tick(in) /\ CarefulStart(in.ps)
      /\ EngineInvariant /\ ReconInOrder /\ JobsApart /\ TypeOK /\ cell \in Cell
      /\ in.ps.wr0 = None /\ in.ps.wr1 = None
  BY DeployInputsFeasible, StartIsCareful
     DEF Clocked, DeployInvariant, DeployTypeOK
<1>2. /\ cell # "await" \/ intr_status => ~Busy
      /\ ~Busy => EngineAtRest
      /\ cell \in BeforeRun =>
           <<b1, b0>> \in Jobs /\ storing = {} /\ ~dma.storing /\ ~dma.irq
      /\ cell # "load" /\ ~Busy => \A r \in Region : Settled(r)
  BY DEF DeployInvariant, EngineInCell, LoadsInCell
<1>3. EngineInvariant'
  BY <1>1, TickKeeps
<1>4. ReconInOrder'
  <2>1. CASE ~Busy'
    BY <2>1 DEF ReconInOrder
  <2>2. CASE Busy'
    BY <1>1, <2>2, RunStep, ReconKept
  <2> QED
    BY <2>1, <2>2
<1>5. CASE in.ps.cmd = "START"
  <2>1. cell = "start" /\ cell' = "await"
    BY <1>1, <1>5, ClockedCell, NoneIsNoCommand DEF Cmd
  <2>2. Busy' /\ ~intr_status'
    BY <1>1, <1>5, NoneIsNoCommand
       DEF Tick, MainStep, MainStart, Cmd, Busy
  <2>3. EngineInCell' /\ LoadsInCell'
    BY <2>1, <2>2 DEF EngineInCell, LoadsInCell, BeforeRun
  <2>4. DecouplersInCell'
    BY <2>1 DEF Clocked, DeployInvariant, DecouplersInCell, CtrlOwns
  <2> QED
    BY <1>3, <1>4, <2>3, <2>4
<1>6. CASE in.ps.cmd # "START" /\ ~Busy
  <2>1. /\ in.ps.cmd \in {None, "SHUTDOWN"}
        /\ cell' = cell \/ (cell = "stop" /\ cell' = "regrant")
        /\ cell' = cell => UNCHANGED todo
    BY <1>1, <1>6, ClockedCell
  <2>2. /\ EngineAtRest' /\ ~Busy' /\ UNCHANGED <<b0, b1>>
        /\ dfx_rm_program = {} /\ storing' \subseteq storing
        /\ ~dma.storing => dma' = dma
    BY <1>1, <1>2, <1>6, <2>1, RestKept
  <2>3. EngineInCell'
    BY <1>2, <2>1, <2>2 DEF EngineInCell, BeforeRun
  <2>4. LoadsInCell'
    <3>1. SUFFICES ASSUME cell # "load" PROVE \A r \in Region : Settled(r)'
      BY <2>1 DEF LoadsInCell
    <3>2. UNCHANGED <<triggered, rm_phase>>
      BY <1>1, <1>2, <1>6, <2>2, <3>1, NothingAsked DEF Feasible, Tick
    <3> QED
      BY <1>2, <1>6, <3>1, <3>2 DEF Settled
  <2>5. DecouplersInCell'
    BY <2>1 DEF Clocked, DeployInvariant, DecouplersInCell, CtrlOwns
  <2> QED
    BY <1>3, <1>4, <2>3, <2>4, <2>5
<1>7. CASE in.ps.cmd # "START" /\ Busy
  <2>1. cell = "await" /\ ~intr_status
    BY <1>2, <1>7
  <2>2. in.ps.cmd = None /\ cell' = cell
    BY <1>1, <1>7, <2>1, ClockedCell
  <2>3. /\ intr_status' => ~Busy'
        /\ ~Busy' => EngineAtRest' /\ \A r \in Region : Settled(r)'
    BY <1>1, <1>7, <2>1, <2>2, RunEndsAtRest
  <2>4. EngineInCell' /\ LoadsInCell'
    BY <2>1, <2>2, <2>3 DEF EngineInCell, LoadsInCell, BeforeRun
  <2>5. DecouplersInCell'
    BY <2>1, <2>2 DEF Clocked, DeployInvariant, DecouplersInCell, CtrlOwns
  <2> QED
    BY <1>3, <1>4, <2>4, <2>5
<1> QED
  BY <1>5, <1>6, <1>7

(* Where the PS goes from a cell.                                           *)
LEMMA PsMoves ==
  ASSUME cell \in Cell, PsStep
  PROVE  \/ cell' = cell
         \/ cell \in BeforeRun \ {"load", "start"} /\ cell' \in BeforeRun
         \/ cell = "load" /\ cell' = "grant" /\ (Patient => FirstLoadsOver)
         \/ cell = "await" /\ cell' = "stop" /\ intr_status
         \/ cell = "regrant" /\ cell' = "release"
         \/ cell = "release" /\ cell' = "done"
<1> USE Cells DEF BeforeRun
<1>1. CASE grant_decoupler_to_ps \/ grant_decoupler_to_dfx_ctrl
  BY <1>1 DEF grant_decoupler_to_ps, grant_decoupler_to_dfx_ctrl, CellEnds
<1>2. CASE LeaveLoop
  <2>1. cell \in {"inspect", "meta", "hold", "load", "release"}
    BY <1>2 DEF LeaveLoop, LoopOf
  <2> QED
    BY <1>2, <2>1 DEF LeaveLoop, CellEnds
<1>3. CASE AwaitInterrupt
  BY <1>3 DEF AwaitInterrupt, CellEnds
<1>4. CASE \E r \in Region : release_decup(r) \/ hold_decup(r) \/ trig_and_restart(r)
  BY <1>4 DEF release_decup, hold_decup, trig_and_restart, Visits
<1>5. CASE \E m \in RM : set_simple_meta_data(m)
  BY <1>5 DEF set_simple_meta_data, Visits
<1> QED
  BY <1>1, <1>2, <1>3, <1>4, <1>5 DEF PsStep

LEMMA PsStepDecouplers ==
  ASSUME DeployTypeOK, DecouplersInCell, PsStep
  PROVE  DecouplersInCell'
<1> USE Cells DEF DecouplersInCell, CtrlOwns, DeployTypeOK, DecupRegister
<1>1. CASE grant_decoupler_to_ps
  BY <1>1 DEF grant_decoupler_to_ps, CellEnds
<1>2. CASE grant_decoupler_to_dfx_ctrl
  BY <1>2 DEF grant_decoupler_to_dfx_ctrl, CellEnds
<1>3. ASSUME NEW r \in Region, release_decup(r)
      PROVE  DecouplersInCell'
  BY <1>3 DEF release_decup, Visits
<1>4. ASSUME NEW r \in Region, hold_decup(r)
      PROVE  DecouplersInCell'
  BY <1>4 DEF hold_decup, Visits
<1>5. ASSUME NEW r \in Region, trig_and_restart(r)
      PROVE  DecouplersInCell'
  BY <1>5 DEF trig_and_restart, Visits
<1>6. ASSUME NEW m \in RM, set_simple_meta_data(m)
      PROVE  DecouplersInCell'
  BY <1>6 DEF set_simple_meta_data, Visits
<1>7. CASE LeaveLoop
  <2>1. /\ cell \in {"inspect", "meta", "hold", "load", "release"}
        /\ cell' = NextCell[cell] /\ todo = {} /\ todo' = LoopOf(NextCell[cell])
        /\ decup_shadow' = decup_shadow
    BY <1>7 DEF LeaveLoop, LoopOf, CellEnds
  <2>2. cell = "meta" => todo' = Region
    BY <2>1 DEF LoopOf
  <2> QED
    BY <2>1, <2>2
<1>8. CASE AwaitInterrupt
  BY <1>8 DEF AwaitInterrupt, CellEnds
<1> QED
  BY <1>1, <1>2, <1>3, <1>4, <1>5, <1>6, <1>7, <1>8 DEF PsStep

LEMMA PsKeeps ==
  ASSUME DeployInvariant, PsStep \/ \E r \in Region : UseBitsMeanwhile(r)
  PROVE  /\ EngineInvariant' /\ ReconInOrder'
         /\ EngineInCell' /\ LoadsInCell' /\ DecouplersInCell'
<1>1. /\ EngineInvariant /\ ReconInOrder /\ JobsApart /\ DeployTypeOK /\ TypeOK
      /\ Patient /\ cell \in Cell /\ DecouplersInCell
  BY DEF DeployInvariant, DeployTypeOK
<1>2. /\ cell # "await" \/ intr_status => ~Busy
      /\ ~Busy => EngineAtRest
      /\ cell \in BeforeRun =>
           <<b1, b0>> \in Jobs /\ storing = {} /\ ~dma.storing /\ ~dma.irq
      /\ cell # "load" /\ ~Busy => \A r \in Region : Settled(r)
  BY DEF DeployInvariant, EngineInCell, LoadsInCell
<1>3. UNCHANGED <<core_vars, axi_state, awaddr, dma, storing, rm_phase, loaded>>
  BY PsStepUntouched DEF vars, env_vars
<1>4. \/ UNCHANGED vars
      \/ cell = "load" /\ cell' = "load"
  BY PsStepUntouched
<1>5. EngineInvariant'
  BY <1>1, <1>3, PsStepEngineTyped, UntouchedKeeps
<1>6. ReconInOrder'
  <2>1. CASE UNCHANGED vars
    BY <1>1, <2>1, ReconStepInOrder
  <2>2. CASE cell = "load"
    BY <1>2, <1>3, <2>2 DEF ReconInOrder, Busy, core_vars, fsm_vars
  <2> QED
    BY <1>4, <2>1, <2>2
<1>7. \/ cell' = cell
      \/ cell \in BeforeRun \ {"load", "start"} /\ cell' \in BeforeRun
      \/ cell = "load" /\ cell' = "grant" /\ FirstLoadsOver
      \/ cell = "await" /\ cell' = "stop" /\ intr_status
      \/ cell = "regrant" /\ cell' = "release"
      \/ cell = "release" /\ cell' = "done"
  BY <1>1, PsMoves DEF UseBitsMeanwhile
<1>8. EngineInCell'
  BY <1>2, <1>3, <1>7 DEF EngineInCell, EngineAtRest, Busy, BeforeRun, core_vars, fsm_vars,
                          bank_vars, task_vars
<1>9. LoadsInCell'
  <2>1. CASE UNCHANGED vars
    BY <1>2, <1>7, <2>1 DEF LoadsInCell, Settled, FirstLoadsOver, BeforeRun, Busy, vars,
                            core_vars, fsm_vars, env_vars
  <2>2. CASE cell' = "load"
    BY <2>2 DEF LoadsInCell
  <2> QED
    BY <1>4, <2>1, <2>2
<1>10. DecouplersInCell'
  <2>1. ASSUME NEW r \in Region, UseBitsMeanwhile(r) PROVE DecouplersInCell'
    BY <1>1, <2>1 DEF UseBitsMeanwhile, DecouplersInCell, CtrlOwns, DeployTypeOK, DecupRegister
  <2> QED
    BY <1>1, <2>1, PsStepDecouplers
<1> QED
  BY <1>5, <1>6, <1>8, <1>9, <1>10

LEMMA DeployStepKeeps == DeployInvariant /\ [DeployNext]_deploy_vars => DeployInvariant'
<1> SUFFICES ASSUME DeployInvariant, [DeployNext]_deploy_vars PROVE DeployInvariant'
  OBVIOUS
<1>1. DeployTypeOK' /\ Patient' /\ JobsApart'
  BY DeployStepTyped DEF DeployInvariant, JobsApart
<1>2. CASE PsStep \/ \E r \in Region : UseBitsMeanwhile(r)
  BY <1>1, <1>2, PsKeeps DEF DeployInvariant
<1>3. ASSUME NEW in \in DeployInputs, Clocked(in) PROVE DeployInvariant'
  BY <1>1, <1>3, ClockedKeeps DEF DeployInvariant
<1>4. CASE UNCHANGED deploy_vars
  <2>1. EngineInvariant' /\ ReconInOrder'
    BY <1>4, NextKeeps, ReconStepInOrder DEF DeployInvariant, deploy_vars
  <2>2. EngineInCell' /\ LoadsInCell' /\ DecouplersInCell'
    BY <1>4 DEF DeployInvariant, EngineInCell, EngineAtRest, LoadsInCell, DecouplersInCell,
                Settled, Busy, deploy_vars, ps_vars, vars, core_vars, fsm_vars, bank_vars,
                task_vars, env_vars
  <2> QED
    BY <1>1, <2>1, <2>2 DEF DeployInvariant
<1> QED
  BY <1>2, <1>3, <1>4 DEF DeployNext

LEMMA DeployInitKeeps == Patient /\ JobsApart /\ DeployInit => DeployInvariant
<1> SUFFICES ASSUME Patient, JobsApart, DeployInit PROVE DeployInvariant
  OBVIOUS
<1>1. DeployTypeOK /\ EngineInvariant /\ ReconInOrder
  BY DeployInitTyped, InitInOrder DEF DeployInit
<1>2. /\ ~Busy /\ EngineAtRest /\ storing = {} /\ ~dma.storing /\ ~dma.irq
      /\ \A r \in Region : Settled(r)
  BY DEF DeployInit, Init, Busy, EngineAtRest, DmaIdle, Settled
<1>3. <<b1, b0>> \in Jobs
  <2>1. PICK job \in Jobs : b1 = job[1] /\ b0 = job[2]
    BY DEF DeployInit, Init
  <2> QED
    BY <2>1, ProgramAssumption
<1> QED
  BY <1>1, <1>2, <1>3 DEF DeployInvariant, DeployInit, EngineInCell, LoadsInCell,
                          DecouplersInCell, CtrlOwns

(* In every cell of the notebook, engine, DFX Controller and decouplers are *)
(* where the cell before left them or the run takes them.                  *)
THEOREM DeploymentInOrder ==
  Patient /\ JobsApart => (DeploySpec => []DeployInvariant)
BY DeployInitKeeps, DeployStepKeeps, PTL DEF DeploySpec

-----------------------------------------------------------------------------
(* The properties. *)

LEMMA LoadingDecoupled ==
  ASSUME DeployInvariant
  PROVE  LoadingIsDecoupled
<1> SUFFICES ASSUME NEW r \in Region, rm_phase[r] # "UP" PROVE decup_res(r)
  BY DEF LoadingIsDecoupled
<1>1. cell # "await" => ~Busy
  BY DEF DeployInvariant, EngineInCell
<1>2. cell = "load" \/ Busy
  BY DEF DeployInvariant, LoadsInCell, Settled
<1>3. cell = "load" => ~decup_shadow.ctrl /\ r \in decup_shadow.ps
  BY DEF DeployInvariant, DecouplersInCell, CtrlOwns
<1>4. cell = "await" => decup_shadow.ctrl
  BY DEF DeployInvariant, DecouplersInCell, CtrlOwns
<1> QED
  BY <1>1, <1>2, <1>3, <1>4 DEF decup_res, rm_decouple

(* dfx_decup_ctrl.v and the order in which test.ipynb hands the decouplers  *)
(* over: no region is connected while it is being reconfigured.            *)
THEOREM LoadsAreDecoupled ==
  Patient /\ JobsApart => (DeploySpec => []LoadingIsDecoupled)
<1>1. DeployInvariant => LoadingIsDecoupled
  BY LoadingDecoupled
<1> QED
  BY <1>1, DeploymentInOrder, PTL

(* A session that executes leaves the region it executes in alone.          *)
LEMMA ExecutedIsSettled ==
  ASSUME EngineInvariant, ReconInOrder, main_state = "PROCESS", NEW m \in row.exec_select
  PROVE  RegionOf[m] \in Region /\ Settled(RegionOf[m])
<1>1. /\ b1_read_indexer \in Slot /\ row.exec_select \subseteq RM
      /\ row.recon_select \subseteq RM /\ RegionOf[m] \in Region
  BY CoreAssumption DEF EngineInvariant, TypeOK, CoreTypeOK, SlotRow, row
<1>2. RegionOf[m] \notin RegionsOf(row.recon_select)
  BY <1>1 DEF ReconInOrder, Busy, SelectsApart, RegionsOf, row
<1> QED
  BY <1>1, <1>2 DEF ReconInOrder, Busy, LoadFollowed, RegionsOf

(* The region the writer addresses is that of the session's RM.             *)
LEMMA AddressedExecutes ==
  ASSUME EngineInvariant, ReconInOrder, main_state = "PROCESS", NEW r \in PrRegion(AWADDR)
  PROVE  \E m \in row.exec_select : r = RegionOf[m]
<1>1. /\ dma_init_task = None /\ pr_ctrl_task # None /\ read_val.exec_select # {}
      /\ r = RegionOf[LastRM(read_val.exec_select)]
  BY DEF PrRegion, AWADDR, ZeroAddr
<1>2. exec_state = "INITIALIZE_PR_CTRL"
  BY <1>1 DEF EngineInvariant, TaskPhase
<1>3. read_val.exec_select = row.exec_select /\ b1_read_indexer \in Slot
  BY <1>2, ReadsItsRow DEF InSession, EngineInvariant, TypeOK, CoreTypeOK
<1>4. PICK m \in row.exec_select : row.exec_select = {m}
  BY <1>1, <1>3 DEF ReconInOrder, Busy, SelectsApart, row
<1>5. m \in Nat
  BY <1>3, <1>4, CoreAssumption DEF EngineInvariant, TypeOK, CoreTypeOK, SlotRow
<1>6. LastRM({m}) = m
  BY <1>5 DEF LastRM
<1> QED
  BY <1>1, <1>3, <1>4, <1>6

LEMMA CoupledWhenAddressed ==
  ASSUME DeployInvariant
  PROVE  AddressedIsCoupled
<1>1. ASSUME NEW r \in Addressed PROVE ~decup_res(r)
  <2>1. axi_state \in {"WADDR", "WDATA", "RESP"}
    BY <1>1 DEF Addressed
  <2>2. Busy
    BY <2>1 DEF DeployInvariant, EngineInCell, EngineAtRest
  <2>3. main_state = "PROCESS"
    BY <2>1, <2>2, PreShutdownAtRest
       DEF DeployInvariant, EngineInvariant, TypeOK, CoreTypeOK, MainState, Busy
  <2>4. r \in PrRegion(AWADDR)
    BY <1>1, <2>1, <2>3 DEF Addressed, DeployInvariant, EngineInvariant, WriteIsWhole
  <2>5. Settled(r)
    BY <2>3, <2>4, AddressedExecutes, ExecutedIsSettled DEF DeployInvariant
  <2>6. decup_shadow.ctrl
    BY <2>2 DEF DeployInvariant, EngineInCell, DecouplersInCell, CtrlOwns
  <2> QED
    BY <2>5, <2>6 DEF decup_res, rm_decouple, Settled
<1>2. ASSUME NEW r \in Region, ~is_decoupled(r), cell \in {"inspect", "release"}
      PROVE  ~decup_res(r) /\ rm_phase[r] = "UP"
  BY <1>2 DEF is_decoupled, decup_res, DeployInvariant, EngineInCell, LoadsInCell, Settled
<1> QED
  BY <1>1, <1>2 DEF AddressedIsCoupled

(* Neither the writer of m_axi_write.v nor the PS after get_pr_ctrl ever    *)
(* talks to a region behind a closed decoupler.                            *)
THEOREM CoupledIsAddressed ==
  Patient /\ JobsApart => (DeploySpec => []AddressedIsCoupled)
<1>1. DeployInvariant => AddressedIsCoupled
  BY CoupledWhenAddressed
<1> QED
  BY <1>1, DeploymentInOrder, PTL

LEMMA DoneIsReconfigured ==
  ASSUME EngineInvariant, ReconInOrder
  PROVE  ReconfiguredWhenDone
<1> SUFFICES ASSUME main_state = "PROCESS", recon_state = "FIN_SYNC",
                    NEW m \in read_val.recon_select
             PROVE  /\ loaded[RegionOf[m]] = m /\ rm_phase[RegionOf[m]] = "UP"
                    /\ \A t \in triggered : RegionOf[t] # RegionOf[m]
  BY DEF ReconfiguredWhenDone
<1>1. read_val.recon_select = row.recon_select /\ row \in SlotRow
  BY ReadsItsRow DEF InSession
<1>2. RegionOf[m] \in Region
  BY <1>1, CoreAssumption DEF SlotRow
<1> QED
  BY <1>1, <1>2 DEF ReconInOrder, Busy, Settled

(* dfx_mng_core.v watches the region's reset: when it reports the           *)
(* reconfiguration finished, the RM of the session is there and is up -- if *)
(* the PS did not start the engine on top of its own first loads.          *)
THEOREM ReconfigurationsAreDone ==
  Patient /\ JobsApart => (DeploySpec => []ReconfiguredWhenDone)
<1>1. DeployInvariant => ReconfiguredWhenDone
  BY DoneIsReconfigured DEF DeployInvariant
<1> QED
  BY <1>1, DeploymentInOrder, PTL

=============================================================================
