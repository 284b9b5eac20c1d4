------------------------------ MODULE Deployment ------------------------------
(***************************************************************************)
(* A deployment as the notebooks carry it out                              *)
(* (example/multi_region_test5/test.ipynb): the PS inspects the regions,   *)
(* tells the DFX Controller where the bitstreams are, holds the            *)
(* decouplers, loads a first RM into every region, hands the decouplers to *)
(* the DFX Controller, starts the DFX Manager, waits for its interrupt,    *)
(* takes the decouplers back and inspects the regions again.               *)
(*                                                                         *)
(* It composes DfxMng (the engine and the parts it drives, with the session *)
(* table already written) with                                             *)
(*   - the decouplers: dfx_decup_ctrl.v, one multiplexer per region between *)
(*     the DFX Controller's rm_decouple and the PS's bit, and the register *)
(*     behind them, written through DFX_Man (sw/driver/dfx_man.py);        *)
(*   - the virtual socket managers of the DFX Controller, which begin in   *)
(*     shutdown and are driven through DFX_Ctrl (sw/driver/dfx_ctrl.py).   *)
(* A decoupled region answers no AXI write and finishes no store.          *)
(***************************************************************************)
EXTENDS DfxMngRuns

CONSTANT Patient   \* the PS waits for the first loads before it goes on

ASSUME PatientAssumption == Patient \in BOOLEAN

(* Every region has RMs, and so one with the least number.                 *)
ASSUME RegionAssumption ==
  \A r \in Region :
    \E m \in RM : RegionOf[m] = r /\ \A n \in RM : RegionOf[n] = r => m <= n

VARIABLES
  cell,            \* the notebook cell being run
  todo,            \* the regions (in "meta": RMs) its loop has not come to
  decup_shadow,    \* DFX_Man's copy of the decoupler register
  vs_shutdown,     \* virtual socket managers in shutdown
  meta             \* RMs whose bitstream the DFX Controller knows

ps_vars == <<cell, todo, decup_shadow, vs_shutdown, meta>>
deploy_vars == <<vars, ps_vars>>

Cell == {"inspect_grant", "inspect", "meta", "hold", "load", "grant", "start",
         "await", "stop", "regrant", "release", "done"}

(* The register is write-only and has one writer: it holds what the shadow *)
(* holds.  ctrl is bit 0, ps the regions whose own bit is set.             *)
DecupRegister == [ctrl : BOOLEAN, ps : SUBSET Region]

DeployTypeOK ==
  /\ TypeOK
  /\ cell \in Cell
  /\ todo \subseteq (IF cell = "meta" THEN RM ELSE Region)
  /\ decup_shadow \in DecupRegister
  /\ vs_shutdown \subseteq Region
  /\ meta \subseteq RM

-----------------------------------------------------------------------------
(* The decouplers. *)

(* rm_decouple: the DFX Controller isolates a region while it loads it.     *)
rm_decouple(r) == rm_phase[r] # "UP"

(* Mutant: the multiplexer's inputs are swapped. *)
decup_res_Swapped(r) ==
  IF decup_shadow.ctrl THEN r \in decup_shadow.ps ELSE rm_decouple(r)

decup_res(r) == IF decup_shadow.ctrl THEN rm_decouple(r) ELSE r \in decup_shadow.ps

(* DFX_Man.is_decoupled, which get_pr_ctrl asks before it gives access.     *)
is_decoupled(r) == decup_shadow.ctrl \/ r \in decup_shadow.ps

-----------------------------------------------------------------------------
(* The PS.  A cell ends when its loop is over. *)

NextCell == [ inspect_grant |-> "inspect", inspect |-> "meta", meta |-> "hold",
              hold |-> "load", load |-> "grant", grant |-> "start", start |-> "await",
              await |-> "stop", stop |-> "regrant", regrant |-> "release",
              release |-> "done" ]

LoopOf(c) == IF c = "meta" THEN RM
             ELSE IF c \in {"inspect", "hold", "load", "release"} THEN Region ELSE {}

CellEnds(c) ==
  /\ cell = c /\ cell' = NextCell[c] /\ todo' = LoopOf(NextCell[c])

Visits(c, r) == cell = c /\ r \in todo /\ todo' = todo \ {r} /\ UNCHANGED cell

grant_decoupler_to_ps ==
  /\ \E c \in {"inspect_grant", "regrant"} : CellEnds(c)
  /\ decup_shadow' = [decup_shadow EXCEPT !.ctrl = FALSE]
  /\ UNCHANGED <<vars, vs_shutdown, meta>>

(* Mutant: the PS keeps the decouplers. *)
grant_decoupler_to_dfx_ctrl_Kept ==
  CellEnds("grant") /\ UNCHANGED <<vars, decup_shadow, vs_shutdown, meta>>

grant_decoupler_to_dfx_ctrl ==
  /\ CellEnds("grant")
  /\ decup_shadow' = [decup_shadow EXCEPT !.ctrl = TRUE]
  /\ UNCHANGED <<vars, vs_shutdown, meta>>

(* release_decup, then get_pr_ctrl(r).print_status.                         *)
release_decup(r) ==
  /\ \E c \in {"inspect", "release"} : Visits(c, r)
  /\ decup_shadow' = [decup_shadow EXCEPT !.ps = @ \ {r}]
  /\ UNCHANGED <<vars, vs_shutdown, meta>>

hold_decup(r) ==
  /\ Visits("hold", r)
  /\ decup_shadow' = [decup_shadow EXCEPT !.ps = @ \cup {r}]
  /\ UNCHANGED <<vars, vs_shutdown, meta>>

(* While the program awaits, other tasks of its event loop may use the      *)
(* per-region bits of DFX_Man (valid only when the source is the PS).      *)
UseBitsMeanwhile(r) ==
  /\ cell = "await" /\ UNCHANGED <<cell, todo>>
  /\ decup_shadow' = [decup_shadow EXCEPT
                        !.ps = IF r \in @ THEN @ \ {r} ELSE @ \cup {r}]
  /\ UNCHANGED <<vars, vs_shutdown, meta>>

(* DFX_Ctrl.set_simple_meta_data: trigger m of the region loads bitstream m. *)
set_simple_meta_data(m) ==
  /\ Visits("meta", m)
  /\ meta' = meta \cup {m}
  /\ UNCHANGED <<vars, decup_shadow, vs_shutdown>>

FirstRM(r) == CHOOSE m \in RM : RegionOf[m] = r /\ \A n \in RM : RegionOf[n] = r => m <= n

(* DFX_Ctrl.trig(r, 0) and restart_no_status(r).  Until the restart the     *)
(* virtual socket manager is in shutdown and does nothing with the trigger. *)
trig_and_restart(r) ==
  /\ Visits("load", r)
  /\ triggered' = triggered \cup {FirstRM(r)}
  /\ vs_shutdown' = vs_shutdown \ {r}
  /\ UNCHANGED <<core_vars, axi_state, awaddr, dma, storing, rm_phase, loaded,
                 decup_shadow, meta>>

(* DFX_Ctrl.print_status shows the active RM of every region. *)
FirstLoadsOver == triggered = {} /\ \A r \in Region : rm_phase[r] = "UP"

(* Mutant: the program goes on without a look at the status. *)
LeaveLoop_NoLook ==
  /\ todo = {} /\ LoopOf(cell) # {} /\ CellEnds(cell)
  /\ UNCHANGED <<vars, decup_shadow, vs_shutdown, meta>>

LeaveLoop ==
  /\ todo = {} /\ LoopOf(cell) # {} /\ CellEnds(cell)
  /\ Patient /\ cell = "load" => FirstLoadsOver
  /\ UNCHANGED <<vars, decup_shadow, vs_shutdown, meta>>

(* await my_interrupt.wait() *)
AwaitInterrupt ==
  /\ CellEnds("await") /\ intr_status
  /\ UNCHANGED <<vars, decup_shadow, vs_shutdown, meta>>

PsStep ==
  \/ grant_decoupler_to_ps \/ grant_decoupler_to_dfx_ctrl
  \/ \E r \in Region : release_decup(r) \/ hold_decup(r) \/ trig_and_restart(r)
  \/ \E m \in RM : set_simple_meta_data(m)
  \/ LeaveLoop \/ AwaitInterrupt

-----------------------------------------------------------------------------
(* One clock edge. *)

(* dfx_mng.start_engine and dfx_mng.shutdown_engine.                        *)
CommandOf(c) == CASE c = "start" -> "START" [] c = "stop" -> "SHUTDOWN" [] OTHER -> None

DeployInputs ==
  [ ps : {NoWrite, [NoWrite EXCEPT !.cmd = CommandOf(cell)]}, rd : {None},
    ready : {FALSE, AxiWaits}, done : SUBSET storing, dma_done : {FALSE, dma.storing},
    reg : Region \cup {None} ]

(* The region whose PR ctrl IP the writer is talking to. *)
PrRegion(a) == IF a[1] = "PR" THEN {a[3]} ELSE {}
Addressed == IF axi_state = "WADDR" THEN PrRegion(AWADDR)
             ELSE IF axi_state \in {"WDATA", "RESP"} THEN PrRegion(awaddr) ELSE {}

ExecRegions == {RegionOf[m] : m \in b1[b1_read_indexer].exec_select}

(* What a decoupled region cannot do, nor a socket manager in shutdown, nor *)
(* one whose RM has no bitstream.                                          *)
Possible(in) ==
  /\ in.ready => \A r \in Addressed : ~decup_res(r)
  /\ in.done # {} \/ in.dma_done => \A r \in ExecRegions : ~decup_res(r)
  /\ in.reg # None => /\ in.reg \notin vs_shutdown
                     /\ \A m \in triggered : RegionOf[m] = in.reg => m \in meta

Clocked(in) ==
  /\ Possible(in) /\ Tick(in)
  /\ IF in.ps.cmd = None THEN UNCHANGED <<cell, todo>> ELSE CellEnds(cell)
  /\ UNCHANGED <<decup_shadow, vs_shutdown, meta>>

DeployInit ==
  /\ Init
  /\ cell = "inspect_grant" /\ todo = {}
  /\ decup_shadow = [ctrl |-> FALSE, ps |-> {}]
  /\ vs_shutdown = Region /\ meta = {}

DeployNext ==
  \/ PsStep \/ \E r \in Region : UseBitsMeanwhile(r)
  \/ \E in \in DeployInputs : Clocked(in)

DeploySpec == DeployInit /\ [][DeployNext]_deploy_vars

(* As in DfxMngProperties, for as long as the parts are not decoupled; and  *)
(* the PS goes on.                                                         *)
DeployFairSpec ==
  /\ DeploySpec
  /\ WF_deploy_vars(PsStep)
  /\ WF_deploy_vars(\E in \in DeployInputs : in.ps.cmd # None /\ Clocked(in))
  /\ WF_deploy_vars(\E in \in DeployInputs : Clocked(in))
  /\ WF_deploy_vars(\E in \in DeployInputs : in.ready /\ Clocked(in))
  /\ WF_deploy_vars(\E in \in DeployInputs : in.dma_done /\ Clocked(in))
  /\ \A s \in Stream : WF_deploy_vars(\E in \in DeployInputs : s \in in.done /\ Clocked(in))
  /\ \A r \in Region : WF_deploy_vars(\E in \in DeployInputs : in.reg = r /\ Clocked(in))

-----------------------------------------------------------------------------
(* A region is isolated for as long as it is being reconfigured, whoever    *)
(* has the decouplers: the PS hands them over and takes them back while    *)
(* the DFX Controller is at work.                                          *)
LoadingIsDecoupled == \A r \in Region : rm_phase[r] # "UP" => decup_res(r)

(* Nobody talks to a region that cannot answer: neither the engine, whose   *)
(* bus write would never end, nor the PS through get_pr_ctrl.              *)
AddressedIsCoupled ==
  /\ \A r \in Addressed : ~decup_res(r)
  /\ \A r \in Region : ~is_decoupled(r) /\ cell \in {"inspect", "release"} /\ r \notin todo
       => ~decup_res(r) /\ rm_phase[r] = "UP"

(* doc/tech_report/main.tex, DFX CTRL Connector: it "receives data back ... *)
(* to indicate that the reconfiguration is finished".  When the            *)
(* reconfiguration part of a session is over, its RM is in its region, out *)
(* of reset, and the region is asked for nothing else.                     *)
ReconfiguredWhenDone ==
  main_state = "PROCESS" /\ recon_state = "FIN_SYNC" =>
    \A m \in read_val.recon_select :
      /\ loaded[RegionOf[m]] = m /\ rm_phase[RegionOf[m]] = "UP"
      /\ \A t \in triggered : RegionOf[t] # RegionOf[m]

(* The program gets to its last cell: the interrupt comes.                  *)
DeploymentEnds == <>(cell = "done")

-----------------------------------------------------------------------------
(* The inductive invariant behind the safety properties, for a patient PS   *)
(* and tables that reconfigure one region while they execute in another    *)
(* (proved in DeploymentProofs).                                           *)

BeforeRun == {"inspect_grant", "inspect", "meta", "hold", "load", "grant", "start"}
CtrlOwns  == {"start", "await", "stop", "regrant"}

(* The engine runs in no other cell than await, and not after its interrupt. *)
(* Until it is started everything it drives is as the PS found it.         *)
EngineInCell ==
  /\ cell # "await" \/ intr_status => ~Busy
  /\ ~Busy => EngineAtRest
  /\ cell \in BeforeRun =>
       <<b1, b0>> \in Jobs /\ storing = {} /\ ~dma.storing /\ ~dma.irq

(* The first loads are over when the PS has left their loop, and a session's *)
(* when the run is over.                                                   *)
LoadsInCell == cell # "load" /\ ~Busy => \A r \in Region : Settled(r)

(* Who has the decouplers in which cell; the PS holds all of them while it  *)
(* loads.                                                                  *)
DecouplersInCell ==
  /\ decup_shadow.ctrl <=> cell \in CtrlOwns
  /\ cell = "hold" => Region \ todo \subseteq decup_shadow.ps
  /\ cell \in {"load", "grant"} => decup_shadow.ps = Region

DeployInvariant ==
  /\ Patient /\ JobsApart
  /\ DeployTypeOK /\ EngineInvariant /\ ReconInOrder
  /\ EngineInCell /\ LoadsInCell /\ DecouplersInCell
=============================================================================
