------------------------------- MODULE DfxMng -------------------------------
(***************************************************************************)
(* The DFX Manager at work: the core and its M_AXI writer (dfx_mng.v wires  *)
(* them), the PS that configures and commands it through S_AXI, and the    *)
(* parts it drives, as the block design (dfx_unified.tcl) connects them:   *)
(*   - the AXI DMA, whose S2MM interrupt is bit 0 of dfx_stream_fin and    *)
(*     stays up until its status register is written;                      *)
(*   - the DFX streamers, seen here only through init and finStore         *)
(*     (DfxStreamer is their detailed model);                              *)
(*   - the vendor's DFX Controller, which loads an RM into its region and  *)
(*     then holds the region in reset for at least one cycle.              *)
(* One Tick is one clock edge of everything.                               *)
(***************************************************************************)
EXTENDS MAxiWrite

CONSTANTS
  Programs,      \* session tables a PS program writes before START
  Configs,       \* bank 0 contents such a program writes
  Jobs,          \* the table and bank 0 that belong together: START's choices
  PsCommands,    \* the commands the PS uses: a subset of Cmd
  PsReads        \* the rows the PS reads

ASSUME ProgramAssumption ==
  /\ Programs \subseteq [Slot -> SlotRow]
  /\ Configs \subseteq Config
  /\ Jobs \subseteq Programs \X Configs
  /\ PsCommands \subseteq Cmd
  /\ PsReads \subseteq Slot
  /\ None \notin Region

VARIABLES
  awaddr,        \* the address the interconnect took at the AW handshake
  dma,           \* registers and state of the AXI DMA
  storing,       \* streamers whose store is in progress
  rm_phase,      \* per region: "UP", "LOADING" or "RESET" (nreset low)
  loaded,        \* per region: the RM in it, or being loaded
  triggered      \* RMs whose trigger the DFX Controller has not served

env_vars == <<awaddr, dma, storing, rm_phase, loaded, triggered>>
vars == <<core_vars, axi_state, env_vars>>

DmaState == [ mm2s_run : BOOLEAN, mm2s_addr : Nat, s2mm_run : BOOLEAN,
              s2mm_addr : Nat, storing : BOOLEAN, irq : BOOLEAN ]

EnvTypeOK ==
  /\ dma \in DmaState
  /\ storing \subseteq Stream \ {DMA}
  /\ rm_phase \in [Region -> {"UP", "LOADING", "RESET"}]
  /\ loaded \in [Region -> RM \cup {None}]
  /\ triggered \subseteq RM

(* Every register holds a value of its width. *)
TypeOK == CoreTypeOK /\ axi_state \in AxiState /\ EnvTypeOK

-----------------------------------------------------------------------------
(* The driven parts. *)

DmaIdle == [ mm2s_run |-> FALSE, mm2s_addr |-> 0, s2mm_run |-> FALSE,
             s2mm_addr |-> 0, storing |-> FALSE, irq |-> FALSE ]

(* Writing 1 to a status register clears its interrupt, writing a LENGTH    *)
(* register of a running channel starts the transfer.                      *)
DmaWritten(reg, data) ==
  CASE reg = "S2MM_DMASR"  -> [dma EXCEPT !.irq = @ /\ data # 1]
    [] reg = "MM2S_DMACR"  -> [dma EXCEPT !.mm2s_run = (data = 1)]
    [] reg = "MM2S_SA"     -> [dma EXCEPT !.mm2s_addr = data]
    [] reg = "S2MM_DMACR"  -> [dma EXCEPT !.s2mm_run = (data = 1)]
    [] reg = "S2MM_DA"     -> [dma EXCEPT !.s2mm_addr = data]
    [] reg = "S2MM_LENGTH" -> [dma EXCEPT !.storing = @ \/ dma.s2mm_run]
    [] OTHER -> dma

DataAccepted(ready) == axi_state = "WDATA" /\ ready

DmaStep(ready, dma_done) ==
  \/ /\ DataAccepted(ready) /\ awaddr[1] = "DMA" /\ ~dma_done
     /\ dma' = DmaWritten(awaddr[2], WDATA)
  \/ /\ ~(DataAccepted(ready) /\ awaddr[1] = "DMA") /\ ~dma_done
     /\ UNCHANGED dma
  \/ /\ dma_done /\ dma.storing
     /\ ~(DataAccepted(ready) /\ awaddr[1] = "DMA")
     /\ dma' = [dma EXCEPT !.storing = FALSE, !.irq = TRUE]

InterconnectStep(ready) ==
  awaddr' = IF axi_state = "WADDR" /\ ready THEN AWADDR ELSE awaddr

(* done: the streamers that pulse finStore in this cycle. *)
StreamersStep(done) ==
  storing' = (storing \cup (dfx_stream_store_init \ {DMA})) \ done

StreamFin(done) == done \cup (IF dma.irq THEN {DMA} ELSE {})

Released == {r \in Region : rm_phase[r] # "RESET"}

(* reg: the region whose reconfiguration moves on in this cycle, if any.   *)
(* There is one configuration port, so they never move together.           *)
DfxControllerStep(reg) ==
  \/ /\ reg = None
     /\ triggered' = triggered \cup dfx_rm_program
     /\ UNCHANGED <<rm_phase, loaded>>
  \/ /\ reg \in Region /\ rm_phase[reg] = "UP"
     /\ \E m \in triggered :
          /\ RegionOf[m] = reg
          /\ triggered' = (triggered \ {m}) \cup dfx_rm_program
          /\ loaded' = [loaded EXCEPT ![reg] = m]
          /\ rm_phase' = [rm_phase EXCEPT ![reg] = "LOADING"]
  \/ /\ reg \in Region /\ rm_phase[reg] # "UP"
     /\ rm_phase' = [rm_phase EXCEPT ![reg] =
                       IF @ = "LOADING" THEN "RESET" ELSE "UP"]
     /\ triggered' = triggered \cup dfx_rm_program
     /\ UNCHANGED loaded

-----------------------------------------------------------------------------
(* The PS.  One register write a cycle at most: a command, bank 0 or bank 1. *)

NoWrite == [cmd |-> None, wr0 |-> None, wr1 |-> None]

(* set_slot writes one field of one row (sw/driver/dfx_mng.py). *)
FieldWrites(s, p) ==
  { [b1[s] EXCEPT !.src_addr = p[s].src_addr],
    [b1[s] EXCEPT !.src_size = p[s].src_size],
    [b1[s] EXCEPT !.des_addr = p[s].des_addr],
    [b1[s] EXCEPT !.des_size = p[s].des_size],
    [b1[s] EXCEPT !.recon_select = p[s].recon_select],
    [b1[s] EXCEPT !.exec_select = p[s].exec_select],
    [b1[s] EXCEPT !.load_mask = p[s].load_mask],
    [b1[s] EXCEPT !.store_mask = p[s].store_mask],
    [b1[s] EXCEPT !.complete_mask = p[s].complete_mask],
    [b1[s] EXCEPT !.next_session = p[s].next_session] }

(* Writing what a register already holds is no different from no write. *)
Bank1Writes ==
  UNION { { [row |-> s, new |-> v] : v \in FieldWrites(s, p) \ {b1[s]} }
            : s \in Slot, p \in Programs }

Bank0Writes ==
  (UNION { { [b0 EXCEPT !.last_session = c.last_session],
             [b0 EXCEPT !.amt_query = c.amt_query],
             [b0 EXCEPT !.amt_query_per_iter = c.amt_query_per_iter],
             [b0 EXCEPT !.intr_ena = c.intr_ena] } : c \in Configs }) \ {b0}

PsWrites ==
  {[NoWrite EXCEPT !.cmd = c] : c \in PsCommands}
    \cup {[NoWrite EXCEPT !.wr0 = w] : w \in Bank0Writes}
    \cup {[NoWrite EXCEPT !.wr1 = w] : w \in Bank1Writes}

(* Nothing of an earlier run is still moving. *)
EngineIdle ==
  /\ main_state = "SHUTDOWN" /\ recon_state = "SHUTDOWN" /\ exec_state = "SHUTDOWN"
  /\ axi_state = "IDLE"

PartsIdle ==
  /\ storing = {} /\ ~dma.storing /\ ~dma.irq
  /\ triggered = {} /\ \A r \in Region : rm_phase[r] = "UP"

(* How the notebooks use the engine: the table is written in full, then    *)
(* the engine is started, once, from rest.                                 *)
CarefulStart(ps) ==
  ps.cmd = "START" => EngineIdle /\ PartsIdle /\ <<b1, b0>> \in Jobs

-----------------------------------------------------------------------------
(* Everything the engine does not decide: what the PS writes and reads, and *)
(* what the driven parts do in this cycle (ready only where it is looked   *)
(* at, dma_done only where it is possible).                                *)
AxiWaits == axi_state \in {"WADDR", "WDATA", "RESP"}

Inputs ==
  [ ps : PsWrites \cup {NoWrite}, rd : PsReads \cup {None},
    ready : {FALSE, AxiWaits}, done : SUBSET storing,
    dma_done : {FALSE, dma.storing}, reg : Region \cup {None} ]

Tick(in) ==
  /\ MainStep(in.ps.cmd, in.rd)
  /\ ReconStep(in.ps.cmd, Released)
  /\ ExecStep(in.ps.cmd, DmaFin, PrFin)
  /\ Bank0Step(in.ps.wr0)
  /\ Bank1Step(in.ps.wr1, StreamFin(in.done))
  /\ AxiStep(in.ready)
  /\ InterconnectStep(in.ready)
  /\ DmaStep(in.ready, in.dma_done)
  /\ StreamersStep(in.done)
  /\ DfxControllerStep(in.reg)

(* The PS resets the DMA through its own driver: DFX_Dma.reset.             *)
PsResetsDma ==
  /\ EngineIdle /\ dma # DmaIdle
  /\ dma' = DmaIdle
  /\ UNCHANGED <<core_vars, axi_state, awaddr, storing, rm_phase, loaded, triggered>>

HardwareReset ==
  /\ CoreReset /\ Bank1Step(None, StreamFin({}))
  /\ axi_state' = "IDLE" /\ awaddr' = ZeroAddr
  /\ dma' = DmaIdle /\ storing' = {} /\ triggered' = {}
  /\ rm_phase' = [r \in Region |-> "UP"]
  /\ UNCHANGED loaded

Init ==
  /\ main_state = "SHUTDOWN" /\ recon_state = "SHUTDOWN" /\ exec_state = "SHUTDOWN"
  /\ \E job \in Jobs : b1 = job[1] /\ b0 = job[2]
  /\ cur_query = 0 /\ intr_status = FALSE /\ b1_read_indexer = 0
  /\ read_val = b1[0]
  /\ dma_init_task = None /\ pr_ctrl_task = None
  /\ axi_state = "IDLE" /\ awaddr = ZeroAddr
  /\ dma = DmaIdle /\ storing = {} /\ triggered = {}
  /\ rm_phase = [r \in Region |-> "UP"]
  /\ loaded = [r \in Region |-> None]

Next ==
  \/ \E in \in Inputs : CarefulStart(in.ps) /\ Tick(in)
  \/ PsResetsDma
  \/ HardwareReset

Spec == Init /\ [][Next]_vars
=============================================================================
