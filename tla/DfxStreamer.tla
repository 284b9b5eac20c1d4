----------------------------- MODULE DfxStreamer -----------------------------
(***************************************************************************)
(* One DFX streamer (hw/ip_src/dfx_streamer/dfx_streamer.v): a memory of    *)
(* stream beats with a one-register write pipeline and a one-register read *)
(* pipeline, between one store port and several load ports.  As in         *)
(* DfxMngCore, a Tick is one clock edge of every register.                 *)
(*                                                                         *)
(* The banks of the memory are one array of Rows rows, the payload of a    *)
(* beat is an element of Beats; Unknown is what was never written.         *)
(***************************************************************************)
EXTENDS Integers, Sequences

CONSTANTS
  Beats,         \* payloads of a beat
  Rows,          \* rows of the memory: NUM_BANKS * ROWS_PER_BANK
  TrackMod,      \* 2^TRACKER_IDX_WIDTH, the range of the two counters
  Port,          \* load ports: the regions that can read this streamer
  None, Unknown

Cell == Beats \cup {Unknown}

ASSUME StreamerAssumption ==
  /\ Rows \in Nat \ {0}
  /\ TrackMod \in Nat /\ Rows + 1 < TrackMod
  /\ Unknown \notin Beats
  /\ None \notin [data : Cell, last : BOOLEAN]

Row == 0 .. (Rows - 1)
Tracker == 0 .. (TrackMod - 1)
Beat == [data : Beats, last : BOOLEAN]
StreamerState == {"IDLE", "STORE", "FIN_STORE", "PRE_LOAD", "LOAD", "AFT_LOAD"}
Pulses == {"storeReset", "loadReset", "storeInit", "loadInit"}

VARIABLES
  state,
  amt_store_bytes, amt_load_bytes,    \* rows stored, rows offered (-1: rewound)
  storeIntr,                          \* the finStore output
  M_AXI_TVALID, M_AXI_TDATA, M_AXI_TLAST,   \* the load ports' shared outputs
  s_pip_valid, s_pip_data,            \* the write pipeline
  mem,
  m_pip_data,                         \* the read pipeline
  pending         \* the manager's roles for this streamer between its reset
                  \* pulses (CLEAR_MGS) and its init pulses (INITIALIZE_MGS)

counters == <<amt_store_bytes, amt_load_bytes>>
m_axi == <<M_AXI_TVALID, M_AXI_TDATA, M_AXI_TLAST>>
s_pip == <<s_pip_valid, s_pip_data>>
streamer_vars ==
  <<state, counters, storeIntr, m_axi, s_pip, mem, m_pip_data, pending>>

StreamerTypeOK ==
  /\ state \in StreamerState
  /\ amt_store_bytes \in Tracker /\ amt_load_bytes \in Tracker
  /\ storeIntr \in BOOLEAN
  /\ M_AXI_TVALID \in BOOLEAN /\ M_AXI_TDATA \in Cell /\ M_AXI_TLAST \in BOOLEAN
  /\ s_pip_valid \in BOOLEAN /\ s_pip_data \in Cell
  /\ mem \in [Row -> Cell] /\ m_pip_data \in Cell
  /\ pending \subseteq {"store", "load"}

-----------------------------------------------------------------------------
(* Wires. *)

Rewound == TrackMod - 1                         \* amt_load_bytes <= -1
(* Mutant: the counter is wider than the reset value assumes. *)
Count_NoWrap(n) == n + 1

Count(n) == (n + 1) % TrackMod

(* A decoupled store port sees no beat; a decoupled reader is never ready. *)
StoreBeat(beat, decup_store) == IF decup_store THEN None ELSE beat
LoadReady(ready, decup_load) == ready \ decup_load # {}

(* The output register is free: its beat is taken now, or none was put in.  *)
OutputFree(rdy) == (M_AXI_TVALID /\ rdy) \/ amt_load_bytes = 0
(* Mutant: the last row is taken for the one after it. *)
LastRow_OneLate == amt_load_bytes = amt_store_bytes

LastRow == amt_load_bytes = amt_store_bytes - 1

rd_preload == state = "PRE_LOAD"

(* Mutant: reading on does not wait for the output register. *)
rd_en_NoBackPressure(rdy) ==
  rd_preload \/ (state = "LOAD" /\ amt_load_bytes + 1 < amt_store_bytes)

rd_en(rdy) ==
  \/ rd_preload
  \/ state = "LOAD" /\ OutputFree(rdy) /\ amt_load_bytes + 1 < amt_store_bytes

rd_addr == IF rd_preload THEN 0 ELSE amt_load_bytes + 1

(* The memory: a row index outside the banks writes nothing and reads       *)
(* nothing known.  A read sees the memory before a write of the same edge. *)
MemoryStep(rdy) ==
  /\ mem' = IF s_pip_valid /\ amt_store_bytes - 1 \in Row
            THEN [mem EXCEPT ![amt_store_bytes - 1] = s_pip_data] ELSE mem
  /\ m_pip_data' = IF ~rd_en(rdy) THEN m_pip_data
                   ELSE IF rd_addr \in Row THEN mem[rd_addr] ELSE Unknown

-----------------------------------------------------------------------------
(* The state machine; ctl is the set of control inputs that are up.         *)

IdleStep(ctl) ==
  /\ state = "IDLE"
  /\ amt_store_bytes' = IF "storeReset" \in ctl THEN 0 ELSE amt_store_bytes
  /\ amt_load_bytes' = IF "storeReset" \notin ctl /\ "loadReset" \in ctl
                       THEN Rewound ELSE amt_load_bytes
  /\ state' = IF ctl \cap {"storeReset", "loadReset"} # {} THEN "IDLE"
              ELSE IF "storeInit" \in ctl THEN "STORE"
              ELSE IF "loadInit" \in ctl /\ amt_store_bytes > 0 THEN "PRE_LOAD"
              ELSE "IDLE"
  /\ M_AXI_TVALID' = FALSE /\ s_pip_valid' = FALSE /\ storeIntr' = FALSE
  /\ UNCHANGED <<M_AXI_TDATA, M_AXI_TLAST, s_pip_data>>

(* Mutant: the last beat ends the store without the state that drains it.   *)
StoreStep_NoDrain(beat) ==
  /\ state = "STORE"
  /\ s_pip_valid' = (beat # None)
  /\ IF beat = None THEN UNCHANGED <<state, amt_store_bytes, s_pip_data, storeIntr>>
     ELSE /\ amt_store_bytes' = Count(amt_store_bytes)
          /\ s_pip_data' = beat.data
          /\ state' = IF beat.last THEN "IDLE" ELSE "STORE"
          /\ storeIntr' = beat.last
  /\ UNCHANGED <<amt_load_bytes, m_axi>>

StoreStep(beat) ==
  /\ state = "STORE"
  /\ s_pip_valid' = (beat # None)
  /\ IF beat = None THEN UNCHANGED <<state, amt_store_bytes, s_pip_data>>
     ELSE /\ amt_store_bytes' = Count(amt_store_bytes)
          /\ s_pip_data' = beat.data
          /\ state' = IF beat.last THEN "FIN_STORE" ELSE "STORE"
  /\ UNCHANGED <<amt_load_bytes, storeIntr, m_axi>>

FinStoreStep ==
  /\ state = "FIN_STORE" /\ state' = "IDLE"
  /\ s_pip_valid' = FALSE /\ storeIntr' = TRUE
  /\ UNCHANGED <<counters, m_axi, s_pip_data>>

PreLoadStep ==
  /\ state = "PRE_LOAD" /\ state' = "LOAD"
  /\ amt_load_bytes' = Count(amt_load_bytes)
  /\ UNCHANGED <<amt_store_bytes, storeIntr, m_axi, s_pip>>

(* Mutant: the first row waits for a reader like every other row.           *)
LoadStep_FirstWaits(rdy) ==
  /\ state = "LOAD"
  /\ IF M_AXI_TVALID /\ rdy
     THEN /\ M_AXI_TVALID' = TRUE /\ M_AXI_TDATA' = m_pip_data /\ M_AXI_TLAST' = LastRow
          /\ amt_load_bytes' = Count(amt_load_bytes)
          /\ state' = IF LastRow THEN "AFT_LOAD" ELSE "LOAD"
     ELSE UNCHANGED <<state, amt_load_bytes, m_axi>>
  /\ UNCHANGED <<amt_store_bytes, storeIntr, s_pip>>

LoadStep(rdy) ==
  /\ state = "LOAD"
  /\ IF OutputFree(rdy)
     THEN /\ M_AXI_TVALID' = TRUE /\ M_AXI_TDATA' = m_pip_data /\ M_AXI_TLAST' = LastRow
          /\ amt_load_bytes' = Count(amt_load_bytes)
          /\ state' = IF LastRow THEN "AFT_LOAD" ELSE "LOAD"
     ELSE UNCHANGED <<state, amt_load_bytes, m_axi>>
  /\ UNCHANGED <<amt_store_bytes, storeIntr, s_pip>>

AftLoadStep(rdy) ==
  /\ state = "AFT_LOAD"
  /\ IF M_AXI_TVALID /\ rdy
     THEN M_AXI_TVALID' = FALSE /\ M_AXI_TLAST' = FALSE /\ state' = "IDLE"
     ELSE UNCHANGED <<M_AXI_TVALID, M_AXI_TLAST, state>>
  /\ UNCHANGED <<counters, storeIntr, s_pip, M_AXI_TDATA>>

-----------------------------------------------------------------------------
(* The manager pulses the resets of a session's roles in one cycle and the *)
(* inits in the next (CLEAR_MGS, INITIALIZE_MGS), here to an idle streamer. *)
(* (PulsesFindIdleStreamer of DfxMng shows it of one that is storing; that *)
(* a reader has taken its replay by then is assumed.)  TLAST comes before  *)
(* the memory is full (DfxStreamerCal sizes it so).                        *)

ResetPulses(roles) ==
  {IF r = "store" THEN "storeReset" ELSE "loadReset" : r \in roles}
InitPulses(roles) ==
  {IF r = "store" THEN "storeInit" ELSE "loadInit" : r \in roles}

ManagerStep(ctl) ==
  \/ pending = {} /\ ctl = {} /\ UNCHANGED pending
  \/ /\ pending = {} /\ state = "IDLE"
     /\ \E roles \in (SUBSET {"store", "load"}) \ {{}} :
          ctl = ResetPulses(roles) /\ pending' = roles
  \/ pending # {} /\ ctl = InitPulses(pending) /\ pending' = {}

BeatFits(beat) ==
  beat # None /\ amt_store_bytes + 1 >= Rows => beat.last

(* ready and decup_load matter only while a beat is offered. *)
StreamerInputs ==
  [ ctl : SUBSET Pulses,
    beat : IF state = "STORE" THEN Beat \cup {None} ELSE {None}, decup_store : BOOLEAN,
    ready : IF M_AXI_TVALID THEN SUBSET Port ELSE {{}}, decup_load : SUBSET Port ]

StreamerTick(in) ==
  LET beat == StoreBeat(in.beat, in.decup_store)
      rdy  == LoadReady(in.ready, in.decup_load)
  IN  /\ BeatFits(beat)
      /\ ManagerStep(in.ctl)
      /\ MemoryStep(rdy)
      /\ \/ IdleStep(in.ctl) \/ StoreStep(beat) \/ FinStoreStep
         \/ PreLoadStep \/ LoadStep(rdy) \/ AftLoadStep(rdy)

StreamerReset ==
  /\ state' = "IDLE" /\ amt_store_bytes' = 0 /\ amt_load_bytes' = Rewound
  /\ storeIntr' = FALSE /\ M_AXI_TVALID' = FALSE /\ s_pip_valid' = FALSE
  /\ pending' = {}
  /\ MemoryStep(FALSE)
  /\ UNCHANGED <<M_AXI_TDATA, M_AXI_TLAST, s_pip_data>>

StreamerInit ==
  /\ state = "IDLE" /\ amt_store_bytes = 0 /\ amt_load_bytes = Rewound
  /\ storeIntr = FALSE /\ M_AXI_TVALID = FALSE /\ s_pip_valid = FALSE
  /\ M_AXI_TDATA = Unknown /\ M_AXI_TLAST = FALSE /\ s_pip_data = Unknown
  /\ mem = [r \in Row |-> Unknown] /\ m_pip_data = Unknown
  /\ pending = {}

StreamerNext == (\E in \in StreamerInputs : StreamerTick(in)) \/ StreamerReset

StreamerSpec == StreamerInit /\ [][StreamerNext]_streamer_vars

-----------------------------------------------------------------------------
(* Properties. *)

(* finStore tells the manager that the store is complete (it ends the       *)
(* session): by then the write pipeline has drained, every counted row is  *)
(* in the memory.                                                          *)
SignalledIsInMemory ==
  storeIntr => ~s_pip_valid /\ \A r \in Row : r < amt_store_bytes => mem[r] # Unknown

(* A row read ahead into the pipeline is the row that will be offered next: *)
(* back-pressure holds the read pipeline together with the counter.        *)
ReadAheadMatches ==
  state = "LOAD" /\ amt_load_bytes < amt_store_bytes =>
    m_pip_data = mem[amt_load_bytes]

(* The inductive invariant behind these properties (DfxStreamerProofs).     *)

(* All counted rows are in the memory but the one in the write pipeline.    *)
RowsStored ==
  /\ amt_store_bytes <= Rows
  /\ state = "STORE" => amt_store_bytes < Rows
  /\ s_pip_valid => /\ state \in {"STORE", "FIN_STORE"}
                    /\ amt_store_bytes > 0 /\ s_pip_data \in Beats
  /\ storeIntr => state = "IDLE"
  /\ \A r \in Row : r + (IF s_pip_valid THEN 1 ELSE 0) < amt_store_bytes => mem[r] \in Beats

(* Between the reset and the init pulses the counters keep the reset.       *)
RolesReset ==
  /\ pending # {} => state = "IDLE"
  /\ "store" \in pending => amt_store_bytes = 0
  /\ pending = {"load"} => amt_load_bytes = Rewound

(* A replay begins at the first row and stops after the last one stored.    *)
Position ==
  /\ amt_load_bytes = Rewound \/ amt_load_bytes <= Rows
  /\ state = "PRE_LOAD" => amt_load_bytes = Rewound /\ amt_store_bytes > 0
  /\ state = "LOAD" => amt_load_bytes < amt_store_bytes
  /\ state = "AFT_LOAD" => amt_load_bytes = amt_store_bytes

(* What the output register offers is the row before the counter.           *)
OfferCurrent ==
  /\ state = "AFT_LOAD" => M_AXI_TVALID
  /\ state = "LOAD" => (M_AXI_TVALID <=> amt_load_bytes > 0)
  /\ M_AXI_TVALID => /\ state \in {"LOAD", "AFT_LOAD"}
                     /\ 0 < amt_load_bytes
                     /\ M_AXI_TDATA = mem[amt_load_bytes - 1]
                     /\ M_AXI_TLAST <=> amt_load_bytes = amt_store_bytes

(* Counters, pipelines, memory and output of a streamer always agree on     *)
(* which rows are stored and which row is next.                            *)
StreamerInvariant ==
  StreamerTypeOK /\ RowsStored /\ RolesReset /\ Position /\ OfferCurrent /\ ReadAheadMatches

Contents ==
  [ i \in 1 .. amt_store_bytes |->
      IF i = amt_store_bytes /\ s_pip_valid THEN s_pip_data ELSE mem[i - 1] ]

StreamMode ==
  CASE state = "IDLE" -> "idle" [] state = "STORE" -> "storing"
    [] state = "FIN_STORE" -> "closing" [] OTHER -> "replaying"
StreamSent ==
  IF amt_load_bytes = Rewound THEN 0
  ELSE IF M_AXI_TVALID THEN amt_load_bytes - 1 ELSE amt_load_bytes
StreamOffer == IF M_AXI_TVALID THEN [data |-> M_AXI_TDATA, last |-> M_AXI_TLAST] ELSE None

Buffer == INSTANCE StreamBuffer WITH contents <- Contents, mode <- StreamMode,
  sent <- StreamSent, offer <- StreamOffer, signal <- storeIntr

(* A streamer replays what was stored: every row once, in order, LAST on   *)
(* the last, an offered beat held until a reader takes it.                 *)
ImplementsBuffer == Buffer!BufferSpec

(* Fairness: the clock runs, a reader that is waited for becomes ready and *)
(* an accelerator that stores ends its stream.                             *)
ReadersReady == \E in \in StreamerInputs :
  LoadReady(in.ready, in.decup_load) /\ StreamerTick(in)
StreamsEnd == \E in \in StreamerInputs :
  /\ StoreBeat(in.beat, in.decup_store) # None /\ in.beat.last
  /\ StreamerTick(in)

StreamerFairSpec ==
  /\ StreamerSpec
  /\ WF_streamer_vars(\E in \in StreamerInputs : StreamerTick(in))
  /\ WF_streamer_vars(ReadersReady) /\ WF_streamer_vars(StreamsEnd)

(* Whatever a streamer was told to do comes to an end: it is idle again,   *)
(* ready for the next session's pulses.                                    *)
ReturnsToIdle == state # "IDLE" ~> state = "IDLE"
=============================================================================
