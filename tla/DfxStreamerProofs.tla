-------------------------- MODULE DfxStreamerProofs --------------------------
(***************************************************************************)
(* Proofs about a DFX streamer with a memory of any depth, counters of any *)
(* width that can count it, any payloads and any number of readers.        *)
(***************************************************************************)
EXTENDS DfxStreamer, SequenceTheorems, TLAPS

(* The counters wrap only at -1: a count that the memory bounds does not.   *)
LEMMA CountBelowWrap ==
  /\ \A n \in Nat : n <= Rows => Count(n) = n + 1
  /\ Count(Rewound) = 0
  /\ Rewound \in Nat /\ Rows < Rewound
  /\ \A n \in Tracker : Count(n) \in Tracker
<1> USE StreamerAssumption DEF Count, Rewound, Tracker
<1>1. /\ Rewound \in Nat /\ Rows < Rewound
      /\ \A n \in Nat : n <= Rows => n + 1 < TrackMod
  OBVIOUS
<1>2. \A n \in Nat : n < TrackMod => n % TrackMod = n
  OBVIOUS
<1>3. TrackMod % TrackMod = 0
  OBVIOUS
<1>4. \A n \in Tracker : Count(n) \in Tracker
  OBVIOUS
<1> QED
  BY <1>1, <1>2, <1>3, <1>4

(* What the inputs of a cycle are.                                          *)
LEMMA StreamerInputsTyped ==
  ASSUME NEW in \in StreamerInputs
  PROVE  /\ StoreBeat(in.beat, in.decup_store) \in Beat \cup {None}
         /\ state # "STORE" => StoreBeat(in.beat, in.decup_store) = None
         /\ LoadReady(in.ready, in.decup_load) \in BOOLEAN
BY DEF StreamerInputs, StoreBeat, LoadReady

LEMMA MemoryTyped ==
  ASSUME StreamerTypeOK, NEW rdy \in BOOLEAN, MemoryStep(rdy)
  PROVE  mem' \in [Row -> Cell] /\ m_pip_data' \in Cell
BY DEF StreamerTypeOK, MemoryStep, Cell

LEMMA StreamerTickTyped ==
  ASSUME StreamerTypeOK, NEW in \in StreamerInputs, StreamerTick(in)
  PROVE  StreamerTypeOK'
<1> DEFINE beat == StoreBeat(in.beat, in.decup_store)
           rdy  == LoadReady(in.ready, in.decup_load)
<1>1. beat \in Beat \cup {None} /\ rdy \in BOOLEAN
  BY StreamerInputsTyped
<1>2. mem' \in [Row -> Cell] /\ m_pip_data' \in Cell
  BY <1>1, MemoryTyped DEF StreamerTick
<1>3. pending' \subseteq {"store", "load"}
  BY DEF StreamerTick, ManagerStep, StreamerTypeOK
<1> DEFINE Rest ==
      /\ state' \in StreamerState
      /\ amt_store_bytes' \in Tracker /\ amt_load_bytes' \in Tracker
      /\ storeIntr' \in BOOLEAN
      /\ M_AXI_TVALID' \in BOOLEAN /\ M_AXI_TDATA' \in Cell /\ M_AXI_TLAST' \in BOOLEAN
      /\ s_pip_valid' \in BOOLEAN /\ s_pip_data' \in Cell
<1> USE CountBelowWrap DEF StreamerTypeOK, StreamerState, counters, m_axi, s_pip
<1>4. CASE IdleStep(in.ctl)
  <2>1. 0 \in Tracker /\ Rewound \in Tracker
    BY StreamerAssumption DEF Tracker, Rewound
  <2>2. Rest
    BY <1>4, <2>1 DEF IdleStep
  <2> QED
    BY <1>2, <1>3, <2>2
<1>5. CASE StoreStep(beat)
  <2>1. (beat # None) \in BOOLEAN /\ (beat # None => beat.data \in Cell)
    BY <1>1 DEF Beat, Cell
  <2>2. Rest
    BY <1>5, <2>1 DEF StoreStep
  <2> QED
    BY <1>2, <1>3, <2>2
<1>6. CASE FinStoreStep \/ PreLoadStep
  <2>1. Rest
    BY <1>6 DEF FinStoreStep, PreLoadStep
  <2> QED
    BY <1>2, <1>3, <2>1
<1>7. CASE LoadStep(rdy) \/ AftLoadStep(rdy)
  <2>1. LastRow \in BOOLEAN
    BY DEF LastRow
  <2>2. Rest
    BY <1>7, <2>1 DEF LoadStep, AftLoadStep
  <2> QED
    BY <1>2, <1>3, <2>2
<1> QED
  BY <1>4, <1>5, <1>6, <1>7 DEF StreamerTick

LEMMA StreamerResetTyped ==
  ASSUME StreamerTypeOK, StreamerReset
  PROVE  StreamerTypeOK'
<1>1. mem' \in [Row -> Cell] /\ m_pip_data' \in Cell
  BY MemoryTyped DEF StreamerReset
<1>2. 0 \in Tracker /\ Rewound \in Tracker
  BY StreamerAssumption DEF Tracker, Rewound
<1> QED
  BY <1>1, <1>2 DEF StreamerReset, StreamerTypeOK, StreamerState

LEMMA StreamerInitTyped == StreamerInit => StreamerTypeOK
<1>1. 0 \in Tracker /\ Rewound \in Tracker
  BY StreamerAssumption DEF Tracker, Rewound
<1> QED
  BY <1>1 DEF StreamerInit, StreamerTypeOK, StreamerState, Cell

LEMMA StreamerStutterTyped ==
  ASSUME StreamerTypeOK, UNCHANGED streamer_vars
  PROVE  StreamerTypeOK'
BY DEF streamer_vars, counters, m_axi, s_pip, StreamerTypeOK

(* Every register of a streamer always holds a value of its width.          *)
THEOREM StreamerTypeCorrect == StreamerSpec => []StreamerTypeOK
<1>1. StreamerTypeOK /\ [StreamerNext]_streamer_vars => StreamerTypeOK'
  BY StreamerTickTyped, StreamerResetTyped, StreamerStutterTyped DEF StreamerNext
<1> QED
  BY StreamerInitTyped, <1>1, PTL DEF StreamerSpec

-----------------------------------------------------------------------------
(* The inductive invariant, one lemma per conjunct.                         *)

(* What a clock edge does to the rows that are already counted.             *)
LEMMA RowsAtEdge ==
  ASSUME StreamerTypeOK, RowsStored, NEW rdy \in BOOLEAN, MemoryStep(rdy)
  PROVE  /\ \A r \in Row : r < amt_store_bytes => mem'[r] \in Beats
         /\ ~s_pip_valid => mem' = mem
<1>1. CASE s_pip_valid
  <2>1. amt_store_bytes - 1 \in Row /\ amt_store_bytes \in Nat
    BY <1>1, StreamerAssumption DEF RowsStored, StreamerTypeOK, Row, Tracker
  <2>2. mem' = [mem EXCEPT ![amt_store_bytes - 1] = s_pip_data]
    BY <1>1, <2>1 DEF MemoryStep
  <2>3. ASSUME NEW r \in Row, r < amt_store_bytes PROVE mem'[r] \in Beats
    <3>1. CASE r = amt_store_bytes - 1
      BY <1>1, <2>2, <3>1 DEF RowsStored, StreamerTypeOK
    <3>2. CASE r # amt_store_bytes - 1
      <4>1. r \in Int /\ r + 1 < amt_store_bytes
        BY <2>1, <2>3, <3>2 DEF Row
      <4> QED
        BY <1>1, <2>2, <3>2, <4>1 DEF RowsStored, StreamerTypeOK
    <3> QED
      BY <3>1, <3>2
  <2> QED
    BY <1>1, <2>3
<1>2. CASE ~s_pip_valid
  BY <1>2 DEF MemoryStep, RowsStored, Row
<1> QED
  BY <1>1, <1>2

LEMMA RowsStoredKept ==
  ASSUME StreamerTypeOK, RowsStored, RolesReset, NEW in \in StreamerInputs, StreamerTick(in)
  PROVE  RowsStored'
<1> DEFINE beat == StoreBeat(in.beat, in.decup_store)
           rdy  == LoadReady(in.ready, in.decup_load)
<1>1. /\ beat \in Beat \cup {None} /\ rdy \in BOOLEAN
      /\ BeatFits(beat) /\ MemoryStep(rdy)
  BY StreamerInputsTyped DEF StreamerTick
<1>2. \A r \in Row : r < amt_store_bytes => mem'[r] \in Beats
  BY <1>1, RowsAtEdge
<1>3. amt_store_bytes \in Nat /\ amt_store_bytes <= Rows /\ Rows \in Nat \ {0}
  BY StreamerAssumption DEF StreamerTypeOK, RowsStored, Tracker
<1>4. CASE IdleStep(in.ctl)
  <2>1. amt_store_bytes' \in {0, amt_store_bytes} /\ ~s_pip_valid' /\ ~storeIntr'
    BY <1>4 DEF IdleStep
  <2>2. state' = "STORE" => amt_store_bytes' < Rows
    <3>1. SUFFICES ASSUME state' = "STORE" PROVE amt_store_bytes' < Rows
      OBVIOUS
    <3>2. "storeInit" \in in.ctl /\ in.ctl \cap {"storeReset", "loadReset"} = {}
      BY <1>4, <3>1 DEF IdleStep
    <3>3. "store" \in pending
      BY <3>2 DEF StreamerTick, ManagerStep, ResetPulses, InitPulses
    <3>4. amt_store_bytes = 0
      BY <3>3 DEF RolesReset
    <3> QED
      BY <1>3, <2>1, <3>4
  <2>3. ASSUME NEW r \in Row, r < amt_store_bytes' PROVE mem'[r] \in Beats
    <3>1. r < amt_store_bytes
      BY <1>3, <2>1, <2>3 DEF Row
    <3> QED
      BY <1>2, <3>1
  <2>4. \A r \in Row : r + 0 = r
    BY DEF Row
  <2> QED
    BY <1>3, <2>1, <2>2, <2>3, <2>4 DEF RowsStored
<1>5. CASE StoreStep(beat) /\ beat = None
  <2>1. /\ state' = "STORE" /\ state = "STORE" /\ ~s_pip_valid' /\ storeIntr' = storeIntr
        /\ amt_store_bytes' = amt_store_bytes
    BY <1>5 DEF StoreStep
  <2>2. \A r \in Row : r + 0 = r
    BY DEF Row
  <2> QED
    BY <1>2, <1>3, <2>1, <2>2 DEF RowsStored
<1>6. CASE StoreStep(beat) /\ beat # None
  <2>1. /\ state = "STORE" /\ state' \in {"STORE", "FIN_STORE"} /\ s_pip_valid'
        /\ state' = "STORE" => ~beat.last
        /\ s_pip_data' = beat.data /\ storeIntr' = storeIntr
        /\ amt_store_bytes' = Count(amt_store_bytes)
    BY <1>6 DEF StoreStep
  <2>2. amt_store_bytes < Rows
    BY <2>1 DEF RowsStored
  <2>3. amt_store_bytes' = amt_store_bytes + 1
    BY <1>3, <2>1, CountBelowWrap
  <2>4. s_pip_data' \in Beats
    BY <1>1, <1>6, <2>1 DEF Beat
  <2>5. state' = "STORE" => amt_store_bytes' < Rows
    BY <1>1, <1>3, <1>6, <2>1, <2>2, <2>3 DEF BeatFits
  <2>6. ASSUME NEW r \in Row, r + 1 < amt_store_bytes' PROVE mem'[r] \in Beats
    <3>1. r < amt_store_bytes
      BY <1>3, <2>3, <2>6 DEF Row
    <3> QED
      BY <1>2, <3>1
  <2>7. ~storeIntr'
    BY <2>1 DEF RowsStored
  <2> QED
    BY <1>3, <2>1, <2>2, <2>3, <2>4, <2>5, <2>6, <2>7 DEF RowsStored
<1>7. CASE FinStoreStep \/ PreLoadStep \/ LoadStep(rdy) \/ AftLoadStep(rdy)
  <2>1. /\ amt_store_bytes' = amt_store_bytes /\ state' # "STORE" /\ ~s_pip_valid'
        /\ storeIntr' => state' = "IDLE"
    BY <1>7 DEF FinStoreStep, PreLoadStep, LoadStep, AftLoadStep, counters, s_pip, RowsStored
  <2>2. \A r \in Row : r + 0 = r
    BY DEF Row
  <2> QED
    BY <1>2, <1>3, <2>1, <2>2 DEF RowsStored
<1> QED
  BY <1>4, <1>5, <1>6, <1>7 DEF StreamerTick

LEMMA RolesResetKept ==
  ASSUME StreamerTypeOK, RolesReset, NEW in \in StreamerInputs, StreamerTick(in)
  PROVE  RolesReset'
<1>1. CASE pending = {} /\ in.ctl = {} /\ UNCHANGED pending
  BY <1>1 DEF RolesReset
<1>2. CASE /\ pending = {} /\ state = "IDLE"
           /\ \E roles \in (SUBSET {"store", "load"}) \ {{}} :
                in.ctl = ResetPulses(roles) /\ pending' = roles
  <2>1. PICK roles \in (SUBSET {"store", "load"}) \ {{}} :
          in.ctl = ResetPulses(roles) /\ pending' = roles
    BY <1>2
  <2>2. IdleStep(in.ctl)
    BY <1>2 DEF StreamerTick, StoreStep, FinStoreStep, PreLoadStep, LoadStep, AftLoadStep
  <2>3. /\ "store" \in roles => "storeReset" \in in.ctl
        /\ roles = {"load"} => "storeReset" \notin in.ctl /\ "loadReset" \in in.ctl
        /\ in.ctl \cap {"storeReset", "loadReset"} # {}
    <3>1. "store" \in roles => "storeReset" \in in.ctl
      BY <2>1 DEF ResetPulses
    <3>2. "load" \in roles => "loadReset" \in in.ctl
      BY <2>1 DEF ResetPulses
    <3>3. roles = {"load"} => in.ctl = {"loadReset"}
      BY <2>1 DEF ResetPulses
    <3>4. "store" \in roles \/ "load" \in roles
      <4>1. roles # {} /\ roles \subseteq {"store", "load"}
        BY <2>1
      <4>2. PICK r \in roles : TRUE
        BY <4>1
      <4>3. r \in {"store", "load"}
        BY <4>1
      <4> QED
        BY <4>2, <4>3
    <3> QED
      BY <3>1, <3>2, <3>3, <3>4
  <2> QED
    BY <2>1, <2>2, <2>3 DEF IdleStep, RolesReset, Rewound
<1>3. CASE pending # {} /\ in.ctl = InitPulses(pending) /\ pending' = {}
  BY <1>3 DEF RolesReset
<1> QED
  BY <1>1, <1>2, <1>3 DEF StreamerTick, ManagerStep

(* A load is started only after the load counter was rewound, for a stream  *)
(* of at least one row.                                                     *)
LEMMA PositionKept ==
  ASSUME StreamerTypeOK, RowsStored, RolesReset, Position,
         NEW in \in StreamerInputs, StreamerTick(in)
  PROVE  Position'
<1> DEFINE beat == StoreBeat(in.beat, in.decup_store)
           rdy  == LoadReady(in.ready, in.decup_load)
<1>1. /\ amt_store_bytes \in Nat /\ amt_store_bytes <= Rows /\ Rows \in Nat \ {0}
      /\ amt_load_bytes \in Nat /\ Rewound \in Nat /\ Rows < Rewound
      /\ Rewound' = Rewound
  BY StreamerAssumption, CountBelowWrap DEF StreamerTypeOK, RowsStored, Tracker, Rewound
<1>2. CASE IdleStep(in.ctl)
  <2>1. /\ amt_load_bytes' \in {Rewound, amt_load_bytes}
        /\ state' \in {"IDLE", "STORE", "PRE_LOAD"}
    BY <1>2 DEF IdleStep
  <2>2. state' = "PRE_LOAD" => amt_load_bytes' = Rewound /\ amt_store_bytes' > 0
    <3>1. SUFFICES ASSUME state' = "PRE_LOAD"
                   PROVE  amt_load_bytes' = Rewound /\ amt_store_bytes' > 0
      OBVIOUS
    <3>2. /\ "loadInit" \in in.ctl /\ "storeInit" \notin in.ctl
          /\ in.ctl \cap {"storeReset", "loadReset"} = {} /\ amt_store_bytes > 0
      BY <1>2, <3>1 DEF IdleStep
    <3>3. "load" \in pending /\ "store" \notin pending
      <4>1. in.ctl = InitPulses(pending)
        BY <3>2 DEF StreamerTick, ManagerStep, ResetPulses
      <4>2. "store" \in pending => "storeInit" \in in.ctl
        BY <4>1 DEF InitPulses
      <4>3. "load" \notin pending => "loadInit" \notin in.ctl
        BY <4>1 DEF InitPulses, StreamerTypeOK
      <4> QED
        BY <3>2, <4>2, <4>3
    <3>4. pending = {"load"}
      BY <3>3 DEF StreamerTypeOK
    <3> QED
      BY <1>2, <3>2, <3>4 DEF IdleStep, RolesReset
  <2> QED
    BY <1>1, <2>1, <2>2 DEF Position
<1>3. CASE StoreStep(beat) \/ FinStoreStep
  <2>1. amt_load_bytes' = amt_load_bytes /\ state' \in {"IDLE", "STORE", "FIN_STORE"}
    BY <1>3 DEF StoreStep, FinStoreStep, counters
  <2> QED
    BY <1>1, <2>1 DEF Position
<1>4. CASE PreLoadStep
  BY <1>1, <1>4, CountBelowWrap DEF PreLoadStep, Position
<1>5. CASE LoadStep(rdy)
  <2>1. state = "LOAD" /\ amt_load_bytes < amt_store_bytes /\ amt_load_bytes <= Rows
    BY <1>1, <1>5 DEF LoadStep, Position
  <2>2. CASE OutputFree(rdy)
    <3>1. amt_load_bytes' = amt_load_bytes + 1
      BY <1>1, <1>5, <2>1, <2>2, CountBelowWrap DEF LoadStep
    <3> QED
      BY <1>1, <1>5, <2>1, <2>2, <3>1 DEF LoadStep, LastRow, Position
  <2>3. CASE ~OutputFree(rdy)
    BY <1>1, <1>5, <2>1, <2>3 DEF LoadStep, Position
  <2> QED
    BY <2>2, <2>3
<1>6. CASE AftLoadStep(rdy)
  BY <1>1, <1>6 DEF AftLoadStep, Position, counters
<1> QED
  BY <1>2, <1>3, <1>4, <1>5, <1>6 DEF StreamerTick

LEMMA ReadAheadKept ==
  ASSUME StreamerTypeOK, RowsStored, Position, ReadAheadMatches, OfferCurrent,
         NEW in \in StreamerInputs, StreamerTick(in)
  PROVE  ReadAheadMatches' /\ OfferCurrent'
<1> DEFINE beat == StoreBeat(in.beat, in.decup_store)
           rdy  == LoadReady(in.ready, in.decup_load)
<1>1. /\ amt_store_bytes \in Nat /\ amt_store_bytes <= Rows /\ Rows \in Nat \ {0}
      /\ amt_load_bytes \in Nat /\ Rewound \in Nat /\ Rows < Rewound
      /\ rdy \in BOOLEAN /\ MemoryStep(rdy)
  BY StreamerAssumption, CountBelowWrap, StreamerInputsTyped
     DEF StreamerTypeOK, RowsStored, Tracker, StreamerTick
<1>2. CASE IdleStep(in.ctl)
  BY <1>2 DEF IdleStep, ReadAheadMatches, OfferCurrent
<1>3. CASE StoreStep(beat) \/ FinStoreStep
  <2>1. state' \notin {"LOAD", "AFT_LOAD"} /\ state \notin {"LOAD", "AFT_LOAD"}
        /\ M_AXI_TVALID' = M_AXI_TVALID
    BY <1>3 DEF StoreStep, FinStoreStep, m_axi
  <2> QED
    BY <2>1 DEF ReadAheadMatches, OfferCurrent
<1>4. CASE PreLoadStep
  <2>1. mem' = mem
    BY <1>1, <1>4, RowsAtEdge DEF PreLoadStep, RowsStored
  <2>2. amt_load_bytes' = 0 /\ amt_store_bytes' = amt_store_bytes
    BY <1>4, CountBelowWrap DEF PreLoadStep, Position
  <2>3. m_pip_data' = mem[0]
    BY <1>1, <1>4 DEF MemoryStep, PreLoadStep, rd_en, rd_addr, rd_preload, Row
  <2>4. ~M_AXI_TVALID'
    BY <1>4 DEF PreLoadStep, OfferCurrent, m_axi
  <2> QED
    BY <1>4, <2>1, <2>2, <2>3, <2>4 DEF PreLoadStep, ReadAheadMatches, OfferCurrent
<1>5. CASE LoadStep(rdy)
  <2>1. /\ state = "LOAD" /\ mem' = mem /\ amt_load_bytes < amt_store_bytes
        /\ m_pip_data = mem[amt_load_bytes] /\ amt_store_bytes' = amt_store_bytes
    BY <1>1, <1>5, RowsAtEdge DEF LoadStep, RowsStored, Position, ReadAheadMatches
  <2>2. CASE OutputFree(rdy)
    <3>1. amt_load_bytes' = amt_load_bytes + 1
      BY <1>1, <1>5, <2>1, <2>2, CountBelowWrap DEF LoadStep
    <3>2. /\ M_AXI_TVALID' /\ M_AXI_TDATA' = mem[amt_load_bytes]
          /\ M_AXI_TLAST' <=> amt_load_bytes + 1 = amt_store_bytes
          /\ state' = IF amt_load_bytes + 1 = amt_store_bytes THEN "AFT_LOAD" ELSE "LOAD"
      <4>1. LastRow <=> amt_load_bytes + 1 = amt_store_bytes
        BY <1>1 DEF LastRow
      <4>2. /\ M_AXI_TVALID' = TRUE /\ M_AXI_TDATA' = m_pip_data /\ M_AXI_TLAST' = LastRow
            /\ state' = IF LastRow THEN "AFT_LOAD" ELSE "LOAD"
        BY <1>5, <2>2 DEF LoadStep
      <4>3. M_AXI_TLAST' <=> LastRow
        BY <4>2, Zenon
      <4> QED
        BY <2>1, <4>1, <4>2, <4>3
    <3>3. amt_load_bytes + 1 < amt_store_bytes => m_pip_data' = mem[amt_load_bytes + 1]
      BY <1>1, <2>1, <2>2 DEF MemoryStep, rd_en, rd_addr, rd_preload, Row
    <3>4. ReadAheadMatches'
      BY <1>1, <2>1, <3>1, <3>3 DEF ReadAheadMatches
    <3>5. OfferCurrent'
      BY <1>1, <2>1, <3>1, <3>2 DEF OfferCurrent
    <3> QED
      BY <3>4, <3>5
  <2>3. CASE ~OutputFree(rdy)
    <3>1. ~rd_en(rdy) /\ m_pip_data' = m_pip_data
      BY <1>1, <2>1, <2>3 DEF MemoryStep, rd_en, rd_preload
    <3>2. UNCHANGED <<state, amt_load_bytes, M_AXI_TVALID, M_AXI_TDATA, M_AXI_TLAST>>
      BY <1>5, <2>3 DEF LoadStep, m_axi
    <3> QED
      BY <2>1, <3>1, <3>2 DEF ReadAheadMatches, OfferCurrent
  <2> QED
    BY <2>2, <2>3
<1>6. CASE AftLoadStep(rdy)
  <2>1. mem' = mem /\ amt_load_bytes' = amt_load_bytes /\ amt_store_bytes' = amt_store_bytes
    BY <1>1, <1>6, RowsAtEdge DEF AftLoadStep, RowsStored, counters
  <2> QED
    BY <1>6, <2>1 DEF AftLoadStep, ReadAheadMatches, OfferCurrent
<1> QED
  BY <1>2, <1>3, <1>4, <1>5, <1>6 DEF StreamerTick

LEMMA StreamerResetKeeps ==
  ASSUME StreamerInvariant, StreamerReset
  PROVE  StreamerInvariant'
<1>1. StreamerTypeOK'
  BY StreamerResetTyped DEF StreamerInvariant
<1>2. RowsStored'
  BY StreamerAssumption DEF StreamerReset, RowsStored, Row
<1>3. RolesReset' /\ Position' /\ OfferCurrent' /\ ReadAheadMatches'
  BY DEF StreamerReset, RolesReset, Position, OfferCurrent, ReadAheadMatches, Rewound
<1> QED
  BY <1>1, <1>2, <1>3 DEF StreamerInvariant

LEMMA StreamerInitInvariant == StreamerInit => StreamerInvariant
<1> SUFFICES ASSUME StreamerInit PROVE StreamerInvariant
  OBVIOUS
<1>1. RowsStored
  BY StreamerAssumption DEF StreamerInit, RowsStored, Row
<1>2. RolesReset /\ Position /\ OfferCurrent /\ ReadAheadMatches
  BY DEF StreamerInit, RolesReset, Position, OfferCurrent, ReadAheadMatches, Rewound
<1> QED
  BY <1>1, <1>2, StreamerInitTyped DEF StreamerInvariant

LEMMA StreamerNextKeeps ==
  StreamerInvariant /\ [StreamerNext]_streamer_vars => StreamerInvariant'
<1> SUFFICES ASSUME StreamerInvariant, [StreamerNext]_streamer_vars
             PROVE  StreamerInvariant'
  OBVIOUS
<1>1. ASSUME NEW in \in StreamerInputs, StreamerTick(in) PROVE StreamerInvariant'
  BY <1>1, StreamerTickTyped, RowsStoredKept, RolesResetKept, PositionKept, ReadAheadKept
     DEF StreamerInvariant
<1>2. CASE UNCHANGED streamer_vars
  BY <1>2 DEF streamer_vars, counters, m_axi, s_pip, StreamerInvariant, StreamerTypeOK,
              RowsStored, RolesReset, Position, OfferCurrent, ReadAheadMatches, Rewound
<1> QED
  BY <1>1, <1>2, StreamerResetKeeps DEF StreamerNext

(* Counters, pipelines, memory and output agree at every clock edge.        *)
THEOREM StreamerInvariantHolds == StreamerSpec => []StreamerInvariant
BY StreamerInitInvariant, StreamerNextKeeps, PTL DEF StreamerSpec

(* When dfx_streamer.v raises storeIntr, every row it counted is in memory. *)
THEOREM SignalFollowsMemory == StreamerSpec => []SignalledIsInMemory
<1>1. StreamerInvariant => SignalledIsInMemory
  <2>1. SUFFICES ASSUME StreamerInvariant, storeIntr
                 PROVE  ~s_pip_valid /\ \A r \in Row : r < amt_store_bytes => mem[r] # Unknown
    BY DEF SignalledIsInMemory
  <2>2. ~s_pip_valid
    BY <2>1 DEF StreamerInvariant, RowsStored
  <2>3. ASSUME NEW r \in Row, r < amt_store_bytes PROVE mem[r] # Unknown
    <3>1. r + 0 = r
      BY DEF Row
    <3> QED
      BY <2>1, <2>2, <2>3, <3>1, StreamerAssumption DEF StreamerInvariant, RowsStored
  <2> QED
    BY <2>2, <2>3
<1> QED
  BY StreamerInvariantHolds, <1>1, PTL

(* The row read ahead under back-pressure is the row offered next.          *)
THEOREM ReadAheadIsRight == StreamerSpec => []ReadAheadMatches
<1>1. StreamerInvariant => ReadAheadMatches
  BY DEF StreamerInvariant
<1> QED
  BY StreamerInvariantHolds, <1>1, PTL

-----------------------------------------------------------------------------
(* A streamer implements StreamBuffer.                                      *)

LEMMA SeqOfFunction ==
  ASSUME NEW S, NEW n \in Nat, NEW f \in [1 .. n -> S]
  PROVE  f \in Seq(S) /\ Len(f) = n /\ (f = <<>> <=> n = 0)
<1>1. f \in Seq(S)
  BY SeqDef
<1>2. Len(f) \in Nat /\ DOMAIN f = 1 .. Len(f) /\ DOMAIN f = 1 .. n
  BY <1>1, LenProperties
<1>3. Len(f) = n
  BY <1>2
<1> QED
  BY <1>1, <1>3, EmptySeq

(* The row of the memory, or of the write pipeline, that a position shows.  *)
LEMMA ContentsTyped ==
  ASSUME StreamerInvariant
  PROVE  /\ amt_store_bytes \in Nat /\ amt_store_bytes <= Rows
         /\ Contents \in [1 .. amt_store_bytes -> Beats]
<1>1. amt_store_bytes \in Nat /\ amt_store_bytes <= Rows /\ Rows \in Nat
  BY StreamerAssumption DEF StreamerInvariant, StreamerTypeOK, RowsStored, Tracker
<1>2. ASSUME NEW i \in 1 .. amt_store_bytes
      PROVE  (IF i = amt_store_bytes /\ s_pip_valid THEN s_pip_data ELSE mem[i - 1]) \in Beats
  <2>1. i - 1 \in Row /\ i - 1 < amt_store_bytes
    BY <1>1 DEF Row
  <2>2. CASE s_pip_valid /\ i = amt_store_bytes
    BY <2>2 DEF StreamerInvariant, RowsStored
  <2>3. CASE s_pip_valid /\ i # amt_store_bytes
    <3>1. (i - 1) + 1 < amt_store_bytes
      BY <1>1, <2>3
    <3> QED
      BY <2>1, <2>3, <3>1 DEF StreamerInvariant, RowsStored
  <2>4. CASE ~s_pip_valid
    <3>1. (i - 1) + 0 < amt_store_bytes
      BY <1>1
    <3> QED
      BY <2>1, <2>4, <3>1 DEF StreamerInvariant, RowsStored
  <2> QED
    BY <2>2, <2>3, <2>4
<1> QED
  BY <1>1, <1>2 DEF Contents

(* An edge that counts no beat and empties the pipeline keeps the contents. *)
LEMMA ContentsKept ==
  ASSUME StreamerInvariant, NEW rdy \in BOOLEAN, MemoryStep(rdy),
         amt_store_bytes' = amt_store_bytes, ~s_pip_valid'
  PROVE  Contents' = Contents
<1>1. amt_store_bytes \in Nat /\ amt_store_bytes <= Rows
  BY ContentsTyped
<1>2. ASSUME NEW i \in 1 .. amt_store_bytes
      PROVE  mem'[i - 1] = IF i = amt_store_bytes /\ s_pip_valid THEN s_pip_data ELSE mem[i - 1]
  <2>1. i - 1 \in Row /\ amt_store_bytes - 1 \in Row
    BY <1>1, StreamerAssumption DEF Row
  <2>2. mem' = IF s_pip_valid THEN [mem EXCEPT ![amt_store_bytes - 1] = s_pip_data] ELSE mem
    BY <2>1 DEF MemoryStep
  <2>3. mem \in [Row -> Cell]
    BY DEF StreamerInvariant, StreamerTypeOK
  <2> QED
    BY <1>1, <2>1, <2>2, <2>3
<1> QED
  BY <1>2 DEF Contents

(* A beat that is counted is appended; the row before it reaches the memory.*)
LEMMA ContentsGrow ==
  ASSUME StreamerInvariant, NEW rdy \in BOOLEAN, MemoryStep(rdy), NEW d \in Beats,
         amt_store_bytes < Rows, amt_store_bytes' = amt_store_bytes + 1,
         s_pip_valid', s_pip_data' = d
  PROVE  Contents' = Append(Contents, d)
<1>1. amt_store_bytes \in Nat
  BY ContentsTyped
<1>2. Contents \in Seq(Beats) /\ Len(Contents) = amt_store_bytes
  BY ContentsTyped, SeqOfFunction
<1>3. ASSUME NEW i \in 1 .. amt_store_bytes + 1
      PROVE  (IF i = amt_store_bytes + 1 THEN d ELSE mem'[i - 1]) = Append(Contents, d)[i]
  <2>1. CASE i = amt_store_bytes + 1
    BY <1>1, <1>2, <2>1
  <2>2. CASE i # amt_store_bytes + 1
    <3>1. /\ i \in 1 .. amt_store_bytes
          /\ i - 1 \in Row /\ amt_store_bytes - 1 \in Row
      BY <1>1, <2>2, StreamerAssumption DEF Row
    <3>2. mem' = IF s_pip_valid THEN [mem EXCEPT ![amt_store_bytes - 1] = s_pip_data] ELSE mem
      BY <3>1 DEF MemoryStep
    <3>3. mem \in [Row -> Cell]
      BY DEF StreamerInvariant, StreamerTypeOK
    <3>4. mem'[i - 1] = Contents[i]
      BY <1>1, <3>1, <3>2, <3>3 DEF Contents
    <3>5. Append(Contents, d)[i] = Contents[i]
      BY <1>2, <3>1
    <3> QED
      BY <2>2, <3>4, <3>5
  <2> QED
    BY <2>1, <2>2
<1>4. Contents' = [i \in 1 .. amt_store_bytes + 1 |->
                     IF i = amt_store_bytes + 1 THEN d ELSE mem'[i - 1]]
  BY DEF Contents
<1>5. Contents' \in [1 .. amt_store_bytes + 1 -> Beats]
  <2>1. \A i \in 1 .. amt_store_bytes + 1 : Append(Contents, d)[i] \in Beats
    BY <1>1, <1>2, ContentsTyped
  <2> QED
    BY <1>3, <1>4, <2>1
<1>6. Contents' \in Seq(Beats) /\ Len(Contents') = amt_store_bytes + 1
  BY <1>1, <1>5, SeqOfFunction
<1>7. /\ Append(Contents, d) \in Seq(Beats)
      /\ Len(Append(Contents, d)) = amt_store_bytes + 1
  BY <1>2
<1>8. \A i \in 1 .. Len(Contents') : Contents'[i] = Append(Contents, d)[i]
  BY <1>3, <1>4, <1>6
<1> QED
  BY <1>6, <1>7, <1>8, SeqEqual

(* What the output register offers is the beat at its position.             *)
BeatShown ==
  /\ amt_load_bytes \in Nat \ {0} /\ amt_load_bytes <= amt_store_bytes
  /\ StreamSent = amt_load_bytes - 1
  /\ StreamOffer = [data |-> Contents[amt_load_bytes],
                    last |-> amt_load_bytes = Len(Contents)]
  /\ StreamOffer # None
  /\ StreamMode = "replaying"

LEMMA ShownBeat == StreamerInvariant /\ M_AXI_TVALID => BeatShown
<1> SUFFICES ASSUME StreamerInvariant, M_AXI_TVALID PROVE BeatShown
  OBVIOUS
<1>1. amt_store_bytes \in Nat /\ amt_store_bytes <= Rows /\ Len(Contents) = amt_store_bytes
  BY ContentsTyped, SeqOfFunction
<1>2. /\ amt_load_bytes \in Nat \ {0} /\ amt_load_bytes <= amt_store_bytes
      /\ state \in {"LOAD", "AFT_LOAD"}
  BY <1>1 DEF StreamerInvariant, StreamerTypeOK, Tracker, OfferCurrent, Position
<1>3. StreamSent = amt_load_bytes - 1
  BY <1>1, <1>2, CountBelowWrap, StreamerAssumption DEF StreamSent
<1>4. M_AXI_TDATA = Contents[amt_load_bytes]
  BY <1>1, <1>2 DEF Contents, StreamerInvariant, OfferCurrent, RowsStored
<1>5. M_AXI_TLAST = (amt_load_bytes = Len(Contents))
  <2>1. M_AXI_TLAST \in BOOLEAN /\ (M_AXI_TLAST <=> amt_load_bytes = amt_store_bytes)
    BY DEF StreamerInvariant, StreamerTypeOK, OfferCurrent
  <2> QED
    BY <1>1, <2>1
<1>6. StreamOffer # None
  <2>1. [data |-> M_AXI_TDATA, last |-> M_AXI_TLAST] \in [data : Cell, last : BOOLEAN]
    BY DEF StreamerInvariant, StreamerTypeOK
  <2> QED
    BY <2>1, StreamerAssumption DEF StreamOffer
<1>7. StreamMode = "replaying"
  BY <1>2 DEF StreamMode
<1> QED
  BY <1>2, <1>3, <1>4, <1>5, <1>6, <1>7 DEF StreamOffer, BeatShown

LEMMA ShownBeatNext == StreamerInvariant' /\ M_AXI_TVALID' => BeatShown'
BY ShownBeat, PTL

(* An idle edge rests, empties or rewinds the buffer, or begins a phase.    *)
LEMMA IdleImplements ==
  ASSUME StreamerInvariant, StreamerInvariant', NEW in \in StreamerInputs,
         StreamerTick(in), IdleStep(in.ctl)
  PROVE  Buffer!Rest \/ Buffer!BeginStore \/ Buffer!BeginReplay
<1> DEFINE rdy == LoadReady(in.ready, in.decup_load)
<1>1. /\ rdy \in BOOLEAN /\ MemoryStep(rdy)
      /\ amt_store_bytes \in Nat /\ Rewound \in Nat /\ Rows < Rewound
  BY StreamerInputsTyped, ContentsTyped, CountBelowWrap DEF StreamerTick
<1>2. state = "IDLE" /\ ~M_AXI_TVALID /\ ~M_AXI_TVALID' /\ ~s_pip_valid' /\ storeIntr' = FALSE
  BY DEF IdleStep, StreamerInvariant, OfferCurrent
<1>3. StreamMode = "idle" /\ StreamOffer = None /\ StreamOffer' = None
  BY <1>2 DEF StreamMode, StreamOffer
<1>4. CASE "storeReset" \in in.ctl
  <2>1. amt_store_bytes' = 0 /\ amt_load_bytes' = amt_load_bytes /\ state' = "IDLE"
    BY <1>4 DEF IdleStep
  <2>2. Contents' = <<>>
    <3>1. Contents' \in [1 .. 0 -> Beats]
      BY <1>2, <2>1 DEF Contents
    <3> QED
      BY <3>1, SeqOfFunction
  <2>3. StreamSent' = StreamSent /\ StreamMode' = "idle"
    BY <1>2, <2>1 DEF StreamSent, StreamMode, Rewound
  <2> QED
    BY <1>2, <1>3, <2>2, <2>3 DEF Buffer!Rest
<1>5. CASE "storeReset" \notin in.ctl
  <2>1. amt_store_bytes' = amt_store_bytes
    BY <1>5 DEF IdleStep
  <2>2. Contents' = Contents
    BY <1>1, <1>2, <2>1, ContentsKept
  <2>3. CASE "loadReset" \in in.ctl
    <3>1. amt_load_bytes' = Rewound /\ state' = "IDLE"
      BY <1>5, <2>3 DEF IdleStep
    <3>2. StreamSent' = 0 /\ StreamMode' = "idle"
      BY <3>1 DEF StreamSent, StreamMode, Rewound
    <3> QED
      BY <1>2, <1>3, <2>2, <3>2 DEF Buffer!Rest
  <2>4. CASE "loadReset" \notin in.ctl
    <3>1. amt_load_bytes' = amt_load_bytes /\ state' \in {"IDLE", "STORE", "PRE_LOAD"}
      BY <1>5, <2>4 DEF IdleStep
    <3>2. StreamSent' = StreamSent
      BY <1>2, <3>1 DEF StreamSent, Rewound
    <3>3. CASE state' = "IDLE"
      BY <1>2, <1>3, <2>2, <3>2, <3>3 DEF Buffer!Rest, StreamMode
    <3>4. CASE state' = "STORE"
      BY <1>2, <1>3, <2>2, <3>2, <3>4 DEF Buffer!BeginStore, StreamMode
    <3>5. CASE state' = "PRE_LOAD"
      <4>1. amt_load_bytes = Rewound /\ amt_store_bytes > 0
        BY <2>1, <3>1, <3>5 DEF StreamerInvariant, Position, Rewound
      <4>2. Contents # <<>>
        BY <1>1, <4>1, ContentsTyped, SeqOfFunction
      <4>3. StreamSent = 0
        BY <4>1 DEF StreamSent
      <4> QED
        BY <1>2, <1>3, <2>2, <3>2, <3>5, <4>2, <4>3 DEF Buffer!BeginReplay, StreamMode
    <3> QED
      BY <3>1, <3>3, <3>4, <3>5
  <2> QED
    BY <2>3, <2>4
<1> QED
  BY <1>4, <1>5

(* A beat that arrives is put; a store phase ends with its signal.          *)
LEMMA StoreImplements ==
  ASSUME StreamerInvariant, NEW in \in StreamerInputs, StreamerTick(in),
         StoreStep(StoreBeat(in.beat, in.decup_store)) \/ FinStoreStep
  PROVE  Buffer!Put \/ Buffer!Close \/ UNCHANGED Buffer!buffer_vars
<1> DEFINE beat == StoreBeat(in.beat, in.decup_store)
           rdy  == LoadReady(in.ready, in.decup_load)
<1>1. /\ beat \in Beat \cup {None} /\ rdy \in BOOLEAN /\ MemoryStep(rdy)
      /\ amt_store_bytes \in Nat /\ amt_store_bytes <= Rows
  BY StreamerInputsTyped, ContentsTyped DEF StreamerTick
<1>2. UNCHANGED <<amt_load_bytes, M_AXI_TVALID, M_AXI_TDATA, M_AXI_TLAST>>
  BY DEF StoreStep, FinStoreStep, counters, m_axi
<1>3. StreamSent' = StreamSent /\ StreamOffer' = StreamOffer
  BY <1>2 DEF StreamSent, StreamOffer, Rewound
<1>4. CASE StoreStep(beat) /\ beat # None
  <2>1. /\ state = "STORE" /\ state' \in {"STORE", "FIN_STORE"} /\ s_pip_valid'
        /\ amt_store_bytes' = Count(amt_store_bytes) /\ s_pip_data' = beat.data
        /\ storeIntr' = storeIntr
    BY <1>4 DEF StoreStep
  <2>2. amt_store_bytes < Rows
    BY <2>1 DEF StreamerInvariant, RowsStored
  <2>3. amt_store_bytes' = amt_store_bytes + 1
    BY <1>1, <2>1, CountBelowWrap
  <2>4. beat.data \in Beats
    BY <1>1, <1>4 DEF Beat
  <2>5. Contents' = Append(Contents, beat.data)
    BY <1>1, <2>1, <2>2, <2>3, <2>4, ContentsGrow
  <2>6. StreamMode = "storing" /\ StreamMode' \in {"storing", "closing"}
    BY <2>1 DEF StreamMode
  <2> QED
    BY <1>3, <2>1, <2>4, <2>5, <2>6 DEF Buffer!Put
<1>5. CASE StoreStep(beat) /\ beat = None
  <2>1. UNCHANGED <<state, amt_store_bytes, storeIntr>> /\ ~s_pip_valid'
    BY <1>5 DEF StoreStep
  <2>2. Contents' = Contents
    BY <1>1, <2>1, ContentsKept
  <2>3. StreamMode' = StreamMode
    BY <2>1 DEF StreamMode
  <2> QED
    BY <1>3, <2>1, <2>2, <2>3 DEF Buffer!buffer_vars
<1>6. CASE FinStoreStep
  <2>1. /\ state = "FIN_STORE" /\ state' = "IDLE" /\ ~s_pip_valid' /\ storeIntr' = TRUE
        /\ amt_store_bytes' = amt_store_bytes
    BY <1>6 DEF FinStoreStep, counters
  <2>2. Contents' = Contents
    BY <1>1, <2>1, ContentsKept
  <2> QED
    BY <1>3, <2>1, <2>2 DEF Buffer!Close, StreamMode
<1> QED
  BY <1>4, <1>5, <1>6

(* The first row is offered without a reader, the next ones are taken in    *)
(* order, and the replay ends when the last one is taken.                   *)
LEMMA LoadImplements ==
  ASSUME StreamerInvariant, StreamerInvariant', NEW in \in StreamerInputs, StreamerTick(in),
         \/ PreLoadStep
         \/ LoadStep(LoadReady(in.ready, in.decup_load))
         \/ AftLoadStep(LoadReady(in.ready, in.decup_load))
  PROVE  Buffer!Offer \/ Buffer!Take \/ Buffer!TakeLast \/ UNCHANGED Buffer!buffer_vars
<1> DEFINE rdy == LoadReady(in.ready, in.decup_load)
<1>1. /\ rdy \in BOOLEAN /\ MemoryStep(rdy)
      /\ amt_store_bytes \in Nat /\ amt_store_bytes <= Rows
      /\ Len(Contents) = amt_store_bytes /\ amt_load_bytes \in Nat
  BY StreamerInputsTyped, ContentsTyped, SeqOfFunction
     DEF StreamerTick, StreamerInvariant, StreamerTypeOK, Tracker
<1>2. /\ amt_store_bytes' = amt_store_bytes /\ storeIntr' = storeIntr
      /\ state \in {"PRE_LOAD", "LOAD", "AFT_LOAD"} /\ ~s_pip_valid'
  BY DEF PreLoadStep, LoadStep, AftLoadStep, counters, s_pip, StreamerInvariant, RowsStored
<1>3. Contents' = Contents
  BY <1>1, <1>2, ContentsKept
<1>4. StreamMode = "replaying"
  BY <1>2 DEF StreamMode
<1>5. CASE PreLoadStep
  <2>1. /\ amt_load_bytes = Rewound /\ amt_load_bytes' = 0 /\ state' = "LOAD"
        /\ ~M_AXI_TVALID /\ ~M_AXI_TVALID'
    BY <1>5, CountBelowWrap
       DEF PreLoadStep, StreamerInvariant, Position, OfferCurrent, m_axi
  <2>2. StreamSent = 0 /\ StreamSent' = 0
    BY <2>1 DEF StreamSent
  <2>3. StreamOffer' = StreamOffer /\ StreamMode' = "replaying"
    BY <2>1 DEF StreamOffer, StreamMode
  <2> QED
    BY <1>2, <1>3, <1>4, <2>2, <2>3 DEF Buffer!buffer_vars
<1>6. CASE LoadStep(rdy) /\ ~OutputFree(rdy)
  <2>1. UNCHANGED <<state, amt_load_bytes, M_AXI_TVALID, M_AXI_TDATA, M_AXI_TLAST>>
    BY <1>6 DEF LoadStep, m_axi
  <2>2. StreamSent' = StreamSent /\ StreamOffer' = StreamOffer /\ StreamMode' = StreamMode
    BY <2>1 DEF StreamSent, StreamOffer, StreamMode, Rewound
  <2> QED
    BY <1>2, <1>3, <2>2 DEF Buffer!buffer_vars
<1>7. CASE LoadStep(rdy) /\ OutputFree(rdy)
  <2>1. /\ amt_load_bytes < amt_store_bytes /\ (M_AXI_TVALID <=> amt_load_bytes > 0)
    BY <1>7 DEF LoadStep, StreamerInvariant, Position, OfferCurrent
  <2>2. amt_load_bytes' = amt_load_bytes + 1 /\ M_AXI_TVALID'
    BY <1>1, <1>7, <2>1, CountBelowWrap, StreamerAssumption DEF LoadStep
  <2>3. BeatShown'
    BY <2>2, ShownBeatNext
  <2>4. /\ StreamSent' = amt_load_bytes /\ StreamMode' = "replaying"
        /\ StreamOffer' = Buffer!Offered(amt_load_bytes)
    BY <1>1, <1>3, <2>2, <2>3 DEF BeatShown, Buffer!Offered
  <2>5. CASE amt_load_bytes = 0
    <3>1. StreamOffer = None /\ StreamSent = 0
      BY <2>1, <2>5 DEF StreamOffer, StreamSent
    <3> QED
      BY <1>2, <1>3, <1>4, <2>4, <2>5, <3>1 DEF Buffer!Offer
  <2>6. CASE amt_load_bytes # 0
    <3>1. M_AXI_TVALID /\ BeatShown
      BY <1>1, <2>1, <2>6, ShownBeat
    <3>2. StreamOffer # None /\ StreamSent + 1 = amt_load_bytes
      BY <1>1, <3>1 DEF BeatShown
    <3>3. ~StreamOffer.last
      <4>1. StreamOffer.last = (amt_load_bytes = Len(Contents))
        BY <3>1 DEF BeatShown
      <4>2. amt_load_bytes # Len(Contents)
        BY <1>1, <2>1
      <4> QED
        BY <4>1, <4>2
    <3> QED
      BY <1>2, <1>3, <1>4, <2>4, <3>2, <3>3 DEF Buffer!Take
  <2> QED
    BY <2>5, <2>6
<1>8. CASE AftLoadStep(rdy) /\ ~rdy
  <2>1. UNCHANGED <<state, amt_load_bytes, M_AXI_TVALID, M_AXI_TDATA, M_AXI_TLAST>>
    BY <1>8 DEF AftLoadStep, counters
  <2>2. StreamSent' = StreamSent /\ StreamOffer' = StreamOffer /\ StreamMode' = StreamMode
    BY <2>1 DEF StreamSent, StreamOffer, StreamMode, Rewound
  <2> QED
    BY <1>2, <1>3, <2>2 DEF Buffer!buffer_vars
<1>9. CASE AftLoadStep(rdy) /\ rdy
  <2>1. M_AXI_TVALID /\ amt_load_bytes = amt_store_bytes
    BY <1>9 DEF AftLoadStep, StreamerInvariant, OfferCurrent, Position
  <2>2. ~M_AXI_TVALID' /\ state' = "IDLE" /\ amt_load_bytes' = amt_load_bytes
    BY <1>9, <2>1 DEF AftLoadStep, counters
  <2>3. BeatShown
    BY <2>1, ShownBeat
  <2>4. StreamOffer # None /\ StreamOffer.last
    BY <1>1, <2>1, <2>3 DEF BeatShown
  <2>5. StreamSent' = StreamSent + 1
    <3>1. amt_load_bytes' # Rewound
      BY <1>1, <2>1, <2>2, CountBelowWrap
    <3>2. StreamSent' = amt_load_bytes
      BY <2>2, <3>1 DEF StreamSent, Rewound
    <3> QED
      BY <1>1, <2>3, <3>2 DEF BeatShown
  <2>6. StreamOffer' = None /\ StreamMode' = "idle"
    BY <2>2 DEF StreamOffer, StreamMode
  <2> QED
    BY <1>2, <1>3, <2>4, <2>5, <2>6 DEF Buffer!TakeLast
<1> QED
  BY <1>5, <1>6, <1>7, <1>8, <1>9

LEMMA EmptyAndIdle ==
  ASSUME state = "IDLE", amt_store_bytes = 0, amt_load_bytes = Rewound,
         ~M_AXI_TVALID, ~s_pip_valid
  PROVE  /\ Contents = <<>> /\ StreamMode = "idle" /\ StreamSent = 0
         /\ StreamOffer = None
<1>1. Contents \in [1 .. 0 -> Beats]
  BY DEF Contents
<1> QED
  BY <1>1, SeqOfFunction DEF StreamMode, StreamSent, StreamOffer

LEMMA ResetImplements ==
  ASSUME StreamerReset
  PROVE  Buffer!PowerCycle
<1>1. Contents' \in [1 .. 0 -> Beats]
  BY DEF Contents, StreamerReset
<1>2. Contents' = <<>>
  BY <1>1, SeqOfFunction
<1>3. StreamMode' = "idle" /\ StreamSent' = 0 /\ StreamOffer' = None
  BY DEF StreamerReset, StreamMode, StreamSent, StreamOffer, Rewound
<1> QED
  BY <1>2, <1>3 DEF StreamerReset, Buffer!PowerCycle

LEMMA StepImplements ==
  StreamerInvariant /\ StreamerInvariant' /\ [StreamerNext]_streamer_vars
    => [Buffer!BufferNext]_(Buffer!buffer_vars)
<1> SUFFICES ASSUME StreamerInvariant, StreamerInvariant', [StreamerNext]_streamer_vars
             PROVE  [Buffer!BufferNext]_(Buffer!buffer_vars)
  OBVIOUS
<1>1. ASSUME NEW in \in StreamerInputs, StreamerTick(in)
      PROVE  [Buffer!BufferNext]_(Buffer!buffer_vars)
  BY <1>1, IdleImplements, StoreImplements, LoadImplements DEF StreamerTick, Buffer!BufferNext
<1>2. CASE StreamerReset
  BY <1>2, ResetImplements DEF Buffer!BufferNext
<1>3. CASE UNCHANGED streamer_vars
  BY <1>3 DEF streamer_vars, counters, m_axi, s_pip, Buffer!buffer_vars, Contents,
              StreamMode, StreamSent, StreamOffer, Rewound
<1> QED
  BY <1>1, <1>2, <1>3 DEF StreamerNext

(* Whatever the accelerators and readers of dfx_streamer.v do, it stores    *)
(* and replays like the buffer of StreamBuffer.                             *)
THEOREM StreamerImplementsBuffer == StreamerSpec => ImplementsBuffer
<1>1. StreamerInit => Buffer!BufferInit
  BY EmptyAndIdle DEF StreamerInit, Buffer!BufferInit
<1>2. StreamerInvariant /\ StreamerInvariant' /\ [StreamerNext]_streamer_vars
        => [Buffer!BufferNext]_(Buffer!buffer_vars)
  BY StepImplements
<1> QED
  BY <1>1, <1>2, StreamerInvariantHolds, PTL
     DEF StreamerSpec, ImplementsBuffer, Buffer!BufferSpec
=============================================================================
