-------------------------------- MODULE SAxi --------------------------------
(***************************************************************************)
(* The PS side of the DFX Manager: the two AXI-Lite slaves (s_axi_read.v,   *)
(* s_axi_write.v) between the PS and the core.  Each is a state machine of *)
(* its own.  go says that the PS side of the channel a slave waits on is   *)
(* ready in this cycle (ARVALID, RREADY, AWVALID, WVALID or BREADY).       *)
(*                                                                         *)
(* A register is named by its bank, its row (in bank 0 the register        *)
(* number, in bank 1 the session) and its column (a field of SlotRow;      *)
(* ignored in bank 0).  The address of DMA and PR ctrl, and the profiling  *)
(* counters, are left out as in DfxMngCore.                                *)
(***************************************************************************)
EXTENDS MAxiWrite, FiniteSets

VARIABLES
  r_state, r_addr,      \* the read slave and the address it latched
  w_state, w_addr       \* the write slave and the address it latched
                        \* (NoAddr in IDLE, where nothing looks at it)

slave_vars == <<r_state, r_addr, w_state, w_addr>>

Column == {"src_addr", "src_size", "des_addr", "des_size", "recon_select",
           "exec_select", "load_mask", "store_mask", "complete_mask", "next_session"}

REG_CTRL == 0
REG_MAIN_STATE == 1
REG_RECON_STATE == 2
REG_EXEC_STATE == 3
REG_LAST_SESSION == 4
REG_CUR_QUERY == 5
REG_AMT_QUERY == 6
REG_AMT_QUERY_PER_ITER == 7
REG_INTR_ENA == 10
REG_INTR_STATUS == 11

Register == [bank : {0, 1}, row : Nat, col : Column]
Bank0Reg(n) == [bank |-> 0, row |-> n, col |-> "src_addr"]
Bank1Reg(s, f) == [bank |-> 1, row |-> s, col |-> f]

NoAddr == Bank0Reg(0)

SlaveTypeOK ==
  /\ r_state \in {"IDLE", "READFETCH", "READWAIT", "READDATA"}
  /\ w_state \in {"IDLE", "DATA", "RESP"}
  /\ r_addr \in Register /\ w_addr \in Register

(* Only the low bits of the row are decoded: rows are a power of two.       *)
RowIndex(addr) == addr.row % Cardinality(Slot)

-----------------------------------------------------------------------------
(* The read slave.  Fetching any register, of bank 0 too, hands the row    *)
(* bits of its address to the core's bank 1 indexer; a bank 1 read waits   *)
(* one more cycle for the read port to follow.                             *)

(* Mutant: a bank 1 read does not wait for the read port. *)
ReadStep_NoWait(req, addr, go) ==
  \/ /\ r_state = "IDLE" /\ req
     /\ r_state' = "READFETCH" /\ r_addr' = addr
  \/ r_state = "IDLE" /\ ~req /\ UNCHANGED <<r_state, r_addr>>
  \/ r_state = "READFETCH" /\ r_state' = "READDATA" /\ UNCHANGED r_addr
  \/ r_state = "READWAIT" /\ r_state' = "READDATA" /\ UNCHANGED r_addr
  \/ /\ r_state = "READDATA"
     /\ IF go THEN r_state' = "IDLE" /\ r_addr' = NoAddr
              ELSE UNCHANGED <<r_state, r_addr>>

(* Mutant: the fetch waits until the core has taken the row. *)
ReadStep_WaitsForCore(req, addr, go) ==
  \/ /\ r_state = "IDLE" /\ req
     /\ r_state' = "READFETCH" /\ r_addr' = addr
  \/ r_state = "IDLE" /\ ~req /\ UNCHANGED <<r_state, r_addr>>
  \/ /\ r_state = "READFETCH"
     /\ r_state' = IF main_state # "SHUTDOWN" THEN "READFETCH"
                   ELSE IF r_addr.bank = 1 THEN "READWAIT" ELSE "READDATA"
     /\ UNCHANGED r_addr
  \/ r_state = "READWAIT" /\ r_state' = "READDATA" /\ UNCHANGED r_addr
  \/ /\ r_state = "READDATA"
     /\ IF go THEN r_state' = "IDLE" /\ r_addr' = NoAddr
              ELSE UNCHANGED <<r_state, r_addr>>

ReadStep(req, addr, go) ==
  \/ /\ r_state = "IDLE" /\ req
     /\ r_state' = "READFETCH" /\ r_addr' = addr
  \/ r_state = "IDLE" /\ ~req /\ UNCHANGED <<r_state, r_addr>>
  \/ /\ r_state = "READFETCH"
     /\ r_state' = IF r_addr.bank = 1 THEN "READWAIT" ELSE "READDATA"
     /\ UNCHANGED r_addr
  \/ r_state = "READWAIT" /\ r_state' = "READDATA" /\ UNCHANGED r_addr
  \/ /\ r_state = "READDATA"
     /\ IF go THEN r_state' = "IDLE" /\ r_addr' = NoAddr
              ELSE UNCHANGED <<r_state, r_addr>>

(* b1_read_indexer_req and the row it asks for. *)
ReadRow == IF r_state = "READFETCH" THEN RowIndex(r_addr) ELSE None

(* What the data channel carries in READDATA. *)
RDATA ==
  IF r_addr.bank = 1 THEN read_val[r_addr.col]
  ELSE CASE r_addr.row = REG_MAIN_STATE         -> main_state
         [] r_addr.row = REG_RECON_STATE        -> recon_state
         [] r_addr.row = REG_EXEC_STATE         -> exec_state
         [] r_addr.row = REG_LAST_SESSION       -> b0.last_session
         [] r_addr.row = REG_CUR_QUERY          -> cur_query
         [] r_addr.row = REG_AMT_QUERY          -> b0.amt_query
         [] r_addr.row = REG_AMT_QUERY_PER_ITER -> b0.amt_query_per_iter
         [] r_addr.row = REG_INTR_ENA           -> b0.intr_ena
         [] r_addr.row = REG_INTR_STATUS        -> intr_status
         [] OTHER                               -> 0

-----------------------------------------------------------------------------
(* The write slave.  The strobe of the addressed register is up in the     *)
(* cycle in which the data is taken; the response is OKAY whether the core *)
(* takes the write or not.                                                 *)
WriteStep(req, addr, go) ==
  \/ /\ w_state = "IDLE" /\ req
     /\ w_state' = "DATA" /\ w_addr' = addr
  \/ w_state = "IDLE" /\ ~req /\ UNCHANGED <<w_state, w_addr>>
  \/ /\ w_state = "DATA"
     /\ w_state' = IF go THEN "RESP" ELSE "DATA"
     /\ UNCHANGED w_addr
  \/ /\ w_state = "RESP"
     /\ IF go THEN w_state' = "IDLE" /\ w_addr' = NoAddr
              ELSE UNCHANGED <<w_state, w_addr>>

Strobe(go) == w_state = "DATA" /\ go

(* The write requests to the core while data is on the bus. *)
CmdWritten(go, data) ==
  IF Strobe(go) /\ w_addr.bank = 0 /\ w_addr.row = REG_CTRL THEN data ELSE None

Bank0Field ==
  [ n \in {REG_LAST_SESSION, REG_AMT_QUERY, REG_AMT_QUERY_PER_ITER, REG_INTR_ENA} |->
      CASE n = REG_LAST_SESSION -> "last_session" [] n = REG_AMT_QUERY -> "amt_query"
        [] n = REG_INTR_ENA -> "intr_ena" [] OTHER -> "amt_query_per_iter" ]

Bank0Written(go, data) ==
  IF Strobe(go) /\ w_addr.bank = 0 /\ w_addr.row \in DOMAIN Bank0Field
  THEN [b0 EXCEPT ![Bank0Field[w_addr.row]] = data] ELSE None

(* Mutant: the column is written in the row the read port is on. *)
Bank1Written_ReadRow(go, data) ==
  IF Strobe(go) /\ w_addr.bank = 1
  THEN [row |-> b1_read_indexer, new |-> [b1[b1_read_indexer] EXCEPT ![w_addr.col] = data]]
  ELSE None

Bank1Written(go, data) ==
  IF Strobe(go) /\ w_addr.bank = 1
  THEN [row |-> RowIndex(w_addr),
        new |-> [b1[RowIndex(w_addr)] EXCEPT ![w_addr.col] = data]]
  ELSE None
=============================================================================
