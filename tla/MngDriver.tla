------------------------------ MODULE MngDriver ------------------------------
(***************************************************************************)
(* The DFX_Mng driver (sw/driver/dfx_mng.py) at work on the hardware: one   *)
(* Python thread that makes driver calls, each a series of register        *)
(* accesses, one at a time, through the AXI-Lite slaves into the core; the *)
(* core and its M_AXI writer keep running at every clock in between.  The  *)
(* DMA, the streamers and the DFX Controller are free here: they answer,   *)
(* finish and reset regions in any order (DfxMng models them in detail).   *)
(***************************************************************************)
EXTENDS SAxi, Sequences

CONSTANTS
  fields,       \* the columns get_slot and set_whole_slot go through, in order
  Calls,        \* the driver calls the program makes
  Reports,      \* the streams that report a finished store
  Tables,       \* bank 1 at power up
  Settings0     \* bank 0 at power up

VARIABLES
  call,         \* the call being made, or NoCall
  got,          \* one value per access finished: what was read, 0 for a write
  quiet,        \* history: the engine was in SHUTDOWN when the call began
  fresh,        \* history: the last command was START, on an engine at rest
  before        \* history: bank 1 when the set_whole_slot being made began

driver_vars == <<call, got, quiet, fresh, before>>
vars == <<core_vars, axi_state, slave_vars, driver_vars>>

Setter == {REG_LAST_SESSION, REG_AMT_QUERY, REG_AMT_QUERY_PER_ITER}

(* op is the method; slot, field, new its slot arguments, n its number or   *)
(* the register a set_* method writes, cmd the command of a control method. *)
Call == [ op : {"get_main_state", "print_main_status", "get_slot", "print_slot_data",
                "set_bank0", "set_intr_ena", "set_slot", "set_whole_slot",
                "control", "start_engine"},
          slot : Slot, field : Column, new : SlotRow, reg : Setter, n : Nat,
          cmd : {"CLEAR", "SHUTDOWN"} ]

NoCall == None

ASSUME DriverAssumption ==
  /\ Slot = 0 .. (Cardinality(Slot) - 1) /\ IsFiniteSet(Slot)
  /\ fields \in Seq(Column) /\ Len(fields) > 0
  /\ Reports \subseteq Stream
  /\ Calls \subseteq Call /\ NoCall \notin Call
  /\ \A c \in Calls : c.op = "set_bank0" =>
       IF c.reg = REG_LAST_SESSION THEN c.n \in Slot ELSE c.n \in Query
  /\ Tables \subseteq [Slot -> SlotRow] /\ Settings0 \subseteq Config

-----------------------------------------------------------------------------
(* The accesses of a call. *)

Read(addr) == [write |-> FALSE, addr |-> addr, data |-> 0]
Write(addr, data) == [write |-> TRUE, addr |-> addr, data |-> data]

SlotReads(s) == [i \in 1 .. Len(fields) |-> Read(Bank1Reg(s, fields[i]))]

(* All slots, one get_slot after another. *)
TableReads ==
  [ i \in 1 .. Cardinality(Slot) * Len(fields) |->
      SlotReads((i - 1) \div Len(fields))[((i - 1) % Len(fields)) + 1] ]

Accesses(c) ==
  CASE c.op = "get_main_state"    -> << Read(Bank0Reg(REG_MAIN_STATE)) >>
    [] c.op = "print_main_status" -> [n \in 1 .. 12 |-> Read(Bank0Reg(n))]
    [] c.op = "get_slot"          -> SlotReads(c.slot)
    [] c.op = "print_slot_data"   -> << Read(Bank0Reg(REG_MAIN_STATE)) >> \o TableReads
    [] c.op = "set_bank0"         -> << Write(Bank0Reg(c.reg), c.n) >>
    [] c.op = "set_intr_ena"      -> << Write(Bank0Reg(REG_INTR_ENA), c.n = 1) >>
    [] c.op = "set_slot"          -> << Write(Bank1Reg(c.slot, c.field), c.new[c.field]) >>
    [] c.op = "set_whole_slot"    -> [ i \in 1 .. Len(fields) |->
                                         Write(Bank1Reg(c.slot, fields[i]), c.new[fields[i]]) ]
    [] c.op = "control"           -> << Write(Bank0Reg(REG_CTRL), c.cmd) >>
    [] c.op = "start_engine"      -> << Read(Bank0Reg(REG_AMT_QUERY)),
                                        Read(Bank0Reg(REG_AMT_QUERY_PER_ITER)),
                                        Write(Bank0Reg(REG_CTRL), "START") >>

NextAccess(c) == Accesses(c)[Len(got) + 1]

validate_query_config(amt, per_iter) == per_iter # 0 /\ amt % per_iter = 0

OneHotOrZero(sel) == \A m, n \in sel : m = n

(* set_slot raises ValueError: an RM select with two bits set. *)
Raises(c) ==
  /\ c.op \in {"set_slot", "set_whole_slot"} /\ Len(got) < Len(Accesses(c))
  /\ LET f == NextAccess(c).addr.col IN
       f \in {"recon_select", "exec_select"} /\ ~OneHotOrZero(c.new[f])

(* Mutant: print_slot_data does not look at the main state. *)
Abandons_NoStateCheck(c) ==
  c.op = "start_engine" /\ Len(got) = 2 /\ ~validate_query_config(got[1], got[2])

(* The early returns. *)
Abandons(c) ==
  \/ c.op = "print_slot_data" /\ Len(got) = 1 /\ got[1] # "SHUTDOWN"
  \/ c.op = "start_engine" /\ Len(got) = 2 /\ ~validate_query_config(got[1], got[2])

Completes(c) == Len(got) = Len(Accesses(c))

Over(c) == Completes(c) \/ Raises(c) \/ Abandons(c)

Pending == call # NoCall /\ ~Over(call)

-----------------------------------------------------------------------------
Begin(c) ==
  /\ call = NoCall
  /\ call' = c /\ got' = <<>> /\ quiet' = (main_state = "SHUTDOWN")
  /\ before' = IF c.op = "set_whole_slot" THEN b1 ELSE None
  /\ UNCHANGED <<core_vars, axi_state, slave_vars, fresh>>

Return ==
  /\ call # NoCall /\ Over(call)
  /\ call' = NoCall /\ got' = <<>> /\ quiet' = FALSE /\ before' = None
  /\ UNCHANGED <<core_vars, axi_state, slave_vars, fresh>>

(* An access ends with its data or its response. *)
AccessStep(go) ==
  got' = IF go /\ r_state = "READDATA" THEN Append(got, RDATA)
         ELSE IF go /\ w_state = "RESP" THEN Append(got, 0)
         ELSE got

Requests(go, write) == go /\ Pending /\ NextAccess(call).write = write
PendingAddr == IF Pending THEN NextAccess(call).addr ELSE NoAddr
PendingData == IF Pending THEN NextAccess(call).data ELSE 0

(* One clock edge.  go: the PS's side of the channels; ready: the AXI slave *)
(* the writer talks to; nreset: the regions out of reset; fin: the streams *)
(* that report a finished store.                                           *)
Tick(go, ready, nreset, fin) ==
  LET cmd == CmdWritten(go, PendingData) IN
  /\ MainStep(cmd, ReadRow)
  /\ ReconStep(cmd, nreset)
  /\ ExecStep(cmd, DmaFin, PrFin)
  /\ Bank0Step(Bank0Written(go, PendingData))
  /\ Bank1Step(Bank1Written(go, PendingData), fin)
  /\ AxiStep(ready)
  /\ ReadStep(Requests(go, FALSE), PendingAddr, go)
  /\ WriteStep(Requests(go, TRUE), PendingAddr, go)
  /\ AccessStep(go)
  /\ fresh' = IF cmd = None THEN fresh ELSE cmd = "START" /\ EngineAtRest
  /\ UNCHANGED <<call, quiet, before>>

Init ==
  /\ main_state = "SHUTDOWN" /\ recon_state = "SHUTDOWN" /\ exec_state = "SHUTDOWN"
  /\ b0 \in Settings0 /\ b1 \in Tables /\ read_val = b1[0]
  /\ cur_query = 0 /\ intr_status = FALSE /\ b1_read_indexer = 0
  /\ dma_init_task = None /\ pr_ctrl_task = None /\ axi_state = "IDLE"
  /\ r_state = "IDLE" /\ r_addr = NoAddr
  /\ w_state = "IDLE" /\ w_addr = NoAddr
  /\ call = NoCall /\ got = <<>> /\ quiet = FALSE
  /\ fresh = FALSE /\ before = None

Clock(go, ready) ==
  \E nreset \in SUBSET Region, fin \in SUBSET Reports : Tick(go, ready, nreset, fin)

Next ==
  \/ \E c \in Calls : Begin(c)
  \/ Return
  \/ \E go, ready \in BOOLEAN : Clock(go, ready)

Spec == Init /\ [][Next]_vars

(* The thread runs, the clock ticks and the interconnect moves on.          *)
FairSpec ==
  Spec /\ WF_vars(Return) /\ WF_vars(\E ready \in BOOLEAN : Clock(TRUE, ready))

-----------------------------------------------------------------------------
DriverTypeOK ==
  /\ CoreTypeOK /\ axi_state \in AxiState /\ SlaveTypeOK
  /\ call \in Calls \cup {NoCall}
  /\ Len(got) <= IF call = NoCall THEN 0 ELSE Len(Accesses(call))
  /\ quiet \in BOOLEAN /\ fresh \in BOOLEAN
  /\ before \in [Slot -> SlotRow] \cup {None}

(* A bank 1 read that began in SHUTDOWN returns the register it asked for,  *)
(* although the read port reaches that row only two cycles after the       *)
(* request and every earlier read, of bank 0 too, has left it elsewhere.   *)
ReadsWhatItAsks ==
  quiet /\ r_state = "READDATA" /\ r_addr.bank = 1
    => RDATA = b1[RowIndex(r_addr)][r_addr.col]

(* print_slot_data looks at the main state once and then reads the whole   *)
(* table.  What it has read is always what the table holds, all rows of    *)
(* one moment: the engine does not leave SHUTDOWN behind its back.         *)
PrintsOneTable ==
  call # NoCall => (call.op = "print_slot_data" /\ Len(got) > 1 =>
    \A i \in 2 .. Len(got) :
      LET a == Accesses(call)[i].addr IN got[i] = b1[a.row][a.col])

(* The columns of a row that the engine itself changes during a run.        *)
EngineColumn == {"src_addr", "des_addr", "complete_mask"}

(* The table after n writes of a set_whole_slot, the first k of them while  *)
(* a run was on: those are dropped, the others taken, in the row of the     *)
(* call and nowhere else.                                                  *)
RowFrom(k, n) ==
  /\ quiet => k = 0
  /\ main_state # "SHUTDOWN" => k = n
  /\ \A s \in Slot, f \in Column :
       LET taken == s = call.slot /\ \E i \in (k + 1) .. n : fields[i] = f IN
         /\ taken => b1[s][f] = call.new[f]
         /\ ~taken /\ (quiet \/ f \notin EngineColumn) => b1[s][f] = before[s][f]

(* set_whole_slot begun in SHUTDOWN, and not ended by a ValueError, leaves  *)
(* its row exactly as asked for and every other row and column as it was.  *)
(* All writes are answered OKAY: begun during a run, the call loses those   *)
(* made before the run's end, and only those, so that it may leave the row *)
(* old up to some column of the list and new from there on.                *)
WholeRowWritten ==
  call # NoCall => (call.op = "set_whole_slot" /\ Completes(call) =>
    \E k \in 0 .. Len(fields) : RowFrom(k, Len(fields)))

(* start_engine checks the budget with two reads and starts with a third   *)
(* access.  From its start to its end a run has a budget that passes the   *)
(* check: nothing written after the check, or during the run, is taken.    *)
RunHasValidBudget ==
  main_state # "SHUTDOWN" =>
    b0.amt_query_per_iter # 0 /\ b0.amt_query % b0.amt_query_per_iter = 0

(* A run started on an engine at rest and given no command since is over,  *)
(* when the main state is back in SHUTDOWN, for every part of the engine:  *)
(* a program that polls get_main_state may edit the table and start again. *)
OverMeansIdle == fresh /\ main_state = "SHUTDOWN" => EngineAtRest

(* What every clock edge and every call preserves.  The channel that is     *)
(* busy is that of the pending access ...                                  *)
ChannelsServeCall ==
  /\ r_state # "IDLE" => Pending /\ ~NextAccess(call).write /\ r_addr = NextAccess(call).addr
  /\ w_state # "IDLE" => Pending /\ NextAccess(call).write /\ w_addr = NextAccess(call).addr
  /\ r_state = "READWAIT" => r_addr.bank = 1

(* ... what start_engine has read of the budget is still the budget ...     *)
BudgetChecked ==
  call # NoCall => (call.op = "start_engine" =>
    /\ Len(got) >= 1 => got[1] = b0.amt_query
    /\ Len(got) >= 2 => got[2] = b0.amt_query_per_iter)

(* ... a call begun in SHUTDOWN stays there but for START's own last access ... *)
StillQuiet ==
  quiet => /\ call # NoCall
           /\ main_state # "SHUTDOWN" =>
                /\ call.op = "start_engine"
                /\ Len(got) = 3 \/ (Len(got) = 2 /\ w_state = "RESP")

(* ... the read port then follows the address of a bank 1 read ...          *)
PortFollows ==
  quiet => /\ r_state = "READWAIT" => b1_read_indexer = RowIndex(r_addr)
           /\ r_state = "READDATA" /\ r_addr.bank = 1 =>
                b1_read_indexer = RowIndex(r_addr) /\ read_val = b1[b1_read_indexer]

(* ... and every write of a set_whole_slot made so far was dropped, until   *)
(* the first that was taken.                                               *)
Made == Len(got) + (IF w_state = "RESP" THEN 1 ELSE 0)

RowSoFar ==
  call # NoCall => (call.op = "set_whole_slot" =>
    \E k \in 0 .. Made : RowFrom(k, Made))

(* In such a run the sub-machines work in PROCESS only, leave SHUTDOWN and  *)
(* return to it together, and hold the bus writer's tasks.                 *)
RunInOrder ==
  fresh => /\ IF main_state = "PROCESS"
              THEN recon_state = "SHUTDOWN" <=> exec_state = "SHUTDOWN"
              ELSE recon_state = "SHUTDOWN" /\ exec_state = "SHUTDOWN"
           /\ TaskPhase
           /\ dma_init_task = None /\ pr_ctrl_task = None => axi_state = "IDLE"

DriverInvariant ==
  DriverTypeOK /\ ChannelsServeCall /\ BudgetChecked /\ RunHasValidBudget
    /\ StillQuiet /\ PortFollows /\ RowSoFar /\ RunInOrder

(* Every call returns, whatever the engine is doing.                        *)
CallReturns == call # NoCall ~> call = NoCall

(* doc/tech_report/main.tex, CTRL_REG: "SHUTDOWN (halt gracefully)".  A bus *)
(* write of the halted session goes to the register it is addressed to for  *)
(* as long as its task stands, unless another command is given.            *)
CommandArrives == w_state = "DATA" /\ w_addr = Bank0Reg(REG_CTRL)

HaltKeepsWrite ==
  [][ main_state = "SHUTDOWN" /\ axi_state \in {"WADDR", "WDATA"} /\ ~CommandArrives
        /\ UNCHANGED task_vars
      => AWADDR' = AWADDR ]_vars
=============================================================================
