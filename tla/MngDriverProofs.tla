-------------------------- MODULE MngDriverProofs --------------------------
(***************************************************************************)
(* Proofs about the driver on the hardware, for every table length, list   *)
(* of fields, set of calls, and start of bank 0 and bank 1: what a register *)
(* read returns, what set_whole_slot leaves, what a run starts with.       *)
(***************************************************************************)
EXTENDS MngDriver, DfxMngCoreProofs, SequenceTheorems, FiniteSetTheorems

-----------------------------------------------------------------------------
(* The accesses of a call. *)

ReadAccess == [write : {FALSE}, addr : Register, data : {0}]

(* Bank 1 has a first row, and the row bits of any address select a row.    *)
LEMMA RowsExist == Cardinality(Slot) \in Nat \ {0}
<1>1. Cardinality(Slot) \in Nat
  BY FS_CardinalityType, DriverAssumption
<1> QED
  BY <1>1, DriverAssumption, CoreAssumption

LEMMA SlotsAreNumbers == Slot \subseteq Nat
<1>1. Slot = 0 .. (Cardinality(Slot) - 1)
  BY DriverAssumption
<1> QED
  BY <1>1, RowsExist

LEMMA RowIndexInSlot ==
  ASSUME NEW addr \in Register
  PROVE  RowIndex(addr) \in Slot
<1>1. addr.row \in Nat /\ Cardinality(Slot) \in Nat \ {0}
  BY RowsExist DEF Register
<1>2. addr.row % Cardinality(Slot) \in 0 .. (Cardinality(Slot) - 1)
  BY <1>1
<1> QED
  BY <1>2, DriverAssumption DEF RowIndex

LEMMA RowIndexOfSlot ==
  ASSUME NEW s \in Slot, NEW f \in Column
  PROVE  RowIndex(Bank1Reg(s, f)) = s
<1>1. s \in 0 .. (Cardinality(Slot) - 1)
  BY DriverAssumption
<1>2. s % Cardinality(Slot) = s
  BY <1>1, RowsExist
<1> QED
  BY <1>2 DEF RowIndex, Bank1Reg

LEMMA RegistersTyped ==
  /\ \A n \in Nat : Bank0Reg(n) \in Register
  /\ \A s \in Nat, f \in Column : Bank1Reg(s, f) \in Register
BY DEF Bank0Reg, Bank1Reg, Register, Column

LEMMA FieldsTyped ==
  /\ Len(fields) \in Nat \ {0}
  /\ \A i \in 1 .. Len(fields) : fields[i] \in Column
BY DriverAssumption, LenProperties, ElementOfSeq

LEMMA SlotReadsTyped ==
  ASSUME NEW s \in Nat
  PROVE  /\ SlotReads(s) \in Seq(ReadAccess)
         /\ Len(SlotReads(s)) = Len(fields)
<1>1. \A i \in 1 .. Len(fields) : Read(Bank1Reg(s, fields[i])) \in ReadAccess
  BY FieldsTyped, RegistersTyped DEF Read, ReadAccess
<1> QED
  BY <1>1, FieldsTyped DEF SlotReads

LEMMA TableReadsTyped == TableReads \in Seq(ReadAccess)
<1> DEFINE L == Len(fields)
           C == Cardinality(Slot)
<1>1. L \in Nat \ {0} /\ C \in Nat \ {0}
  BY FieldsTyped, RowsExist
<1>2. C * L \in Nat
  BY <1>1
<1>3. ASSUME NEW i \in 1 .. C * L
      PROVE  SlotReads((i - 1) \div L)[((i - 1) % L) + 1] \in ReadAccess
  <2>1. i - 1 \in Nat
    BY <1>2
  <2>2. (i - 1) \div L \in Nat /\ (i - 1) % L \in 0 .. (L - 1)
    BY <1>1, <2>1
  <2>3. ((i - 1) % L) + 1 \in 1 .. L
    BY <1>1, <2>2
  <2> HIDE DEF L
  <2>4. /\ SlotReads((i - 1) \div L) \in Seq(ReadAccess)
        /\ Len(SlotReads((i - 1) \div L)) = L
    BY <2>2, SlotReadsTyped DEF L
  <2> QED
    BY <2>3, <2>4, ElementOfSeq
<1> QED
  BY <1>2, <1>3 DEF TableReads

ReadOps == {"get_main_state", "print_main_status", "get_slot", "print_slot_data"}

(* The methods that only ask. *)
LEMMA ReadCalls ==
  ASSUME NEW c \in Call, c.op \in ReadOps
  PROVE  Accesses(c) \in Seq(ReadAccess)
<1> USE DEF ReadOps
<1>1. \A n \in Nat : Read(Bank0Reg(n)) \in ReadAccess
  BY RegistersTyped DEF Read, ReadAccess
<1>2. << Read(Bank0Reg(REG_MAIN_STATE)) >> \in Seq(ReadAccess)
  BY <1>1 DEF REG_MAIN_STATE
<1>3. CASE c.op = "get_main_state"
  BY <1>2, <1>3 DEF Accesses
<1>4. CASE c.op = "print_main_status"
  BY <1>1, <1>4 DEF Accesses
<1>5. CASE c.op = "get_slot"
  <2>1. c.slot \in Nat
    BY SlotsAreNumbers DEF Call
  <2> QED
    BY <1>5, <2>1, SlotReadsTyped DEF Accesses
<1>6. CASE c.op = "print_slot_data"
  <2>1. Accesses(c) = << Read(Bank0Reg(REG_MAIN_STATE)) >> \o TableReads
    BY <1>6 DEF Accesses
  <2> QED
    BY <1>2, <2>1, TableReadsTyped, ConcatProperties
<1> QED
  BY <1>3, <1>4, <1>5, <1>6

LEMMA Bank0Calls ==
  ASSUME NEW c \in Call
  PROVE  /\ c.op = "set_bank0" => Accesses(c) = << Write(Bank0Reg(c.reg), c.n) >>
         /\ c.op = "set_intr_ena" => Accesses(c) = << Write(Bank0Reg(REG_INTR_ENA), c.n = 1) >>
         /\ c.op = "control" => Accesses(c) = << Write(Bank0Reg(REG_CTRL), c.cmd) >>
         /\ c.op = "start_engine" =>
              Accesses(c) = << Read(Bank0Reg(REG_AMT_QUERY)),
                               Read(Bank0Reg(REG_AMT_QUERY_PER_ITER)),
                               Write(Bank0Reg(REG_CTRL), "START") >>
BY DEF Accesses

LEMMA SlotCalls ==
  ASSUME NEW c \in Call
  PROVE  /\ c.op = "set_slot" => Accesses(c) = << Write(Bank1Reg(c.slot, c.field), c.new[c.field]) >>
         /\ c.op = "set_whole_slot" =>
              /\ Len(Accesses(c)) = Len(fields)
              /\ \A i \in 1 .. Len(fields) :
                   Accesses(c)[i] = Write(Bank1Reg(c.slot, fields[i]), c.new[fields[i]])
<1>1. CASE c.op = "set_whole_slot"
  <2> DEFINE A == [ i \in 1 .. Len(fields) |-> Write(Bank1Reg(c.slot, fields[i]), c.new[fields[i]]) ]
  <2>1. Accesses(c) = A
    BY <1>1 DEF Accesses
  <2>2. A \in Seq({A[i] : i \in 1 .. Len(fields)}) /\ Len(A) = Len(fields)
    BY FieldsTyped
  <2> QED
    BY <1>1, <2>1, <2>2
<1>2. CASE c.op = "set_slot"
  BY <1>2 DEF Accesses
<1> QED
  BY <1>1, <1>2

(* What the addressed register may be given. *)
WriteAllowed(c, i) ==
  LET a == Accesses(c)[i] IN
  CASE a.addr.bank = 1 ->
         /\ c.op \in {"set_slot", "set_whole_slot"}
         /\ a.addr.row = c.slot /\ a.data = c.new[a.addr.col]
    [] a.addr.bank = 0 /\ a.addr.row = REG_CTRL ->
         \/ c.op = "control" /\ a.data \in {"CLEAR", "SHUTDOWN"}
         \/ c.op = "start_engine" /\ i = 3 /\ a.data = "START"
    [] OTHER ->
         /\ c.op \in {"set_bank0", "set_intr_ena"}
         /\ a.addr.row \in Setter \cup {REG_INTR_ENA}
         /\ a.addr.row = REG_LAST_SESSION => a.data \in Slot
         /\ a.addr.row \in Setter \ {REG_LAST_SESSION} => a.data \in Query
         /\ a.addr.row = REG_INTR_ENA => a.data \in BOOLEAN

AccessOK(c, i) ==
  /\ Accesses(c)[i].write \in BOOLEAN
  /\ Accesses(c)[i].addr \in Register
  /\ Accesses(c)[i].write => WriteAllowed(c, i)

LEMMA OneAccess ==
  ASSUME NEW c, Len(Accesses(c)) = 1, AccessOK(c, 1)
  PROVE  Len(Accesses(c)) \in Nat /\ \A i \in 1 .. Len(Accesses(c)) : AccessOK(c, i)
<1>1. \A i \in 1 .. 1 : i = 1
  OBVIOUS
<1> QED
  BY <1>1

LEMMA AccessesTyped ==
  ASSUME NEW c \in Calls
  PROVE  /\ Len(Accesses(c)) \in Nat
         /\ \A i \in 1 .. Len(Accesses(c)) : AccessOK(c, i)
<1>1. c \in Call /\ c.slot \in Nat /\ c.slot \in Slot /\ c.field \in Column
  <2>1. c \in Call
    BY DriverAssumption
  <2> QED
    BY <2>1, SlotsAreNumbers DEF Call
<1>2. CASE c.op \in ReadOps
  <2>1. Accesses(c) \in Seq(ReadAccess)
    BY <1>1, <1>2, ReadCalls
  <2>2. \A i \in 1 .. Len(Accesses(c)) : Accesses(c)[i] \in ReadAccess
    BY <2>1, ElementOfSeq
  <2> QED
    BY <2>1, <2>2, LenProperties DEF ReadAccess, AccessOK
<1>3. CASE c.op = "set_bank0"
  <2>1. Len(Accesses(c)) = 1 /\ Accesses(c)[1] = Write(Bank0Reg(c.reg), c.n)
    <3>1. Accesses(c) = << Write(Bank0Reg(c.reg), c.n) >>
      BY <1>1, <1>3, Bank0Calls
    <3> QED
      BY <3>1
  <2>2. c.reg \in Setter /\ IF c.reg = REG_LAST_SESSION THEN c.n \in Slot ELSE c.n \in Query
    BY <1>1, <1>3, DriverAssumption DEF Call
  <2>3. Bank0Reg(c.reg) \in Register /\ REG_CTRL \notin Setter /\ REG_INTR_ENA \notin Setter
    BY <2>2, RegistersTyped DEF Setter, REG_CTRL, REG_INTR_ENA, REG_LAST_SESSION,
       REG_AMT_QUERY, REG_AMT_QUERY_PER_ITER
  <2>4. WriteAllowed(c, 1)
    BY <1>3, <2>1, <2>2, <2>3 DEF WriteAllowed, Write, Bank0Reg
  <2>5. AccessOK(c, 1)
    BY <2>1, <2>3, <2>4 DEF Write, AccessOK
  <2> QED
    BY <2>1, <2>5, OneAccess
<1>4. CASE c.op = "set_intr_ena"
  <2>1. Len(Accesses(c)) = 1 /\ Accesses(c)[1] = Write(Bank0Reg(REG_INTR_ENA), c.n = 1)
    <3>1. Accesses(c) = << Write(Bank0Reg(REG_INTR_ENA), c.n = 1) >>
      BY <1>1, <1>4, Bank0Calls
    <3> QED
      BY <3>1
  <2>2. Bank0Reg(REG_INTR_ENA) \in Register /\ REG_INTR_ENA # REG_CTRL
        /\ REG_INTR_ENA \notin Setter
    BY RegistersTyped DEF Setter, REG_CTRL, REG_INTR_ENA, REG_LAST_SESSION,
       REG_AMT_QUERY, REG_AMT_QUERY_PER_ITER
  <2>3. REG_INTR_ENA # REG_LAST_SESSION /\ (c.n = 1) \in BOOLEAN
    BY DEF REG_LAST_SESSION, REG_INTR_ENA
  <2>4. /\ Accesses(c)[1].addr.bank = 0 /\ Accesses(c)[1].addr.row = REG_INTR_ENA
        /\ Accesses(c)[1].data \in BOOLEAN /\ Accesses(c)[1].write = TRUE
        /\ Accesses(c)[1].addr \in Register
    BY <2>1, <2>2 DEF Write, Bank0Reg
  <2>5. WriteAllowed(c, 1)
    BY <1>4, <2>2, <2>3, <2>4 DEF WriteAllowed
  <2> QED
    BY <2>1, <2>4, <2>5, OneAccess DEF AccessOK
<1>5. CASE c.op = "control"
  <2>1. /\ Len(Accesses(c)) = 1 /\ Accesses(c)[1] = Write(Bank0Reg(REG_CTRL), c.cmd)
        /\ c.cmd \in {"CLEAR", "SHUTDOWN"}
    <3>1. Accesses(c) = << Write(Bank0Reg(REG_CTRL), c.cmd) >>
      BY <1>1, <1>5, Bank0Calls
    <3> QED
      BY <1>1, <3>1 DEF Call
  <2>2. Bank0Reg(REG_CTRL) \in Register
    BY RegistersTyped DEF REG_CTRL
  <2>3. WriteAllowed(c, 1)
    BY <1>5, <2>1 DEF WriteAllowed, Write, Bank0Reg
  <2>4. AccessOK(c, 1)
    BY <2>1, <2>2, <2>3 DEF Write, AccessOK
  <2> QED
    BY <2>1, <2>4, OneAccess
<1>6. CASE c.op = "start_engine"
  <2>1. Accesses(c) = << Read(Bank0Reg(REG_AMT_QUERY)),
                         Read(Bank0Reg(REG_AMT_QUERY_PER_ITER)),
                         Write(Bank0Reg(REG_CTRL), "START") >>
    BY <1>1, <1>6, Bank0Calls
  <2>2. /\ Bank0Reg(REG_CTRL) \in Register /\ Bank0Reg(REG_AMT_QUERY) \in Register
        /\ Bank0Reg(REG_AMT_QUERY_PER_ITER) \in Register
    BY RegistersTyped DEF REG_CTRL, REG_AMT_QUERY, REG_AMT_QUERY_PER_ITER
  <2>3. /\ Len(Accesses(c)) = 3
        /\ Accesses(c)[1] = Read(Bank0Reg(REG_AMT_QUERY))
        /\ Accesses(c)[2] = Read(Bank0Reg(REG_AMT_QUERY_PER_ITER))
        /\ Accesses(c)[3] = Write(Bank0Reg(REG_CTRL), "START")
    BY <2>1
  <2>4. WriteAllowed(c, 3)
    BY <1>6, <2>3 DEF WriteAllowed, Write, Bank0Reg
  <2>5. AccessOK(c, 1) /\ AccessOK(c, 2) /\ AccessOK(c, 3)
    BY <2>2, <2>3, <2>4 DEF Write, Read, AccessOK
  <2>6. \A i \in 1 .. 3 : i = 1 \/ i = 2 \/ i = 3
    OBVIOUS
  <2> QED
    BY <2>3, <2>5, <2>6
<1>7. CASE c.op = "set_slot"
  <2>1. Len(Accesses(c)) = 1 /\ Accesses(c)[1] = Write(Bank1Reg(c.slot, c.field), c.new[c.field])
    <3>1. Accesses(c) = << Write(Bank1Reg(c.slot, c.field), c.new[c.field]) >>
      BY <1>1, <1>7, SlotCalls
    <3> QED
      BY <3>1
  <2>2. Bank1Reg(c.slot, c.field) \in Register
    BY <1>1, RegistersTyped
  <2>3. WriteAllowed(c, 1)
    BY <1>7, <2>1 DEF WriteAllowed, Write, Bank1Reg
  <2>4. AccessOK(c, 1)
    BY <2>1, <2>2, <2>3 DEF Write, AccessOK
  <2> QED
    BY <2>1, <2>4, OneAccess
<1>8. CASE c.op = "set_whole_slot"
  <2>1. Len(Accesses(c)) = Len(fields) /\ Len(fields) \in Nat
    BY <1>1, <1>8, SlotCalls, FieldsTyped
  <2>2. ASSUME NEW i \in 1 .. Len(fields) PROVE AccessOK(c, i)
    <3>1. Accesses(c)[i] = Write(Bank1Reg(c.slot, fields[i]), c.new[fields[i]])
      BY <1>1, <1>8, SlotCalls
    <3>2. Bank1Reg(c.slot, fields[i]) \in Register
      BY <1>1, FieldsTyped, RegistersTyped
    <3>3. WriteAllowed(c, i)
      BY <1>8, <3>1 DEF WriteAllowed, Write, Bank1Reg
    <3> QED
      BY <3>1, <3>2, <3>3 DEF Write, AccessOK
  <2> QED
    BY <2>1, <2>2
<1> QED
  BY <1>1, <1>2, <1>3, <1>4, <1>5, <1>6, <1>7, <1>8 DEF Call, ReadOps

-----------------------------------------------------------------------------
(* The inductive invariant.  What has been read is of many kinds: all that  *)
(* is said of it is that it is a sequence.                                 *)

GotIsSeq == \E S : got \in Seq(S)

IInv == DriverInvariant /\ GotIsSeq

LEMMA GotGrows ==
  ASSUME GotIsSeq, NEW x, got' = Append(got, x)
  PROVE  /\ GotIsSeq' /\ Len(got) \in Nat /\ Len(got') = Len(got) + 1
         /\ \A i \in 1 .. Len(got) : got'[i] = got[i]
         /\ got'[Len(got) + 1] = x
<1>1. PICK S : got \in Seq(S)
  BY DEF GotIsSeq
<1>2. got \in Seq(S \cup {x}) /\ x \in S \cup {x}
  BY <1>1, SeqMonotonic
<1>3. got' \in Seq(S \cup {x})
  BY <1>2
<1> QED
  BY <1>2, <1>3 DEF GotIsSeq

LEMMA GotLength ==
  ASSUME GotIsSeq
  PROVE  Len(got) \in Nat
BY LenProperties DEF GotIsSeq

(* A pending access is one of its call's.                                   *)
LEMMA PendingAccess ==
  ASSUME IInv, Pending
  PROVE  /\ call \in Calls /\ call \in Call /\ call # NoCall
         /\ Len(got) \in Nat /\ Len(got) < Len(Accesses(call))
         /\ Len(Accesses(call)) \in Nat
         /\ NextAccess(call) = Accesses(call)[Len(got) + 1]
         /\ AccessOK(call, Len(got) + 1)
<1>1. call \in Calls /\ call # NoCall /\ call \in Call
  BY DriverAssumption DEF IInv, DriverInvariant, DriverTypeOK, Pending
<1>2. Len(got) \in Nat /\ Len(Accesses(call)) \in Nat
  BY <1>1, GotLength, AccessesTyped DEF IInv
<1>3. Len(got) < Len(Accesses(call))
  BY <1>1, <1>2 DEF IInv, DriverInvariant, DriverTypeOK, Pending, Over, Completes
<1>4. AccessOK(call, Len(got) + 1)
  BY <1>1, <1>2, <1>3, AccessesTyped
<1> QED
  BY <1>1, <1>2, <1>3, <1>4 DEF NextAccess

(* What a clock edge puts on the core's inputs.                             *)
LEMMA Written ==
  ASSUME IInv, NEW go \in BOOLEAN, Strobe(go)
  PROVE  /\ Pending /\ w_addr = NextAccess(call).addr /\ w_addr \in Register
         /\ PendingData = NextAccess(call).data
         /\ WriteAllowed(call, Len(got) + 1)
         /\ r_state = "IDLE" /\ w_state = "DATA" /\ go
<1>1. /\ w_state = "DATA" /\ go /\ Pending /\ NextAccess(call).write
      /\ w_addr = NextAccess(call).addr
  BY DEF Strobe, IInv, DriverInvariant, ChannelsServeCall
<1>2. r_state = "IDLE"
  BY <1>1 DEF IInv, DriverInvariant, ChannelsServeCall
<1>3. WriteAllowed(call, Len(got) + 1) /\ w_addr \in Register
  BY <1>1, PendingAccess DEF AccessOK
<1> QED
  BY <1>1, <1>2, <1>3 DEF PendingData

LEMMA CommandTyped ==
  ASSUME IInv, NEW go \in BOOLEAN, NEW cmd, cmd = CmdWritten(go, PendingData)
  PROVE  /\ cmd \in Cmd \cup {None}
         /\ cmd # None => Strobe(go) /\ w_addr.bank = 0 /\ w_addr.row = REG_CTRL
         /\ cmd = "START" => call.op = "start_engine" /\ Len(got) = 2
<1>1. CASE Strobe(go) /\ w_addr.bank = 0 /\ w_addr.row = REG_CTRL
  <2>1. /\ Pending /\ w_addr = NextAccess(call).addr /\ PendingData = NextAccess(call).data
        /\ WriteAllowed(call, Len(got) + 1)
    BY <1>1, Written
  <2>2. Len(got) \in Nat /\ NextAccess(call) = Accesses(call)[Len(got) + 1]
    BY <2>1, PendingAccess
  <2>3. cmd = PendingData
    BY <1>1 DEF CmdWritten
  <2>4. CASE call.op = "control" /\ cmd \in {"CLEAR", "SHUTDOWN"}
    BY <1>1, <2>4 DEF Cmd
  <2>5. CASE call.op = "start_engine" /\ Len(got) + 1 = 3 /\ cmd = "START"
    <3>1. ASSUME NEW n \in Nat, n + 1 = 3 PROVE n = 2
      BY <3>1
    <3>2. Len(got) \in Nat /\ Len(got) + 1 = 3
      BY <2>2, <2>5
    <3>3. Len(got) = 2
      BY <3>1, <3>2
    <3> QED
      BY <1>1, <2>5, <3>3 DEF Cmd
  <2> QED
    BY <1>1, <2>1, <2>2, <2>3, <2>4, <2>5 DEF WriteAllowed
<1>2. CASE ~(Strobe(go) /\ w_addr.bank = 0 /\ w_addr.row = REG_CTRL)
  BY <1>2, NoneIsNoCommand DEF CmdWritten, Cmd
<1> QED
  BY <1>1, <1>2

LEMMA Bank0Typed ==
  ASSUME IInv, NEW go \in BOOLEAN, NEW wr0, wr0 = Bank0Written(go, PendingData)
  PROVE  /\ wr0 \in Config \cup {None}
         /\ wr0 # None => Strobe(go) /\ w_addr.bank = 0 /\ w_addr.row # REG_CTRL
                          /\ call.op \in {"set_bank0", "set_intr_ena"}
<1> USE DEF Setter, REG_CTRL, REG_LAST_SESSION, REG_AMT_QUERY, REG_AMT_QUERY_PER_ITER,
            REG_INTR_ENA
<1>0. DOMAIN Bank0Field = Setter \cup {REG_INTR_ENA}
  BY DEF Bank0Field
<1>1. CASE Strobe(go) /\ w_addr.bank = 0 /\ w_addr.row \in DOMAIN Bank0Field
  <2>1. /\ Pending /\ w_addr = NextAccess(call).addr /\ PendingData = NextAccess(call).data
        /\ WriteAllowed(call, Len(got) + 1)
    BY <1>1, Written
  <2>2. NextAccess(call) = Accesses(call)[Len(got) + 1]
    BY <2>1, PendingAccess
  <2>3. /\ call.op \in {"set_bank0", "set_intr_ena"}
        /\ w_addr.row = REG_LAST_SESSION => PendingData \in Slot
        /\ w_addr.row \in Setter \ {REG_LAST_SESSION} => PendingData \in Query
        /\ w_addr.row = REG_INTR_ENA => PendingData \in BOOLEAN
    BY <1>0, <1>1, <2>1, <2>2 DEF WriteAllowed
  <2>4. b0 \in Config
    BY DEF IInv, DriverInvariant, DriverTypeOK, CoreTypeOK
  <2>5. wr0 = [b0 EXCEPT ![Bank0Field[w_addr.row]] = PendingData]
    BY <1>1 DEF Bank0Written
  <2>6. CASE w_addr.row = REG_LAST_SESSION
    <3>1. Bank0Field[w_addr.row] = "last_session"
      BY <2>6 DEF Bank0Field
    <3> QED
      BY <1>1, <2>3, <2>4, <2>5, <2>6, <3>1 DEF Config
  <2>7. CASE w_addr.row = REG_AMT_QUERY
    <3>1. Bank0Field[w_addr.row] = "amt_query"
      BY <2>7 DEF Bank0Field
    <3> QED
      BY <1>1, <2>3, <2>4, <2>5, <2>7, <3>1 DEF Config
  <2>8. CASE w_addr.row = REG_AMT_QUERY_PER_ITER
    <3>1. Bank0Field[w_addr.row] = "amt_query_per_iter"
      BY <2>8 DEF Bank0Field
    <3> QED
      BY <1>1, <2>3, <2>4, <2>5, <2>8, <3>1 DEF Config
  <2>9. CASE w_addr.row = REG_INTR_ENA
    <3>1. Bank0Field[w_addr.row] = "intr_ena"
      BY <2>9 DEF Bank0Field
    <3> QED
      BY <1>1, <2>3, <2>4, <2>5, <2>9, <3>1 DEF Config
  <2> QED
    BY <1>0, <1>1, <2>6, <2>7, <2>8, <2>9
<1>2. CASE ~(Strobe(go) /\ w_addr.bank = 0 /\ w_addr.row \in DOMAIN Bank0Field)
  BY <1>2 DEF Bank0Written
<1> QED
  BY <1>1, <1>2

LEMMA Bank1Typed ==
  ASSUME IInv, NEW go \in BOOLEAN, NEW wr1, wr1 = Bank1Written(go, PendingData)
  PROVE  /\ wr1 \in [row : Slot, new : SlotRow] \cup {None}
         /\ wr1 # None =>
              /\ Strobe(go) /\ w_addr.bank = 1
              /\ call.op \in {"set_slot", "set_whole_slot"}
              /\ wr1.row = call.slot /\ call.slot \in Slot /\ w_addr.col \in Column
              /\ wr1.new = [b1[call.slot] EXCEPT ![w_addr.col] = call.new[w_addr.col]]
         /\ Strobe(go) /\ w_addr.bank = 1 => wr1 # None
<1>1. CASE Strobe(go) /\ w_addr.bank = 1
  <2>1. /\ Pending /\ w_addr = NextAccess(call).addr /\ PendingData = NextAccess(call).data
        /\ WriteAllowed(call, Len(got) + 1) /\ w_addr \in Register
    BY <1>1, Written
  <2>2. NextAccess(call) = Accesses(call)[Len(got) + 1] /\ call \in Call
    BY <2>1, PendingAccess
  <2>3. /\ call.op \in {"set_slot", "set_whole_slot"} /\ w_addr.row = call.slot
        /\ PendingData = call.new[w_addr.col]
    BY <1>1, <2>1, <2>2 DEF WriteAllowed
  <2>4. call.slot \in Slot /\ call.new \in SlotRow /\ w_addr.col \in Column
    BY <2>1, <2>2 DEF Call, Register
  <2>5. RowIndex(w_addr) = call.slot
    BY <2>3, <2>4, RowIndexOfSlot DEF RowIndex, Bank1Reg
  <2>6. wr1 = [row |-> call.slot,
               new |-> [b1[call.slot] EXCEPT ![w_addr.col] = call.new[w_addr.col]]]
    BY <1>1, <2>3, <2>5 DEF Bank1Written
  <2>7. b1[call.slot] \in SlotRow
    BY <2>4 DEF IInv, DriverInvariant, DriverTypeOK, CoreTypeOK
  <2>8. [b1[call.slot] EXCEPT ![w_addr.col] = call.new[w_addr.col]] \in SlotRow
    BY <2>4, <2>7, SMTT(60) DEF SlotRow, Column
  <2>9. wr1 \in [row : Slot, new : SlotRow]
    BY <2>4, <2>6, <2>8
  <2>10. wr1 # None
    BY <2>9, CoreAssumption
  <2> QED
    BY <1>1, <2>3, <2>4, <2>6, <2>9, <2>10
<1>2. CASE ~(Strobe(go) /\ w_addr.bank = 1)
  BY <1>2 DEF Bank1Written
<1> QED
  BY <1>1, <1>2

LEMMA RowTyped ==
  ASSUME IInv
  PROVE  ReadRow \in Slot \cup {None}
BY RowIndexInSlot DEF ReadRow, IInv, DriverInvariant, DriverTypeOK, SlaveTypeOK

-----------------------------------------------------------------------------
(* A clock edge, part by part. *)

LEMMA TickTyped ==
  ASSUME IInv, NEW go \in BOOLEAN, NEW ready \in BOOLEAN,
         NEW nreset \in SUBSET Region, NEW fin \in SUBSET Reports,
         Tick(go, ready, nreset, fin)
  PROVE  /\ CoreTypeOK' /\ axi_state' \in AxiState /\ SlaveTypeOK'
         /\ fresh' \in BOOLEAN
<1> DEFINE cmd == CmdWritten(go, PendingData)
           wr0 == Bank0Written(go, PendingData)
           wr1 == Bank1Written(go, PendingData)
<1>1. CoreTypeOK /\ axi_state \in AxiState /\ SlaveTypeOK /\ fresh \in BOOLEAN
  BY DEF IInv, DriverInvariant, DriverTypeOK
<1>2. /\ MainStep(cmd, ReadRow) /\ ReconStep(cmd, nreset) /\ ExecStep(cmd, DmaFin, PrFin)
      /\ Bank0Step(wr0) /\ Bank1Step(wr1, fin) /\ AxiStep(ready)
      /\ ReadStep(Requests(go, FALSE), PendingAddr, go)
      /\ WriteStep(Requests(go, TRUE), PendingAddr, go)
      /\ fresh' = IF cmd = None THEN fresh ELSE cmd = "START" /\ EngineAtRest
  BY DEF Tick
<1>3. /\ cmd \in Cmd \cup {None} /\ ReadRow \in Slot \cup {None}
      /\ wr0 \in Config \cup {None} /\ wr1 \in [row : Slot, new : SlotRow] \cup {None}
      /\ fin \in SUBSET Stream
  BY CommandTyped, Bank0Typed, Bank1Typed, RowTyped, DriverAssumption
<1> HIDE DEF cmd, wr0, wr1
<1>4. /\ main_state' \in MainState /\ b1_read_indexer' \in Slot
      /\ cur_query' \in Query /\ intr_status' \in BOOLEAN
  BY <1>1, <1>2, <1>3, MainStepTyped
<1>5. recon_state' \in ReconState
  BY <1>1, <1>2, <1>3, ReconStepTyped
<1>6. /\ exec_state' \in ExecState /\ dma_init_task' \in DmaTask \cup {None}
      /\ pr_ctrl_task' \in PrTask \cup {None}
  BY <1>1, <1>2, <1>3, ExecStepTyped
<1>7. b0' \in Config /\ b1' \in [Slot -> SlotRow] /\ read_val' \in SlotRow
  BY <1>1, <1>2, <1>3, BankStepsTyped
<1>8. axi_state' \in AxiState
  BY <1>1, <1>2 DEF AxiStep, AxiState
<1>9. SlaveTypeOK'
  <2>1. NoAddr \in Register
    BY RegistersTyped DEF NoAddr
  <2>2. PendingAddr \in Register
    BY <2>1, PendingAccess DEF PendingAddr, AccessOK
  <2>3. r_addr' \in Register /\ r_state' \in {"IDLE", "READFETCH", "READWAIT", "READDATA"}
    BY <1>1, <1>2, <2>1, <2>2 DEF ReadStep, SlaveTypeOK
  <2>4. w_addr' \in Register /\ w_state' \in {"IDLE", "DATA", "RESP"}
    BY <1>1, <1>2, <2>1, <2>2 DEF WriteStep, SlaveTypeOK
  <2> QED
    BY <2>3, <2>4 DEF SlaveTypeOK
<1>10. fresh' \in BOOLEAN
  BY <1>1, <1>2 DEF EngineAtRest
<1> QED
  BY <1>4, <1>5, <1>6, <1>7, <1>8, <1>9, <1>10 DEF CoreTypeOK

(* Either the pending access ends, or the program has seen nothing.         *)
AccessEnds(go) ==
  /\ go /\ Pending
  /\ \/ r_state = "READDATA" /\ ~NextAccess(call).write /\ w_state = "IDLE"
        /\ got'[Len(got) + 1] = RDATA
     \/ w_state = "RESP" /\ NextAccess(call).write /\ r_state = "IDLE"
  /\ Len(got') = Len(got) + 1 /\ Len(got) \in Nat
  /\ \A i \in 1 .. Len(got) : got'[i] = got[i]
  /\ r_state' = "IDLE" /\ w_state' = "IDLE"

AccessLasts(go) ==
  got' = got /\ ~(go /\ (r_state = "READDATA" \/ w_state = "RESP"))

LEMMA TickAccess ==
  ASSUME IInv, NEW go \in BOOLEAN, NEW ready \in BOOLEAN,
         NEW nreset \in SUBSET Region, NEW fin \in SUBSET Reports,
         Tick(go, ready, nreset, fin)
  PROVE  /\ call' = call /\ quiet' = quiet /\ GotIsSeq'
         /\ AccessEnds(go) \/ AccessLasts(go)
<1>1. call' = call /\ quiet' = quiet /\ AccessStep(go)
      /\ ReadStep(Requests(go, FALSE), PendingAddr, go)
      /\ WriteStep(Requests(go, TRUE), PendingAddr, go)
  BY DEF Tick
<1>2. GotIsSeq /\ ChannelsServeCall /\ SlaveTypeOK
  BY DEF IInv, DriverInvariant, DriverTypeOK
<1>3. CASE go /\ r_state = "READDATA"
  <2>1. Pending /\ ~NextAccess(call).write
    BY <1>2, <1>3 DEF ChannelsServeCall
  <2>2. w_state = "IDLE"
    BY <1>2, <2>1 DEF ChannelsServeCall
  <2>3. got' = Append(got, RDATA)
    BY <1>1, <1>3 DEF AccessStep
  <2>4. r_state' = "IDLE"
    BY <1>1, <1>3 DEF ReadStep
  <2>5. w_state' = "IDLE"
    BY <1>1, <2>1, <2>2 DEF WriteStep, Requests
  <2> QED
    BY <1>1, <1>2, <1>3, <2>1, <2>2, <2>3, <2>4, <2>5, GotGrows DEF AccessEnds
<1>4. CASE go /\ r_state # "READDATA" /\ w_state = "RESP"
  <2>1. Pending /\ NextAccess(call).write
    BY <1>2, <1>4 DEF ChannelsServeCall
  <2>2. r_state = "IDLE"
    BY <1>2, <2>1 DEF ChannelsServeCall
  <2>3. got' = Append(got, 0)
    BY <1>1, <1>4 DEF AccessStep
  <2>4. w_state' = "IDLE"
    BY <1>1, <1>4 DEF WriteStep
  <2>5. NextAccess(call).write \in BOOLEAN
    BY <2>1, PendingAccess DEF AccessOK
  <2>6. r_state' = "IDLE"
    BY <1>1, <2>1, <2>2, <2>5 DEF ReadStep, Requests
  <2> QED
    BY <1>1, <1>2, <1>4, <2>1, <2>2, <2>3, <2>4, <2>6, GotGrows DEF AccessEnds
<1>5. CASE ~(go /\ (r_state = "READDATA" \/ w_state = "RESP"))
  <2>1. got' = got
    BY <1>1, <1>5 DEF AccessStep
  <2> QED
    BY <1>1, <1>2, <1>5, <2>1 DEF AccessLasts, GotIsSeq
<1> QED
  BY <1>3, <1>4, <1>5

(* Whether and what a call still has to do depends on what it has got. *)
LEMMA SamePending ==
  ASSUME call' = call, got' = got
  PROVE  Pending' = Pending /\ NextAccess(call)' = NextAccess(call)
BY DEF Pending, Over, Completes, Raises, Abandons, NextAccess

LEMMA TickChannels ==
  ASSUME IInv, NEW go \in BOOLEAN, NEW ready \in BOOLEAN,
         NEW nreset \in SUBSET Region, NEW fin \in SUBSET Reports,
         Tick(go, ready, nreset, fin)
  PROVE  ChannelsServeCall'
<1>1. /\ ReadStep(Requests(go, FALSE), PendingAddr, go)
      /\ WriteStep(Requests(go, TRUE), PendingAddr, go)
  BY DEF Tick
<1>2. call' = call /\ (AccessEnds(go) \/ AccessLasts(go))
  BY TickAccess
<1>3. CASE AccessEnds(go)
  BY <1>3 DEF AccessEnds, ChannelsServeCall
<1>4. CASE AccessLasts(go)
  <2>1. Pending' = Pending /\ NextAccess(call)' = NextAccess(call)
    BY <1>2, <1>4, SamePending DEF AccessLasts
  <2>2. ChannelsServeCall /\ r_state \in {"IDLE", "READFETCH", "READWAIT", "READDATA"}
        /\ w_state \in {"IDLE", "DATA", "RESP"}
    BY DEF IInv, DriverInvariant, DriverTypeOK, SlaveTypeOK
  <2>3. Pending => NextAccess(call).write \in BOOLEAN
    BY PendingAccess DEF AccessOK
  <2>4. /\ r_state' # "IDLE" => Pending /\ ~NextAccess(call).write
                              /\ r_addr' = NextAccess(call).addr
        /\ r_state' = "READWAIT" => r_addr'.bank = 1
    BY <1>1, <2>2, <2>3 DEF ReadStep, Requests, PendingAddr, ChannelsServeCall
  <2>5. w_state' # "IDLE" => Pending /\ NextAccess(call).write
                             /\ w_addr' = NextAccess(call).addr
    BY <1>1, <2>2, <2>3 DEF WriteStep, Requests, PendingAddr, ChannelsServeCall
  <2> QED
    BY <2>1, <2>4, <2>5 DEF ChannelsServeCall
<1> QED
  BY <1>2, <1>3, <1>4

(* What the registers of the budget answer.                                 *)
LEMMA BudgetRegisters ==
  /\ r_addr = Bank0Reg(REG_AMT_QUERY) => RDATA = b0.amt_query
  /\ r_addr = Bank0Reg(REG_AMT_QUERY_PER_ITER) => RDATA = b0.amt_query_per_iter
<1> USE DEF REG_MAIN_STATE, REG_RECON_STATE, REG_EXEC_STATE, REG_LAST_SESSION,
            REG_CUR_QUERY, REG_AMT_QUERY, REG_AMT_QUERY_PER_ITER, REG_INTR_ENA,
            REG_INTR_STATUS
<1>1. \A n : Bank0Reg(n).bank # 1 /\ Bank0Reg(n).row = n
  BY DEF Bank0Reg
<1>2. r_addr.bank # 1 /\ r_addr.row = REG_AMT_QUERY => RDATA = b0.amt_query
  BY DEF RDATA
<1>3. r_addr.bank # 1 /\ r_addr.row = REG_AMT_QUERY_PER_ITER => RDATA = b0.amt_query_per_iter
  BY DEF RDATA
<1> QED
  BY <1>1, <1>2, <1>3

LEMMA TickBudget ==
  ASSUME IInv, NEW go \in BOOLEAN, NEW ready \in BOOLEAN,
         NEW nreset \in SUBSET Region, NEW fin \in SUBSET Reports,
         Tick(go, ready, nreset, fin)
  PROVE  BudgetChecked'
<1> SUFFICES ASSUME call' # NoCall, call'.op = "start_engine"
             PROVE  /\ Len(got') >= 1 => got'[1] = b0'.amt_query
                    /\ Len(got') >= 2 => got'[2] = b0'.amt_query_per_iter
  BY DEF BudgetChecked
<1>1. call' = call /\ (AccessEnds(go) \/ AccessLasts(go)) /\ Len(got) \in Nat
  BY TickAccess, GotLength DEF IInv
<1>2. /\ Len(got) >= 1 => got[1] = b0.amt_query
      /\ Len(got) >= 2 => got[2] = b0.amt_query_per_iter
  BY <1>1 DEF IInv, DriverInvariant, BudgetChecked
<1>3. b0' = b0
  <2>1. Bank0Written(go, PendingData) = None
    BY <1>1, Bank0Typed
  <2> QED
    BY <2>1 DEF Tick, Bank0Step
<1>4. CASE AccessLasts(go)
  BY <1>2, <1>3, <1>4 DEF AccessLasts
<1>5. CASE AccessEnds(go)
  <2>1. /\ Len(Accesses(call)) = 3
        /\ Accesses(call)[1] = Read(Bank0Reg(REG_AMT_QUERY))
        /\ Accesses(call)[2] = Read(Bank0Reg(REG_AMT_QUERY_PER_ITER))
        /\ Accesses(call)[3].write
    <3>1. call \in Call
      BY <1>5, PendingAccess DEF AccessEnds
    <3>2. Accesses(call) = << Read(Bank0Reg(REG_AMT_QUERY)),
                              Read(Bank0Reg(REG_AMT_QUERY_PER_ITER)),
                              Write(Bank0Reg(REG_CTRL), "START") >>
      BY <1>1, <3>1, Bank0Calls
    <3> QED
      BY <3>2 DEF Write
  <2>2. NextAccess(call) = Accesses(call)[Len(got) + 1] /\ Len(got) < 3
    BY <1>5, <2>1, PendingAccess DEF AccessEnds
  <2>3. r_state = "READDATA" => r_addr = NextAccess(call).addr
    BY DEF IInv, DriverInvariant, ChannelsServeCall
  <2>4. CASE Len(got) = 0
    <3>1. NextAccess(call) = Read(Bank0Reg(REG_AMT_QUERY))
      BY <2>1, <2>2, <2>4
    <3>2. r_addr = Bank0Reg(REG_AMT_QUERY) /\ got'[1] = RDATA
      BY <1>5, <2>3, <2>4, <3>1 DEF AccessEnds, Read
    <3>3. RDATA = b0.amt_query
      BY <3>2, BudgetRegisters
    <3> QED
      BY <1>3, <1>5, <2>4, <3>2, <3>3 DEF AccessEnds
  <2>5. CASE Len(got) = 1
    <3>1. NextAccess(call) = Read(Bank0Reg(REG_AMT_QUERY_PER_ITER))
      BY <2>1, <2>2, <2>5
    <3>2. r_addr = Bank0Reg(REG_AMT_QUERY_PER_ITER) /\ got'[2] = RDATA
      BY <1>5, <2>3, <2>5, <3>1 DEF AccessEnds, Read
    <3>3. RDATA = b0.amt_query_per_iter
      BY <3>2, BudgetRegisters
    <3> QED
      BY <1>2, <1>3, <1>5, <2>5, <3>2, <3>3 DEF AccessEnds
  <2>6. CASE Len(got) = 2
    BY <1>2, <1>3, <1>5, <2>6 DEF AccessEnds
  <2>7. ASSUME NEW n \in Nat, n < 3 PROVE n = 0 \/ n = 1 \/ n = 2
    BY <2>7
  <2>8. Len(got) = 0 \/ Len(got) = 1 \/ Len(got) = 2
    BY <1>1, <2>2, <2>7
  <2> QED
    BY <2>4, <2>5, <2>6, <2>8
<1> QED
  BY <1>1, <1>4, <1>5

(* Only the last access of start_engine takes the engine out of SHUTDOWN,   *)
(* and a read never meets a command.                                       *)
LEMMA MainLeaves ==
  ASSUME IInv, NEW go \in BOOLEAN, NEW ready \in BOOLEAN,
         NEW nreset \in SUBSET Region, NEW fin \in SUBSET Reports,
         Tick(go, ready, nreset, fin), main_state' # "SHUTDOWN"
  PROVE  \/ /\ CmdWritten(go, PendingData) = "START" /\ Strobe(go)
            /\ call.op = "start_engine" /\ Len(got) = 2
         \/ CmdWritten(go, PendingData) = None /\ main_state # "SHUTDOWN"
<1> DEFINE cmd == CmdWritten(go, PendingData)
<1>1. /\ cmd \in Cmd \cup {None} /\ None \notin Cmd
      /\ cmd # None => Strobe(go)
      /\ cmd = "START" => call.op = "start_engine" /\ Len(got) = 2
  BY CommandTyped, NoneIsNoCommand
<1>2. MainStep(cmd, ReadRow)
  BY DEF Tick
<1> HIDE DEF cmd
<1>3. CASE cmd = "START"
  BY <1>1, <1>3 DEF cmd, Cmd
<1>4. CASE cmd # "START"
  <2>1. cmd = None
    BY <1>1, <1>2, <1>4 DEF MainStep, MainClear, MainShutdownCmd, Cmd
  <2>2. main_state # "SHUTDOWN"
    BY <1>1, <1>2, <2>1 DEF MainStep, MainIdle, MainProcess, MainPreShutdown, Cmd
  <2> QED
    BY <2>1, <2>2 DEF cmd
<1> QED
  BY <1>3, <1>4

LEMMA TickValidBudget ==
  ASSUME IInv, NEW go \in BOOLEAN, NEW ready \in BOOLEAN,
         NEW nreset \in SUBSET Region, NEW fin \in SUBSET Reports,
         Tick(go, ready, nreset, fin)
  PROVE  RunHasValidBudget'
<1> SUFFICES ASSUME main_state' # "SHUTDOWN"
             PROVE  /\ b0'.amt_query_per_iter # 0
                    /\ b0'.amt_query % b0'.amt_query_per_iter = 0
  BY DEF RunHasValidBudget
<1>1. CASE /\ CmdWritten(go, PendingData) = "START" /\ Strobe(go)
           /\ call.op = "start_engine" /\ Len(got) = 2
  <2>1. Pending /\ call # NoCall
    BY <1>1, Written, PendingAccess
  <2>2. validate_query_config(got[1], got[2])
    BY <1>1, <2>1 DEF Pending, Over, Abandons
  <2>3. got[1] = b0.amt_query /\ got[2] = b0.amt_query_per_iter
    BY <1>1, <2>1 DEF IInv, DriverInvariant, BudgetChecked
  <2>4. Bank0Written(go, PendingData) = None
    BY <1>1, Bank0Typed
  <2>5. b0' = b0
    BY <2>4 DEF Tick, Bank0Step
  <2> QED
    BY <2>2, <2>3, <2>5 DEF validate_query_config
<1>2. CASE main_state # "SHUTDOWN"
  <2>1. b0' = b0
    BY <1>2 DEF Tick, Bank0Step
  <2> QED
    BY <1>2, <2>1 DEF IInv, DriverInvariant, RunHasValidBudget
<1> QED
  BY <1>1, <1>2, MainLeaves

LEMMA TickQuiet ==
  ASSUME IInv, NEW go \in BOOLEAN, NEW ready \in BOOLEAN,
         NEW nreset \in SUBSET Region, NEW fin \in SUBSET Reports,
         Tick(go, ready, nreset, fin)
  PROVE  StillQuiet'
<1>1. call' = call /\ quiet' = quiet /\ (AccessEnds(go) \/ AccessLasts(go))
  BY TickAccess
<1> SUFFICES ASSUME quiet, main_state' # "SHUTDOWN"
             PROVE  /\ call.op = "start_engine"
                    /\ Len(got') = 3 \/ (Len(got') = 2 /\ w_state' = "RESP")
  BY <1>1 DEF StillQuiet, IInv, DriverInvariant
<1>2. WriteStep(Requests(go, TRUE), PendingAddr, go)
  BY DEF Tick
<1>3. CASE /\ CmdWritten(go, PendingData) = "START" /\ Strobe(go)
           /\ call.op = "start_engine" /\ Len(got) = 2
  <2>1. w_state = "DATA" /\ go /\ r_state = "IDLE"
    BY <1>3, Written
  <2>2. w_state' = "RESP"
    BY <1>2, <2>1 DEF WriteStep
  <2>3. got' = got
    BY <1>1, <2>1 DEF AccessEnds, AccessLasts
  <2> QED
    BY <1>3, <2>2, <2>3
<1>4. CASE main_state # "SHUTDOWN"
  <2>1. /\ call # NoCall /\ call.op = "start_engine"
        /\ Len(got) = 3 \/ (Len(got) = 2 /\ w_state = "RESP")
    BY <1>4 DEF IInv, DriverInvariant, StillQuiet
  <2>2. CASE Len(got) = 3
    <3>1. call \in Call
      BY <2>1, DriverAssumption DEF IInv, DriverInvariant, DriverTypeOK
    <3>2. Accesses(call) = << Read(Bank0Reg(REG_AMT_QUERY)),
                              Read(Bank0Reg(REG_AMT_QUERY_PER_ITER)),
                              Write(Bank0Reg(REG_CTRL), "START") >>
      BY <2>1, <3>1, Bank0Calls
    <3>3. Len(Accesses(call)) = 3
      BY <3>2
    <3>4. ~Pending
      BY <2>2, <3>3 DEF Pending, Over, Completes
    <3>5. got' = got
      BY <1>1, <3>4 DEF AccessEnds, AccessLasts
    <3> QED
      BY <2>1, <2>2, <3>5
  <2>3. CASE Len(got) = 2 /\ w_state = "RESP"
    <3>1. CASE AccessEnds(go)
      BY <2>1, <2>3, <3>1 DEF AccessEnds
    <3>2. CASE AccessLasts(go)
      <4>1. ~go
        BY <2>3, <3>2 DEF AccessLasts
      <4>2. w_state' = "RESP"
        BY <1>2, <2>3, <4>1 DEF WriteStep
      <4> QED
        BY <2>1, <2>3, <3>2, <4>2 DEF AccessLasts
    <3> QED
      BY <1>1, <3>1, <3>2
  <2> QED
    BY <2>1, <2>2, <2>3
<1> QED
  BY <1>3, <1>4, MainLeaves

(* While a bank 1 access of a call begun in SHUTDOWN is on, the engine is    *)
(* in SHUTDOWN.                                                            *)
LEMMA QuietAccess ==
  ASSUME IInv, quiet, Pending, call.op # "start_engine" \/ ~NextAccess(call).write
  PROVE  main_state = "SHUTDOWN"
<1> SUFFICES ASSUME main_state # "SHUTDOWN" PROVE FALSE
  OBVIOUS
<1>1. /\ call.op = "start_engine"
      /\ Len(got) = 3 \/ (Len(got) = 2 /\ w_state = "RESP")
  BY DEF IInv, DriverInvariant, StillQuiet
<1>2. Len(got) < Len(Accesses(call)) /\ call \in Call
  BY PendingAccess
<1>3. Accesses(call) = << Read(Bank0Reg(REG_AMT_QUERY)),
                          Read(Bank0Reg(REG_AMT_QUERY_PER_ITER)),
                          Write(Bank0Reg(REG_CTRL), "START") >>
  BY <1>1, <1>2, Bank0Calls
<1>4. Len(Accesses(call)) = 3
  BY <1>3
<1>5. w_state = "RESP"
  BY <1>1, <1>2, <1>4
<1>6. NextAccess(call).write
  BY <1>5 DEF IInv, DriverInvariant, ChannelsServeCall
<1> QED
  BY <1>1, <1>6

(* What ReadStep, MainStep and Bank1Step do to the read port while the       *)
(* engine rests and nothing is written.                                    *)
PortServes ==
  /\ r_state = "READWAIT" => b1_read_indexer = RowIndex(r_addr)
  /\ r_state = "READDATA" /\ r_addr.bank = 1 =>
       b1_read_indexer = RowIndex(r_addr) /\ read_val = b1[b1_read_indexer]

LEMMA RestingTick ==
  ASSUME IInv, NEW go \in BOOLEAN, NEW ready \in BOOLEAN,
         NEW nreset \in SUBSET Region, NEW fin \in SUBSET Reports,
         Tick(go, ready, nreset, fin), main_state = "SHUTDOWN", w_state = "IDLE"
  PROVE  /\ main_state' = "SHUTDOWN" /\ b1' = b1 /\ read_val' = b1[b1_read_indexer]
         /\ b1_read_indexer' = IF ReadRow = None THEN b1_read_indexer ELSE ReadRow
<1>1. /\ MainStep(CmdWritten(go, PendingData), ReadRow)
      /\ Bank1Step(Bank1Written(go, PendingData), fin)
  BY DEF Tick
<1>2. /\ CmdWritten(go, PendingData) = None /\ Bank1Written(go, PendingData) = None
      /\ None \notin Cmd
  BY NoneIsNoCommand DEF CmdWritten, Bank1Written, Strobe
<1> QED
  BY <1>1, <1>2 DEF MainStep, MainIdle, MainProcess, MainPreShutdown, Bank1Step, Cmd

LEMMA PortKept ==
  ASSUME IInv, NEW go \in BOOLEAN, NEW ready \in BOOLEAN,
         NEW nreset \in SUBSET Region, NEW fin \in SUBSET Reports,
         Tick(go, ready, nreset, fin), PortServes,
         r_state # "IDLE" => main_state = "SHUTDOWN" /\ w_state = "IDLE"
  PROVE  PortServes'
<1>1. ReadStep(Requests(go, FALSE), PendingAddr, go)
  BY DEF Tick
<1>2. /\ r_state \in {"IDLE", "READFETCH", "READWAIT", "READDATA"}
      /\ r_addr \in Register
  BY DEF IInv, DriverInvariant, DriverTypeOK, SlaveTypeOK
<1> SUFFICES ASSUME r_state # "IDLE",
                    r_state' = "READWAIT" \/ (r_state' = "READDATA" /\ r_addr'.bank = 1)
             PROVE  PortServes'
  BY <1>1, <1>2 DEF PortServes, ReadStep
<1>3. r_addr' = r_addr /\ RowIndex(r_addr)' = RowIndex(r_addr)
  <2>1. r_addr' = r_addr
    BY <1>1, <1>2 DEF ReadStep
  <2> QED
    BY <2>1 DEF RowIndex
<1>4. /\ b1_read_indexer' = IF ReadRow = None THEN b1_read_indexer ELSE ReadRow
      /\ b1' = b1 /\ read_val' = b1[b1_read_indexer]
  BY RestingTick
<1>5. CASE r_state = "READFETCH"
  <2>1. ReadRow = RowIndex(r_addr) /\ ReadRow # None
    BY <1>2, <1>5, RowIndexInSlot, CoreAssumption DEF ReadRow
  <2>2. r_state' = IF r_addr.bank = 1 THEN "READWAIT" ELSE "READDATA"
    BY <1>1, <1>5 DEF ReadStep
  <2> QED
    BY <1>3, <1>4, <2>1, <2>2 DEF PortServes
<1>6. CASE r_state \in {"READWAIT", "READDATA"}
  <2>1. ReadRow = None
    BY <1>6 DEF ReadRow
  <2>2. b1_read_indexer = RowIndex(r_addr) /\ r_state' # "READWAIT"
    BY <1>1, <1>3, <1>6 DEF PortServes, ReadStep
  <2> QED
    BY <1>3, <1>4, <2>1, <2>2 DEF PortServes
<1> QED
  BY <1>2, <1>5, <1>6

LEMMA TickPort ==
  ASSUME IInv, NEW go \in BOOLEAN, NEW ready \in BOOLEAN,
         NEW nreset \in SUBSET Region, NEW fin \in SUBSET Reports,
         Tick(go, ready, nreset, fin)
  PROVE  PortFollows'
<1>1. quiet' = quiet
  BY TickAccess
<1> SUFFICES ASSUME quiet PROVE PortServes'
  BY <1>1 DEF PortFollows, PortServes
<1>2. PortServes
  BY DEF IInv, DriverInvariant, PortFollows, PortServes
<1>3. ASSUME r_state # "IDLE" PROVE main_state = "SHUTDOWN" /\ w_state = "IDLE"
  <2>1. Pending /\ ~NextAccess(call).write
    BY <1>3 DEF IInv, DriverInvariant, ChannelsServeCall
  <2> QED
    BY <2>1, QuietAccess DEF IInv, DriverInvariant, ChannelsServeCall
<1> QED
  BY <1>2, <1>3, PortKept

(* During a run the engine changes only its own columns of the table.       *)
LEMMA RunKeepsColumns ==
  ASSUME IInv, NEW wr1, NEW fin, Bank1Step(wr1, fin), main_state # "SHUTDOWN",
         NEW s \in Slot, NEW f \in Column, f \notin EngineColumn
  PROVE  b1'[s][f] = b1[s][f]
<1>1. b1 \in [Slot -> SlotRow] /\ b1_read_indexer \in Slot
  BY DEF IInv, DriverInvariant, DriverTypeOK, CoreTypeOK
<1>2. DOMAIN b1[b1_read_indexer] = Column /\ DOMAIN b1 = Slot
  BY <1>1 DEF SlotRow, Column
<1>3. f # "src_addr" /\ f # "des_addr" /\ f # "complete_mask"
  BY DEF EngineColumn
<1> QED
  BY <1>1, <1>2, <1>3 DEF Bank1Step

(* What a clock edge does to the count of the writes made.                  *)
LEMMA TickMade ==
  ASSUME IInv, NEW go \in BOOLEAN, NEW ready \in BOOLEAN,
         NEW nreset \in SUBSET Region, NEW fin \in SUBSET Reports,
         Tick(go, ready, nreset, fin), call # NoCall, call.op = "set_whole_slot"
  PROVE  /\ Made \in Nat
         /\ Made' = IF Strobe(go) THEN Made + 1 ELSE Made
         /\ Strobe(go) => /\ Made + 1 \in 1 .. Len(fields)
                          /\ fields[Made + 1] \in Column /\ w_addr.col = fields[Made + 1]
                          /\ w_addr.bank = 1
<1>1. /\ call' = call /\ (AccessEnds(go) \/ AccessLasts(go)) /\ Len(got) \in Nat
      /\ call \in Call
  BY TickAccess, GotLength, DriverAssumption DEF IInv, DriverInvariant, DriverTypeOK
<1>2. WriteStep(Requests(go, TRUE), PendingAddr, go) /\ w_state \in {"IDLE", "DATA", "RESP"}
  BY DEF Tick, IInv, DriverInvariant, DriverTypeOK, SlaveTypeOK
<1>3. Pending => /\ Len(got) + 1 \in 1 .. Len(fields)
                 /\ NextAccess(call) = Write(Bank1Reg(call.slot, fields[Len(got) + 1]),
                                             call.new[fields[Len(got) + 1]])
  <2> SUFFICES ASSUME Pending
               PROVE  /\ Len(got) + 1 \in 1 .. Len(fields)
                      /\ NextAccess(call) = Write(Bank1Reg(call.slot, fields[Len(got) + 1]),
                                                  call.new[fields[Len(got) + 1]])
    OBVIOUS
  <2>1. /\ Len(got) < Len(Accesses(call)) /\ Len(Accesses(call)) = Len(fields)
        /\ NextAccess(call) = Accesses(call)[Len(got) + 1]
    BY <1>1, PendingAccess, SlotCalls
  <2>2. Len(got) + 1 \in 1 .. Len(fields)
    BY <1>1, <2>1, FieldsTyped
  <2> QED
    BY <1>1, <2>1, <2>2, SlotCalls
<1>4. Made \in Nat
  BY <1>1 DEF Made
<1>5. CASE Strobe(go)
  <2>1. Pending /\ w_addr = NextAccess(call).addr /\ w_state = "DATA" /\ go /\ r_state = "IDLE"
    BY <1>5, Written
  <2>2. w_state' = "RESP" /\ got' = got
    BY <1>1, <1>2, <2>1 DEF WriteStep, AccessEnds, AccessLasts
  <2>3. Made = Len(got) /\ Made' = Len(got) + 1
    BY <1>1, <2>1, <2>2 DEF Made
  <2> QED
    BY <1>3, <1>4, <1>5, <2>1, <2>3, FieldsTyped DEF Write, Bank1Reg
<1>6. CASE ~Strobe(go) /\ AccessEnds(go)
  <2>1. w_state = "RESP" /\ w_state' = "IDLE" /\ Len(got') = Len(got) + 1
    BY <1>3, <1>6 DEF AccessEnds, Write
  <2> QED
    BY <1>1, <1>4, <1>6, <2>1 DEF Made
<1>7. CASE ~Strobe(go) /\ AccessLasts(go)
  <2>1. got' = got /\ (w_state' = "RESP" <=> w_state = "RESP")
    BY <1>2, <1>7 DEF WriteStep, AccessLasts, Strobe
  <2> QED
    BY <1>1, <1>4, <1>7, <2>1 DEF Made
<1> QED
  BY <1>1, <1>5, <1>6, <1>7

LEMMA TickRow ==
  ASSUME IInv, NEW go \in BOOLEAN, NEW ready \in BOOLEAN,
         NEW nreset \in SUBSET Region, NEW fin \in SUBSET Reports,
         Tick(go, ready, nreset, fin)
  PROVE  RowSoFar'
<1>1. call' = call /\ quiet' = quiet /\ before' = before
  BY DEF Tick
<1> SUFFICES ASSUME call # NoCall, call.op = "set_whole_slot"
             PROVE  \E k \in 0 .. Made' : RowFrom(k, Made)'
  BY <1>1 DEF RowSoFar
<1> DEFINE n == Made
           wr1 == Bank1Written(go, PendingData)
<1>2. /\ n \in Nat /\ Made' = IF Strobe(go) THEN n + 1 ELSE n
      /\ Strobe(go) => fields[n + 1] \in Column /\ w_addr.col = fields[n + 1] /\ w_addr.bank = 1
  BY TickMade
<1>3. PICK k \in 0 .. n : RowFrom(k, n)
  BY DEF IInv, DriverInvariant, RowSoFar
<1>4. /\ Bank1Step(wr1, fin) /\ b1 \in [Slot -> SlotRow] /\ call.slot \in Slot
      /\ quiet => main_state = "SHUTDOWN"
  <2>1. call \in Call
    BY DriverAssumption DEF IInv, DriverInvariant, DriverTypeOK
  <2> QED
    BY <2>1 DEF Tick, Call, IInv, DriverInvariant, DriverTypeOK, CoreTypeOK, StillQuiet
<1>5. main_state' # "SHUTDOWN" => main_state # "SHUTDOWN"
  BY MainLeaves
<1>6. /\ wr1 # None =>
           /\ Strobe(go) /\ wr1.row = call.slot
           /\ wr1.new = [b1[call.slot] EXCEPT ![w_addr.col] = call.new[w_addr.col]]
      /\ Strobe(go) => wr1 # None
  BY <1>2, Bank1Typed
<1> HIDE DEF n, wr1
(* A write during the run, or none: nothing of the call has been taken.     *)
<1>7. CASE main_state # "SHUTDOWN"
  <2>1. k = n
    BY <1>3, <1>7 DEF RowFrom
  <2>2. \A s \in Slot, f \in Column : f \notin EngineColumn => b1[s][f] = before[s][f]
    <3>1. \A i \in (n + 1) .. n : FALSE
      BY <1>2
    <3> QED
      BY <1>3, <2>1, <3>1 DEF RowFrom
  <2>3. \A s \in Slot, f \in Column : f \notin EngineColumn => b1'[s][f] = b1[s][f]
    BY <1>4, <1>7, RunKeepsColumns
  <2>4. Made' \in 0 .. Made' /\ \A i \in (Made' + 1) .. Made' : FALSE
    BY <1>2
  <2>5. RowFrom(Made, Made)'
    BY <1>1, <1>4, <1>7, <2>2, <2>3, <2>4 DEF RowFrom
  <2> QED
    BY <2>4, <2>5
(* A write taken: its column is new, every other as it was.                 *)
<1>8. CASE main_state = "SHUTDOWN" /\ Strobe(go)
  <2> DEFINE c == fields[n + 1]
  <2>1. /\ k \in 0 .. (n + 1) /\ Made' = n + 1 /\ c \in Column
        /\ \A i : i \in (k + 1) .. (n + 1) <=> i \in (k + 1) .. n \/ i = n + 1
    BY <1>2, <1>3, <1>8
  <2>2. b1' = [b1 EXCEPT ![call.slot] = [b1[call.slot] EXCEPT ![c] = call.new[c]]]
    BY <1>2, <1>4, <1>6, <1>8 DEF Bank1Step
  <2>3. DOMAIN b1[call.slot] = Column
    BY <1>4 DEF SlotRow, Column
  <2> HIDE DEF c
  <2>4. \A s \in Slot, f \in Column :
          b1'[s][f] = IF s = call.slot /\ f = c THEN call.new[f] ELSE b1[s][f]
    BY <1>4, <2>1, <2>2, <2>3
  <2>5. ASSUME NEW s \in Slot, NEW f \in Column
        PROVE  LET taken == s = call.slot /\ \E i \in (k + 1) .. (n + 1) : fields[i] = f IN
                 /\ taken => b1'[s][f] = call.new[f]
                 /\ ~taken /\ (quiet \/ f \notin EngineColumn) => b1'[s][f] = before[s][f]
    <3> DEFINE old == \E i \in (k + 1) .. n : fields[i] = f
               now == \E i \in (k + 1) .. (n + 1) : fields[i] = f
    <3>1. now <=> old \/ f = c
      BY <2>1 DEF c
    <3>2. /\ s = call.slot /\ old => b1[s][f] = call.new[f]
          /\ ~(s = call.slot /\ old) /\ (quiet \/ f \notin EngineColumn) => b1[s][f] = before[s][f]
      BY <1>3 DEF RowFrom
    <3> HIDE DEF old
    <3>3. b1'[s][f] = IF s = call.slot /\ f = c THEN call.new[f] ELSE b1[s][f]
      BY <2>4
    <3>4. /\ s = call.slot /\ now => b1'[s][f] = call.new[f]
          /\ ~(s = call.slot /\ now) /\ (quiet \/ f \notin EngineColumn) => b1'[s][f] = before[s][f]
      <4> HIDE DEF now
      <4> QED
        BY <3>1, <3>2, <3>3
    <3> QED
      BY <3>4
  <2>6. RowFrom(k, Made)'
    BY <1>1, <1>3, <1>5, <1>8, <2>1, <2>5 DEF RowFrom
  <2> QED
    BY <2>1, <2>6
(* No write and no run: the table stays.                                    *)
<1>9. CASE main_state = "SHUTDOWN" /\ ~Strobe(go)
  <2>1. b1' = b1 /\ Made' = n
    BY <1>2, <1>4, <1>6, <1>9 DEF Bank1Step
  <2>2. RowFrom(k, Made)'
    BY <1>1, <1>3, <1>5, <1>9, <2>1 DEF RowFrom
  <2> QED
    BY <1>3, <2>1, <2>2
<1> QED
  BY <1>7, <1>8, <1>9

LEMMA TickRun ==
  ASSUME IInv, NEW go \in BOOLEAN, NEW ready \in BOOLEAN,
         NEW nreset \in SUBSET Region, NEW fin \in SUBSET Reports,
         Tick(go, ready, nreset, fin)
  PROVE  RunInOrder'
<1> DEFINE cmd == CmdWritten(go, PendingData)
<1>1. /\ MainStep(cmd, ReadRow) /\ ReconStep(cmd, nreset) /\ ExecStep(cmd, DmaFin, PrFin)
      /\ AxiStep(ready)
      /\ fresh' = IF cmd = None THEN fresh ELSE cmd = "START" /\ EngineAtRest
  BY DEF Tick
<1>2. RunInOrder /\ CoreTypeOK
  BY DEF IInv, DriverInvariant, DriverTypeOK
<1> HIDE DEF cmd
<1> SUFFICES ASSUME fresh'
             PROVE  /\ IF main_state' = "PROCESS"
                       THEN recon_state' = "SHUTDOWN" <=> exec_state' = "SHUTDOWN"
                       ELSE recon_state' = "SHUTDOWN" /\ exec_state' = "SHUTDOWN"
                    /\ TaskPhase'
                    /\ dma_init_task' = None /\ pr_ctrl_task' = None => axi_state' = "IDLE"
  BY DEF RunInOrder
<1>3. cmd # "CLEAR" /\ ((cmd = None /\ fresh) \/ (cmd = "START" /\ EngineAtRest))
  BY <1>1, NoneIsNoCommand DEF Cmd
<1>4. cmd = "START" => recon_state = "SHUTDOWN" /\ exec_state = "SHUTDOWN"
  BY <1>3, NoneIsNoCommand DEF EngineAtRest, Cmd
<1>5. /\ TaskPhase
      /\ dma_init_task = None /\ pr_ctrl_task = None => axi_state = "IDLE"
      /\ IF main_state = "PROCESS"
           THEN recon_state = "SHUTDOWN" <=> exec_state = "SHUTDOWN"
           ELSE recon_state = "SHUTDOWN" /\ exec_state = "SHUTDOWN"
  BY <1>2, <1>3 DEF RunInOrder, EngineAtRest, TaskPhase, TasksOf
<1>6. TaskPhase'
  BY <1>1, <1>2, <1>4, <1>5, TaskPhaseStep
<1>7. dma_init_task' = None /\ pr_ctrl_task' = None => axi_state' = "IDLE"
  <2>1. UNCHANGED task_vars \/ axi_state' = "IDLE"
    BY <1>1, <1>3, <1>4, <1>5, TasksMoveAtRest
  <2> QED
    BY <1>1, <1>5, <2>1 DEF task_vars, AxiStep
<1>8. /\ recon_state' = "SHUTDOWN" <=>
           \/ recon_state = "SHUTDOWN" /\ main_state # "PROCESS"
           \/ recon_state = "FIN_SYNC" /\ AllSync
      /\ exec_state' = "SHUTDOWN" <=>
           \/ exec_state = "SHUTDOWN" /\ main_state # "PROCESS"
           \/ exec_state = "FIN_SYNC" /\ AllSync
  BY <1>1, <1>3, <1>4, SubmachinesReturn
<1>9. main_state' # "PROCESS" => main_state # "PROCESS" \/ AllSync
  BY <1>1, <1>3, NoneIsNoCommand
     DEF MainStep, MainStart, MainIdle, MainProcess, MainPreShutdown, Cmd
<1> QED
  BY <1>5, <1>6, <1>7, <1>8, <1>9 DEF AllSync

LEMMA TickKeeps ==
  ASSUME IInv, NEW go \in BOOLEAN, NEW ready \in BOOLEAN,
         NEW nreset \in SUBSET Region, NEW fin \in SUBSET Reports,
         Tick(go, ready, nreset, fin)
  PROVE  IInv'
<1>1. call' = call /\ quiet' = quiet /\ GotIsSeq' /\ (AccessEnds(go) \/ AccessLasts(go))
  BY TickAccess
<1>2. Len(got') <= IF call' = NoCall THEN 0 ELSE Len(Accesses(call'))
  <2>1. CASE AccessEnds(go)
    <3>1. /\ call # NoCall /\ Len(got) \in Nat /\ Len(Accesses(call)) \in Nat
          /\ Len(got) < Len(Accesses(call)) /\ Len(got') = Len(got) + 1
      BY <2>1, PendingAccess DEF AccessEnds
    <3>2. \A m, n \in Nat : m < n => m + 1 <= n
      OBVIOUS
    <3> QED
      BY <1>1, <3>1, <3>2
  <2>2. CASE AccessLasts(go)
    BY <1>1, <2>2 DEF AccessLasts, IInv, DriverInvariant, DriverTypeOK
  <2> QED
    BY <1>1, <2>1, <2>2
<1>3. DriverTypeOK'
  <2>1. before' = before
    BY DEF Tick
  <2> QED
    BY <1>1, <1>2, <2>1, TickTyped DEF IInv, DriverInvariant, DriverTypeOK
<1> QED
  BY <1>1, <1>3, TickChannels, TickBudget, TickValidBudget, TickQuiet, TickPort, TickRow,
     TickRun
  DEF IInv, DriverInvariant

-----------------------------------------------------------------------------
(* The program's own steps find and leave the channels idle.               *)

LEMMA ProgramKeeps ==
  ASSUME IInv, ~Pending, UNCHANGED <<core_vars, axi_state, slave_vars, fresh>>,
         got' = <<>>, call' \in Calls \cup {NoCall}, quiet' \in BOOLEAN,
         quiet' => call' # NoCall /\ main_state = "SHUTDOWN",
         before' \in {b1, None},
         call' # NoCall => (call'.op = "set_whole_slot" => before' = b1)
  PROVE  IInv'
<1>1. /\ UNCHANGED <<main_state, recon_state, exec_state, b0, b1, read_val, dma_init_task,
                     pr_ctrl_task, cur_query, intr_status, b1_read_indexer, axi_state>>
      /\ UNCHANGED <<r_state, r_addr, w_state, w_addr, fresh>>
  BY DEF core_vars, fsm_vars, bank_vars, task_vars, slave_vars
<1>2. r_state = "IDLE" /\ w_state = "IDLE"
  BY DEF IInv, DriverInvariant, ChannelsServeCall
<1>3. Len(got') = 0 /\ GotIsSeq'
  BY EmptySeq DEF GotIsSeq
<1>4. DriverTypeOK'
  <2>1. call' # NoCall => Len(Accesses(call')) \in Nat
    BY AccessesTyped
  <2>2. Len(got') <= IF call' = NoCall THEN 0 ELSE Len(Accesses(call'))
    BY <1>3, <2>1
  <2>3. CoreTypeOK' /\ SlaveTypeOK' /\ axi_state' \in AxiState /\ fresh' \in BOOLEAN
    BY <1>1 DEF IInv, DriverInvariant, DriverTypeOK, CoreTypeOK, SlaveTypeOK
  <2>4. before' \in [Slot -> SlotRow] \cup {None}
    BY DEF IInv, DriverInvariant, DriverTypeOK, CoreTypeOK
  <2> QED
    BY <2>2, <2>3, <2>4 DEF DriverTypeOK
<1>5. ChannelsServeCall' /\ PortFollows' /\ RunHasValidBudget' /\ StillQuiet'
  BY <1>1, <1>2 DEF ChannelsServeCall, PortFollows, RunHasValidBudget, StillQuiet,
                    IInv, DriverInvariant
<1>6. BudgetChecked'
  BY <1>3 DEF BudgetChecked
<1>7. RowSoFar'
  <2>1. Made' = 0 /\ \A i \in (0 + 1) .. 0 : FALSE
    BY <1>1, <1>2, <1>3 DEF Made
  <2>2. ASSUME call' # NoCall, call'.op = "set_whole_slot" PROVE RowFrom(0, Made)'
    BY <1>1, <2>1, <2>2 DEF RowFrom
  <2> QED
    BY <2>1, <2>2 DEF RowSoFar
<1>8. RunInOrder'
  BY <1>1 DEF RunInOrder, TaskPhase, TasksOf, IInv, DriverInvariant
<1> QED
  BY <1>3, <1>4, <1>5, <1>6, <1>7, <1>8 DEF IInv, DriverInvariant

LEMMA InitHolds ==
  ASSUME Init
  PROVE  IInv
<1>1. 0 \in Slot /\ 0 \in Query
  BY RowsExist, DriverAssumption, CoreAssumption DEF Query
<1>2. b0 \in Config /\ b1 \in [Slot -> SlotRow] /\ read_val \in SlotRow
  BY <1>1, DriverAssumption DEF Init
<1>3. CoreTypeOK
  BY <1>1, <1>2 DEF Init, CoreTypeOK, MainState, ReconState, ExecState
<1>4. SlaveTypeOK
  BY RegistersTyped DEF Init, SlaveTypeOK, NoAddr
<1>5. GotIsSeq /\ Len(got) = 0
  BY EmptySeq DEF Init, GotIsSeq
<1>6. DriverTypeOK
  <2>1. /\ call = NoCall /\ quiet \in BOOLEAN /\ fresh \in BOOLEAN
        /\ axi_state \in AxiState /\ before \in [Slot -> SlotRow] \cup {None}
    BY DEF Init, AxiState
  <2>2. Len(got) <= IF call = NoCall THEN 0 ELSE Len(Accesses(call))
    BY <1>5, <2>1
  <2> QED
    BY <1>3, <1>4, <2>1, <2>2 DEF DriverTypeOK
<1> QED
  BY <1>5, <1>6 DEF Init, IInv, DriverInvariant, ChannelsServeCall, BudgetChecked,
     RunHasValidBudget, StillQuiet, PortFollows, RowSoFar, RunInOrder

LEMMA NextKeeps ==
  ASSUME IInv, [Next]_vars
  PROVE  IInv'
<1>1. ASSUME NEW c \in Calls, Begin(c) PROVE IInv'
  <2>1. ~Pending
    BY <1>1 DEF Begin, Pending
  <2>2. c # NoCall
    BY DriverAssumption
  <2>3. /\ UNCHANGED <<core_vars, axi_state, slave_vars, fresh>>
        /\ got' = <<>> /\ call' = c /\ quiet' = (main_state = "SHUTDOWN")
        /\ before' = IF c.op = "set_whole_slot" THEN b1 ELSE None
    BY <1>1 DEF Begin
  <2> QED
    BY <2>1, <2>2, <2>3, ProgramKeeps
<1>2. ASSUME Return PROVE IInv'
  <2>1. ~Pending
    BY <1>2 DEF Return, Pending
  <2>2. /\ UNCHANGED <<core_vars, axi_state, slave_vars, fresh>>
        /\ got' = <<>> /\ call' = NoCall /\ quiet' = FALSE /\ before' = None
    BY <1>2 DEF Return
  <2> QED
    BY <2>1, <2>2, ProgramKeeps
<1>3. ASSUME NEW go \in BOOLEAN, NEW ready \in BOOLEAN, Clock(go, ready) PROVE IInv'
  BY <1>3, TickKeeps DEF Clock
<1>4. CASE UNCHANGED vars
  BY <1>4 DEF vars, core_vars, fsm_vars, bank_vars, task_vars, slave_vars, driver_vars,
     IInv, GotIsSeq, DriverInvariant, DriverTypeOK, CoreTypeOK, SlaveTypeOK,
     ChannelsServeCall, BudgetChecked, RunHasValidBudget, StillQuiet, PortFollows, RowSoFar,
     RowFrom, Made, RunInOrder, TaskPhase, TasksOf, Pending, Over, Completes, Raises, Abandons, NextAccess, RowIndex
<1> QED
  BY <1>1, <1>2, <1>3, <1>4 DEF Next

(* DriverInvariant holds at every moment, whatever the calls, the table and *)
(* its length, and however the driven parts answer.                        *)
THEOREM InvariantHolds == Spec => []DriverInvariant
<1>1. IInv => DriverInvariant
  BY DEF IInv
<1> QED
  BY <1>1, InitHolds, NextKeeps, PTL DEF Spec

(* Every register, slave and driver variable keeps its type.               *)
THEOREM DriverTyped == Spec => []DriverTypeOK
<1>1. DriverInvariant => DriverTypeOK
  BY DEF DriverInvariant
<1> QED
  BY <1>1, InvariantHolds, PTL

(* A run, from the edge that starts it, has a budget that passed the check. *)
THEOREM RunsAreValid == Spec => []RunHasValidBudget
<1>1. DriverInvariant => RunHasValidBudget
  BY DEF DriverInvariant
<1> QED
  BY <1>1, InvariantHolds, PTL

(* A main state back in SHUTDOWN after an undisturbed run is the end of it  *)
(* for the sub-machines, the task registers and the bus writer.            *)
THEOREM OverIsIdle == Spec => []OverMeansIdle
<1>1. ASSUME DriverInvariant PROVE OverMeansIdle
  BY <1>1 DEF DriverInvariant, DriverTypeOK, RunInOrder, OverMeansIdle, EngineAtRest,
     TaskPhase, TasksOf
<1> QED
  BY <1>1, InvariantHolds, PTL

(* A bank 1 read begun in SHUTDOWN returns the register it asked for: the   *)
(* port has followed the request by the time the data is on the channel.    *)
THEOREM ReadsAreRight == Spec => []ReadsWhatItAsks
<1>1. ASSUME DriverInvariant PROVE ReadsWhatItAsks
  <2> SUFFICES ASSUME quiet, r_state = "READDATA", r_addr.bank = 1
               PROVE  RDATA = b1[RowIndex(r_addr)][r_addr.col]
    BY DEF ReadsWhatItAsks
  <2>1. b1_read_indexer = RowIndex(r_addr) /\ read_val = b1[b1_read_indexer]
    BY <1>1 DEF DriverInvariant, PortFollows
  <2>2. RDATA = read_val[r_addr.col]
    BY DEF RDATA
  <2> QED
    BY <2>1, <2>2
<1> QED
  BY <1>1, InvariantHolds, PTL

(* set_whole_slot begun in SHUTDOWN leaves its row as asked for and nothing  *)
(* else changed; begun in a run, it leaves its last columns so.             *)
THEOREM RowsAreWhole == Spec => []WholeRowWritten
<1>1. ASSUME IInv PROVE WholeRowWritten
  <2> SUFFICES ASSUME call # NoCall, call.op = "set_whole_slot", Completes(call)
               PROVE  \E k \in 0 .. Len(fields) : RowFrom(k, Len(fields))
    BY DEF WholeRowWritten
  <2>1. call \in Call /\ Len(got) \in Nat
    BY <1>1, GotLength, DriverAssumption DEF IInv, DriverInvariant, DriverTypeOK
  <2>2. Len(got) = Len(fields)
    BY <2>1, SlotCalls DEF Completes
  <2>3. w_state = "IDLE"
    BY <1>1 DEF IInv, DriverInvariant, ChannelsServeCall, Pending, Over
  <2>4. Made = Len(fields)
    BY <2>1, <2>2, <2>3 DEF Made
  <2> QED
    BY <1>1, <2>4 DEF IInv, DriverInvariant, RowSoFar
<1> QED
  BY <1>1, InitHolds, NextKeeps, PTL DEF Spec

-----------------------------------------------------------------------------
(* print_slot_data.  It may begin while the engine runs; once it has read    *)
(* SHUTDOWN from the main state, the engine stays there until it is over.  *)

LEMMA QuotientBelow ==
  ASSUME NEW L \in Nat \ {0}, NEW C \in Nat, NEW k \in Nat, k < C * L
  PROVE  k \div L \in 0 .. (C - 1)
<1> DEFINE q == k \div L
<1>1. q \in Nat /\ L * q <= k
  OBVIOUS
<1> HIDE DEF q
<1>2. ASSUME C <= q PROVE FALSE
  <2>1. q - C \in Nat
    BY <1>1, <1>2
  <2>2. L * (q - C) \in Nat
    BY <2>1
  <2>3. L * (q - C) = L * q - C * L
    BY <1>1
  <2>4. C * L \in Nat /\ L * q \in Nat
    BY <1>1
  <2> HIDE DEF q
  <2> QED
    BY <1>1, <2>2, <2>3, <2>4
<1> QED
  BY <1>1, <1>2 DEF q

LEMMA PrintCalls ==
  ASSUME NEW c \in Call, c.op = "print_slot_data"
  PROVE  /\ Accesses(c)[1] = Read(Bank0Reg(REG_MAIN_STATE))
         /\ \A i \in 2 .. Len(Accesses(c)) :
              \E s \in Slot, f \in Column : Accesses(c)[i] = Read(Bank1Reg(s, f))
<1> DEFINE L == Len(fields)
           C == Cardinality(Slot)
           head == << Read(Bank0Reg(REG_MAIN_STATE)) >>
<1>1. L \in Nat \ {0} /\ C \in Nat \ {0} /\ C * L \in Nat /\ Slot = 0 .. (C - 1)
  BY FieldsTyped, RowsExist, DriverAssumption
<1>2. Accesses(c) = head \o TableReads
  BY DEF Accesses
<1>3. head \in Seq(ReadAccess) /\ Len(head) = 1 /\ head[1] = Read(Bank0Reg(REG_MAIN_STATE))
  <2>1. Read(Bank0Reg(REG_MAIN_STATE)) \in ReadAccess
    BY RegistersTyped DEF Read, ReadAccess, REG_MAIN_STATE
  <2> QED
    BY <2>1
<1>4. /\ TableReads \in Seq(ReadAccess) /\ Len(TableReads) = C * L
      /\ \A k \in 1 .. C * L : TableReads[k] = SlotReads((k - 1) \div L)[((k - 1) % L) + 1]
  <2>1. Len(TableReads) = C * L
    BY <1>1 DEF TableReads
  <2> QED
    BY <2>1, TableReadsTyped DEF TableReads
<1> HIDE DEF head
<1>5. /\ Len(Accesses(c)) = 1 + C * L
      /\ Accesses(c)[1] = head[1]
      /\ \A i \in 2 .. (1 + C * L) : Accesses(c)[i] = TableReads[i - 1]
  <2>1. /\ Len(head \o TableReads) = 1 + Len(TableReads)
        /\ \A i \in 1 .. (1 + Len(TableReads)) :
             (head \o TableReads)[i] = IF i <= 1 THEN head[i] ELSE TableReads[i - 1]
    <3>1. /\ head \in Seq(ReadAccess) /\ TableReads \in Seq(ReadAccess)
          /\ Len(head) = 1
      BY <1>3, <1>4
    <3> HIDE DEF ReadAccess
    <3> QED
      BY <3>1, ConcatProperties
  <2>2. Len(TableReads) = C * L
    BY <1>4
  <2> HIDE DEF C, L
  <2> DEFINE n == C * L
  <2>3. n \in Nat
    BY <1>1
  <2> HIDE DEF n
  <2>4. \A i \in 2 .. (1 + n) : i \in 1 .. (1 + n) /\ ~(i <= 1)
    BY <2>3
  <2>5. 1 \in 1 .. (1 + n) /\ 1 <= 1
    BY <2>3
  <2> QED
    BY <1>2, <2>1, <2>2, <2>4, <2>5 DEF n
<1>6. ASSUME NEW i \in 2 .. (1 + C * L)
      PROVE  \E s \in Slot, f \in Column : Accesses(c)[i] = Read(Bank1Reg(s, f))
  <2>1. i - 1 \in 1 .. C * L /\ i - 2 \in Nat /\ (i - 1) - 1 = i - 2 /\ i - 2 < C * L
    BY <1>1
  <2>2. (i - 2) \div L \in Slot
    BY <1>1, <2>1, QuotientBelow
  <2>3. ((i - 2) % L) + 1 \in 1 .. L
    BY <1>1, <2>1
  <2> HIDE DEF L, C
  <2>4. Accesses(c)[i] = SlotReads((i - 2) \div L)[((i - 2) % L) + 1]
    BY <1>4, <1>5, <2>1
  <2>5. \A s \in Slot, k \in 1 .. L : SlotReads(s)[k] = Read(Bank1Reg(s, fields[k]))
    BY FieldsTyped DEF SlotReads, L
  <2>6. fields[((i - 2) % L) + 1] \in Column
    BY <2>3, FieldsTyped DEF L
  <2> QED
    BY <2>2, <2>3, <2>4, <2>5, <2>6
<1> QED
  BY <1>3, <1>5, <1>6

Printing == call # NoCall /\ call.op = "print_slot_data"
Browsing == Printing /\ Len(got) >= 1 /\ got[1] = "SHUTDOWN"

PrintSoFar ==
  /\ Printing /\ Len(got) > 1 => got[1] = "SHUTDOWN"
  /\ Browsing =>
       /\ main_state = "SHUTDOWN" /\ PortServes
       /\ \A i \in 2 .. Len(got) :
            got[i] = b1[Accesses(call)[i].addr.row][Accesses(call)[i].addr.col]

LEMMA TickPrint ==
  ASSUME IInv, PrintSoFar, NEW go \in BOOLEAN, NEW ready \in BOOLEAN,
         NEW nreset \in SUBSET Region, NEW fin \in SUBSET Reports,
         Tick(go, ready, nreset, fin)
  PROVE  PrintSoFar'
<1>1. call' = call /\ (AccessEnds(go) \/ AccessLasts(go))
  BY TickAccess
<1> DEFINE n == Len(got) + 1
<1>0. Len(got) \in Nat /\ n \in Nat
  BY GotLength DEF IInv
<1> SUFFICES ASSUME Printing PROVE PrintSoFar'
  BY <1>1 DEF PrintSoFar, Printing, Browsing
<1>2. /\ call \in Call
      /\ Accesses(call)[1] = Read(Bank0Reg(REG_MAIN_STATE))
      /\ \A i \in 2 .. Len(Accesses(call)) :
           \E s \in Slot, f \in Column : Accesses(call)[i] = Read(Bank1Reg(s, f))
  <2>1. call \in Call
    BY DriverAssumption DEF IInv, DriverInvariant, DriverTypeOK, Printing
  <2> QED
    BY <2>1, PrintCalls DEF Printing
<1>3. Pending => ~NextAccess(call).write
  <2> SUFFICES ASSUME Pending PROVE ~NextAccess(call).write
    OBVIOUS
  <2>1. /\ NextAccess(call) = Accesses(call)[Len(got) + 1] /\ Len(Accesses(call)) \in Nat
        /\ Len(got) < Len(Accesses(call))
    BY PendingAccess
  <2>2. CASE Len(got) = 0
    BY <1>2, <2>1, <2>2 DEF Read
  <2>3. CASE Len(got) # 0
    <3>1. n \in 2 .. Len(Accesses(call))
      BY <1>0, <2>1, <2>3
    <3>2. PICK s \in Slot, f \in Column : Accesses(call)[n] = Read(Bank1Reg(s, f))
      BY <1>2, <3>1
    <3> QED
      BY <2>1, <3>2 DEF Read
  <2> QED
    BY <2>2, <2>3
<1>4. w_state = "IDLE"
  BY <1>3 DEF IInv, DriverInvariant, ChannelsServeCall
<1>5. main_state = "SHUTDOWN" => main_state' = "SHUTDOWN" /\ b1' = b1
  BY <1>4, RestingTick
<1>6. CASE AccessEnds(go)
  <2>1. /\ r_state = "READDATA" /\ got'[n] = RDATA /\ Len(got') = n
        /\ \A i \in 1 .. Len(got) : got'[i] = got[i]
        /\ r_state' = "IDLE" /\ Pending
    BY <1>3, <1>6 DEF AccessEnds
  <2>2. /\ r_addr = Accesses(call)[n].addr /\ Len(Accesses(call)) \in Nat
        /\ n \in 1 .. Len(Accesses(call))
    <3>1. r_addr = NextAccess(call).addr
      BY <2>1 DEF IInv, DriverInvariant, ChannelsServeCall
    <3> QED
      BY <1>0, <2>1, <3>1, PendingAccess
  <2>3. PortServes'
    BY <2>1 DEF PortServes
  <2>4. CASE Len(got) = 0
    <3>1. got'[1] = main_state
      <4>1. r_addr.bank = 0 /\ r_addr.row = REG_MAIN_STATE
        BY <1>2, <2>2, <2>4 DEF Read, Bank0Reg
      <4> QED
        <5>1. RDATA = main_state
          BY <4>1 DEF RDATA, REG_MAIN_STATE, REG_RECON_STATE, REG_EXEC_STATE,
             REG_LAST_SESSION, REG_CUR_QUERY, REG_AMT_QUERY, REG_AMT_QUERY_PER_ITER,
             REG_INTR_ENA, REG_INTR_STATUS
        <5>2. n = 1
          BY <2>4
        <5> QED
          BY <2>1, <5>1, <5>2
    <3>2. Len(got') = 1
      BY <2>1, <2>4
    <3> QED
      BY <1>5, <2>3, <3>1, <3>2 DEF PrintSoFar, Browsing
  <2>5. CASE Len(got) # 0
    <3>1. Browsing
      <4>1. CASE Len(got) = 1
        BY <2>1, <4>1 DEF Browsing, Printing, Pending, Over, Abandons
      <4>2. CASE Len(got) > 1
        BY <4>2 DEF PrintSoFar, Browsing
      <4> QED
        BY <1>0, <2>5, <4>1, <4>2
    <3>2. main_state = "SHUTDOWN" /\ PortServes
      BY <3>1 DEF PrintSoFar
    <3>3. n \in 2 .. Len(Accesses(call))
      BY <1>0, <2>2, <2>5
    <3>4. RDATA = b1[Accesses(call)[n].addr.row][Accesses(call)[n].addr.col]
      <4>1. PICK s \in Slot, f \in Column : Accesses(call)[n] = Read(Bank1Reg(s, f))
        BY <1>2, <3>3
      <4>2. r_addr = Bank1Reg(s, f)
        BY <2>2, <4>1 DEF Read
      <4>3. r_addr.bank = 1 /\ r_addr.row = s /\ r_addr.col = f
        BY <4>2 DEF Bank1Reg
      <4>4. RowIndex(r_addr) = s
        BY <4>2, RowIndexOfSlot
      <4>5. RDATA = read_val[f] /\ read_val = b1[s]
        BY <2>1, <3>2, <4>3, <4>4 DEF RDATA, PortServes
      <4> QED
        BY <2>2, <4>3, <4>5
    <3>5. ASSUME NEW i \in 2 .. Len(got')
          PROVE  got'[i] = b1[Accesses(call)[i].addr.row][Accesses(call)[i].addr.col]
      <4>1. i = n \/ (i \in 2 .. Len(got) /\ i \in 1 .. Len(got))
        BY <1>0, <2>1
      <4> QED
        BY <2>1, <3>1, <3>4, <4>1 DEF PrintSoFar
    <3>6. got'[1] = "SHUTDOWN"
      <4>1. 1 \in 1 .. Len(got)
        BY <1>0, <2>5
      <4> QED
        BY <2>1, <3>1, <4>1 DEF Browsing
    <3> QED
      BY <1>1, <1>5, <2>3, <3>2, <3>5, <3>6 DEF PrintSoFar
  <2> QED
    BY <2>4, <2>5
<1>7. CASE AccessLasts(go)
  <2>1. got' = got
    BY <1>7 DEF AccessLasts
  <2> SUFFICES ASSUME Browsing PROVE PrintSoFar'
    BY <1>1, <2>1 DEF PrintSoFar, Browsing, Printing
  <2>2. PortServes'
    BY <1>4, PortKept DEF PrintSoFar
  <2> QED
    BY <1>1, <1>5, <2>1, <2>2 DEF PrintSoFar, Browsing, Printing
<1> QED
  BY <1>1, <1>6, <1>7

LEMMA NextPrint ==
  ASSUME IInv, PrintSoFar, [Next]_vars
  PROVE  PrintSoFar'
<1>1. ASSUME got' = <<>> PROVE PrintSoFar'
  <2>1. Len(got') = 0
    BY <1>1
  <2> QED
    BY <2>1 DEF PrintSoFar, Browsing
<1>2. CASE UNCHANGED vars
  BY <1>2 DEF vars, core_vars, fsm_vars, bank_vars, task_vars, slave_vars, driver_vars,
     PrintSoFar, Browsing, Printing, PortServes, RowIndex
<1> QED
  BY <1>1, <1>2, TickPrint DEF Next, Begin, Return, Clock

(* What print_slot_data has read of the table is the table of one moment.   *)
THEOREM PrintedIsOneTable == Spec => []PrintsOneTable
<1>1. Init => PrintSoFar
  BY DEF Init, PrintSoFar, Printing, Browsing
<1>2. IInv /\ PrintSoFar => PrintsOneTable
  BY GotLength DEF IInv, PrintSoFar, Printing, Browsing, PrintsOneTable
<1> QED
  BY <1>1, <1>2, InitHolds, NextKeeps, NextPrint, PTL DEF Spec
=============================================================================
