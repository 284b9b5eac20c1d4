-------------------------- MODULE DfxMngRunProofs --------------------------
(***************************************************************************)
(* Proofs about what a run does with its session table: the invariants of   *)
(* DfxMngRuns are inductive, and the properties of DfxMngProperties that   *)
(* depend on the table follow, for every table that meets the conditions.  *)
(***************************************************************************)
EXTENDS DfxMngRuns, DfxMngProofs

-----------------------------------------------------------------------------
(* The three kinds of clock edge of a run.                                  *)

(* A run starts, from rest and with one of the jobs. *)
Starts ==
  /\ EngineAtRest /\ PartsIdle /\ <<b1, b0>> \in Jobs
  /\ main_state = "SHUTDOWN" /\ main_state' = "PROCESS"
  /\ recon_state' = "SHUTDOWN" /\ exec_state' = "SHUTDOWN"
  /\ b1_read_indexer' = 0 /\ cur_query' = 0
  /\ UNCHANGED <<b0, b1>>

(* Its session goes on, or ends; fin are the streamers finished. *)
WorksOn(fin) ==
  /\ main_state = "PROCESS"
  /\ main_state' = IF AllSync THEN "PRE_SHUTDOWN" ELSE "PROCESS"
  /\ UNCHANGED <<b1_read_indexer, cur_query, b0>>
  /\ b1' = [b1 EXCEPT ![b1_read_indexer] = [row EXCEPT !.complete_mask = @ \cup fin]]

(* The next session begins; that one's fields are as they were written. *)
Advances ==
  /\ EngineAtRest /\ ~RunEnds
  /\ main_state = "PRE_SHUTDOWN" /\ main_state' = "PROCESS"
  /\ recon_state' = "SHUTDOWN" /\ exec_state' = "SHUTDOWN"
  /\ b1_read_indexer' = row.next_session
  /\ cur_query' = IF RoundEnds THEN NextQuery ELSE cur_query
  /\ UNCHANGED b0
  /\ \E src \in Addr, des \in Addr :
       b1' = [b1 EXCEPT ![b1_read_indexer] = [row EXCEPT !.src_addr = src, !.des_addr = des]]

(* At rest the sub-machines stay where they are unless a session runs.      *)
LEMMA RestingStays ==
  ASSUME NEW cmd, cmd # "CLEAR", NEW nreset, NEW dma_fin, NEW pr_fin,
         main_state # "PROCESS", recon_state = "SHUTDOWN", exec_state = "SHUTDOWN",
         ReconStep(cmd, nreset), ExecStep(cmd, dma_fin, pr_fin)
  PROVE  recon_state' = "SHUTDOWN" /\ exec_state' = "SHUTDOWN"
BY SubmachinesReturn

LEMMA RunStep ==
  ASSUME EngineInvariant, NEW in, Feasible(in), CarefulStart(in.ps), Tick(in), Busy'
  PROVE  /\ in.ps.cmd # "CLEAR"
         /\ in.ps.cmd # None => Starts
         /\ Starts \/ WorksOn(StreamFin(in.done)) \/ Advances
<1> USE DEF Busy
<1>1. /\ TypeOK /\ in.ps.cmd \in Cmd \cup {None}
      /\ in.ps.cmd # None => in.ps.wr0 = None /\ in.ps.wr1 = None
  BY InputsTyped DEF EngineInvariant, PsRequest
<1>2. CASE in.ps.cmd = "START"
  <2>1. MainStart
    BY <1>2, NoneIsNoCommand DEF Tick, MainStep, Cmd
  <2>2. EngineIdle /\ PartsIdle /\ <<b1, b0>> \in Jobs
    BY <1>2 DEF CarefulStart
  <2>3. UNCHANGED <<b0, b1>>
    BY <1>1, <1>2, <2>2, NoneIsNoCommand DEF EngineIdle, Tick, Bank0Step, Bank1Step, Cmd
  <2>4. EngineAtRest
    BY <2>2 DEF EngineAtRest, EngineIdle, EngineInvariant, TaskPhase, TasksOf
  <2>5. Starts
    BY <1>2, <2>1, <2>2, <2>3, <2>4, StartAtRest DEF Starts, MainStart, EngineIdle
  <2> QED
    BY <1>2, <2>5
<1>3. CASE in.ps.cmd # "START"
  <2>1. /\ in.ps.cmd = None /\ None # "CLEAR"
        /\ \/ main_state = "PROCESS" /\ main_state' = "PROCESS" /\ ~AllSync
           \/ main_state = "PROCESS" /\ main_state' = "PRE_SHUTDOWN" /\ AllSync
           \/ main_state = "PRE_SHUTDOWN" /\ main_state' = "PROCESS" /\ MainPreShutdown
        /\ main_state = "PROCESS" => UNCHANGED b1_read_indexer
    BY <1>1, <1>3, MainGoesOn, NoneIsNoCommand DEF Cmd
  <2>2. b0' = b0
    BY <2>1 DEF Tick, Bank0Step
  <2>3. CASE main_state = "PROCESS"
    <3>1. MainProcess
      BY <2>1, <2>3, NoneIsNoCommand DEF Tick, MainStep, MainIdle, MainPreShutdown, Cmd
    <3>2. WorksOn(StreamFin(in.done))
      BY <2>2, <2>3, <3>1 DEF MainProcess, WorksOn, Tick, Bank1Step, row
    <3> QED
      BY <2>1, <3>2
  <2>4. CASE main_state = "PRE_SHUTDOWN"
    <3>1. /\ EngineAtRest /\ Settings(read_val) = Settings(row)
          /\ read_val \in SlotRow /\ row \in SlotRow
      BY <1>1, <2>4, PreShutdownAtRest DEF EngineAtRest, TypeOK, CoreTypeOK, row
    <3>2. recon_state' = "SHUTDOWN" /\ exec_state' = "SHUTDOWN"
      BY <2>1, <2>4, <3>1, RestingStays DEF Tick, EngineAtRest
    <3>3. /\ b1' = [b1 EXCEPT ![b1_read_indexer] =
                      [row EXCEPT !.src_addr = (read_val.src_addr + read_val.src_size) % AddrMod,
                                  !.des_addr = (read_val.des_addr + read_val.des_size) % AddrMod]]
      BY <2>4 DEF Tick, Bank1Step, row
    <3>4. /\ (read_val.src_addr + read_val.src_size) % AddrMod \in Addr
          /\ (read_val.des_addr + read_val.des_size) % AddrMod \in Addr
      <4>1. /\ read_val.src_addr \in Nat /\ read_val.src_size \in Nat
            /\ read_val.des_addr \in Nat /\ read_val.des_size \in Nat
            /\ AddrMod \in Nat \ {0}
        BY <3>1, CoreAssumption DEF SlotRow, Addr
      <4> QED
        BY <4>1, WidthKept DEF Addr
    <3>5. MainPreShutdown /\ ~RunEnds
      BY <2>1, <2>4 DEF MainPreShutdown
    <3>6. Advances
      BY <2>1, <2>2, <2>4, <3>1, <3>2, <3>3, <3>4, <3>5, SettingsAgree
         DEF Advances, MainPreShutdown
    <3> QED
      BY <2>1, <3>6
  <2> QED
    BY <2>1, <2>3, <2>4
<1> QED
  BY <1>2, <1>3

-----------------------------------------------------------------------------
(* The plan of a table: the columns that its conditions are about.          *)

SamePlan(t, u) ==
  \A s \in Slot :
    /\ u[s].recon_select = t[s].recon_select /\ u[s].exec_select = t[s].exec_select
    /\ u[s].store_mask = t[s].store_mask /\ u[s].next_session = t[s].next_session

LEMMA SamePlanKeeps ==
  ASSUME NEW t, NEW u, SamePlan(t, u), \A s \in Slot : t[s].next_session \in Slot
  PROVE  /\ SelectsApart(t) => SelectsApart(u)
         /\ \A holds : LoadPlan(t, holds) => LoadPlan(u, holds)
         /\ \A c : \A ahead \in Orders : OneRoundPlan(t, c, ahead) => OneRoundPlan(u, c, ahead)
<1>1. ASSUME SelectsApart(t) PROVE SelectsApart(u)
  <2> SUFFICES ASSUME NEW s \in Slot
               PROVE  /\ \A m, n \in u[s].recon_select : m = n
                      /\ \A m, n \in u[s].exec_select : m = n
                      /\ RegionsOf(u[s].recon_select) \cap RegionsOf(u[s].exec_select) = {}
    BY DEF SelectsApart
  <2>1. u[s].recon_select = t[s].recon_select /\ u[s].exec_select = t[s].exec_select
    BY DEF SamePlan
  <2> QED
    BY <1>1, <2>1 DEF SelectsApart
<1>2. ASSUME NEW holds, LoadPlan(t, holds) PROVE LoadPlan(u, holds)
  BY <1>2 DEF SamePlan, LoadPlan
<1>3. ASSUME NEW c, NEW ahead \in Orders, OneRoundPlan(t, c, ahead) PROVE OneRoundPlan(u, c, ahead)
  <2>1. \A s \in Slot : StoresByDma(u[s]) <=> StoresByDma(t[s])
    BY DEF SamePlan, StoresByDma
  <2>2. \A s \in Slot : s \notin ahead[s]
    BY <1>3 DEF OneRoundPlan
  <2>3. \A s \in Slot : s # c.last_session =>
          u[s].next_session \in ahead[s] /\ ahead[u[s].next_session] \subseteq ahead[s]
    BY <1>3 DEF SamePlan, OneRoundPlan
  <2>4. \A s \in Slot : StoresByDma(u[s]) => \A q \in ahead[s] : ~StoresByDma(u[q])
    BY <1>3, <2>1 DEF OneRoundPlan, Orders
  <2> QED
    BY <2>2, <2>3, <2>4 DEF OneRoundPlan
<1> QED
  BY <1>1, <1>2, <1>3

(* No edge of a run changes the plan, and only the running row changes.     *)
LEMMA RunKeepsPlan ==
  ASSUME TypeOK, NEW fin, Starts \/ WorksOn(fin) \/ Advances
  PROVE  /\ SamePlan(b1, b1')
         /\ \A s \in Slot : s # b1_read_indexer => b1'[s] = b1[s]
<1>1. b1 \in [Slot -> SlotRow] /\ b1_read_indexer \in Slot /\ row \in SlotRow
  BY DEF TypeOK, CoreTypeOK, row
<1>2. CASE Starts
  BY <1>2 DEF Starts, SamePlan
<1>3. CASE WorksOn(fin)
  <2>1. b1' = [b1 EXCEPT ![b1_read_indexer] = [row EXCEPT !.complete_mask = @ \cup fin]]
    BY <1>3 DEF WorksOn
  <2> QED
    BY <1>1, <2>1 DEF SamePlan, SlotRow, row
<1>4. CASE Advances
  <2>1. PICK src \in Addr, des \in Addr :
          b1' = [b1 EXCEPT ![b1_read_indexer] = [row EXCEPT !.src_addr = src, !.des_addr = des]]
    BY <1>4 DEF Advances
  <2> QED
    BY <1>1, <2>1 DEF SamePlan, SlotRow, row
<1> QED
  BY <1>2, <1>3, <1>4

-----------------------------------------------------------------------------
(* The query budget.                                                        *)

LEMMA Monotone ==
  ASSUME NEW n \in Nat, NEW p \in Nat, NEW q \in Nat, p <= q
  PROVE  n * p <= n * q
OBVIOUS

(* A multiple of n below another one is at least n below it.                *)
LEMMA NextMultiple ==
  ASSUME NEW n \in Nat \ {0}, NEW x \in Nat, NEW a \in Nat,
         x % n = 0, a % n = 0, x < a
  PROVE  x + n <= a /\ (x + n) % n = 0
<1> DEFINE p == x \div n
           q == a \div n
<1>1. x = n * p /\ a = n * q /\ p \in Nat /\ q \in Nat
  OBVIOUS
<1> HIDE DEF p, q
<1>2. ~(q <= p)
  BY <1>1, Monotone
<1>3. n * (p + 1) <= n * q
  BY <1>1, <1>2, Monotone
<1>4. n * (p + 1) = x + n
  BY <1>1
<1>5. (n * (p + 1)) % n = 0
  BY <1>1
<1> QED
  BY <1>1, <1>3, <1>4, <1>5

LEMMA BelowWidth ==
  ASSUME NEW x \in Nat, NEW n \in Nat, x < n
  PROVE  x % n = x
OBVIOUS

LEMMA BudgetKept ==
  ASSUME EngineInvariant, BudgetInOrder, JobsValidated,
         NEW fin, Starts \/ WorksOn(fin) \/ Advances
  PROVE  BudgetInOrder'
<1> DEFINE n == b0.amt_query_per_iter
           a == b0.amt_query
<1>1. b0' = b0
  BY DEF Starts, WorksOn, Advances
<1>2. cur_query \in Nat /\ n \in Nat /\ a \in Nat /\ a < QueryMod /\ QueryMod \in Nat
  BY CoreAssumption DEF EngineInvariant, TypeOK, CoreTypeOK, Query, Config
<1>3. CASE Starts
  <2>1. Validated(b0)
    BY <1>3 DEF Starts, JobsValidated
  <2>2. 0 % n = 0 /\ 0 < a
    BY <1>2, <2>1 DEF Validated
  <2> QED
    BY <1>1, <1>3, <2>1, <2>2 DEF Starts, BudgetInOrder, Validated
<1>4. CASE WorksOn(fin)
  BY <1>1, <1>4 DEF WorksOn, BudgetInOrder, Busy, Validated
<1>5. CASE Advances
  <2>1. Validated(b0) /\ cur_query % n = 0 /\ cur_query < a
    BY <1>5 DEF Advances, BudgetInOrder, Busy
  <2>2. cur_query + n <= a /\ (cur_query + n) % n = 0
    BY <1>2, <2>1, NextMultiple DEF Validated
  <2>3. NextQuery = cur_query + n
    BY <1>2, <2>2, BelowWidth DEF NextQuery
  <2>4. cur_query' % n = 0 /\ cur_query' < a
    <3>1. cur_query' = cur_query \/ (cur_query' = cur_query + n /\ cur_query + n # a)
      BY <1>5, <2>3 DEF Advances, RunEnds
    <3> QED
      BY <1>2, <2>1, <2>2, <3>1
  <2> QED
    BY <1>1, <2>1, <2>4 DEF BudgetInOrder, Validated
<1> QED
  BY <1>3, <1>4, <1>5

-----------------------------------------------------------------------------
(* The reconfiguration part and the DFX Controller.                         *)

(* What the machines read of their session is what the table says.         *)
LEMMA ReadsItsRow ==
  ASSUME EngineInvariant, InSession
  PROVE  /\ read_val \in SlotRow /\ row \in SlotRow
         /\ read_val.recon_select = row.recon_select
         /\ read_val.exec_select = row.exec_select
         /\ read_val.load_mask = row.load_mask /\ read_val.store_mask = row.store_mask
         /\ read_val.src_addr = row.src_addr /\ read_val.des_addr = row.des_addr
         /\ read_val.complete_mask \subseteq row.complete_mask
<1>1. /\ read_val \in SlotRow /\ row \in SlotRow /\ Settings(read_val) = Settings(row)
      /\ read_val.complete_mask \subseteq row.complete_mask
  BY DEF EngineInvariant, ReadPortCurrent, TypeOK, CoreTypeOK, row
<1>2. ASSUME NEW q \in SlotRow
      PROVE  /\ Settings(q).recon_select = q.recon_select
             /\ Settings(q).exec_select = q.exec_select
             /\ Settings(q).load_mask = q.load_mask /\ Settings(q).store_mask = q.store_mask
             /\ Settings(q).src_addr = q.src_addr /\ Settings(q).des_addr = q.des_addr
  BY DEF Settings, SlotRow
<1> QED
  BY <1>1, <1>2

(* A controller that is asked for nothing does nothing.                     *)
LEMMA NothingAsked ==
  ASSUME TypeOK, NEW reg \in Region \cup {None}, DfxControllerStep(reg),
         \A r \in Region : Settled(r), dfx_rm_program = {}
  PROVE  triggered = {} /\ UNCHANGED <<triggered, rm_phase, loaded>>
<1>1. triggered = {}
  BY CoreAssumption DEF TypeOK, EnvTypeOK, Settled
<1> QED
  BY <1>1 DEF DfxControllerStep, Settled

(* One load goes its way: the reconfiguration part waits for the region to  *)
(* enter reset and to leave it, and no other region is touched.            *)
LEMMA LoadProceeds ==
  ASSUME TypeOK, NEW reg \in Region \cup {None}, DfxControllerStep(reg),
         NEW m \in RM, LoadFollowed(m), read_val.recon_select = {m},
         ReconAdvances(Released) \/ (ReconWaits(Released) /\ UNCHANGED recon_state)
  PROVE  /\ \A r \in Region : r # RegionOf[m] => loaded'[r] = loaded[r]
         /\ \/ LoadFollowed(m)'
            \/ /\ recon_state' = "FIN_SYNC" /\ \A r \in Region : Settled(r)'
               /\ loaded'[RegionOf[m]] = m
<1> DEFINE mine == RegionOf[m]
<1>1. /\ mine \in Region /\ rm_phase \in [Region -> {"UP", "LOADING", "RESET"}]
      /\ loaded \in [Region -> RM \cup {None}] /\ None \notin Region
  BY CoreAssumption, ProgramAssumption DEF TypeOK, EnvTypeOK
<1>2. dfx_rm_program = {}
  BY DEF LoadFollowed, dfx_rm_program, Pulse
<1>3. NresetCurrent(Released) <=> rm_phase[mine] # "RESET"
  BY <1>1 DEF NresetCurrent, Released
<1>4. \A r \in Region : r # mine => Settled(r)
  BY DEF LoadFollowed
<1>5. CASE recon_state = "W4SLAVERESET" /\ triggered = {m} /\ rm_phase[mine] = "UP"
  <2>1. recon_state' = "W4SLAVERESET"
    BY <1>3, <1>5 DEF ReconAdvances, ReconWaits
  <2>2. \/ UNCHANGED <<triggered, rm_phase, loaded>>
        \/ /\ triggered' = {} /\ rm_phase' = [rm_phase EXCEPT ![mine] = "LOADING"]
           /\ loaded' = [loaded EXCEPT ![mine] = m]
    BY <1>1, <1>2, <1>4, <1>5 DEF DfxControllerStep, Settled
  <2> QED
    BY <1>1, <1>4, <1>5, <2>1, <2>2 DEF LoadFollowed, Settled
<1>6. CASE recon_state = "W4SLAVERESET" /\ triggered = {}
             /\ rm_phase[mine] = "LOADING" /\ loaded[mine] = m
  <2>1. recon_state' = "W4SLAVERESET"
    BY <1>3, <1>6 DEF ReconAdvances, ReconWaits
  <2>2. /\ triggered' = {} /\ UNCHANGED loaded
        /\ UNCHANGED rm_phase \/ rm_phase' = [rm_phase EXCEPT ![mine] = "RESET"]
    BY <1>1, <1>2, <1>4, <1>6 DEF DfxControllerStep, Settled
  <2> QED
    BY <1>1, <1>4, <1>6, <2>1, <2>2 DEF LoadFollowed, Settled
<1>7. CASE /\ recon_state \in {"W4SLAVERESET", "W4SLAVEOP"} /\ triggered = {}
           /\ rm_phase[mine] = "RESET" /\ loaded[mine] = m
  <2>1. recon_state' = "W4SLAVEOP"
    BY <1>3, <1>7 DEF ReconAdvances, ReconWaits
  <2>2. /\ triggered' = {} /\ UNCHANGED loaded
        /\ UNCHANGED rm_phase \/ rm_phase' = [rm_phase EXCEPT ![mine] = "UP"]
    BY <1>1, <1>2, <1>4, <1>7 DEF DfxControllerStep, Settled
  <2> QED
    BY <1>1, <1>4, <1>7, <2>1, <2>2 DEF LoadFollowed, Settled
<1>8. CASE recon_state = "W4SLAVEOP" /\ triggered = {}
             /\ rm_phase[mine] = "UP" /\ loaded[mine] = m
  <2>1. recon_state' = "FIN_SYNC"
    BY <1>3, <1>8 DEF ReconAdvances, ReconWaits
  <2>2. triggered' = {} /\ UNCHANGED <<loaded, rm_phase>>
    BY <1>1, <1>2, <1>4, <1>8 DEF DfxControllerStep, Settled
  <2> QED
    BY <1>1, <1>4, <1>8, <2>1, <2>2 DEF Settled
<1> QED
  BY <1>5, <1>6, <1>7, <1>8 DEF LoadFollowed

LEMMA SubmachineMoves ==
  ASSUME NEW in, Tick(in), in.ps.cmd = None
  PROVE  ReconAdvances(Released) \/ (ReconWaits(Released) /\ UNCHANGED recon_state)
BY NoneIsNoCommand DEF Tick, ReconStep, AfterStart, Cmd

(* The edges at which a session works on, one machine at a time.            *)
LEMMA ReconWorksOn ==
  ASSUME EngineInvariant, ReconInOrder, NEW in, Feasible(in), Tick(in), in.ps.cmd = None,
         main_state = "PROCESS", SelectsApart(b1)
  PROVE  /\ \A r \in Region : r \notin RegionsOf(row.recon_select) => loaded'[r] = loaded[r]
         /\ IF recon_state' \in {"W4SLAVERESET", "W4SLAVEOP"}
            THEN \E m \in row.recon_select : LoadFollowed(m)'
            ELSE \A r \in Region : Settled(r)'
         /\ recon_state' = "FIN_SYNC" \/ (recon_state = "FIN_SYNC" /\ recon_state' = "SHUTDOWN")
              => \A m \in row.recon_select : loaded'[RegionOf[m]] = m
<1>1. /\ TypeOK /\ in.reg \in Region \cup {None} /\ DfxControllerStep(in.reg)
      /\ ReconAdvances(Released) \/ (ReconWaits(Released) /\ UNCHANGED recon_state)
      /\ b1 \in [Slot -> SlotRow] /\ b1_read_indexer \in Slot
  BY SubmachineMoves DEF EngineInvariant, Feasible, Tick, TypeOK, CoreTypeOK
<1>2. row \in SlotRow /\ row.recon_select \subseteq RM
  BY <1>1 DEF row, SlotRow
<1>3. \A m, n \in row.recon_select : m = n
  BY <1>1 DEF SelectsApart, row
<1>4. IF recon_state \in {"W4SLAVERESET", "W4SLAVEOP"}
      THEN \E m \in row.recon_select : LoadFollowed(m)
      ELSE \A r \in Region : Settled(r)
  BY DEF ReconInOrder, Busy
<1>5. CASE recon_state \in {"W4SLAVERESET", "W4SLAVEOP"}
  <2>1. PICK m \in row.recon_select : LoadFollowed(m)
    BY <1>4, <1>5
  <2>2. row.recon_select = {m} /\ m \in RM
    BY <1>2, <1>3
  <2>3. read_val.recon_select = {m}
    BY <1>5, <2>2, ReadsItsRow DEF InSession
  <2>4. /\ \A r \in Region : r # RegionOf[m] => loaded'[r] = loaded[r]
        /\ \/ LoadFollowed(m)'
           \/ /\ recon_state' = "FIN_SYNC" /\ \A r \in Region : Settled(r)'
              /\ loaded'[RegionOf[m]] = m
    BY <1>1, <2>1, <2>2, <2>3, LoadProceeds
  <2>5. LoadFollowed(m)' => recon_state' \in {"W4SLAVERESET", "W4SLAVEOP"}
    BY DEF LoadFollowed
  <2>6. RegionOf[m] \in RegionsOf(row.recon_select)
    BY <2>2 DEF RegionsOf
  <2> QED
    BY <1>5, <2>2, <2>4, <2>5, <2>6
<1>6. CASE recon_state = "REPROG"
  <2>1. read_val.recon_select = row.recon_select
    BY <1>6, ReadsItsRow DEF InSession
  <2>2. dfx_rm_program = row.recon_select
    BY <1>6, <2>1 DEF dfx_rm_program, Pulse
  <2>3. \A r \in Region : Settled(r)
    BY <1>4, <1>6
  <2>4. triggered = {}
    BY <1>1, <2>3, CoreAssumption DEF TypeOK, EnvTypeOK, Settled
  <2>5. triggered' = row.recon_select /\ UNCHANGED <<rm_phase, loaded>>
    BY <1>1, <2>2, <2>3, <2>4 DEF DfxControllerStep, Settled
  <2>6. CASE row.recon_select = {}
    <3>1. recon_state' = "FIN_SYNC"
      BY <1>1, <1>6, <2>1, <2>6 DEF ReconAdvances, ReconWaits
    <3> QED
      BY <1>6, <2>3, <2>4, <2>5, <2>6, <3>1 DEF Settled
  <2>7. CASE row.recon_select # {}
    <3>1. PICK m \in row.recon_select : row.recon_select = {m}
      BY <1>3, <2>7
    <3>2. recon_state' = "W4SLAVERESET"
      BY <1>1, <1>6, <2>1, <2>7 DEF ReconAdvances, ReconWaits
    <3>3. m \in RM /\ RegionOf[m] \in Region
      BY <1>2, CoreAssumption
    <3>4. LoadFollowed(m)'
      BY <2>3, <2>5, <3>1, <3>2, <3>3 DEF LoadFollowed, Settled
    <3> QED
      BY <2>5, <3>1, <3>2, <3>4
  <2> QED
    BY <2>6, <2>7
<1>7. CASE recon_state \notin {"W4SLAVERESET", "W4SLAVEOP", "REPROG"}
  <2>1. dfx_rm_program = {}
    BY <1>7 DEF dfx_rm_program, Pulse
  <2>2. triggered = {} /\ UNCHANGED <<triggered, rm_phase, loaded>>
    BY <1>1, <1>4, <1>7, <2>1, NothingAsked
  <2>3. \A r \in Region : Settled(r)'
    BY <1>4, <1>7, <2>2 DEF Settled
  <2>4. /\ recon_state' \notin {"W4SLAVERESET", "W4SLAVEOP"}
        /\ recon_state' = "FIN_SYNC" => recon_state = "FIN_SYNC"
    BY <1>1, <1>7 DEF ReconAdvances, ReconWaits
  <2>5. recon_state = "FIN_SYNC" => \A m \in row.recon_select : loaded[RegionOf[m]] = m
    BY DEF ReconInOrder, Busy
  <2> QED
    BY <2>2, <2>3, <2>4, <2>5
<1> QED
  BY <1>5, <1>6, <1>7

(* At the edges between sessions the controller is at rest.                 *)
LEMMA ReconRests ==
  ASSUME EngineInvariant, ReconInOrder, NEW in, Feasible(in), Tick(in), Starts \/ Advances
  PROVE  (\A r \in Region : Settled(r)) /\ UNCHANGED <<triggered, rm_phase, loaded>>
<1>1. TypeOK /\ in.reg \in Region \cup {None} /\ DfxControllerStep(in.reg)
  BY DEF EngineInvariant, Feasible, Tick
<1>2. dfx_rm_program = {}
  BY DEF Starts, Advances, dfx_rm_program, Pulse
<1>3. ASSUME NEW r \in Region PROVE Settled(r)
  <2>1. CASE Starts
    BY <2>1 DEF Starts, PartsIdle, Settled
  <2>2. CASE Advances
    BY <2>2 DEF Advances, EngineAtRest, ReconInOrder, Busy
  <2> QED
    BY <2>1, <2>2
<1> QED
  BY <1>1, <1>2, <1>3, NothingAsked

LEMMA ReconKept ==
  ASSUME EngineInvariant, ReconInOrder, JobsApart, NEW in, Feasible(in), Tick(in),
         in.ps.cmd # None => Starts,
         Starts \/ WorksOn(StreamFin(in.done)) \/ Advances
  PROVE  ReconInOrder'
<1> DEFINE fin == StreamFin(in.done)
<1>1. SamePlan(b1, b1') /\ TypeOK /\ b1_read_indexer \in Slot
      /\ \A s \in Slot : b1[s].next_session \in Slot
  BY RunKeepsPlan DEF EngineInvariant, TypeOK, CoreTypeOK, SlotRow
<1>2. SelectsApart(b1)
  BY DEF Starts, WorksOn, Advances, JobsApart, ReconInOrder, Busy
<1>3. SelectsApart(b1')
  BY <1>1, <1>2, SamePlanKeeps
<1>4. CASE Starts \/ Advances
  <2>1. (\A r \in Region : Settled(r)) /\ UNCHANGED <<triggered, rm_phase, loaded>>
    BY <1>4, ReconRests
  <2>2. recon_state' = "SHUTDOWN" /\ main_state' = "PROCESS"
    BY <1>4 DEF Starts, Advances
  <2> QED
    BY <1>3, <2>1, <2>2 DEF ReconInOrder, Settled
<1>5. CASE WorksOn(fin)
  <2>1. in.ps.cmd = None /\ main_state = "PROCESS" /\ b1_read_indexer' = b1_read_indexer
    BY <1>5 DEF WorksOn, Starts
  <2>2. row'.recon_select = row.recon_select
    BY <1>1, <2>1 DEF SamePlan, row
  <2>3. recon_state' \in {"W4SLAVERESET", "W4SLAVEOP"} =>
          \E m \in row.recon_select : LoadFollowed(m)'
    BY <1>2, <2>1, ReconWorksOn
  <2>4. recon_state' \notin {"W4SLAVERESET", "W4SLAVEOP"} => \A r \in Region : Settled(r)'
    BY <1>2, <2>1, ReconWorksOn
  <2>5. recon_state' = "FIN_SYNC" \/ main_state' = "PRE_SHUTDOWN" =>
          \A m \in row.recon_select : loaded'[RegionOf[m]] = m
    <3>1. main_state' = "PRE_SHUTDOWN" => recon_state = "FIN_SYNC" /\ recon_state' = "SHUTDOWN"
      BY <1>5, <2>1, SubmachineMoves DEF WorksOn, AllSync, ReconAdvances, ReconWaits
    <3> QED
      BY <1>2, <2>1, <3>1, ReconWorksOn
  <2> QED
    BY <1>3, <2>2, <2>3, <2>4, <2>5 DEF ReconInOrder
<1> QED
  BY <1>4, <1>5

LEMMA LoadsKept ==
  ASSUME EngineInvariant, ReconInOrder, LoadsInOrder, JobsPlanned,
         NEW in, Feasible(in), Tick(in), in.ps.cmd # None => Starts,
         Starts \/ WorksOn(StreamFin(in.done)) \/ Advances
  PROVE  LoadsInOrder'
<1> DEFINE fin == StreamFin(in.done)
<1>1. /\ SamePlan(b1, b1') /\ TypeOK /\ b1_read_indexer \in Slot
      /\ \A s \in Slot : b1[s].next_session \in Slot
  BY RunKeepsPlan DEF EngineInvariant, TypeOK, CoreTypeOK, SlotRow
<1>2. CASE Starts
  <2>1. PICK holds \in Holdings : LoadPlan(b1, holds)
    BY <1>2 DEF Starts, JobsPlanned
  <2>2. LoadPlan(b1', holds) /\ b1_read_indexer' = 0
    BY <1>2, <2>1 DEF Starts
  <2>3. \A r \in Region : holds[0][r] = None
    BY <2>1 DEF LoadPlan
  <2> QED
    BY <2>2, <2>3 DEF LoadsInOrder
<1>3. CASE WorksOn(fin)
  <2>1. in.ps.cmd = None /\ main_state = "PROCESS" /\ b1_read_indexer' = b1_read_indexer
    BY <1>3 DEF WorksOn, Starts
  <2>2. PICK holds \in Holdings :
          /\ LoadPlan(b1, holds)
          /\ \A r \in Region :
               r \notin RegionsOf(row.recon_select) /\ holds[b1_read_indexer][r] # None
                 => loaded[r] = holds[b1_read_indexer][r]
    BY <2>1 DEF LoadsInOrder, Busy
  <2>3. LoadPlan(b1', holds)
    BY <1>1, <2>2, SamePlanKeeps
  <2>4. row'.recon_select = row.recon_select
    BY <1>1, <2>1 DEF SamePlan, row
  <2>5. \A r \in Region : r \notin RegionsOf(row.recon_select) => loaded'[r] = loaded[r]
    BY <2>1, ReconWorksOn DEF ReconInOrder, Busy
  <2> QED
    BY <2>1, <2>2, <2>3, <2>4, <2>5 DEF LoadsInOrder
<1>4. CASE Advances
  <2> DEFINE next == row.next_session
  <2>1. PICK holds \in Holdings :
          /\ LoadPlan(b1, holds)
          /\ \A r \in Region :
               r \notin RegionsOf(row.recon_select) /\ holds[b1_read_indexer][r] # None
                 => loaded[r] = holds[b1_read_indexer][r]
    BY <1>4 DEF LoadsInOrder, Busy, Advances
  <2>2. LoadPlan(b1', holds)
    BY <1>1, <2>1, SamePlanKeeps
  <2>3. /\ b1_read_indexer' = next /\ loaded' = loaded /\ next \in Slot
        /\ \A m \in row.recon_select : loaded[RegionOf[m]] = m
    BY <1>1, <1>4, ReconRests DEF Advances, ReconInOrder, Busy, row
  <2>4. row'.recon_select = b1[next].recon_select
    BY <1>1, <2>3 DEF SamePlan, row
  <2>5. ASSUME NEW r \in Region, holds[next][r] # None
        PROVE  loaded[r] = holds[next][r]
    <3>1. \/ holds[next][r] \in row.recon_select /\ RegionOf[holds[next][r]] = r
          \/ r \notin RegionsOf(row.recon_select) /\ holds[next][r] = holds[b1_read_indexer][r]
      BY <1>1, <2>1, <2>5 DEF LoadPlan, row
    <3> QED
      BY <2>1, <2>3, <2>5, <3>1
  <2> QED
    BY <2>2, <2>3, <2>5 DEF LoadsInOrder
<1> QED
  BY <1>2, <1>3, <1>4

-----------------------------------------------------------------------------
(* The DMA's registers.                                                     *)

(* What the writer is about to put on the bus, in the words of the task.    *)
LEMMA DataIsTasks ==
  ASSUME EngineInvariant, main_state = "PROCESS", axi_state = "WDATA",
         NEW ready \in BOOLEAN, NEW dma_done, DmaStep(ready, dma_done)
  PROVE  \/ /\ ready /\ dma_init_task \in DmaTask
            /\ dma' = DmaWritten(DmaReg[dma_init_task], WDATA)
         \/ /\ dma_init_task = None \/ ~ready
            /\ \/ UNCHANGED dma
               \/ dma_done /\ dma.storing /\ dma' = [dma EXCEPT !.storing = FALSE, !.irq = TRUE]
<1>1. awaddr = AWADDR /\ dma_init_task \in DmaTask \cup {None}
  BY DEF EngineInvariant, WriteIsWhole, TypeOK, CoreTypeOK
<1>2. None \notin DmaTask
  BY CoreAssumption DEF DmaTask
<1>3. CASE dma_init_task # None
  <2>1. awaddr[1] = "DMA" /\ awaddr[2] = DmaReg[dma_init_task]
    BY <1>1, <1>3 DEF AWADDR
  <2> QED
    BY <1>1, <1>3, <2>1 DEF DmaStep, DataAccepted
<1>4. CASE dma_init_task = None
  <2>1. awaddr[1] # "DMA"
    BY <1>1, <1>4 DEF AWADDR, ZeroAddr
  <2> QED
    BY <1>4, <2>1 DEF DmaStep, DataAccepted
<1> QED
  BY <1>3, <1>4

(* The DMA's part of a clock edge, wherever the writer is.                  *)
DataOfTask(n) ==
  /\ axi_state = "WDATA" /\ axi_state' = "RESP" /\ dma_init_task = n
  /\ dma' = DmaWritten(DmaReg[n], WDATA)

NoData(dma_done) ==
  \/ UNCHANGED dma
  \/ dma_done /\ dma.storing /\ dma' = [dma EXCEPT !.storing = FALSE, !.irq = TRUE]

LEMMA DmaMoves ==
  ASSUME EngineInvariant, main_state = "PROCESS", NEW in, Feasible(in), Tick(in)
  PROVE  \/ \E n \in DmaTask : DataOfTask(n)
         \/ /\ NoData(in.dma_done)
            /\ ~(dma_init_task # None /\ axi_state = "WDATA" /\ axi_state' = "RESP")
<1>1. in.ready \in BOOLEAN /\ DmaStep(in.ready, in.dma_done) /\ AxiStep(in.ready)
  BY DEF Feasible, Tick
<1>2. CASE axi_state = "WDATA"
  BY <1>1, <1>2, DataIsTasks DEF DataOfTask, NoData, AxiStep
<1>3. CASE axi_state # "WDATA"
  BY <1>1, <1>3 DEF DmaStep, DataAccepted, NoData
<1> QED
  BY <1>2, <1>3

(* The tasks of the two sequences that set up a transfer.                   *)
LEMMA TasksProceed ==
  ASSUME EngineInvariant, NEW in, Tick(in), in.ps.cmd = None, main_state = "PROCESS"
  PROVE  /\ exec_state' = "SET_DMA_LOAD" =>
              \/ dma_init_task' = 2 /\ axi_state' = "IDLE"
              \/ /\ exec_state = "SET_DMA_LOAD" /\ dma_init_task \in {2, 3, 4}
                 /\ \/ /\ dma_init_task' = dma_init_task + 1
                       /\ axi_state = "UNLOCK" /\ axi_state' = "IDLE"
                    \/ dma_init_task' = dma_init_task /\ axi_state # "UNLOCK"
         /\ exec_state' = "SET_DMA_STORE" =>
              \/ /\ exec_state # "SET_DMA_STORE" /\ DMA \in read_val.store_mask
                 /\ dma_init_task' = 5 /\ axi_state' = "IDLE"
              \/ /\ exec_state = "SET_DMA_STORE" /\ dma_init_task \in {5, 6, 7}
                 /\ \/ /\ dma_init_task' = dma_init_task + 1 /\ dma_init_task # 7
                       /\ axi_state = "UNLOCK" /\ axi_state' = "IDLE"
                    \/ dma_init_task' = dma_init_task /\ axi_state # "UNLOCK"
<1>1. /\ ExecStep(None, DmaFin, PrFin) /\ None # "CLEAR" /\ None # "START"
      /\ AxiStep(in.ready) /\ None \notin Nat
  BY NoneIsNoCommand, CoreAssumption DEF Tick, Cmd
<1>2. /\ exec_state = "SET_DMA_LOAD" => dma_init_task \in {2, 3, 4}
      /\ exec_state = "SET_DMA_STORE" => dma_init_task \in {5, 6, 7}
  BY DEF EngineInvariant, TaskPhase, TasksOf, LOAD_TASK_BEG, LOAD_TASK_END,
         STORE_TASK_BEG, STORE_TASK_END
<1>3. axi_state = "UNLOCK" => axi_state' = "IDLE"
  BY <1>1 DEF AxiStep
<1>4. CASE ExecMoves \/ ExecPrMoves(PrFin)
  BY <1>4 DEF ExecMoves, ExecPrMoves, ExecGoes
<1>5. CASE ExecDmaMoves(DmaFin)
  BY <1>3, <1>5 DEF ExecDmaMoves, ExecToStoreOrTrigger, ExecGoes, DmaFin, LOAD_TASK_BEG,
                    STORE_TASK_BEG
<1>6. CASE exec_state' = exec_state /\ ExecNextDmaTask(DmaFin)
  BY <1>2, <1>3, <1>6 DEF ExecNextDmaTask, DmaFin, ShiftDma, DmaTask, LastDmaTask,
                          LOAD_TASK_END, STORE_TASK_END
<1>7. CASE exec_state' = exec_state /\ ExecNextPrTask(PrFin)
  BY <1>7 DEF ExecNextPrTask
<1>8. CASE exec_state' = exec_state /\ ExecWaits(DmaFin, PrFin) /\ UNCHANGED task_vars
  BY <1>1, <1>2, <1>8 DEF ExecWaits, task_vars, LastDmaTask, DmaFin
<1> QED
  BY <1>1, <1>4, <1>5, <1>6, <1>7, <1>8 DEF ExecStep, AfterStart

(* A session that goes on changes nothing of its row but COMPLETE_MASK.     *)
LEMMA RowWorksOn ==
  ASSUME TypeOK, NEW fin, WorksOn(fin)
  PROVE  /\ row'.recon_select = row.recon_select /\ row'.exec_select = row.exec_select
         /\ row'.store_mask = row.store_mask
         /\ row'.src_addr = row.src_addr /\ row'.des_addr = row.des_addr
         /\ row'.complete_mask = row.complete_mask \cup fin
<1>1. b1 \in [Slot -> SlotRow] /\ b1_read_indexer \in Slot /\ row \in SlotRow
  BY DEF TypeOK, CoreTypeOK, row
<1>2. row' = [row EXCEPT !.complete_mask = @ \cup fin]
  BY <1>1 DEF WorksOn, row
<1> QED
  BY <1>1, <1>2 DEF SlotRow

LEMMA SentProceeds ==
  ASSUME EngineInvariant, NEW in, Feasible(in), Tick(in), in.ps.cmd = None,
         main_state = "PROCESS", NEW n \in DmaTask, Sent(n)',
         exec_state' \in {"SET_DMA_LOAD", "SET_DMA_STORE"},
         n \in (IF exec_state' = "SET_DMA_LOAD" THEN {2, 3} ELSE {5, 6, 7})
  PROVE  exec_state = exec_state' /\ (Sent(n) \/ DataOfTask(n))
<1>1. None \notin Nat
  BY CoreAssumption
<1>2. exec_state = exec_state'
  BY <1>1, TasksProceed DEF Sent
<1>3. /\ dma_init_task \in {2, 3, 4, 5, 6, 7}
      /\ \/ /\ dma_init_task' = dma_init_task + 1
            /\ axi_state = "UNLOCK" /\ axi_state' = "IDLE"
         \/ dma_init_task' = dma_init_task /\ axi_state # "UNLOCK"
  BY <1>1, <1>2, TasksProceed DEF Sent
<1>4. AxiStep(in.ready) /\ in.ready \in BOOLEAN
  BY DEF Tick, Feasible
<1>8. /\ n \in 0 .. 7 /\ dma_init_task # None
      /\ \/ dma_init_task' > n
         \/ dma_init_task' = n /\ axi_state' \in {"RESP", "UNLOCK"}
  BY <1>1, <1>3 DEF Sent, DmaTask
<1>5. CASE axi_state = "UNLOCK"
  <2>1. dma_init_task > n \/ dma_init_task = n
    BY <1>8, <1>3, <1>5
  <2> QED
    BY <1>8, <1>2, <1>5, <2>1 DEF Sent
<1>6. CASE axi_state = "WDATA" /\ axi_state' = "RESP" /\ dma_init_task = n
  <2>1. \E k \in DmaTask : DataOfTask(k)
    BY <1>1, <1>3, <1>6, DmaMoves
  <2> QED
    BY <1>2, <1>6, <2>1 DEF DataOfTask
<1>7. CASE axi_state # "UNLOCK" /\ ~(axi_state = "WDATA" /\ axi_state' = "RESP" /\ dma_init_task = n)
  <2>1. dma_init_task > n \/ (dma_init_task = n /\ axi_state = "RESP")
    BY <1>8, <1>3, <1>4, <1>7 DEF AxiStep
  <2> QED
    BY <1>8, <1>2, <2>1 DEF Sent
<1> QED
  BY <1>2, <1>5, <1>6, <1>7

LEMMA TransferKept ==
  ASSUME EngineInvariant, TransferInOrder, NEW in, Feasible(in), Tick(in),
         in.ps.cmd # None => Starts,
         Starts \/ WorksOn(StreamFin(in.done)) \/ Advances
  PROVE  TransferInOrder'
<1> DEFINE fin == StreamFin(in.done)
<1>1. CASE Starts \/ Advances
  BY <1>1 DEF Starts, Advances, TransferInOrder
<1>2. CASE WorksOn(fin)
  <2>1. in.ps.cmd = None /\ main_state = "PROCESS" /\ TypeOK
    BY <1>2 DEF WorksOn, Starts, EngineInvariant
  <2>2. /\ row'.exec_select = row.exec_select /\ row'.store_mask = row.store_mask
        /\ row'.src_addr = row.src_addr /\ row'.des_addr = row.des_addr
    BY <1>2, <2>1, RowWorksOn
  <2>3. /\ dma \in DmaState
        /\ 2 \in DmaTask /\ 3 \in DmaTask /\ 5 \in DmaTask /\ 6 \in DmaTask
    BY <2>1 DEF TypeOK, EnvTypeOK, DmaTask
  <2>4. (\E k \in DmaTask : DataOfTask(k)) \/ NoData(in.dma_done)
    BY <2>1, DmaMoves
  <2>5. exec_state' \notin {"SHUTDOWN", "PR_CTRL_REQ_SKIP_CHECK", "FIN_SYNC"}
          => row.exec_select # {}
    <3>1. ExecStep(None, DmaFin, PrFin) /\ None # "CLEAR" /\ None # "START"
      BY <2>1, NoneIsNoCommand DEF Tick, Cmd
    <3>2. exec_state = "PR_CTRL_REQ_SKIP_CHECK" => read_val.exec_select = row.exec_select
      BY <2>1, ReadsItsRow DEF InSession
    <3>3. exec_state \notin {"SHUTDOWN", "PR_CTRL_REQ_SKIP_CHECK", "FIN_SYNC"}
            => row.exec_select # {}
      BY <2>1 DEF TransferInOrder
    <3> QED
      BY <3>1, <3>2, <3>3
         DEF ExecStep, ExecMoves, ExecPrMoves, ExecDmaMoves, ExecGoes, ExecNextPrTask,
             ExecNextDmaTask, ExecWaits, AfterStart, LastDmaTask
  <2>6. ASSUME exec_state' = "SET_DMA_LOAD" /\ (Sent(2)' \/ Sent(3)')
        PROVE  (Sent(2)' => dma'.mm2s_run) /\ (Sent(3)' => dma'.mm2s_addr = row.src_addr)
    <3>1. exec_state = "SET_DMA_LOAD" /\ read_val.src_addr = row.src_addr
      BY <2>1, <2>3, <2>6, SentProceeds, ReadsItsRow DEF InSession
    <3>2. /\ Sent(2)' => Sent(2) \/ DataOfTask(2)
          /\ Sent(3)' => Sent(3) \/ DataOfTask(3)
      BY <2>1, <2>3, <2>6, SentProceeds
    <3>3. /\ Sent(2) => dma.mm2s_run
          /\ Sent(3) => dma.mm2s_addr = row.src_addr
      BY <2>1, <3>1 DEF TransferInOrder
    <3>4. ASSUME NoData(in.dma_done)
          PROVE  dma'.mm2s_run = dma.mm2s_run /\ dma'.mm2s_addr = dma.mm2s_addr
      BY <2>3, <3>4 DEF NoData, DmaState
    <3>5. ASSUME NEW k \in DmaTask, DataOfTask(k)
          PROVE  /\ k \in {2, 3, 4}
                 /\ k = 2 => dma'.mm2s_run
                 /\ k # 2 => dma'.mm2s_run = dma.mm2s_run
                 /\ k = 3 => dma'.mm2s_addr = row.src_addr
                 /\ k # 3 => dma'.mm2s_addr = dma.mm2s_addr
      <4>1. k \in {2, 3, 4} /\ dma_init_task = k
        BY <3>1, <3>5 DEF DataOfTask, EngineInvariant, TaskPhase, TasksOf,
                          LOAD_TASK_BEG, LOAD_TASK_END
      <4>2. /\ k = 2 => DmaReg[k] = "MM2S_DMACR" /\ WDATA = 1
            /\ k = 3 => DmaReg[k] = "MM2S_SA" /\ WDATA = row.src_addr
            /\ k = 4 => DmaReg[k] = "MM2S_LENGTH"
        BY <3>1, <4>1, CoreAssumption DEF DmaReg, WDATA
      <4>3. dma' = DmaWritten(DmaReg[k], WDATA)
        BY <3>5 DEF DataOfTask
      <4> QED
        BY <2>3, <4>1, <4>2, <4>3 DEF DmaWritten, DmaState
    <3>6. ASSUME NEW k \in DmaTask, DataOfTask(k)
          PROVE  /\ Sent(2) => k # 2
                 /\ Sent(3) => k # 3
      BY <3>6 DEF DataOfTask, Sent
    <3> QED
      BY <2>3, <2>4, <3>2, <3>3, <3>4, <3>5, <3>6 DEF DataOfTask
  <2>7. ASSUME exec_state' = "SET_DMA_STORE"
        PROVE  DMA \in row.store_mask
    <3>1. exec_state # "SHUTDOWN"
      BY <2>1, <2>7, NoneIsNoCommand
         DEF Tick, ExecStep, ExecMoves, ExecPrMoves, ExecDmaMoves, ExecGoes, AfterStart, Cmd
    <3>2. read_val.store_mask = row.store_mask
      BY <2>1, <3>1, ReadsItsRow DEF InSession
    <3> QED
      BY <2>1, <2>7, <3>2, TasksProceed DEF TransferInOrder
  <2>8. ASSUME exec_state' = "SET_DMA_STORE" /\ (Sent(5)' \/ Sent(6)')
        PROVE  (Sent(5)' => dma'.s2mm_run) /\ (Sent(6)' => dma'.s2mm_addr = row.des_addr)
    <3>1. exec_state = "SET_DMA_STORE" /\ read_val.des_addr = row.des_addr
      BY <2>1, <2>3, <2>8, SentProceeds, ReadsItsRow DEF InSession
    <3>2. /\ Sent(5)' => Sent(5) \/ DataOfTask(5)
          /\ Sent(6)' => Sent(6) \/ DataOfTask(6)
      BY <2>1, <2>3, <2>8, SentProceeds
    <3>3. /\ Sent(5) => dma.s2mm_run
          /\ Sent(6) => dma.s2mm_addr = row.des_addr
      BY <2>1, <3>1 DEF TransferInOrder
    <3>4. ASSUME NoData(in.dma_done)
          PROVE  dma'.s2mm_run = dma.s2mm_run /\ dma'.s2mm_addr = dma.s2mm_addr
      BY <2>3, <3>4 DEF NoData, DmaState
    <3>5. ASSUME NEW k \in DmaTask, DataOfTask(k)
          PROVE  /\ k \in {5, 6, 7}
                 /\ k = 5 => dma'.s2mm_run
                 /\ k # 5 => dma'.s2mm_run = dma.s2mm_run
                 /\ k = 6 => dma'.s2mm_addr = row.des_addr
                 /\ k # 6 => dma'.s2mm_addr = dma.s2mm_addr
      <4>1. k \in {5, 6, 7} /\ dma_init_task = k
        BY <3>1, <3>5 DEF DataOfTask, EngineInvariant, TaskPhase, TasksOf,
                          STORE_TASK_BEG, STORE_TASK_END
      <4>2. /\ k = 5 => DmaReg[k] = "S2MM_DMACR" /\ WDATA = 1
            /\ k = 6 => DmaReg[k] = "S2MM_DA" /\ WDATA = row.des_addr
            /\ k = 7 => DmaReg[k] = "S2MM_LENGTH"
        BY <3>1, <4>1, CoreAssumption DEF DmaReg, WDATA
      <4>3. dma' = DmaWritten(DmaReg[k], WDATA)
        BY <3>5 DEF DataOfTask
      <4> QED
        BY <2>3, <4>1, <4>2, <4>3 DEF DmaWritten, DmaState
    <3>6. ASSUME NEW k \in DmaTask, DataOfTask(k)
          PROVE  /\ Sent(5) => k # 5
                 /\ Sent(6) => k # 6
      BY <3>6 DEF DataOfTask, Sent
    <3> QED
      BY <2>3, <2>4, <3>2, <3>3, <3>4, <3>5, <3>6 DEF DataOfTask
  <2> QED
    BY <2>2, <2>5, <2>6, <2>7, <2>8 DEF TransferInOrder
<1> QED
  BY <1>1, <1>2

-----------------------------------------------------------------------------
(* The stores of a session.                                                 *)

(* How the execution part may move, as far as the stores depend on it.      *)
LEMMA ExecProceeds ==
  ASSUME EngineInvariant, NEW in, Tick(in), in.ps.cmd = None, main_state = "PROCESS"
  PROVE  /\ exec_state = "SHUTDOWN" => exec_state' = "PR_CTRL_REQ_SKIP_CHECK"
         /\ exec_state' \in {"PR_CTRL_REQ_SKIP_CHECK", "INITIALIZE_PR_CTRL", "CLEAR_MGS",
                             "INITIALIZE_MGS"}
              => exec_state \in {"SHUTDOWN", "PR_CTRL_REQ_SKIP_CHECK", "INITIALIZE_PR_CTRL",
                                 "CLEAR_MGS", "INITIALIZE_MGS"}
         /\ exec_state' = "SHUTDOWN" <=> exec_state = "FIN_SYNC" /\ AllSync
         /\ exec_state' = "FIN_SYNC" =>
              \/ exec_state = "FIN_SYNC"
              \/ exec_state = "PR_CTRL_REQ_SKIP_CHECK" /\ read_val.exec_select = {}
              \/ exec_state = "WAIT4FIN" /\ read_val.store_mask = read_val.complete_mask
         /\ exec_state' = "WAIT4FIN" => exec_state \in {"WAIT4FIN", "TRIGGERING"}
         /\ exec_state' = "TRIGGERING" =>
              \/ DMA \notin read_val.store_mask
              \/ exec_state = "SET_DMA_STORE" /\ dma_init_task = 7 /\ axi_state = "UNLOCK"
         /\ exec_state = "SET_DMA_STORE" => exec_state' \in {"SET_DMA_STORE", "TRIGGERING"}
         /\ exec_state \in {"TRIGGERING", "WAIT4FIN", "FIN_SYNC"}
              => \/ exec_state' \in {"TRIGGERING", "WAIT4FIN", "FIN_SYNC"}
                 \/ exec_state = "FIN_SYNC" /\ AllSync
<1>1. /\ ExecStep(None, DmaFin, PrFin) /\ None # "CLEAR" /\ None # "START"
  BY NoneIsNoCommand DEF Tick, Cmd
<1>2. CASE ExecMoves
  BY <1>2 DEF ExecMoves, ExecGoes, AllSync
<1>3. CASE ExecPrMoves(PrFin)
  BY <1>3 DEF ExecPrMoves, ExecGoes
<1>4. CASE ExecDmaMoves(DmaFin)
  BY <1>4 DEF ExecDmaMoves, ExecToStoreOrTrigger, ExecGoes, DmaFin, STORE_TASK_END
<1>5. CASE /\ exec_state' = exec_state
           /\ \/ ExecNextPrTask(PrFin)
              \/ ExecNextDmaTask(DmaFin)
              \/ ExecWaits(DmaFin, PrFin)
  BY <1>5 DEF ExecNextPrTask, ExecNextDmaTask, ExecWaits, LastDmaTask
<1> QED
  BY <1>1, <1>2, <1>3, <1>4, <1>5 DEF ExecStep, AfterStart

(* A session begins with no streamer storing.                               *)
LEMMA StreamersBegin ==
  ASSUME NEW in, Feasible(in), Tick(in), storing = {}, main_state # "PROCESS",
         main_state' = "PROCESS", exec_state' = "SHUTDOWN", row'.complete_mask = {}
  PROVE  StreamersInOrder'
<1>1. storing' = {}
  BY DEF Tick, StreamersStep, dfx_stream_store_init, Pulse
<1> QED
  BY <1>1 DEF StreamersInOrder, NotInitialised

LEMMA StreamersWorkOn ==
  ASSUME EngineInvariant, TransferInOrder, StreamersInOrder, NEW in, Feasible(in), Tick(in),
         in.ps.cmd = None, WorksOn(StreamFin(in.done))
  PROVE  StreamersInOrder'
<1> DEFINE init == IF exec_state = "INITIALIZE_MGS" THEN row.store_mask \ {DMA} ELSE {}
           early == {"SHUTDOWN", "PR_CTRL_REQ_SKIP_CHECK", "INITIALIZE_PR_CTRL",
                     "CLEAR_MGS", "INITIALIZE_MGS"}
<1>1. main_state = "PROCESS" /\ TypeOK /\ in.done \subseteq storing
  BY DEF WorksOn, EngineInvariant, Feasible
<1>2. /\ row'.exec_select = row.exec_select /\ row'.store_mask = row.store_mask
      /\ row'.complete_mask = row.complete_mask \cup StreamFin(in.done)
  BY <1>1, RowWorksOn
<1>3. storing' = (storing \cup init) \ in.done
  <2>1. exec_state = "INITIALIZE_MGS" => read_val.store_mask = row.store_mask
    BY <1>1, ReadsItsRow DEF InSession
  <2> QED
    BY <1>1, <2>1 DEF Tick, StreamersStep, dfx_stream_store_init, Pulse
<1>4. /\ StreamFin(in.done) \subseteq in.done \cup {DMA} /\ in.done \subseteq StreamFin(in.done)
      /\ DMA \notin storing
  BY <1>1 DEF StreamFin, TypeOK, EnvTypeOK
<1>5. \/ main_state' = "PROCESS" /\ ~AllSync
      \/ main_state' = "PRE_SHUTDOWN" /\ AllSync
  BY DEF WorksOn
<1>6. exec_state # "SHUTDOWN" =>
        read_val.store_mask = row.store_mask /\ read_val.exec_select = row.exec_select
          /\ read_val.complete_mask \subseteq row.complete_mask
  BY <1>1, ReadsItsRow DEF InSession
<1>7. exec_state \in {"CLEAR_MGS", "INITIALIZE_MGS"} => row.exec_select # {}
  BY <1>1 DEF TransferInOrder
<1>8. CASE exec_state \in early
  <2>1. storing = {} /\ row.complete_mask \subseteq {DMA} /\ in.done = {}
    BY <1>1, <1>8 DEF StreamersInOrder, NotInitialised
  <2>2. storing' = init /\ row'.complete_mask \subseteq {DMA} /\ main_state' = "PROCESS"
    BY <1>2, <1>3, <1>4, <1>5, <1>8, <2>1 DEF AllSync
  <2>3. /\ exec_state = "INITIALIZE_MGS" => exec_state' = "INITIALIZE_DMA"
        /\ exec_state # "INITIALIZE_MGS" =>
             \/ exec_state' \in early
             \/ exec_state' = "FIN_SYNC" /\ row.exec_select = {}
    BY <1>1, <1>6, <1>8, NoneIsNoCommand
       DEF Tick, ExecStep, ExecMoves, ExecPrMoves, ExecDmaMoves, ExecGoes, ExecNextPrTask,
           ExecNextDmaTask, ExecWaits, AfterStart, LastDmaTask, Cmd
  <2> QED
    BY <1>2, <1>7, <2>2, <2>3 DEF StreamersInOrder, NotInitialised
<1>9. CASE exec_state \notin early
  <2>1. /\ row.exec_select = {} \/ exec_state = "FIN_SYNC" => storing = {}
        /\ row.exec_select # {} => storing = (row.store_mask \ {DMA}) \ row.complete_mask
    BY <1>9 DEF StreamersInOrder, NotInitialised
  <2>2. storing' = storing \ in.done
    BY <1>3, <1>9
  <2>3. row.exec_select # {} =>
          storing' = (row'.store_mask \ {DMA}) \ row'.complete_mask
    BY <1>2, <1>4, <2>1, <2>2
  <2>4. exec_state' = "FIN_SYNC" => storing' = {}
    <3>1. exec_state' = "FIN_SYNC" =>
            exec_state = "FIN_SYNC" \/ row.store_mask \subseteq row.complete_mask
      BY <1>1, <1>6, <1>9, ExecProceeds
    <3> QED
      BY <2>1, <2>2, <3>1
  <2>5. /\ exec_state' \in early => main_state' = "PRE_SHUTDOWN"
        /\ main_state' = "PRE_SHUTDOWN" => exec_state = "FIN_SYNC"
    BY <1>1, <1>5, <1>9, ExecProceeds DEF AllSync
  <2> QED
    BY <1>2, <2>1, <2>2, <2>3, <2>4, <2>5 DEF StreamersInOrder, NotInitialised
<1> QED
  BY <1>8, <1>9

(* Only the last task of the store sequence starts the DMA's store.         *)
LEMMA DmaEffects ==
  ASSUME EngineInvariant, TransferInOrder, main_state = "PROCESS",
         NEW in, Feasible(in), Tick(in)
  PROVE  /\ DataOfTask(7) => exec_state = "SET_DMA_STORE" /\ StoresByDma(row) /\ ~Launched
         /\ dma'.storing => dma.storing \/ DataOfTask(7)
         /\ dma'.irq => dma.irq \/ (dma.storing /\ ~dma'.storing)
<1>1. dma \in DmaState /\ (in.dma_done => dma.storing)
  BY DEF EngineInvariant, TypeOK, EnvTypeOK, Feasible
<1>2. ASSUME NEW k \in DmaTask, DataOfTask(k)
      PROVE  dma'.irq => dma.irq
  BY <1>1, <1>2 DEF DataOfTask, DmaWritten, DmaState
<1>3. ASSUME NEW k \in DmaTask, DataOfTask(k), k # 7
      PROVE  dma'.storing = dma.storing
  <2>1. DmaReg[k] # "S2MM_LENGTH" /\ dma' = DmaWritten(DmaReg[k], WDATA)
    BY <1>3 DEF DmaReg, DmaTask, DataOfTask
  <2> QED
    BY <1>1, <2>1 DEF DmaWritten, DmaState
<1>4. ASSUME NoData(in.dma_done)
      PROVE  /\ dma'.storing => dma.storing
             /\ dma'.irq => dma.irq \/ (dma.storing /\ ~dma'.storing)
  BY <1>1, <1>4 DEF NoData, DmaState
<1>5. ASSUME DataOfTask(7)
      PROVE  exec_state = "SET_DMA_STORE" /\ StoresByDma(row) /\ ~Launched
  <2>1. dma_init_task = 7 /\ axi_state = "WDATA"
    BY <1>5 DEF DataOfTask
  <2>2. exec_state = "SET_DMA_STORE"
    BY <2>1, CoreAssumption DEF EngineInvariant, TaskPhase, TasksOf, RESET_INTR_BEG,
       RESET_INTR_END, LOAD_TASK_BEG, LOAD_TASK_END, STORE_TASK_BEG, STORE_TASK_END
  <2> QED
    BY <2>1, <2>2 DEF TransferInOrder, StoresByDma, Launched, Sent
<1> QED
  BY <1>2, <1>3, <1>4, <1>5, DmaMoves

LEMMA Launches ==
  ASSUME EngineInvariant, TransferInOrder, NEW in, Feasible(in), Tick(in), in.ps.cmd = None,
         WorksOn(StreamFin(in.done)), StoresByDma(row)
  PROVE  Launched' <=> Launched \/ DataOfTask(7)
<1>1. /\ main_state = "PROCESS" /\ 7 \in DmaTask /\ None \notin Nat
      /\ dma_init_task \in DmaTask \cup {None}
  BY CoreAssumption DEF WorksOn, DmaTask, EngineInvariant, TypeOK, CoreTypeOK
<1>2. exec_state # "SHUTDOWN" =>
        DMA \in read_val.store_mask /\ read_val.exec_select # {}
  BY <1>1, ReadsItsRow DEF InSession, StoresByDma
<1>3. \/ main_state' = "PROCESS" /\ ~AllSync
      \/ main_state' = "PRE_SHUTDOWN" /\ AllSync /\ exec_state = "FIN_SYNC"
  BY DEF WorksOn, AllSync
<1>4. axi_state # "UNLOCK" /\ dma_init_task = 7 /\ exec_state = "SET_DMA_STORE"
        => exec_state' = "SET_DMA_STORE" /\ dma_init_task' = 7
  BY <1>1, <1>2, ExecProceeds, TasksProceed
<1>5. ASSUME DataOfTask(7) PROVE Launched'
  <2>1. exec_state = "SET_DMA_STORE" /\ dma_init_task = 7 /\ axi_state = "WDATA"
        /\ axi_state' = "RESP"
    BY <1>1, <1>5, DmaEffects DEF DataOfTask
  <2> QED
    BY <1>1, <1>4, <2>1 DEF Launched, Sent
<1>6. ASSUME exec_state = "SET_DMA_STORE", Sent(7) PROVE Launched'
  <2>1. dma_init_task = 7 /\ axi_state \in {"RESP", "UNLOCK"}
    BY <1>1, <1>6 DEF Sent, DmaTask
  <2>2. axi_state = "RESP" => axi_state' \in {"RESP", "UNLOCK"}
    BY DEF Tick, AxiStep
  <2>3. CASE axi_state = "RESP"
    BY <1>1, <1>4, <1>6, <2>1, <2>2, <2>3 DEF Launched, Sent
  <2>4. CASE axi_state = "UNLOCK"
    <3>1. exec_state' # "SET_DMA_STORE"
      BY <1>1, <1>6, <2>1, <2>4, TasksProceed
    <3> QED
      BY <1>1, <1>6, <3>1, ExecProceeds DEF Launched
  <2> QED
    BY <2>1, <2>3, <2>4
<1>7. ASSUME exec_state \in {"TRIGGERING", "WAIT4FIN", "FIN_SYNC"} PROVE Launched'
  BY <1>1, <1>3, <1>7, ExecProceeds DEF Launched
<1>8. ASSUME Launched' PROVE Launched \/ DataOfTask(7)
  <2>1. CASE exec_state' = "SET_DMA_STORE" /\ Sent(7)'
    BY <1>1, <2>1, SentProceeds DEF Launched
  <2>2. CASE exec_state' \in {"TRIGGERING", "WAIT4FIN", "FIN_SYNC"}
    <3>1. \/ exec_state \in {"TRIGGERING", "WAIT4FIN", "FIN_SYNC"}
          \/ exec_state = "SET_DMA_STORE" /\ dma_init_task = 7 /\ axi_state = "UNLOCK"
      BY <1>1, <1>2, <2>2, ExecProceeds
    <3> QED
      BY <1>1, <3>1 DEF Launched, Sent
  <2>3. CASE main_state' = "PRE_SHUTDOWN"
    BY <1>3, <2>3 DEF Launched
  <2> QED
    BY <1>8, <2>1, <2>2, <2>3 DEF Launched
<1> QED
  BY <1>1, <1>5, <1>6, <1>7, <1>8 DEF Launched

LEMMA DmaBegins ==
  ASSUME main_state' = "PROCESS", exec_state' = "SHUTDOWN",
         StoresByDma(row)' => DmaUntouched' /\ DMA \notin row'.complete_mask
  PROVE  DmaInOrder'
BY DEF DmaInOrder, Launched

LEMMA DmaWorksOn ==
  ASSUME EngineInvariant, TransferInOrder, DmaInOrder, NEW in, Feasible(in), Tick(in),
         in.ps.cmd = None, WorksOn(StreamFin(in.done))
  PROVE  DmaInOrder'
<1>1. main_state = "PROCESS" /\ TypeOK /\ DMA \notin in.done
  BY DEF WorksOn, EngineInvariant, Feasible, TypeOK, EnvTypeOK
<1>2. /\ StoresByDma(row)' <=> StoresByDma(row)
      /\ row'.complete_mask = row.complete_mask \cup StreamFin(in.done)
  BY <1>1, RowWorksOn DEF StoresByDma
<1>3. DMA \in row'.complete_mask <=> DMA \in row.complete_mask \/ dma.irq
  BY <1>1, <1>2 DEF StreamFin
<1> SUFFICES ASSUME StoresByDma(row)
             PROVE  IF Launched'
                    THEN /\ dma'.irq \/ DMA \in row'.complete_mask => ~dma'.storing
                         /\ exec_state' = "FIN_SYNC" => DMA \in row'.complete_mask
                    ELSE DmaUntouched' /\ DMA \notin row'.complete_mask
  BY <1>2 DEF DmaInOrder
<1>4. Launched' <=> Launched \/ DataOfTask(7)
  BY Launches
<1>5. /\ DataOfTask(7) => exec_state = "SET_DMA_STORE" /\ ~Launched
      /\ dma'.storing => dma.storing \/ DataOfTask(7)
      /\ dma'.irq => dma.irq \/ (dma.storing /\ ~dma'.storing)
  BY <1>1, DmaEffects
<1>6. CASE ~Launched
  <2>1. ~dma.storing /\ ~dma.irq /\ DMA \notin row.complete_mask
    BY <1>6 DEF DmaInOrder, DmaUntouched
  <2>2. DataOfTask(7) => exec_state' # "FIN_SYNC"
    BY <1>1, <1>5, ExecProceeds
  <2> QED
    BY <1>3, <1>4, <1>5, <1>6, <2>1, <2>2 DEF DmaUntouched
<1>7. CASE Launched
  <2>1. /\ dma.irq \/ DMA \in row.complete_mask => ~dma.storing
        /\ exec_state = "FIN_SYNC" => DMA \in row.complete_mask
    BY <1>7 DEF DmaInOrder
  <2>2. exec_state' = "FIN_SYNC" => DMA \in row.complete_mask
    <3>1. exec_state # "SHUTDOWN" =>
            /\ DMA \in read_val.store_mask /\ read_val.exec_select # {}
            /\ read_val.complete_mask \subseteq row.complete_mask
      BY <1>1, ReadsItsRow DEF InSession, StoresByDma
    <3> QED
      BY <1>1, <2>1, <3>1, ExecProceeds
  <2> QED
    BY <1>3, <1>4, <1>5, <1>7, <2>1, <2>2
<1> QED
  BY <1>6, <1>7

LEMMA StoresKept ==
  ASSUME EngineInvariant, JobsRunOnce, TransferInOrder, StoresInOrder,
         NEW in, Feasible(in), Tick(in), in.ps.cmd # None => Starts,
         Starts \/ WorksOn(StreamFin(in.done)) \/ Advances
  PROVE  StoresInOrder'
<1> DEFINE fin == StreamFin(in.done)
           idx == b1_read_indexer
<1>1. /\ SamePlan(b1, b1') /\ \A s \in Slot : s # idx => b1'[s] = b1[s]
      /\ idx \in Slot /\ \A s \in Slot : b1[s].next_session \in Slot
      /\ TypeOK
  BY RunKeepsPlan DEF EngineInvariant, TypeOK, CoreTypeOK, SlotRow
<1>2. b0' = b0
  BY DEF Starts, WorksOn, Advances
<1>3. \A s \in Slot : StoresByDma(b1'[s]) <=> StoresByDma(b1[s])
  BY <1>1 DEF SamePlan, StoresByDma
<1>4. CASE Starts
  <2>1. /\ b0.amt_query = b0.amt_query_per_iter /\ 0 \in Slot
        /\ \A s \in Slot : b1[s].complete_mask = {}
    BY <1>4, CoreAssumption DEF Starts, JobsRunOnce, RunsOnce
  <2>2. PICK ahead \in Orders : OneRoundPlan(b1, b0, ahead)
    BY <1>4 DEF Starts, JobsRunOnce, RunsOnce
  <2>3. /\ storing = {} /\ DmaUntouched /\ main_state = "SHUTDOWN" /\ main_state' = "PROCESS"
        /\ exec_state' = "SHUTDOWN" /\ idx' = 0 /\ cur_query' = 0 /\ b1' = b1
        /\ axi_state = "IDLE"
    BY <1>4 DEF Starts, PartsIdle, DmaUntouched, EngineAtRest
  <2>4. row'.complete_mask = {}
    BY <2>1, <2>3 DEF row
  <2>5. DmaUntouched'
    BY <2>3 DEF Tick, DmaStep, DataAccepted, DmaUntouched, Feasible
  <2>6. StreamersInOrder' /\ DmaInOrder'
    BY <2>3, <2>4, <2>5, StreamersBegin, DmaBegins
  <2>7. OneRoundPlan(b1', b0', ahead)
    BY <1>2, <2>2, <2>3
  <2>8. \A s \in ahead[idx'] : s \in Slot
    BY <2>1, <2>3 DEF Orders
  <2> QED
    BY <1>2, <2>1, <2>3, <2>5, <2>6, <2>7, <2>8 DEF StoresInOrder
<1>5. ASSUME WorksOn(fin) \/ Advances
      PROVE  Busy
  BY <1>5 DEF WorksOn, Advances, Busy
<1>6. CASE WorksOn(fin) \/ Advances
  <2>1. /\ b0.amt_query = b0.amt_query_per_iter /\ cur_query = 0
        /\ StreamersInOrder /\ DmaInOrder
    BY <1>5, <1>6 DEF StoresInOrder
  <2>2. PICK ahead \in Orders :
          /\ OneRoundPlan(b1, b0, ahead)
          /\ \A s \in ahead[idx] :
               b1[s].complete_mask = {} /\ (StoresByDma(b1[s]) => DmaUntouched)
    BY <1>5, <1>6 DEF StoresInOrder
  <2>3. OneRoundPlan(b1', b0', ahead)
    BY <1>1, <1>2, <2>2, SamePlanKeeps
  <2>4. /\ ahead[idx] \subseteq Slot /\ idx \notin ahead[idx]
        /\ StoresByDma(row) => \A s \in ahead[idx] : ~StoresByDma(b1[s])
    BY <1>1, <2>2 DEF OneRoundPlan, Orders, row
  <2>5. \A s \in ahead[idx] : b1'[s] = b1[s]
    BY <1>1, <2>4
  <2>6. CASE WorksOn(fin)
    <3>1. /\ in.ps.cmd = None /\ main_state = "PROCESS"
          /\ idx' = idx /\ cur_query' = cur_query
      BY <2>6 DEF WorksOn, Starts
    <3>2. StreamersInOrder' /\ DmaInOrder'
      BY <2>1, <2>6, <3>1, StreamersWorkOn, DmaWorksOn
    <3>3. ASSUME NEW s \in ahead[idx], StoresByDma(b1[s])
          PROVE  DmaUntouched'
      <4>1. DmaUntouched /\ ~StoresByDma(row)
        BY <2>2, <2>4, <3>3
      <4> QED
        BY <3>1, <4>1, DmaEffects DEF DmaUntouched
    <3> QED
      BY <1>2, <2>1, <2>2, <2>3, <2>5, <3>1, <3>2, <3>3 DEF StoresInOrder
  <2>7. CASE Advances
    <3> DEFINE next == row.next_session
    <3>1. /\ main_state = "PRE_SHUTDOWN" /\ main_state' = "PROCESS" /\ exec_state' = "SHUTDOWN"
          /\ idx' = next /\ ~RunEnds /\ axi_state = "IDLE"
          /\ cur_query' = IF RoundEnds THEN NextQuery ELSE cur_query
      BY <2>7 DEF Advances, EngineAtRest
    <3>2. idx # b0.last_session
      <4>1. /\ b0.amt_query_per_iter \in Nat /\ b0.amt_query_per_iter < QueryMod
            /\ QueryMod \in Nat
        BY <1>1, CoreAssumption DEF TypeOK, CoreTypeOK, Config, Query
      <4>2. NextQuery = b0.amt_query
        BY <2>1, <4>1, BelowWidth DEF NextQuery
      <4> QED
        BY <3>1, <4>2 DEF RunEnds, RoundEnds
    <3>3. /\ next \in ahead[idx] /\ ahead[next] \subseteq ahead[idx]
          /\ next \in Slot
      BY <1>1, <2>2, <3>2 DEF OneRoundPlan, row
    <3>4. storing = {}
      BY <2>1, <3>1 DEF StreamersInOrder
    <3>5. ASSUME DmaUntouched PROVE DmaUntouched'
      BY <3>1, <3>5 DEF Tick, DmaStep, DataAccepted, DmaUntouched, Feasible
    <3>6. row' = b1[next]
      BY <2>5, <3>1, <3>3 DEF row
    <3>7. /\ row'.complete_mask = {}
          /\ StoresByDma(row') => DmaUntouched'
      BY <2>2, <3>3, <3>5, <3>6
    <3>8. StreamersInOrder' /\ DmaInOrder'
      BY <3>1, <3>4, <3>7, StreamersBegin, DmaBegins
    <3>9. cur_query' = 0
      BY <2>1, <3>1, <3>2 DEF RoundEnds
    <3> QED
      BY <1>2, <2>1, <2>2, <2>3, <2>5, <3>1, <3>3, <3>5, <3>8, <3>9 DEF StoresInOrder
  <2> QED
    BY <1>6, <2>6, <2>7
<1> QED
  BY <1>4, <1>6

-----------------------------------------------------------------------------
(* Every step of the engine and of what it drives keeps the invariants: it  *)
(* is an edge of a run, or changes nothing, or leaves the engine off, when *)
(* the invariants say nothing.                                             *)

Edge(in) ==
  /\ Feasible(in) /\ Tick(in)
  /\ in.ps.cmd # None => Starts
  /\ Starts \/ WorksOn(StreamFin(in.done)) \/ Advances

LEMMA StepIsEdge ==
  ASSUME EngineInvariant, [Next]_vars
  PROVE  UNCHANGED vars \/ ~Busy' \/ \E in : Edge(in)
<1> SUFFICES ASSUME Next, Busy' PROVE \E in : Edge(in)
  OBVIOUS
<1>1. PICK in \in Inputs : CarefulStart(in.ps) /\ Tick(in)
  BY DEF Next, PsResetsDma, EngineIdle, HardwareReset, CoreReset, Busy, core_vars, fsm_vars
<1>2. Feasible(in)
  BY InputsFeasible DEF EngineInvariant
<1> QED
  BY <1>1, <1>2, RunStep DEF Edge

LEMMA OffInOrder ==
  ASSUME ~Busy
  PROVE  BudgetInOrder /\ ReconInOrder /\ LoadsInOrder /\ TransferInOrder /\ StoresInOrder
BY DEF Busy, BudgetInOrder, ReconInOrder, LoadsInOrder, TransferInOrder, StoresInOrder

LEMMA BudgetStep ==
  ASSUME JobsValidated, EngineInvariant, BudgetInOrder, [Next]_vars
  PROVE  BudgetInOrder'
<1>1. CASE UNCHANGED vars
  BY <1>1 DEF vars, core_vars, fsm_vars, bank_vars, BudgetInOrder, Busy
<1>2. CASE ~Busy'
  BY <1>2 DEF BudgetInOrder
<1>3. ASSUME NEW in, Edge(in) PROVE BudgetInOrder'
  BY <1>3, BudgetKept DEF Edge
<1> QED
  BY <1>1, <1>2, <1>3, StepIsEdge

LEMMA ReconStepInOrder ==
  ASSUME JobsApart, EngineInvariant, ReconInOrder, [Next]_vars
  PROVE  ReconInOrder'
<1>1. CASE UNCHANGED vars
  BY <1>1 DEF vars, core_vars, fsm_vars, bank_vars, env_vars, ReconInOrder, LoadFollowed,
              Settled, Busy, row
<1>2. CASE ~Busy'
  BY <1>2 DEF ReconInOrder
<1>3. ASSUME NEW in, Edge(in) PROVE ReconInOrder'
  BY <1>3, ReconKept DEF Edge
<1> QED
  BY <1>1, <1>2, <1>3, StepIsEdge

LEMMA LoadsStep ==
  ASSUME JobsPlanned, EngineInvariant, ReconInOrder, LoadsInOrder, [Next]_vars
  PROVE  LoadsInOrder'
<1>1. CASE UNCHANGED vars
  BY <1>1 DEF vars, core_vars, fsm_vars, bank_vars, env_vars, LoadsInOrder, Busy, row
<1>2. CASE ~Busy'
  BY <1>2 DEF LoadsInOrder
<1>3. ASSUME NEW in, Edge(in) PROVE LoadsInOrder'
  BY <1>3, LoadsKept DEF Edge
<1> QED
  BY <1>1, <1>2, <1>3, StepIsEdge

LEMMA TransferStep ==
  ASSUME EngineInvariant, TransferInOrder, [Next]_vars
  PROVE  TransferInOrder'
<1>1. CASE UNCHANGED vars
  BY <1>1 DEF vars, core_vars, fsm_vars, bank_vars, task_vars, env_vars, TransferInOrder,
              Sent, row
<1>2. CASE ~Busy'
  BY <1>2 DEF TransferInOrder, Busy
<1>3. ASSUME NEW in, Edge(in) PROVE TransferInOrder'
  BY <1>3, TransferKept DEF Edge
<1> QED
  BY <1>1, <1>2, <1>3, StepIsEdge

LEMMA StoresStep ==
  ASSUME JobsRunOnce, EngineInvariant, TransferInOrder, StoresInOrder, [Next]_vars
  PROVE  StoresInOrder'
<1>1. CASE UNCHANGED vars
  BY <1>1 DEF vars, core_vars, fsm_vars, bank_vars, task_vars, env_vars, StoresInOrder,
              StreamersInOrder, NotInitialised, DmaInOrder, Launched, Sent, DmaUntouched,
              Busy, row
<1>2. CASE ~Busy'
  BY <1>2 DEF StoresInOrder
<1>3. ASSUME NEW in, Edge(in) PROVE StoresInOrder'
  BY <1>3, StoresKept DEF Edge
<1> QED
  BY <1>1, <1>2, <1>3, StepIsEdge

LEMMA InitInOrder ==
  Init => /\ EngineInvariant
          /\ BudgetInOrder /\ ReconInOrder /\ LoadsInOrder /\ TransferInOrder /\ StoresInOrder
<1>1. Init => ~Busy
  BY DEF Init, Busy
<1> QED
  BY <1>1, InitInvariant, OffInOrder

(* With validated budgets, named loads and one reconfiguration at a time,   *)
(* the queries, the controller, the regions and the DMA's registers are    *)
(* where the running session says, over any number of rounds.              *)
THEOREM RoundsInOrder ==
  JobsValidated /\ JobsApart /\ JobsPlanned => (Spec => []RoundsInvariant)
<1>1. JobsValidated /\ JobsApart /\ JobsPlanned /\ Init => RoundsInvariant
  BY InitInOrder DEF RoundsInvariant
<1>2. RoundsInvariant /\ [Next]_vars => RoundsInvariant'
  BY NextKeeps, BudgetStep, ReconStepInOrder, LoadsStep, TransferStep
     DEF RoundsInvariant, JobsValidated, JobsApart, JobsPlanned
<1> QED
  BY <1>1, <1>2, PTL DEF Spec

(* In one round of such a table the stores are in order as well.            *)
THEOREM RunInOrder ==
  JobsValidated /\ JobsApart /\ JobsPlanned /\ JobsRunOnce => (Spec => []RunInvariant)
<1>1. JobsValidated /\ JobsApart /\ JobsPlanned /\ JobsRunOnce /\ Init => RunInvariant
  BY InitInOrder DEF RoundsInvariant, RunInvariant
<1>2. RunInvariant /\ [Next]_vars => RunInvariant'
  BY NextKeeps, BudgetStep, ReconStepInOrder, LoadsStep, TransferStep, StoresStep
     DEF RoundsInvariant, RunInvariant, JobsValidated, JobsApart, JobsPlanned, JobsRunOnce
<1> QED
  BY <1>1, <1>2, PTL DEF Spec

-----------------------------------------------------------------------------
(* The properties, each from what it needs of the tables.                   *)

(* A run of a validated configuration (validate_query_config) never has a   *)
(* session in progress that its budget does not ask for.                   *)
THEOREM RunStaysInBudget == JobsValidated => (Spec => []WithinBudget)
<1>1. JobsValidated /\ EngineInvariant /\ BudgetInOrder /\ [Next]_vars => BudgetInOrder'
  BY BudgetStep
<1>2. BudgetInOrder => WithinBudget
  BY DEF BudgetInOrder, WithinBudget, Busy
<1>3. JobsValidated => JobsValidated'
  BY DEF JobsValidated
<1> QED
  BY <1>1, <1>2, <1>3, InitInOrder, InvariantHolds, PTL DEF Spec

LEMMA LoadedRM ==
  ASSUME EngineInvariant, ReconInOrder, LoadsInOrder
  PROVE  ExecutesLoadedRM
<1> SUFFICES ASSUME main_state = "PROCESS", NEW m \in row.exec_select
             PROVE  /\ loaded[RegionOf[m]] = m /\ rm_phase[RegionOf[m]] = "UP"
                    /\ \A t \in triggered : RegionOf[t] # RegionOf[m]
  BY DEF ExecutesLoadedRM, Executing, row
<1>1. /\ b1_read_indexer \in Slot /\ row.exec_select \subseteq RM
      /\ RegionOf[m] \in Region /\ m # None /\ row.recon_select \subseteq RM
  BY CoreAssumption DEF EngineInvariant, TypeOK, CoreTypeOK, SlotRow, row
<1>2. RegionOf[m] \notin RegionsOf(row.recon_select)
  BY <1>1 DEF ReconInOrder, Busy, SelectsApart, RegionsOf, row
<1>3. PICK holds \in Holdings :
        /\ LoadPlan(b1, holds)
        /\ \A r \in Region :
             r \notin RegionsOf(row.recon_select) /\ holds[b1_read_indexer][r] # None
               => loaded[r] = holds[b1_read_indexer][r]
  BY DEF LoadsInOrder, Busy
<1>4. holds[b1_read_indexer][RegionOf[m]] = m
  BY <1>1, <1>3 DEF LoadPlan, row
<1>5. Settled(RegionOf[m])
  BY <1>1, <1>2 DEF ReconInOrder, Busy, LoadFollowed, RegionsOf
<1> QED
  BY <1>1, <1>2, <1>3, <1>4, <1>5 DEF Settled

(* A session drives only RMs that are in their region, out of reset and not *)
(* about to be replaced, if its table says what every region holds when.   *)
THEOREM SessionsFindTheirRM ==
  JobsApart /\ JobsPlanned => (Spec => []ExecutesLoadedRM)
<1>1. JobsApart /\ EngineInvariant /\ ReconInOrder /\ [Next]_vars => ReconInOrder'
  BY ReconStepInOrder
<1>2. JobsPlanned /\ EngineInvariant /\ ReconInOrder /\ LoadsInOrder /\ [Next]_vars
        => LoadsInOrder'
  BY LoadsStep
<1>3. EngineInvariant /\ ReconInOrder /\ LoadsInOrder => ExecutesLoadedRM
  BY LoadedRM
<1>4. (JobsApart => JobsApart') /\ (JobsPlanned => JobsPlanned')
  BY DEF JobsApart, JobsPlanned
<1> QED
  BY <1>1, <1>2, <1>3, <1>4, InitInOrder, InvariantHolds, PTL DEF Spec

LEMMA FinishedStores ==
  ASSUME EngineInvariant, StoresInOrder
  PROVE  StoresFinished
<1> SUFFICES ASSUME main_state = "PROCESS", exec_state = "FIN_SYNC",
                    NEW m \in read_val.exec_select
             PROVE  /\ read_val.store_mask \cap storing = {}
                    /\ DMA \in read_val.store_mask => ~dma.storing
  BY DEF StoresFinished
<1>1. read_val.exec_select = row.exec_select /\ read_val.store_mask = row.store_mask
  BY ReadsItsRow DEF InSession
<1>2. storing = {}
  BY DEF StoresInOrder, StreamersInOrder, Busy
<1>3. DMA \in row.store_mask => ~dma.storing
  BY <1>1 DEF StoresInOrder, DmaInOrder, Launched, StoresByDma, Busy
<1> QED
  BY <1>1, <1>2, <1>3

LEMMA IdlePulses ==
  ASSUME StoresInOrder
  PROVE  PulsesFindIdleStreamer
<1>1. main_state = "PROCESS" /\ exec_state \in {"CLEAR_MGS", "INITIALIZE_MGS"} => storing = {}
  BY DEF StoresInOrder, StreamersInOrder, NotInitialised, Busy
<1> QED
  BY <1>1 DEF PulsesFindIdleStreamer, Pulse, dfx_stream_store_reset, dfx_stream_load_reset,
              dfx_stream_store_init, dfx_stream_load_init

LEMMA ConfiguredTransfers ==
  ASSUME EngineInvariant, TransferInOrder, StoresInOrder
  PROVE  TransferConfigured
<1> SUFFICES ASSUME main_state = "PROCESS", axi_state = "WDATA"
             PROVE  /\ awaddr = <<"DMA", "MM2S_LENGTH">> =>
                         dma.mm2s_run /\ dma.mm2s_addr = row.src_addr
                    /\ awaddr = <<"DMA", "S2MM_LENGTH">> =>
                         /\ dma.s2mm_run /\ dma.s2mm_addr = row.des_addr
                         /\ ~dma.irq /\ ~dma.storing
  BY DEF TransferConfigured, row
<1>1. awaddr = AWADDR /\ dma_init_task \in DmaTask \cup {None} /\ None \notin Nat
  BY CoreAssumption DEF EngineInvariant, WriteIsWhole, TypeOK, CoreTypeOK
<1>2. dma_init_task # None => awaddr = <<"DMA", DmaReg[dma_init_task]>>
  BY <1>1 DEF AWADDR
<1>3. dma_init_task = None => awaddr[1] # "DMA"
  BY <1>1 DEF AWADDR, ZeroAddr
<1>4. ASSUME awaddr = <<"DMA", "MM2S_LENGTH">>
      PROVE  dma.mm2s_run /\ dma.mm2s_addr = row.src_addr
  <2>1. dma_init_task = 4
    BY <1>1, <1>2, <1>3, <1>4 DEF DmaReg, DmaTask
  <2>2. exec_state = "SET_DMA_LOAD"
    BY <1>1, <2>1 DEF EngineInvariant, TaskPhase, TasksOf, RESET_INTR_BEG,
       RESET_INTR_END, LOAD_TASK_BEG, LOAD_TASK_END, STORE_TASK_BEG, STORE_TASK_END
  <2> QED
    BY <1>1, <2>1, <2>2 DEF TransferInOrder, Sent
<1>5. ASSUME awaddr = <<"DMA", "S2MM_LENGTH">>
      PROVE  /\ dma.s2mm_run /\ dma.s2mm_addr = row.des_addr
             /\ ~dma.irq /\ ~dma.storing
  <2>1. dma_init_task = 7
    BY <1>1, <1>2, <1>3, <1>5 DEF DmaReg, DmaTask
  <2>2. exec_state = "SET_DMA_STORE"
    BY <1>1, <2>1 DEF EngineInvariant, TaskPhase, TasksOf, RESET_INTR_BEG,
       RESET_INTR_END, LOAD_TASK_BEG, LOAD_TASK_END, STORE_TASK_BEG, STORE_TASK_END
  <2>3. StoresByDma(row) /\ ~Launched
    BY <1>1, <2>1, <2>2 DEF TransferInOrder, StoresByDma, Launched, Sent
  <2>4. ~dma.irq /\ ~dma.storing
    BY <2>3 DEF StoresInOrder, DmaInOrder, DmaUntouched, Busy
  <2> QED
    BY <1>1, <2>1, <2>2, <2>4 DEF TransferInOrder, Sent
<1> QED
  BY <1>4, <1>5

(* What the three properties of a round's stores follow from.               *)
THEOREM StoresStayInOrder ==
  JobsRunOnce => (Spec => [](EngineInvariant /\ TransferInOrder /\ StoresInOrder))
<1>1. EngineInvariant /\ TransferInOrder /\ [Next]_vars => TransferInOrder'
  BY TransferStep
<1>2. JobsRunOnce /\ EngineInvariant /\ TransferInOrder /\ StoresInOrder /\ [Next]_vars
        => StoresInOrder'
  BY StoresStep
<1>3. JobsRunOnce => JobsRunOnce'
  BY DEF JobsRunOnce
<1> QED
  BY <1>1, <1>2, <1>3, InitInOrder, InvariantHolds, PTL DEF Spec

(* dfx_mng_core.v takes STORE_MASK = COMPLETE_MASK for the end of a         *)
(* session's stores: in one round of sessions written with an empty        *)
(* COMPLETE_MASK, every streamer and the DMA have finished by then.        *)
THEOREM StoresAreFinished == JobsRunOnce => (Spec => []StoresFinished)
<1>1. EngineInvariant /\ StoresInOrder => StoresFinished
  BY FinishedStores
<1> QED
  BY <1>1, StoresStayInOrder, PTL

(* The reset and init pulses of dfx_mng_core.v find no streamer storing.    *)
THEOREM PulsesFindIdle == JobsRunOnce => (Spec => []PulsesFindIdleStreamer)
<1>1. StoresInOrder => PulsesFindIdleStreamer
  BY IdlePulses
<1> QED
  BY <1>1, StoresStayInOrder, PTL

(* When m_axi_write.v writes a LENGTH register, the DMA channel runs and    *)
(* has this session's address, and no completion of an earlier store is    *)
(* pending, which the session would take for its own.                      *)
THEOREM TransfersAreConfigured == JobsRunOnce => (Spec => []TransferConfigured)
<1>1. EngineInvariant /\ TransferInOrder /\ StoresInOrder => TransferConfigured
  BY ConfiguredTransfers
<1> QED
  BY <1>1, StoresStayInOrder, PTL

=============================================================================
