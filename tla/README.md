# A TLA+ model of the DFX engine

dfx4ml runs a neural network that is larger than the FPGA: the network is cut into
accelerators (RMs), the fabric has a few reconfigurable regions, and a hardware
engine, the **DFX Manager**, runs a table of *sessions*. In a session it loads the
RMs of the next sessions into free regions while the RMs that are already loaded
execute, with their streams coming from and going to the AXI DMA or on-chip
buffers, the **DFX streamers**. The processor (PS) writes the table, starts the
engine and waits for an interrupt.

This directory holds the specifications of that engine, of the driver and the notebook
program that use it, and of the calculations by which the build sizes and wires the
streamers; the instances on which TLC checks them; and the proofs that TLAPS checks.

    tlc -config MCDfxMng_commands.cfg MCDfxMng     a model-checking run
    tlapm DfxMngProofs.tla                         the proofs about the manager

## 1. The system

### Components

| Component | Source | State | Operations |
|---|---|---|---|
| Manager core | `hw/ip_src/dfx_mng/dfx_mng_core.v` | three state machines (main, reconfiguration, execution), bank 0 (budget, interrupt), bank 1 (session table), its read port, two one-hot task registers | one clock edge: a PS command, a register write or read, one step of every machine |
| M_AXI writer | `.../m_axi_write.v` | state of one AXI-Lite write | turns the current task into a write to the DMA or a PR ctrl IP, reports it finished |
| S_AXI slaves, top level | `.../s_axi_write.v`, `s_axi_read.v`, `dfx_mng.v` | state of one access | decode the PS's accesses into strobes of the core |
| DFX streamer | `hw/ip_src/dfx_streamer/dfx_streamer.v` | memory, write and read pipelines, two counters, a state machine | store a stream, replay it |
| Block design | `hw/bd_src/dfx_unified/dfx_unified.tcl`, `dfx_region.tcl`, `dfx4ml.tcl` | none | wiring: streamer interrupts and DMA interrupt into the manager, triggers and resets of the regions |
| DFX Controller, AXI DMA, ICAP, PR ctrl | vendor or generated | (not in the repository) | load a bitstream on a trigger; move a buffer; start an accelerator |
| Manager driver | `sw/driver/dfx_mng.py` | none (registers) | set_slot, set_whole_slot, bank-0 setters, clear / shutdown / start engine |
| Other drivers | `sw/driver/dfx_man.py`, `dfx_ctrl.py`, `dfx_dma.py`, `dfx_unified.py`, `pr_ctrl.py`, `mem_alloc.py`, `cap.py` | registers; lists of buffers | decouplers and software triggers, the vendor controller's tables, direct DMA transfers, accelerator control, buffers |
| Decoupling | `dfx_decup_ctrl.v`, `dfx_axi_lite_shut`, `dfx_streamer_*shut`, slices and aligners | at most one stream register | gates between a region and the static logic |
| Streamer sizing | `lib/dfx_streamer_cal.py` | an allocation table | which streamer keeps which stream between sessions, and how deep it is |
| Streamer wiring | `lib/hls4ml_build/dfx_params.py` | the result | which streamers each region has a port for, and which of its kernel's ports each RM connects to them |
| Notebooks | `example/multi_region_test5/test.ipynb` | the cell being run | inspect the regions, load a first RM in each, hand over the decouplers, start, wait, take them back |
| Build flow, hls4ml integration | `lib/hw_build.py`, `sw_build.py`, `hls4ml_build`, `hls4ml_con`, `hw/build_script` | files | generate and run scripts |

### How they interact

*PS -> core*: register writes through S_AXI, taken only while the main machine is in
SHUTDOWN (elsewhere they are dropped, and answered OKAY); a command may come at any
cycle. *Core -> writer*: a task register; *writer -> core*: "this task is finished".
The writer computes address and data combinationally from the task registers and the
core's read port. *Core -> streamers*: one-cycle reset and init pulses; *streamers ->
core*: one-cycle finStore pulses, collected in the row's COMPLETE_MASK together with
the DMA's interrupt, which is a level. *Core -> DFX Controller*: one-cycle trigger;
*DFX Controller -> core*: the region's reset goes low for at least a cycle.
*Notebook -> decouplers, DFX Controller*: one register of decoupler bits with an owner bit,
software triggers of the same regions that the core triggers. *Sizing -> wiring -> block
design*: which stream is in which streamer decides the ports of every region.

Everything is clocked by one clock; the hard part is not threads but **edges**: which
value a register shows at the edge at which it is used, and in which order the two
sub-machines, the writer, the streamers, the DMA, the configuration port and the PS
move.

### What is hard, and what makes each part correct

* the read port of bank 1 is one edge late; the machines must never act on the
  previous row (`ReadPortCurrent`);
* the writer's address and data are wires; a task register must not change under a
  write (`WriteIsWhole`);
* two machines run in parallel and must meet at the end of each session
  (`SessionBarrier`, `ImplementsChain`);
* a region must hold the RM that is executed, out of reset (`ExecutesLoadedRM`);
* DMA programming is a sequence that differs per session (`TransferConfigured`);
* a session must not end before its stores (`StoresFinished`), nor pulse a streamer
  that is still storing (`PulsesFindIdleStreamer`);
* the budget is an equality on a wrapping counter (`WithinBudget`, `StopsAtBudget`,
  `RunTerminates`);
* a register access takes several cycles, in which the engine goes on: what a driver call
  reads must be the register it asked for and of one moment (`ReadsWhatItAsks`,
  `PrintsOneTable`), what it writes must arrive in its row, in whole or from the end of a run
  on, and nowhere else (`WholeRowWritten`), a budget checked must be the budget run
  (`RunHasValidBudget`), a SHUTDOWN that is polled must mean that nothing moves any more
  (`OverMeansIdle`), and no call may hang (`CallReturns`);
* a region that is loaded must be isolated whoever owns the decouplers
  (`LoadingIsDecoupled`), a region that is addressed must not (`AddressedIsCoupled`), and
  the engine must not take another's load for its own (`ReconfiguredWhenDone`);
* a streamer's counter, read pipeline and output move together under back-pressure
  (`ReadAheadMatches`, `ImplementsBuffer`), and its finStore follows the last write
  (`SignalledIsInMemory`);
* the build decides which streamer keeps which stream and how deep it is, by rounding,
  first fit and greedy growth; no stream may be overwritten before it is read
  (`StreamsApart`), every stream must get its place (`EachPlaced`), the promised queries
  must fit (`QueriesFit`), and the greedy results should be the best ones
  (`FewestStreamers`, `NoBetterSplit`);
* the wiring looks for the first port of a kernel that goes to a streamer: a port may be
  left open only if its streamer is wired to an earlier one, which is never if the declared
  lifetimes of the streams agree with their uses (`PortsWired`); under the same condition no RM
  loads from the streamer it stores into (`NoneBothWays`); and no two regions may store into
  one streamer (`OneStorer`).

`PROJECT.json` lists the hazards by source line, also those no property covers yet.

## 2. The modules

| Module | Role |
|---|---|
| `DfxMngCore` | the core: registers, wires, one step operator per `always` block |
| `MAxiWrite` | the M_AXI writer, EXTENDS the core; which task each state waits for (`TaskPhase`), the engine at rest |
| `DfxMng` | the manager with the PS, DMA, streamers, DFX Controller; Init, Next, Spec |
| `DfxMngProperties` | what must be true of it; fairness; the inductive invariant; documented statements the code does not keep |
| `DfxMngRuns` | the conditions a session table and budget must meet, and the inductive invariants of a run of one that meets them |
| `SessionChain` | abstract specification of the manager |
| `DfxMngCoreProofs` | core and writer: the types of the registers, one lemma per `always` block, how sub-machines, task registers and writer move together; used by the proofs of the manager and of the driver |
| `DfxMngProofs` | theorems and proofs about `DfxMng`, for every table |
| `DfxMngRunProofs` | theorems and proofs about the runs of tables that meet the conditions |
| `SAxi` | the two AXI-Lite slaves between PS and core, EXTENDS the writer |
| `MngDriver` | the driver's calls, access by access, on slaves, core and writer |
| `MngDriverProofs` | theorems and proofs |
| `Deployment` | the notebook's program on `DfxMng`, with decouplers and virtual socket managers |
| `DeploymentProofs` | theorems and proofs |
| `DfxStreamer` | one streamer |
| `StreamBuffer` | abstract specification of a streamer |
| `DfxStreamerProofs` | theorems and proofs |
| `DfxStreamerCal` | which streamer keeps which stream, and how many banks it gets |
| `DfxStreamerCalProofs` | theorems and proofs |
| `DfxParams` | how the streamers are wired to regions and RMs, EXTENDS `DfxStreamerCal` |
| `DfxParamsProofs` | theorems and proofs |
| `MCDfxMng`, `MCMngDriver`, `MCDeployment`, `MCDfxStreamer`, `MCDfxStreamerCal` | instances for TLC |

The same core (`DfxMngCore`, `MAxiWrite`) is used in two compositions. `DfxMng` models in
detail what the engine *drives* and reduces the PS to at most one register write and one
row request a cycle; `MngDriver` models in detail who *uses* it, down to the channels of
the bus, and leaves the driven parts free. `Deployment` adds the notebook to the first.

**Synchronous steps.** A register block changes every register at a clock edge from
the values before it. A step of the model is one edge: `Tick(in)` is the conjunction
of one operator per always block (`MainStep`, `ReconStep`, `ExecStep`, `Bank0Step`,
`Bank1Step`, `AxiStep`, ...), and each of these is the disjunction of the branches of
its block. Wires are state functions. `in` is a record of everything that the engine
does not decide in this cycle: the PS's write and read, ready of the AXI slave, which
streamers finish, whether the DMA finishes, which region's reconfiguration moves on.
Two assignments to the same register in one block follow Verilog's rule, the last one
wins: this is why `START` does not stop a sub-machine that moves at the same edge
(`AfterStart` appears only where the machine's own case assigns no state).

**State correspondence.** `main_state`, `recon_state`, `exec_state`, `b1_read_indexer`,
`dma_init_task`, `pr_ctrl_task` have the source's names. `b0`, `b1` and `read_val`
are the records of the `b0_*`, `b1_*` and `b1_*_read_val` registers; `cur_query` and
`intr_status` are `b0_cur_query` and `b0_intr_status`. A mask is a set, a one-hot
register is the number of its bit or `None`. `AddrMod` and `QueryMod` are the moduli of the register
widths. The parts outside the repository's code (`dma`, `rm_phase`, `loaded`,
`triggered`) are modelled from how this code uses them and marked external in the map.

**Driver and slaves.** `r_state`, `w_state` are the machines of `s_axi_read.v` and
`s_axi_write.v`, `r_addr` and `w_addr` the addresses they latch; a register is a bank, a
row and a column, and only the low bits of a row count (`RowIndex`). A driver call is the
sequence of its register accesses (`Accesses`), one per `mmio.read` or `mmio.write` in
`dfx_mng.py`; `got` is what they have returned so far, and the early returns
(`Abandons`) and the `ValueError` of `set_slot` (`Raises`) end the call where the code
does. `Begin` and `Return` are the Python thread's steps, `Tick` is a clock edge of core, writer
and both slaves. In a bus handshake `go` is the PS's half of it. `quiet`, `before` and
`fresh` are history: the engine was in SHUTDOWN when the call began, what bank 1 held then,
the last command was a START that found every part at rest.

**Deployment.** `cell` and `todo` are the notebook's program counter: the cell, and the
part of its loop that is left. `decup_shadow` is `DFX_Man`'s copy of the decoupler register,
which is the register, since nobody else writes it; `decup_res` is the multiplexer of
`dfx_decup_ctrl.v`, `is_decoupled` the driver's method. `vs_shutdown` and `meta` are what
the DFX Controller knows: a socket manager in shutdown keeps a trigger and does nothing, an
RM without bitstream is not loaded. `Possible` is the effect of a decoupler: the region
takes no bus write and ends no store. `await my_interrupt.wait()` runs other tasks of the
event loop, which may change their regions' bits meanwhile (`UseBitsMeanwhile`).

**Streamer.** `DfxStreamer` has the registers of `dfx_streamer.v`; its banks are one
array of `Rows` rows. The broadcast output to several load ports is one register set,
and `LoadReady` is the OR of the coupled readers' TREADY. `ManagerStep` restricts the
control inputs to what `DfxMngCore` sends: the resets of a session's roles in one cycle,
their inits in the next, to an idle streamer. Of a streamer that is storing,
`PulsesFindIdleStreamer` checks this on the manager's side; that a reader has taken its whole
replay before the session ends is an assumption, since the manager's model has no loading
streamers. `BeatFits` says that a stream ends before the memory is full;
`QueriesFit` is the reason.

**Streamer sizing.** `DfxStreamerCal` is `dfx_streamer_report`, one action per turn of
one of its loops: `Check` (the two errors), `Reuse` and `Create` (one stream of a phase),
`Release` (one streamer whose stream has been read), `EndPhase`, `Grow` and `Stop`. The
list `streams` is the argument; the lists `dfx_streamers`, `free_dfx_streamers` and
`using_dfx_streamers` have the source's names, with a streamer as its number in the first
where Python shares one dictionary. A stream's shape is the product of its dimensions
(`entries`) and the width of its last one (`bits`). `AmountRow` and `BusBits` are what
`dfx_params.py` builds a streamer with.

**Streamer wiring.** `DfxParams` begins with a declaration, the list of partitions and
their streams, runs the sizing, and then is one step: `BuildRaises` (the `KeyError` of a
stream that was not placed, the `ValueError` of regions with different numbers of RMs) or
`Build`, the two dictionaries `dfx_regions` and `rm_schemetics`. `Validated` is what
`Hls4ml_build._validate` has let through; `RMsApart`, that the partitions of a region declare
different RMs, is assumed too and checked by no code. `Scheduled` is the discipline of the
notebooks: a partition works in one phase, a stream is declared to live from the phase that
stores it until one that is not followed by a store before its last reader. No code checks
it and it is not assumed: it is the hypothesis of `NoneBothWays` and of the part of
`PortsWired` that says that no port is left open. A declaration that breaks it is built
without an error, and then two ports of a kernel may share a streamer, or an RM have one
both ways.

## 3. What TLC checks

### Runs that pass

| Run | Instance | Shows |
|---|---|---|
| `commands` | three sessions of the pipelined two-region table, one round; CLEAR, SHUTDOWN, START, register writes, reads of a row, DMA reset, hardware reset at any cycle (34,054 states) | the inductive invariant `RunInvariant` (of which `EngineInvariant`, the part that holds for every table, is a conjunct) and the session safety properties, the refinement `ImplementsChain`, `SessionBarrier` |
| `rounds` | one region: four sessions of two RMs for one round, or a session from DMA to DMA for two or three rounds, one job after the other, fairness (21,002 states) | the inductive invariant `RoundsInvariant`, `WithinBudget`, `AddressesAdvance`, `RunTerminates` |
| `registers` | the driver's calls one after another at any moment of the engine's work, two sessions, one region, fairness (149,458 states) | the inductive invariant `DriverInvariant`, `ReadsWhatItAsks`, `PrintsOneTable`, `WholeRowWritten`, `RunHasValidBudget`, `OverMeansIdle`, `CallReturns` |
| `deployment` | the notebook's cells on the pipelined table, by a user who waits for the first loads, fairness (2,540 states) | the inductive invariant `DeployInvariant`, `LoadingIsDecoupled`, `AddressedIsCoupled`, `ReconfiguredWhenDone`, `DeploymentEnds` |
| `replay` | a streamer of three rows, two payloads, two readers, counters of three bits, fairness (6,229 states) | the inductive invariant `StreamerInvariant`, `SignalledIsInMemory`, `ReadAheadMatches`, the refinement `ImplementsBuffer`; `ReturnsToIdle` |
| `streamers` | all lists of up to three streams of six kinds over three phases, in four layouts of partitions, and the five streams of the two-region hls4ml notebook, fairness (249,704 states) | the inductive invariant `CalInvariant`, `StreamsApart`, `EachPlaced`, `FewestStreamers`, `QueriesFit`, `NoBetterSplit`, `PortsWired`, `NoneBothWays`, `OneStorer`, `CalEnds` |

The type invariants (`TypeOK`, `DriverTypeOK`, `DeployTypeOK`, `StreamerTypeOK`,
`CalTypeOK`) are conjuncts of their inductive invariants.

*Bounds.* Two regions and two RMs are what the parallelism of reconfiguration and
execution needs, a third adds only more of the same; three sessions give a first
(only loads an RM), a middle (loads and executes) and a last one; one streamer and the
DMA give both kinds of completion, pulse and level. `QueryMod = AddrMod = 4` makes
the counters wrap within the budget. The PS may write any one field to the value the
table has for it, so partially written tables are states too; it starts
the engine only with a complete one (`CarefulStart`: the notebooks write the table,
then start, from rest). The configurations of `rounds` belong to their tables (`Jobs`).
`fields` has two of the driver's twelve columns, an address, which a run may change too, and
an RM select, which `set_slot` checks: enough for a row that is partly written, also because
a run ends in the middle of the call, and for the error in the middle of one. The rows that
are written differ in both from what the table holds, and the end of a run can follow
either write. `Calls` has every kind of call that differs
in its accesses or its end (among them a budget that is refused and an RM select
that is refused); two rows are what it takes to be read or written in the wrong one.
In `deployment`, `Patient` is the user who looks at the status until the first loads are
over, as the notebook's `print_status` cell invites; without it (`early_start`) the property
fails. A streamer of three rows has a first, a middle and a last row;
streams of one, two and three beats occur, and the counter `-1` is apart from every row. The kinds of streams differ in region,
width (one or two banks) and length (three or two queries in a bank with a row left over,
and none); three streams over three phases are enough for two streams of one phase that
compete for one free streamer and for a streamer that is used twice; the seven banks of the
budget run out unevenly. The layouts of `MCDfxStreamerCal` put the producer of a stream in
its region or in the other one, its reader in the same region as the producer or across,
and list the partitions forward or backward, so that RMs need sorting; one more declared stream has no phase and
one kind is too long for a bank, for the two errors. The fourth layout, of up to two
streams, has them read in the last phase also where they are freed before: these
declarations are not scheduled, and two streams of one streamer meet in one kernel. The five streams of the notebook include
one that is kept over two phases, and a declared lifetime shorter than its use (freed in
phase 2, read in phase 3).

*Deadlock* is checked in every run but `streamers`, whose calculation stops: that it stops
with a result or an error is `CalEnds`.

*Fairness.* `Clock`: the clock ticks. `AxiAnswers`, `DmaFinishes`, `StoreEnds`,
`Reconfigures`: a slave that is asked answers, a transfer and a bitstream that have
begun end; the engine has no timeout, so it relies on exactly this. Fairness is weak and
is on what the parts do, never on what the PS does: it need not start anything.
For the streamer: the clock, readers that
become ready, and streams that end (`ReadersReady`, `StreamsEnd`). These are asked only
of cycles in which the PS writes nothing (`QuietInputs`): a write takes its slave three
cycles, so such cycles keep coming whatever the program does.
For the driver: the thread returns from a call that is over, and the clock ticks with the
interconnect ready (`FairSpec` of `MngDriver`); nothing is asked of the driven
parts, and none of a call's accesses waits for them. For the deployment: the parts of the
engine as long as they are not decoupled (which is what `Possible` says, so fairness does not hide a
decoupler in the wrong hands), and the program, which goes on to its next statement.
The sizing and wiring are a sequential program: it goes on while it can (`WF(ParamsNext)`).

### Runs that find a violation

Each is a statement of the repository's documents, or a use they allow, that the code
does not keep; `PROJECT.json` quotes both.

| Run | Property | What happens |
|---|---|---|
| `stale_complete` | `StoresFinished` | COMPLETE_MASK is never cleared, the second pass of a session does not wait for its store |
| `second_round` | `RunTerminates` | in a second round the DMA's interrupt, still up, adds its bit to another row's COMPLETE_MASK, the equality test never holds and the engine hangs |
| `restart` | `RunTerminates` | SHUTDOWN in a session leaves a DMA task behind that starves the PR ctrl task of the next run |
| `zero_budget` | `StopsAtBudget` | AMT_QUERY = 0 starts a run; a whole round of the table is worked, 1 = 0 fails, and the next round begins |
| `halt` | `HaltKeepsWrite` | after SHUTDOWN in a session the bus writer goes on from the row index, which any register read of the PS, `get_main_state` too, then moves: the address of a write that waits for its handshake changes |
| `early_start` | `ReconfiguredWhenDone` | START right after the cell that triggers the first loads: session 0 takes the reset pulse of the PS's load for that of its own |

A consequence: the properties about completed stores hold for one round of a table
(`commands`) and not for several. `rounds` therefore asks only what is true of several.

Seen while modelling, without a run of their own:

* the sizing holds only *growth* against the bank budget. If the first bank group of every
  streamer already needs more than `TotalBanks`, it returns that result without an error (the
  entry for line 220 in `hazards`);
* CLEAR does not lower the interrupt status (`dfx_mng_core.v:340`), though the register table
  says so (`main.tex:364`);
* a session without an RM to execute goes from PR_CTRL_REQ_SKIP_CHECK to FIN_SYNC
  (`dfx_mng_core.v:445`), not to CLEAR_MGS (`main.tex:528`).

## 4. What is proved

### The manager

`DfxMngProofs` proves, for every number of sessions, streamers, regions and RMs, every
table and budget, and every width of addresses and counters:

| Theorem | Property |
|---|---|
| `TypeCorrect` | `TypeOK` |
| `InvariantHolds` | `EngineInvariant` |
| `ReadPortIsCurrent` | `ReadPortCurrent` |
| `WritesAreWhole` | `WriteIsWhole` |
| `SessionsAreBarriers` | `SessionBarrier` |
| `AddressesDoAdvance` | `AddressesAdvance` |
| `EngineImplementsChain` | `ImplementsChain` |

*Assumptions*: `CoreAssumption`, `NoneIsNoCommand` and `ProgramAssumption` (row 0 and
stream 0 exist, widths are at least one value, what the PS writes has the width of its
register, `None` is no value), evaluated by TLC on every run of the manager.

*The argument.* `ReadPortCurrent` and `WriteIsWhole` are not inductive. Why is the read
port current in a session? Because the row moves only in PRE_SHUTDOWN and at START, and at those
edges both sub-machines are in SHUTDOWN and spend one more edge there: `Lockstep`. Why does no
task register change under a write? Because the execution machine asks for a task
exactly in the states that wait for it (`TaskPhase`), leaves them only when the writer
reports the end, and the writer is idle otherwise (`WriterServesTask`).
`EngineInvariant` is the conjunction; there is one lemma per conjunct for a clock edge
(`LockstepKept`, `TaskPhaseKept`, `WriterServesTaskKept`, `ReadPortKept`,
`WriteIsWholeKept`), each split by the command of that edge, and the action
properties and the refinement follow from it: `TickMaps` maps an edge to an action of
`SessionChain` by command and main state. START at rest (`CarefulStart`) is needed:
the `restart` run shows what happens otherwise.

### A run of a session table

What a session may rely on depends on the table, and the engine checks none of it. `DfxMngRuns` says
what a job (a table and its bank 0) must be for the properties to hold, and
`DfxMngRunProofs` proves them for every set of jobs that meets the conditions:

| Theorem | Of jobs that are | Property |
|---|---|---|
| `RunStaysInBudget` | `Validated` | `WithinBudget` |
| `SessionsFindTheirRM` | `SelectsApart`, planned (`LoadPlan`) | `ExecutesLoadedRM` |
| `TransfersAreConfigured` | `RunsOnce` | `TransferConfigured` |
| `StoresAreFinished` | `RunsOnce` | `StoresFinished` |
| `PulsesFindIdle` | `RunsOnce` | `PulsesFindIdleStreamer` |
| `RoundsInOrder` | `Validated`, `SelectsApart`, planned | `RoundsInvariant` |
| `RunInOrder` | all of these | `RunInvariant` |

*The conditions.* `Validated` is `validate_query_config` and a budget that is not zero (for
zero, see `zero_budget`). `SelectsApart`: selects have at most one bit, which `set_slot`
enforces, and a session does not load the region it executes in. `LoadPlan`: for every session there is a
note of which RM each region holds when it begins; along `next_session` the note changes only by
the session's own load; an RM that is executed is in the note, and in row 0, where a run
begins, the note is empty. `RunsOnce`: one round, in which every session runs once and begins with an empty
COMPLETE_MASK, and at most one stores through the DMA; why not several rounds is what
`stale_complete` and `second_round` show. TLC evaluates the conditions with the invariants:
the tables of `commands` meet all of them, those of `rounds` all that `RoundsInvariant` asks for.

*The argument.* The budget: `cur_query` stays a multiple of the step and below the
budget, so the equality at the end of a round is hit before the counter can wrap
(`BudgetInOrder`). The loads: of a low and a high level of the reset the engine concludes that its
region is loaded. This is right because nothing is asked of a region before the session asks, and then only
once: in each state of the reconfiguration part it is known whether the trigger is still
waiting or the load on its way (`LoadFollowed`), and all other regions are at rest.
So what a region holds follows the note (`LoadsInOrder`). The transfers: a task in the
register, with the phase of the writer, says which DMA registers have been written
(`Sent`, `TransferInOrder`). The stores: the streamers that store are those of the
session's STORE_MASK not yet in its COMPLETE_MASK, from the edge of the init pulse on (`StreamersInOrder`);
the DMA, whose interrupt is a level, is untouched until the one session that stores through it
has told it to (`DmaInOrder`, with the sessions still to come in `StoresInOrder`). Each
invariant is kept by a step whatever the others are, given `EngineInvariant` and the ones it is said to
need, so each theorem asks only for the conditions that it uses.

### The deployment

`DeploymentProofs` proves about the notebook's program, for every number of regions and RMs:

| Theorem | Of | Property |
|---|---|---|
| `DeployTypeCorrect` | any user and table | `DeployTypeOK` |
| `DeploymentInOrder` | a `Patient` user, tables that are `SelectsApart` | `DeployInvariant` |
| `LoadsAreDecoupled` | the same | `LoadingIsDecoupled` |
| `CoupledIsAddressed` | the same | `AddressedIsCoupled` |
| `ReconfigurationsAreDone` | the same | `ReconfiguredWhenDone` |

*The argument.* `RegionAssumption`: every region has RMs, so `trig(r, 0)` finds one. In every cell it is fixed who owns the decouplers
(`DecouplersInCell`), whether the engine may be running (`EngineInCell`) and whether a load may be open
(`LoadsInCell`). A patient user leaves the loading cell when all regions are settled; so
`ReconInOrder`, the invariant of the engine's own loads, holds when it starts, and is then kept by the
engine alone. The engine's decoupler lines are the socket managers' phases, and while the PS owns them it
holds every region. Without `Patient`, `early_start` is the counterexample.

### The driver

`MngDriverProofs` proves, for every set of calls, order of columns, table, number of
sessions and behaviour of the driven parts (`DriverAssumption`: the sessions are numbered
from 0, what `set_bank0` is asked to write has the width of its register):

| Theorem | Property |
|---|---|
| `DriverTyped` | `DriverTypeOK` |
| `InvariantHolds` | `DriverInvariant` |
| `RunsAreValid` | `RunHasValidBudget` |
| `ReadsAreRight` | `ReadsWhatItAsks` |
| `RowsAreWhole` | `WholeRowWritten` |
| `PrintedIsOneTable` | `PrintsOneTable` |
| `OverIsIdle` | `OverMeansIdle` |

*The argument.* A busy channel serves the access the call is waiting for
(`ChannelsServeCall`). So between the two reads of `start_engine` and its write nobody
writes the budget (`BudgetChecked`), and START, which takes effect while the response is
still on its way, finds it checked; during the run the core takes no writes. A call that began in
SHUTDOWN stays in SHUTDOWN but for `start_engine`'s own last access (`StillQuiet`), so its
requests are taken: the row index follows the address in READFETCH, the read port one edge
later, in READWAIT (`PortFollows`). What `set_whole_slot` has written so far was dropped up
to some column and taken from the next one on (`RowSoFar`): writes are taken in SHUTDOWN only,
and only a command could leave it within the call. `print_slot_data` may also begin while the engine runs, so it needs an
invariant of its own (`PrintSoFar`): a call that only reads gives no command, so once it has
read SHUTDOWN the engine stays there, the port serves its reads, and what it has read stays
what the table holds. A run that was started at rest and given no command since (`fresh`)
keeps its parts in step (`RunInOrder`): the sub-machines work in PROCESS only, return at the
same edge, and hold a task exactly in the states that wait for it, so when the main state is
back in SHUTDOWN nothing is left. Without `fresh` this is false: a SHUTDOWN in the middle of
a session leaves its sub-machines and tasks behind, and the instance of `registers` (a
session that executes nothing, edited in after such a halt) reaches the end of the next run
with a task still waiting. The theorems are about any table, so `RowIndex` is the address modulo the number
of rows (`RowIndexOfSlot`).

### The streamer

`DfxStreamerProofs` proves, for every depth, counter width that can count it, payload and
number of readers (`StreamerAssumption`):

| Theorem | Property |
|---|---|
| `StreamerTypeCorrect` | `StreamerTypeOK` |
| `StreamerInvariantHolds` | `StreamerInvariant` |
| `SignalFollowsMemory` | `SignalledIsInMemory` |
| `ReadAheadIsRight` | `ReadAheadMatches` |
| `StreamerImplementsBuffer` | `ImplementsBuffer` |

*The argument.* That the row read ahead is the one offered next depends on where the row
counter stands in each state of the machine (`Position`), and this on both counters being
rewound before a role begins (`RolesReset`) and on the rows below the store counter holding
what was stored, the last of them possibly still in the write pipeline (`RowsStored`);
`OfferCurrent` says that the output register shows the row before the counter.
`StreamerInvariant` is the conjunction. `IdleImplements`, `StoreImplements` and
`LoadImplements` map an edge in each state to an action of `StreamBuffer` or a stutter.

### The sizing

`DfxStreamerCalProofs` proves, for every list of streams, number of phases, budget and bank
geometry (`CalAssumption`: banks are not empty, a stream is read after the phase that stores
it, which need not be a phase of the run):

| Theorem | Property |
|---|---|
| `CalTypeCorrect` | `CalTypeOK` |
| `CalInvariantHolds` | `CalInvariant` |
| `StreamsAreApart` | `StreamsApart` |
| `PromisedQueriesFit` | `QueriesFit` |
| `StreamsArePlaced` | `EachPlaced` |
| `StreamersAreFewest` | `FewestStreamers` |
| `NoSplitIsBetter` | `NoBetterSplit` |

*The argument.* A new stream begins in the current phase; it is apart from the streams its
streamer held before if all of these have been read, which must follow from the streamer
being in the free pool: `FreePoolRead`. A streamer enters that pool at the end of the phase
that reads its last stream, and the earlier ones ended before (`UsedUntilRead`); it is there
once and not in use (`OnePool`), or it could be given away twice. One lemma per action keeps
`CalInvariant`. `PromisedQueriesFit` needs only the types: the promised number is the least of
the products, and a number of queries that is rounded down never needs more than the rows there are.

`StreamsArePlaced` rests on `Placement`: a stream is in a streamer exactly if its `Turn` has
been, that is, if its phase is over or it comes before `next` in the current one, and then in
exactly one, of its own width and region.

`StreamersAreFewest` is two injections. At any phase the streams that live have streamers of
their own (`LiveHaveOwn`, by `StreamsApart`), so there are never fewer streamers than that.
`Peak` gives the other direction: there is a phase in which every streamer of a width and
region holds a stream that lives (`PeakIsFull`). It is inductive because a streamer is only
created when no free one of its width and region is left, and a used one holds a stream of the
current phase (`UsedNow`): the current phase is then the new peak.

`NoSplitIsBetter` rests on `Growth`: each streamer was the bottleneck when it was given its
last bank group (`GrewAtBottleneck`), and at the end one more group for the bottleneck would
not fit. A split that buffers more than promised gives every streamer at least
as many groups as the growth did, and the bottleneck one more: its sum is over the budget
(`SumGrows`). Sums over the set of streamers are compared by induction on the size of a subset,
which the provers take as a least counterexample (`LeastCounterexample`, by the well-ordering
of `Nat`), since the library's induction rules are out of their reach.

### The wiring

`DfxParamsProofs` proves, for every declaration that is `Validated` and `RMsApart`
(`ParamsAssumption`) and every number of regions:

| Theorem | Property |
|---|---|
| `EveryPortIsWired` | `PortsWired` |
| `NoStreamerBothWays` | `NoneBothWays` |
| `StorersAreApart` | `OneStorer` |

*The argument.* `ParamsInvariant` (of `CalInvariant`, `Placement` and `Wiring`: what was
built is what streamers and partitions say) is inductive (`ParamsInvariantHolds`). A name
leads to exactly one streamer (`Resolve`), by `Placement`. So the map of an RM
has, for each streamer, the first port that goes to it (`MapWires`), and the streamer of a port is wired to
that port or an earlier one. In a `Scheduled` declaration two streams that one partition
reads, or two that it stores, or one of each, are alive at the same time; `StreamsApart`
then keeps them in different streamers (`KeptApart`), the first port is the
only one (`PortsApart`), and no RM has a streamer both ways. `Scheduled` is the hypothesis of `NoneBothWays` and of the last part
of `PortsWired`, and of nothing else. That the partitions of a region can be sorted
by rm, so that `RMs` names one order, is shown by ranks, the number of those that are not
above (`SortExists`), and the slot of a partition is its rank (`HomeFound`).

### Only model-checked

Everything under fairness (`RunTerminates`, `ReturnsToIdle`, `CalEnds`, `CallReturns`,
`DeploymentEnds`): liveness is out of the proof system's reach. Every invariant and every
action property of a passing run is the statement of a theorem.

## 5. What is not modelled

Of the hardware: the profiling counters and the base addresses of the two IPs; error
answers on the buses (the engine ignores them, `m_axi_write.v:139`); the AXI-Lite gate,
the stream slices and aligners beside their decouple inputs; the clock and reset tree; the
debug registers. Of the software: DMA transfers without the manager (`start_send`,
`start_receive`), the read-modify-write of `pr_ctrl.py`, the lists of buffers, the
shutdown and address map of the vendor controller's driver. These are small; `PROJECT.json`
gives the reason part by part.

Not modelled at all, because nothing in it has a state whose orders could go wrong: the
build flow and the hls4ml integration beside its validation, sizing and wiring (they fill in
text templates and run vendor tools), and the examples, notebooks, experiments and reports
beside the deployment's cells. By lines these are most of the repository, above all the saved outputs of
the notebooks; the program's own logic is the Verilog under `hw/ip_src`, the drivers under
`sw/driver` and the two calculations under `lib`.

## 6. Plan

Done: the manager with its abstract specification and proofs; the streamer with its
abstract specification and proofs; the sizing and the wiring of streamers with proofs; the
PS's side of the manager, slaves and driver, with proofs; the deployment. Left, in this order:

1. Compose streamers and manager: replace `StreamersStep` by instances of `DfxStreamer`,
   check that a session reads what the session before stored; loads of an empty
   streamer and a second load without reset are the interesting cases.
2. Error answers and a CLEAR in the middle of a bus write, with the DMA in detail under
   `MngDriver` (the last uncovered hazards of `m_axi_write.v`).
3. Two readers of one streamer with the dummies of the idle ports and the decouplers.
4. `Pr_Ctrl`, `StreamS2M`: the accelerator handshake and the one slice with a register.
5. Proofs: the composition's data path from `StreamerImplementsBuffer`.
