------------------------------ MODULE DfxParams ------------------------------
(***************************************************************************)
(* How the streamers are wired to the regions (compute_dfx_params in        *)
(* lib/hls4ml_build/dfx_params.py): once dfx_streamer_report has packed the *)
(* streams into streamers, each region gets a port for every streamer that *)
(* any of its RMs uses, and each RM a map from those ports to its own.      *)
(*                                                                         *)
(* A stream is named by its place in the list of streams, DMA is 0, and so  *)
(* is streamer 0.  The ports of a kernel are counted from 1; 0 (-1 in the   *)
(* source) leaves a port of the region idle.                               *)
(***************************************************************************)
EXTENDS DfxStreamerCal

CONSTANTS
  Declarations,      \* the lists of partitions, with the streams they produce
  NumRegions

DMA == 0
DMA_STREAMER_INDEX == 0
IDLE == 0

Region == 0 .. (NumRegions - 1)
Partition == [region : Region, rm : Nat, inputs : Seq(Nat), outputs : Seq(Nat)]

VARIABLES
  partitions,                    \* the argument
  outcome,                       \* "pending", then "built" or a Python exception
  dfx_regions, rm_schemetics     \* the result

params == <<partitions, outcome, dfx_regions, rm_schemetics>>
params_vars == <<cal_vars, params>>

Produced(ps) == FlattenSeq([i \in DOMAIN ps |-> SelectSeq(ps[i].outputs, LAMBDA n : n # DMA)])

(* What Hls4ml_build has validated: each stream is produced once, only      *)
(* streams that are produced are read, and DMA is one partition's input and *)
(* one partition's output.                                                 *)
Validated(d) ==
  /\ d.partitions # <<>>
  /\ Produced(d.partitions) = [s \in DOMAIN d.streams |-> s]
  /\ \A p \in ToSet(d.partitions) : ToSet(p.inputs) \subseteq DOMAIN d.streams \cup {DMA}
  /\ Cardinality({i \in DOMAIN d.partitions : DMA \in ToSet(d.partitions[i].inputs)}) = 1
  /\ Cardinality({i \in DOMAIN d.partitions : DMA \in ToSet(d.partitions[i].outputs)}) = 1

(* No two partitions of a region declare the same rm.  (No code checks it;  *)
(* with equal ones the RM slots follow the order of the list.)              *)
RMsApart(d) ==
  \A i, j \in DOMAIN d.partitions :
    i # j => \/ d.partitions[i].region # d.partitions[j].region
             \/ d.partitions[i].rm # d.partitions[j].rm

(* How the notebooks declare a run, which no code checks and is not assumed *)
(* here: the ports of a partition are distinct, and it works in one phase,  *)
(* in which it stores what it produces and before which all it reads was    *)
(* stored, with nothing stored between the phase a stream is freed in and a *)
(* partition that reads it later.                                          *)
Phases(d) == {0} \cup UNION {{s.alloc_phase, s.free_phase} : s \in ToSet(d.streams)}

WorksIn(d, p, f) ==
  /\ \A s \in ToSet(p.outputs) \ {DMA} : d.streams[s].alloc_phase = f
  /\ \A s \in ToSet(p.inputs) \ {DMA} :
       /\ d.streams[s].alloc_phase < f
       /\ \A t \in ToSet(d.streams) :
            ~ (d.streams[s].free_phase < t.alloc_phase /\ t.alloc_phase <= f)

Scheduled(d) ==
  \A p \in ToSet(d.partitions) :
    /\ IsInjective(p.inputs) /\ IsInjective(p.outputs)
    /\ \E f \in Phases(d) : WorksIn(d, p, f)

ASSUME ParamsAssumption ==
  /\ NumRegions \in Nat \ {0}
  /\ \A d \in Declarations :
       /\ d.streams \in Topologies /\ d.partitions \in Seq(Partition)
       /\ Validated(d) /\ RMsApart(d)

-----------------------------------------------------------------------------
IsPlaced(n) == n = DMA \/ \E d \in Streamer : n \in dfx_streamers[d].streams

StreamerOf(n) ==
  IF n = DMA THEN DMA_STREAMER_INDEX
  ELSE CHOOSE d \in Streamer : n \in dfx_streamers[d].streams

InRegion(r) == {p \in ToSet(partitions) : p.region = r}

LoadStreamers(r) == {StreamerOf(n) : n \in UNION {ToSet(p.inputs) : p \in InRegion(r)}}
StoreStreamers(r) == {StreamerOf(n) : n \in UNION {ToSet(p.outputs) : p \in InRegion(r)}}

(* Mutant: the RMs of a region stay in the order of the list. *)
RMs_AsListed(r) == SelectSeq(partitions, LAMBDA p : p.region = r)

RMs(r) ==
  CHOOSE q \in [1 .. Cardinality(InRegion(r)) -> InRegion(r)] :
    \A i, j \in DOMAIN q : i < j => q[i].rm < q[j].rm

AmtRM == Max({0} \cup {Cardinality(InRegion(r)) : r \in Region})

(* The first port of the kernel that goes to each streamer of the region.   *)
IoMap(superset, ports) ==
  LET To(d) == {k \in DOMAIN ports : StreamerOf(ports[k]) = d}
  IN [d \in superset |-> IF To(d) = {} THEN IDLE ELSE Min(To(d))]

KeyError == \E p \in ToSet(partitions) :
              \E n \in ToSet(p.inputs) \cup ToSet(p.outputs) : ~IsPlaced(n)
Ragged == \E r \in Region : Cardinality(InRegion(r)) \notin {0, AmtRM}

BuildRaises ==
  /\ step = "done" /\ outcome = "pending" /\ (KeyError \/ Ragged)
  /\ outcome' = IF KeyError THEN "KeyError" ELSE "ValueError"
  /\ UNCHANGED <<cal_vars, partitions, dfx_regions, rm_schemetics>>

NoPartition == [inputs |-> <<>>, outputs |-> <<>>]
RMAt(r, m) == IF m <= Cardinality(InRegion(r)) THEN RMs(r)[m] ELSE NoPartition

RegionDicts ==
  [r \in Region |-> [load_streamers  |-> LoadStreamers(r),
                     store_streamers |-> StoreStreamers(r)]]

RMDicts ==
  [r \in Region |-> [m \in 1 .. AmtRM |->
     [load_io_map  |-> IoMap(LoadStreamers(r), RMAt(r, m).inputs),
      store_io_map |-> IoMap(StoreStreamers(r), RMAt(r, m).outputs)]]]

Build ==
  /\ step = "done" /\ outcome = "pending" /\ ~KeyError /\ ~Ragged
  /\ outcome' = "built" /\ dfx_regions' = RegionDicts /\ rm_schemetics' = RMDicts
  /\ UNCHANGED <<cal_vars, partitions>>

ParamsInit ==
  /\ \E d \in Declarations : streams = d.streams /\ partitions = d.partitions
  /\ CalInit
  /\ outcome = "pending" /\ dfx_regions = <<>> /\ rm_schemetics = <<>>

ParamsNext ==
  \/ CalNext /\ UNCHANGED params
  \/ BuildRaises
  \/ Build

ParamsSpec == ParamsInit /\ [][ParamsNext]_params_vars
ParamsFairSpec == ParamsSpec /\ WF_params_vars(ParamsNext)

-----------------------------------------------------------------------------
Home(p) == rm_schemetics[p.region][1 + Cardinality({q \in InRegion(p.region) : q.rm < p.rm})]

AsScheduled == Scheduled([streams |-> streams, partitions |-> partitions])

OnStreamer(d, n) ==
  IF n = DMA THEN d = DMA_STREAMER_INDEX
  ELSE d # DMA_STREAMER_INDEX /\ n \in dfx_streamers[d].streams

(* Only ports that the kernel has are wired, each to a streamer that keeps  *)
(* its stream; and every streamer that keeps the stream of a port is wired  *)
(* to that port or to an earlier one, to that port if the declaration is    *)
(* scheduled.                                                              *)
Wired(map, ports) ==
  /\ \A d \in DOMAIN map :
       map[d] # IDLE => map[d] \in DOMAIN ports /\ OnStreamer(d, ports[map[d]])
  /\ \A k \in DOMAIN ports :
       /\ \E d \in DOMAIN map : OnStreamer(d, ports[k])
       /\ \A d \in DOMAIN map :
            OnStreamer(d, ports[k]) => map[d] \in 1 .. k /\ (AsScheduled => map[d] = k)

(* What is built lacks nothing: in the RM that a partition declares every   *)
(* port of its kernel is wired to the streamer of its stream.  IoMap looks  *)
(* for the first port only: the one kind of port left open is that whose    *)
(* streamer is wired to an earlier port of the same kernel, and there is    *)
(* none if lifetimes and uses of the streams agree (Scheduled).             *)
PortsWired ==
  outcome = "built" => \A p \in ToSet(partitions) :
    Wired(Home(p).load_io_map, p.inputs) /\ Wired(Home(p).store_io_map, p.outputs)

(* In a scheduled declaration no RM loads from the streamer it stores into: *)
(* a streamer cannot replay one stream while it takes the next.             *)
NoneBothWays ==
  outcome = "built" /\ AsScheduled => \A r \in Region : \A m \in DOMAIN rm_schemetics[r] :
    LET rm == rm_schemetics[r][m] IN
      \A d \in (DOMAIN rm.load_io_map \cap DOMAIN rm.store_io_map) \ {DMA_STREAMER_INDEX} :
        rm.load_io_map[d] = IDLE \/ rm.store_io_map[d] = IDLE

(* A streamer has one store port.  It is enough for the regions, if every   *)
(* stream is declared in the region of the partition that produces it.      *)
OneStorer ==
  outcome = "built"
  /\ (\A p \in ToSet(partitions) : \A s \in ToSet(p.outputs) \ {DMA} : streams[s].region = p.region)
    => \A r, q \in Region : r # q =>
         dfx_regions[r].store_streamers \cap dfx_regions[q].store_streamers
           \subseteq {DMA_STREAMER_INDEX}
=============================================================================
