-------------------------- MODULE DfxParamsProofs --------------------------
(***************************************************************************)
(* Proofs about the wiring of streamers to regions, for any declared        *)
(* partitions and streams.                                                 *)
(***************************************************************************)
EXTENDS DfxParams, DfxStreamerCalProofs, FiniteSetTheorems

-----------------------------------------------------------------------------
(* Sorting a finite set of records by rm. *)

Sorted(q, P) ==
  /\ q \in [1 .. Cardinality(P) -> P]
  /\ \A i, j \in DOMAIN q : i < j => q[i].rm < q[j].rm

Sortable(P) ==
  /\ IsFiniteSet(P)
  /\ \A x \in P : x.rm \in Nat
  /\ \A x, y \in P : x.rm = y.rm => x = y

(* The place of a record is the number of records that are not above it.    *)
LEMMA SortExists ==
  ASSUME NEW P, Sortable(P)
  PROVE  \E q : Sorted(q, P)
<1> DEFINE n == Cardinality(P)
           upto(x) == {y \in P : y.rm <= x.rm}
           rank == [x \in P |-> Cardinality(upto(x))]
<1>1. n \in Nat /\ IsFiniteSet(P)
  BY FS_CardinalityType DEF Sortable
<1>2. ASSUME NEW x \in P
      PROVE  IsFiniteSet(upto(x)) /\ Cardinality(upto(x)) \in 1 .. n
  <2>1. upto(x) \in SUBSET P /\ x \in upto(x)
    BY DEF Sortable
  <2>2. IsFiniteSet(upto(x)) /\ Cardinality(upto(x)) <= n
    BY <1>1, <2>1, FS_Subset
  <2>3. Cardinality(upto(x)) \in Nat /\ Cardinality(upto(x)) # 0
    BY <2>1, <2>2, FS_CardinalityType, FS_EmptySet
  <2> QED
    BY <1>1, <2>2, <2>3
<1>3. ASSUME NEW x \in P, NEW y \in P, x.rm < y.rm
      PROVE  rank[x] < rank[y]
  <2>1. upto(x) \in SUBSET upto(y)
    BY <1>3 DEF Sortable
  <2>2. y \in upto(y) /\ y \notin upto(x)
    BY <1>3 DEF Sortable
  <2>3. upto(x) # upto(y)
    BY <2>2
  <2>4. IsFiniteSet(upto(y)) /\ Cardinality(upto(x)) \in 1 .. n /\ Cardinality(upto(y)) \in 1 .. n
    BY <1>2
  <2>5. rank[x] = Cardinality(upto(x)) /\ rank[y] = Cardinality(upto(y))
    OBVIOUS
  <2> HIDE DEF upto, rank
  <2>6. /\ Cardinality(upto(x)) <= Cardinality(upto(y))
        /\ Cardinality(upto(y)) = Cardinality(upto(x)) => upto(y) = upto(x)
    BY <2>1, <2>4, FS_Subset
  <2> QED
    BY <1>1, <2>3, <2>4, <2>5, <2>6
<1>4. rank \in [P -> 1 .. n]
  BY <1>2
<1> HIDE DEF rank, upto
<1>5. \A x, y \in P : rank[x] = rank[y] => x = y
  <2>1. SUFFICES ASSUME NEW x \in P, NEW y \in P, x # y
                 PROVE  rank[x] # rank[y]
    OBVIOUS
  <2>2. x.rm < y.rm \/ y.rm < x.rm
    BY <2>1 DEF Sortable
  <2>3. rank[x] < rank[y] \/ rank[y] < rank[x]
    BY <1>3, <2>2
  <2> QED
    BY <1>1, <1>4, <2>3
<1>6. \A x, y \in P : rank[x] < rank[y] => x.rm < y.rm
  <2>1. SUFFICES ASSUME NEW x \in P, NEW y \in P, rank[x] < rank[y], ~ (x.rm < y.rm)
                 PROVE  FALSE
    OBVIOUS
  <2>2. x = y \/ y.rm < x.rm
    BY <2>1 DEF Sortable
  <2>3. x = y \/ rank[y] < rank[x]
    BY <1>3, <2>2
  <2> QED
    BY <1>1, <1>4, <2>1, <2>3
<1>7. rank \in Injection(P, 1 .. n)
  BY <1>4, <1>5 DEF Injection, IsInjective
<1>8. rank \in Surjection(P, 1 .. n)
  <2>1. IsFiniteSet(1 .. n) /\ Cardinality(1 .. n) = n
    BY <1>1, FS_Interval
  <2> QED
    BY <1>7, <2>1, FS_Injection
<1>9. \A k \in 1 .. n : \E x \in P : rank[x] = k
  BY <1>8 DEF Surjection
<1> DEFINE q == [k \in 1 .. n |-> CHOOSE x \in P : rank[x] = k]
<1>10. q \in [1 .. n -> P] /\ \A k \in 1 .. n : rank[q[k]] = k
  BY <1>9
<1> HIDE DEF q
<1>11. \A i, j \in 1 .. n : i < j => q[i].rm < q[j].rm
  BY <1>6, <1>10
<1>12. Sorted(q, P)
  BY <1>10, <1>11 DEF Sorted
<1> QED
  BY <1>12

LEMMA SortedMembers ==
  ASSUME NEW P, Sortable(P), NEW q, Sorted(q, P)
  PROVE  /\ Cardinality(P) \in Nat
         /\ \A i, j \in 1 .. Cardinality(P) : q[i].rm < q[j].rm => i < j
         /\ \A x \in P : \E k \in 1 .. Cardinality(P) : q[k] = x
         /\ \A k \in 1 .. Cardinality(P) :
              k = 1 + Cardinality({x \in P : x.rm < q[k].rm})
<1> DEFINE n == Cardinality(P)
<1>1. n \in Nat /\ IsFiniteSet(P)
  BY FS_CardinalityType DEF Sortable
<1>2. /\ q \in [1 .. n -> P] /\ \A i, j \in 1 .. n : i < j => q[i].rm < q[j].rm
      /\ \A k \in 1 .. n : q[k].rm \in Nat
  BY DEF Sorted, Sortable
<1> HIDE DEF n
<1>3. \A i, j \in 1 .. n : q[i].rm < q[j].rm => i < j
  <2>1. \A i, j \in 1 .. n : i < j \/ i = j \/ j < i
    BY <1>1
  <2> QED
    BY <1>2, <2>1
<1>4. \A i, j \in 1 .. n : q[i] = q[j] => i = j
  <2>1. \A i, j \in 1 .. n : i < j \/ i = j \/ j < i
    BY <1>1
  <2> QED
    BY <1>2, <2>1
<1>5. q \in Injection(1 .. n, P)
  BY <1>2, <1>4 DEF Injection, IsInjective
<1>6. q \in Surjection(1 .. n, P)
  <2>1. IsFiniteSet(1 .. n) /\ Cardinality(1 .. n) = n
    BY <1>1, FS_Interval
  <2> QED
    BY <1>1, <1>5, <2>1, FS_Injection DEF n
<1>7. \A x \in P : \E k \in 1 .. n : q[k] = x
  BY <1>6 DEF Surjection
<1>8. ASSUME NEW k \in 1 .. n
      PROVE  k = 1 + Cardinality({x \in P : x.rm < q[k].rm})
  <2> DEFINE B == {x \in P : x.rm < q[k].rm}
             f == [i \in 1 .. (k - 1) |-> q[i]]
  <2>1. k - 1 \in Nat /\ \A i \in 1 .. (k - 1) : i \in 1 .. n /\ i < k
    BY <1>1
  <2>2. f \in [1 .. (k - 1) -> B]
    BY <1>2, <2>1
  <2>3. \A x \in B : \E i \in 1 .. (k - 1) : f[i] = x
    <3>1. SUFFICES ASSUME NEW x \in B PROVE \E i \in 1 .. (k - 1) : f[i] = x
      OBVIOUS
    <3>2. PICK i \in 1 .. n : q[i] = x
      BY <1>7
    <3>3. i < k
      BY <1>3, <3>2
    <3>4. i \in 1 .. (k - 1)
      BY <1>1, <3>3
    <3> QED
      BY <3>2, <3>4
  <2>4. \A i, j \in 1 .. (k - 1) : f[i] = f[j] => i = j
    BY <1>4, <2>1
  <2> HIDE DEF f, B
  <2>5. f \in Bijection(1 .. (k - 1), B)
    BY <2>2, <2>3, <2>4 DEF Bijection, Injection, Surjection, IsInjective
  <2>6. Cardinality(B) = k - 1
    BY <2>1, <2>5, FS_CountingElements DEF ExistsBijection
  <2> QED
    BY <2>1, <2>6 DEF B
<1> QED
  BY <1>1, <1>3, <1>7, <1>8 DEF n

-----------------------------------------------------------------------------
(* The inductive invariant: the arguments are a declaration, and what was    *)
(* built is what the streamers and partitions say.                         *)

Wiring ==
  /\ \E d \in Declarations : streams = d.streams /\ partitions = d.partitions
  /\ outcome # "pending" => step = "done"
  /\ outcome = "built" => /\ ~KeyError /\ ~Ragged
                          /\ dfx_regions = RegionDicts /\ rm_schemetics = RMDicts

ParamsInvariant == CalInvariant /\ Placement /\ Wiring

LEMMA ParamsInitInvariant == ParamsInit => ParamsInvariant
<1> SUFFICES ASSUME ParamsInit PROVE ParamsInvariant
  OBVIOUS
<1>1. CalInvariant /\ Placement
  BY CalInitInvariant, PlacementInit DEF ParamsInit
<1>2. Wiring
  BY DEF ParamsInit, Wiring
<1> QED
  BY <1>1, <1>2 DEF ParamsInvariant

(* Nothing moves after the end.                                             *)
LEMMA DoneStays ==
  ASSUME Wiring, outcome # "pending", [ParamsNext]_params_vars
  PROVE  UNCHANGED params_vars
<1>1. step = "done"
  BY DEF Wiring
<1>2. ~ CalNext
  BY <1>1 DEF CalNext, Check, Reuse, Create, Release, EndPhase, Grow, Stop
<1>3. ~ Build /\ ~ BuildRaises
  BY DEF Build, BuildRaises
<1> QED
  BY <1>2, <1>3 DEF ParamsNext

LEMMA ParamsNextInvariant == ParamsInvariant /\ [ParamsNext]_params_vars => ParamsInvariant'
<1> SUFFICES ASSUME ParamsInvariant, [ParamsNext]_params_vars
             PROVE  ParamsInvariant'
  OBVIOUS
<1>1. CalInvariant /\ Placement /\ Wiring
  BY DEF ParamsInvariant
<1>2. [CalNext]_cal_vars
  BY DEF ParamsNext, params_vars, Build, BuildRaises
<1>3. CalInvariant' /\ Placement'
  BY <1>1, <1>2, CalNextInvariant, PlacementNext
<1>4. streams' = streams /\ partitions' = partitions
  <2>1. streams' = streams
    BY <1>2 DEF cal_vars, CalNext, Check, Reuse, Create, Release, EndPhase, Grow, Stop
  <2>2. partitions' = partitions
    BY DEF ParamsNext, params_vars, params, Build, BuildRaises
  <2> QED
    BY <2>1, <2>2
<1>5. outcome' # "pending" => step' = "done"
  <2>1. CASE outcome # "pending"
    BY <1>1, <2>1, DoneStays DEF params_vars, params, cal_vars, Wiring
  <2>2. CASE outcome = "pending"
    BY <2>2 DEF ParamsNext, params_vars, params, cal_vars, Build, BuildRaises
  <2> QED
    BY <2>1, <2>2
<1>6. ASSUME outcome' = "built"
      PROVE  (~KeyError /\ ~Ragged /\ dfx_regions = RegionDicts /\ rm_schemetics = RMDicts)'
  <2>1. /\ ~KeyError /\ ~Ragged /\ dfx_regions' = RegionDicts /\ rm_schemetics' = RMDicts
        /\ UNCHANGED <<cal_vars, partitions>>
    <3>1. CASE outcome # "pending"
      BY <1>1, <1>6, <3>1, DoneStays DEF params_vars, params, Wiring
    <3>2. CASE outcome = "pending"
      BY <1>6, <3>2 DEF ParamsNext, params_vars, params, Build, BuildRaises
    <3> QED
      BY <3>1, <3>2
  <2>2. dfx_streamers' = dfx_streamers /\ partitions' = partitions
    BY <2>1 DEF cal_vars
  <2>3. /\ \A n : StreamerOf(n)' = StreamerOf(n) /\ (IsPlaced(n)' <=> IsPlaced(n))
        /\ \A r : InRegion(r)' = InRegion(r)
    BY <2>2 DEF StreamerOf, IsPlaced, Streamer, InRegion, ToSet
  <2>4. /\ \A r : LoadStreamers(r)' = LoadStreamers(r) /\ StoreStreamers(r)' = StoreStreamers(r)
        /\ \A r, k : RMAt(r, k)' = RMAt(r, k)
        /\ \A superset, ports : IoMap(superset, ports)' = IoMap(superset, ports)
        /\ AmtRM' = AmtRM
    <3>1. \A r : LoadStreamers(r)' = LoadStreamers(r) /\ StoreStreamers(r)' = StoreStreamers(r)
      BY <2>3, Zenon DEF LoadStreamers, StoreStreamers
    <3>2. \A r : RMs(r)' = RMs(r)
      BY <2>3, Zenon DEF RMs
    <3>3. \A r, k : RMAt(r, k)' = RMAt(r, k)
      BY <2>3, <3>2, Zenon DEF RMAt
    <3>4. ASSUME NEW superset, NEW ports
          PROVE  IoMap(superset, ports)' = IoMap(superset, ports)
      BY <2>3 DEF IoMap
    <3>5. AmtRM' = AmtRM
      BY <2>3, Zenon DEF AmtRM
    <3> QED
      BY <3>1, <3>3, <3>4, <3>5
  <2>5. (KeyError' <=> KeyError) /\ (Ragged' <=> Ragged)
    BY <2>2, <2>3, <2>4 DEF KeyError, Ragged, ToSet
  <2>6. RegionDicts' = RegionDicts /\ RMDicts' = RMDicts
    BY <2>4 DEF RegionDicts, RMDicts
  <2> QED
    BY <2>1, <2>5, <2>6
<1>7. Wiring'
  <2>1. (\E d \in Declarations : streams = d.streams /\ partitions = d.partitions)'
    BY <1>1, <1>4 DEF Wiring
  <2> QED
    BY <1>5, <1>6, <2>1 DEF Wiring
<1> QED
  BY <1>3, <1>7 DEF ParamsInvariant

THEOREM ParamsInvariantHolds == ParamsSpec => []ParamsInvariant
<1> QED
  BY ParamsInitInvariant, ParamsNextInvariant, PTL DEF ParamsSpec

-----------------------------------------------------------------------------
(* Where a name leads to.                                                   *)

LEMMA Resolve ==
  ASSUME CalInvariant, Placement, NEW n, IsPlaced(n)
  PROVE  /\ DMA_STREAMER_INDEX \notin Streamer
         /\ n = DMA => StreamerOf(n) = DMA_STREAMER_INDEX
         /\ n # DMA => /\ n \in DOMAIN streams /\ StreamerOf(n) \in Streamer
                       /\ \A d \in Streamer : n \in dfx_streamers[d].streams <=> d = StreamerOf(n)
<1>1. CalTypeOK
  BY DEF CalInvariant
<1>2. DMA_STREAMER_INDEX \notin Streamer
  BY <1>1, PoolMembers DEF DMA_STREAMER_INDEX
<1>3. CASE n # DMA
  <2>1. PICK d \in Streamer : n \in dfx_streamers[d].streams
    BY <1>3 DEF IsPlaced
  <2>2. n \in DOMAIN streams
    BY <1>1, <2>1, PhasesTyped
  <2>3. StreamerOf(n) \in Streamer /\ n \in dfx_streamers[StreamerOf(n)].streams
    BY <1>3, <2>1 DEF StreamerOf
  <2>4. \A c, e \in Streamer :
          n \in dfx_streamers[c].streams /\ n \in dfx_streamers[e].streams => c = e
    BY <2>2 DEF Placement
  <2> QED
    BY <1>2, <1>3, <2>2, <2>3, <2>4
<1>4. CASE n = DMA
  BY <1>2, <1>4 DEF StreamerOf
<1> QED
  BY <1>3, <1>4

LEMMA Disjoint ==
  ASSUME NEW a \in Nat, NEW b \in Nat, NEW c \in Nat, NEW d \in Nat,
         a < b, c < d, (a .. b) \cap (c .. d) = {}
  PROVE  b < c \/ d < a
<1>1. CASE a <= c
  <2>1. c \in c .. d /\ c \notin a .. b
    OBVIOUS
  <2> QED
    BY <1>1, <2>1
<1>2. CASE c < a
  <2>1. a \in a .. b /\ a \notin c .. d
    OBVIOUS
  <2> QED
    BY <1>2, <2>1
<1> QED
  BY <1>1, <1>2

(* What a partition works with in its phase is kept apart, if the           *)
(* declaration is scheduled.                                               *)
LEMMA KeptApart ==
  ASSUME CalInvariant, Placement, Wiring, ~KeyError, AsScheduled,
         NEW p \in ToSet(partitions),
         NEW n \in ToSet(p.inputs) \cup ToSet(p.outputs),
         NEW k \in ToSet(p.inputs) \cup ToSet(p.outputs),
         n # DMA, StreamerOf(n) = StreamerOf(k)
  PROVE  n = k /\ ~ (n \in ToSet(p.inputs) /\ k \in ToSet(p.outputs))
<1>1. IsPlaced(n) /\ IsPlaced(k)
  BY DEF KeyError
<1>2. /\ n \in DOMAIN streams /\ StreamerOf(n) \in Streamer
      /\ n \in dfx_streamers[StreamerOf(n)].streams
  BY <1>1, Resolve
<1>3. k # DMA
  BY <1>1, <1>2, Resolve
<1>4. k \in DOMAIN streams /\ k \in dfx_streamers[StreamerOf(n)].streams
  BY <1>1, <1>3, Resolve
<1>5. n # k => Live(n) \cap Live(k) = {}
  BY <1>2, <1>4 DEF CalInvariant, StreamsApart
<1> DEFINE d == [streams |-> streams, partitions |-> partitions]
<1>6. d.streams = streams /\ d.partitions = partitions
  OBVIOUS
<1>7. PICK f \in Phases(d) : WorksIn(d, p, f)
  BY <1>6 DEF AsScheduled, Scheduled
<1> HIDE DEF d
<1>8. /\ streams \in Seq(Stream) /\ streams[n] \in Stream /\ streams[k] \in Stream
      /\ streams[n].alloc_phase < streams[n].free_phase
      /\ streams[k].alloc_phase < streams[k].free_phase
  BY <1>2, <1>4 DEF CalInvariant, CalTypeOK
<1>9. /\ streams[n].alloc_phase \in Nat /\ streams[n].free_phase \in Nat
      /\ streams[k].alloc_phase \in Nat /\ streams[k].free_phase \in Nat
  BY <1>8 DEF Stream
<1>10. f \in Nat
  <2>1. \A s \in ToSet(streams) : s.alloc_phase \in Nat /\ s.free_phase \in Nat
    <3>1. \A s \in ToSet(streams) : s \in Stream
      BY <1>8 DEF ToSet
    <3> QED
      BY <3>1 DEF Stream
  <2> QED
    BY <1>6, <1>7, <2>1 DEF Phases
<1>11. streams[n] \in ToSet(streams) /\ streams[k] \in ToSet(streams)
  BY <1>2, <1>4, <1>8 DEF ToSet
<1> DEFINE Stored(s) == s \in ToSet(p.outputs) /\ streams[s].alloc_phase = f
           Read(s) == /\ s \in ToSet(p.inputs) /\ streams[s].alloc_phase < f
                      /\ \A t \in {n, k} :
                           ~ (streams[s].free_phase < streams[t].alloc_phase
                                /\ streams[t].alloc_phase <= f)
<1>12. \A s \in {n, k} : /\ s \in ToSet(p.inputs) => Read(s)
                         /\ s \in ToSet(p.outputs) => Stored(s)
  BY <1>3, <1>6, <1>7, <1>11 DEF WorksIn
<1>13. n = k \/ streams[n].free_phase < streams[k].alloc_phase
             \/ streams[k].free_phase < streams[n].alloc_phase
  BY <1>5, <1>8, <1>9, Disjoint DEF Live
<1>14. n = k
  BY <1>8, <1>9, <1>10, <1>12, <1>13
<1>15. ~ (n \in ToSet(p.inputs) /\ k \in ToSet(p.outputs))
  BY <1>9, <1>10, <1>12, <1>14
<1> QED
  BY <1>14, <1>15

-----------------------------------------------------------------------------
(* The map of one RM: for each streamer of the region, the first port that  *)
(* goes there.                                                             *)

Maps(map, superset, ports) ==
  /\ DOMAIN map = superset
  /\ \A d \in superset : map[d] # IDLE =>
       map[d] \in DOMAIN ports /\ StreamerOf(ports[map[d]]) = d
  /\ \A k \in DOMAIN ports :
       StreamerOf(ports[k]) \in superset /\ map[StreamerOf(ports[k])] \in 1 .. k

LEMMA MapsPorts ==
  ASSUME NEW ports, NEW superset, ports \in Seq(Nat),
         \A k \in DOMAIN ports : StreamerOf(ports[k]) \in superset
  PROVE  Maps(IoMap(superset, ports), superset, ports)
<1> DEFINE map == IoMap(superset, ports)
           To(d) == {k \in DOMAIN ports : StreamerOf(ports[k]) = d}
<1>1. /\ DOMAIN ports \subseteq Nat \ {0} /\ DOMAIN map = superset
      /\ \A d \in superset : map[d] = IF To(d) = {} THEN IDLE ELSE Min(To(d))
  BY DEF IoMap
<1>2. ASSUME NEW d \in superset, To(d) # {}
      PROVE  map[d] \in To(d) /\ \A k \in To(d) : map[d] <= k
  <2>1. To(d) \in SUBSET Nat
    BY <1>1
  <2>2. Min(To(d)) \in To(d) /\ \A k \in To(d) : Min(To(d)) <= k
    BY <1>2, <2>1, MinOfNats
  <2> QED
    BY <1>1, <1>2, <2>2
<1> HIDE DEF map
<1>3. \A d \in superset : map[d] # IDLE =>
        map[d] \in DOMAIN ports /\ StreamerOf(ports[map[d]]) = d
  BY <1>1, <1>2
<1>4. ASSUME NEW k \in DOMAIN ports
      PROVE  StreamerOf(ports[k]) \in superset /\ map[StreamerOf(ports[k])] \in 1 .. k
  <2> DEFINE d == StreamerOf(ports[k])
  <2>1. d \in superset /\ k \in To(d)
    OBVIOUS
  <2> HIDE DEF d
  <2>2. map[d] \in To(d) /\ map[d] <= k
    BY <1>2, <2>1
  <2>3. map[d] \in Nat \ {0} /\ k \in Nat
    BY <1>1, <2>2
  <2>4. map[d] \in 1 .. k
    BY <2>2, <2>3
  <2> QED
    BY <2>1, <2>4 DEF d
<1> QED
  BY <1>1, <1>3, <1>4 DEF map, Maps

LEMMA PartitionTyped ==
  ASSUME Wiring, NEW p \in ToSet(partitions)
  PROVE  p \in Partition
<1>1. partitions \in Seq(Partition)
  BY ParamsAssumption DEF Wiring
<1> QED
  BY <1>1 DEF ToSet

LEMMA PortsApart ==
  ASSUME CalInvariant, Placement, Wiring, ~KeyError, AsScheduled, NEW p \in ToSet(partitions)
  PROVE  /\ \A k, l \in DOMAIN p.inputs :
              StreamerOf(p.inputs[k]) = StreamerOf(p.inputs[l]) => k = l
         /\ \A k, l \in DOMAIN p.outputs :
              StreamerOf(p.outputs[k]) = StreamerOf(p.outputs[l]) => k = l
<1>1. IsInjective(p.inputs) /\ IsInjective(p.outputs)
  BY DEF AsScheduled, Scheduled
<1>3. \A n, k \in ToSet(p.inputs) : StreamerOf(n) = StreamerOf(k) => n = k
  <2>1. SUFFICES ASSUME NEW n \in ToSet(p.inputs), NEW k \in ToSet(p.inputs),
                        StreamerOf(n) = StreamerOf(k)
                 PROVE  n = k
    OBVIOUS
  <2>2. CASE n # DMA
    BY <2>1, <2>2, KeptApart
  <2>3. CASE k # DMA
    BY <2>1, <2>3, KeptApart
  <2> QED
    BY <2>2, <2>3
<1>4. \A n, k \in ToSet(p.outputs) : StreamerOf(n) = StreamerOf(k) => n = k
  <2>1. SUFFICES ASSUME NEW n \in ToSet(p.outputs), NEW k \in ToSet(p.outputs),
                        StreamerOf(n) = StreamerOf(k)
                 PROVE  n = k
    OBVIOUS
  <2>2. CASE n # DMA
    BY <2>1, <2>2, KeptApart
  <2>3. CASE k # DMA
    BY <2>1, <2>3, KeptApart
  <2> QED
    BY <2>2, <2>3
<1> QED
  BY <1>1, <1>3, <1>4 DEF ToSet, IsInjective

(* RM m of a region, if there is one, is a partition of the region.         *)
LEMMA RegionSorted ==
  ASSUME Wiring, NEW r
  PROVE  Sortable(InRegion(r)) /\ Sorted(RMs(r), InRegion(r))
<1>1. PICK d \in Declarations : streams = d.streams /\ partitions = d.partitions
  BY DEF Wiring
<1>2. partitions \in Seq(Partition) /\ RMsApart(d)
  BY <1>1, ParamsAssumption
<1>3. IsFiniteSet(InRegion(r))
  <2>1. partitions \in Surjection(DOMAIN partitions, ToSet(partitions))
    BY <1>2 DEF Surjection, ToSet
  <2>2. IsFiniteSet(DOMAIN partitions)
    <3>1. DOMAIN partitions = 1 .. Len(partitions) /\ Len(partitions) \in Nat
      BY <1>2
    <3> QED
      BY <3>1, FS_Interval
  <2>3. IsFiniteSet(ToSet(partitions))
    BY <2>1, <2>2, FS_Surjection
  <2>4. InRegion(r) \in SUBSET ToSet(partitions)
    BY DEF InRegion
  <2> QED
    BY <2>3, <2>4, FS_Subset
<1>4. \A x \in InRegion(r) : x.rm \in Nat
  <2>1. \A x \in InRegion(r) : x \in Partition
    BY <1>2 DEF InRegion, ToSet
  <2> QED
    BY <2>1 DEF Partition
<1>5. \A x, y \in InRegion(r) : x.rm = y.rm => x = y
  BY <1>1, <1>2 DEF InRegion, ToSet, RMsApart
<1>6. Sortable(InRegion(r))
  BY <1>3, <1>4, <1>5 DEF Sortable
<1>7. Sorted(RMs(r), InRegion(r))
  <2>1. \E q : Sorted(q, InRegion(r))
    BY <1>6, SortExists
  <2> QED
    BY <2>1 DEF Sorted, RMs
<1> QED
  BY <1>6, <1>7

-----------------------------------------------------------------------------
(* What is built. *)

(* The maps of a partition, wherever it is.                                 *)
LEMMA PartitionMapped ==
  ASSUME ParamsInvariant, outcome = "built", NEW p \in ToSet(partitions)
  PROVE  /\ Maps(IoMap(LoadStreamers(p.region), p.inputs), LoadStreamers(p.region), p.inputs)
         /\ Maps(IoMap(StoreStreamers(p.region), p.outputs), StoreStreamers(p.region), p.outputs)
<1>1. CalInvariant /\ Placement /\ Wiring /\ ~KeyError
  BY DEF ParamsInvariant, Wiring
<1>2. p \in Partition
  BY <1>1, PartitionTyped
<1>3. p.inputs \in Seq(Nat) /\ p.outputs \in Seq(Nat)
  BY <1>2 DEF Partition
<1>4. p \in InRegion(p.region)
  BY DEF InRegion
<1>5. \A k \in DOMAIN p.inputs : StreamerOf(p.inputs[k]) \in LoadStreamers(p.region)
  <2>1. \A k \in DOMAIN p.inputs : p.inputs[k] \in ToSet(p.inputs)
    BY DEF ToSet
  <2> QED
    BY <1>4, <2>1 DEF LoadStreamers
<1>6. \A k \in DOMAIN p.outputs : StreamerOf(p.outputs[k]) \in StoreStreamers(p.region)
  <2>1. \A k \in DOMAIN p.outputs : p.outputs[k] \in ToSet(p.outputs)
    BY DEF ToSet
  <2> QED
    BY <1>4, <2>1 DEF StoreStreamers
<1> QED
  BY <1>3, <1>5, <1>6, MapsPorts

(* The RM of a partition is where Home looks for it.                        *)
LEMMA HomeFound ==
  ASSUME ParamsInvariant, outcome = "built", NEW p \in ToSet(partitions)
  PROVE  Home(p) = [load_io_map  |-> IoMap(LoadStreamers(p.region), p.inputs),
                    store_io_map |-> IoMap(StoreStreamers(p.region), p.outputs)]
<1>1. /\ CalInvariant /\ Placement /\ Wiring /\ ~KeyError /\ ~Ragged /\ rm_schemetics = RMDicts
  BY DEF ParamsInvariant, Wiring
<1> DEFINE r == p.region
           n == Cardinality(InRegion(r))
           k == 1 + Cardinality({q \in InRegion(r) : q.rm < p.rm})
<1>2. p.region \in Region /\ p \in InRegion(r)
  <2>1. p \in Partition
    BY <1>1, PartitionTyped
  <2> QED
    BY <2>1 DEF Partition, InRegion
<1>3. Sortable(InRegion(r)) /\ Sorted(RMs(r), InRegion(r))
  BY <1>1, RegionSorted
<1>4. /\ n \in Nat
      /\ \A x \in InRegion(r) : \E i \in 1 .. n : RMs(r)[i] = x
      /\ \A i \in 1 .. n : i = 1 + Cardinality({x \in InRegion(r) : x.rm < RMs(r)[i].rm})
  BY <1>3, SortedMembers
<1>5. k \in 1 .. n /\ RMs(r)[k] = p
  BY <1>2, <1>4
<1>6. n = AmtRM
  <2>1. n # 0
    BY <1>4, <1>5
  <2> QED
    BY <1>1, <1>2, <2>1 DEF Ragged
<1>7. k <= n /\ k \in 1 .. AmtRM
  BY <1>4, <1>5, <1>6
<1>8. Home(p) = RMDicts[r][k]
  BY <1>1 DEF Home
<1> HIDE DEF r, k, n
<1>9. RMAt(r, k) = p
  BY <1>5, <1>7 DEF RMAt, n
<1>10. r \in Region
  BY <1>2 DEF r
<1>11. RMDicts[r][k] = [load_io_map  |-> IoMap(LoadStreamers(r), p.inputs),
                        store_io_map |-> IoMap(StoreStreamers(r), p.outputs)]
  BY <1>7, <1>9, <1>10 DEF RMDicts
<1> QED
  BY <1>8, <1>11 DEF r

LEMMA MapWires ==
  ASSUME NEW map, NEW superset, NEW ports, Maps(map, superset, ports), ports \in Seq(Nat),
         \A k \in DOMAIN ports, d \in superset : OnStreamer(d, ports[k]) <=> d = StreamerOf(ports[k]),
         AsScheduled => \A k, l \in DOMAIN ports : StreamerOf(ports[k]) = StreamerOf(ports[l]) => k = l
  PROVE  Wired(map, ports)
<1>1. \A d \in DOMAIN map :
        map[d] # IDLE => map[d] \in DOMAIN ports /\ OnStreamer(d, ports[map[d]])
  BY DEF Maps
<1>2. ASSUME NEW k \in DOMAIN ports
      PROVE  /\ \E d \in DOMAIN map : OnStreamer(d, ports[k])
             /\ \A d \in DOMAIN map :
                  OnStreamer(d, ports[k]) => map[d] \in 1 .. k /\ (AsScheduled => map[d] = k)
  <2> DEFINE e == StreamerOf(ports[k])
  <2>1. e \in DOMAIN map /\ e \in superset /\ map[e] \in 1 .. k
    BY DEF Maps
  <2>2. OnStreamer(e, ports[k]) /\ \A d \in DOMAIN map : OnStreamer(d, ports[k]) => d = e
    BY <2>1 DEF Maps
  <2>3. ASSUME AsScheduled PROVE map[e] = k
    <3>1. map[e] # IDLE
      BY <2>1 DEF IDLE
    <3>2. map[e] \in DOMAIN ports /\ StreamerOf(ports[map[e]]) = StreamerOf(ports[k])
      BY <2>1, <3>1 DEF Maps
    <3> QED
      BY <2>3, <3>2
  <2> HIDE DEF e
  <2> QED
    BY <2>1, <2>2, <2>3
<1> QED
  BY <1>1, <1>2 DEF Wired

LEMMA AllPortsWired == ParamsInvariant => PortsWired
<1> SUFFICES ASSUME ParamsInvariant, outcome = "built", NEW p \in ToSet(partitions)
             PROVE  Wired(Home(p).load_io_map, p.inputs) /\ Wired(Home(p).store_io_map, p.outputs)
  BY DEF PortsWired
<1>1. CalInvariant /\ Placement /\ Wiring /\ ~KeyError
  BY DEF ParamsInvariant, Wiring
<1> DEFINE load == IoMap(LoadStreamers(p.region), p.inputs)
           store == IoMap(StoreStreamers(p.region), p.outputs)
<1>2. Home(p).load_io_map = load /\ Home(p).store_io_map = store
  BY HomeFound
<1>3. \A q \in ToSet(partitions) : \A n \in ToSet(q.inputs) \cup ToSet(q.outputs) : IsPlaced(n)
  BY <1>1 DEF KeyError
<1>4. \A q \in ToSet(partitions) : \A n \in ToSet(q.inputs) \cup ToSet(q.outputs) :
        StreamerOf(n) \in Streamer \cup {0}
  BY <1>1, <1>3, Resolve DEF DMA_STREAMER_INDEX
<1>5. \A d \in LoadStreamers(p.region) \cup StoreStreamers(p.region) : d \in Streamer \cup {0}
  BY <1>4 DEF LoadStreamers, StoreStreamers, InRegion
<1>6. ASSUME NEW n \in ToSet(p.inputs) \cup ToSet(p.outputs), NEW d \in Streamer \cup {0}
      PROVE  OnStreamer(d, n) <=> d = StreamerOf(n)
  <2>1. IsPlaced(n)
    BY <1>3
  <2> QED
    BY <1>1, <1>6, <2>1, Resolve DEF OnStreamer, DMA_STREAMER_INDEX
<1>7. /\ \A k \in DOMAIN p.inputs : p.inputs[k] \in ToSet(p.inputs)
      /\ \A k \in DOMAIN p.outputs : p.outputs[k] \in ToSet(p.outputs)
  BY DEF ToSet
<1>8. /\ Maps(load, LoadStreamers(p.region), p.inputs)
      /\ Maps(store, StoreStreamers(p.region), p.outputs)
  BY PartitionMapped
<1>9. p.inputs \in Seq(Nat) /\ p.outputs \in Seq(Nat)
  BY <1>1, PartitionTyped DEF Partition
<1> HIDE DEF load, store
<1>10. Wired(load, p.inputs)
  <2>1. \A k \in DOMAIN p.inputs, d \in LoadStreamers(p.region) :
          OnStreamer(d, p.inputs[k]) <=> d = StreamerOf(p.inputs[k])
    BY <1>5, <1>6, <1>7
  <2>2. AsScheduled => \A k, l \in DOMAIN p.inputs :
                         StreamerOf(p.inputs[k]) = StreamerOf(p.inputs[l]) => k = l
    BY <1>1, PortsApart
  <2> QED
    BY <1>8, <1>9, <2>1, <2>2, MapWires
<1>11. Wired(store, p.outputs)
  <2>1. \A k \in DOMAIN p.outputs, d \in StoreStreamers(p.region) :
          OnStreamer(d, p.outputs[k]) <=> d = StreamerOf(p.outputs[k])
    BY <1>5, <1>6, <1>7
  <2>2. AsScheduled => \A k, l \in DOMAIN p.outputs :
                         StreamerOf(p.outputs[k]) = StreamerOf(p.outputs[l]) => k = l
    BY <1>1, PortsApart
  <2> QED
    BY <1>8, <1>9, <2>1, <2>2, MapWires
<1> QED
  BY <1>2, <1>10, <1>11

LEMMA NoneLoadsAndStores == ParamsInvariant => NoneBothWays
<1> SUFFICES ASSUME ParamsInvariant, outcome = "built", AsScheduled,
                    NEW r \in Region, NEW m \in DOMAIN rm_schemetics[r],
                    NEW d \in DOMAIN rm_schemetics[r][m].load_io_map,
                    d \in DOMAIN rm_schemetics[r][m].store_io_map, d # DMA_STREAMER_INDEX,
                    rm_schemetics[r][m].load_io_map[d] # IDLE,
                    rm_schemetics[r][m].store_io_map[d] # IDLE
             PROVE  FALSE
  BY DEF NoneBothWays
<1>1. CalInvariant /\ Placement /\ Wiring /\ ~KeyError /\ rm_schemetics = RMDicts
  BY DEF ParamsInvariant, Wiring
<1>2. m \in 1 .. AmtRM
  BY <1>1 DEF RMDicts
<1> DEFINE load == IoMap(LoadStreamers(r), RMAt(r, m).inputs)
           store == IoMap(StoreStreamers(r), RMAt(r, m).outputs)
<1>3. rm_schemetics[r][m] = [load_io_map |-> load, store_io_map |-> store]
  BY <1>1, <1>2 DEF RMDicts
<1>4. d \in DOMAIN load /\ d \in DOMAIN store /\ load[d] # IDLE /\ store[d] # IDLE
  BY <1>3
<1>5. CASE m <= Cardinality(InRegion(r))
  <2> DEFINE p == RMs(r)[m]
  <2>1. p \in InRegion(r)
    <3>1. Sorted(RMs(r), InRegion(r)) /\ Cardinality(InRegion(r)) \in Nat
      BY <1>1, RegionSorted, SortedMembers
    <3>2. m \in 1 .. Cardinality(InRegion(r))
      BY <1>2, <1>5, <3>1
    <3> QED
      BY <3>1, <3>2 DEF Sorted
  <2>2. p \in ToSet(partitions) /\ p.region = r
    BY <2>1 DEF InRegion
  <2>3. RMAt(r, m) = p
    BY <1>5 DEF RMAt
  <2> HIDE DEF p
  <2>4. /\ Maps(load, LoadStreamers(r), p.inputs)
        /\ Maps(store, StoreStreamers(r), p.outputs)
    BY <2>2, <2>3, PartitionMapped
  <2>5. /\ load[d] \in DOMAIN p.inputs /\ StreamerOf(p.inputs[load[d]]) = d
        /\ store[d] \in DOMAIN p.outputs /\ StreamerOf(p.outputs[store[d]]) = d
    BY <1>4, <2>4 DEF Maps
  <2> DEFINE n == p.inputs[load[d]]
             k == p.outputs[store[d]]
  <2>6. n \in ToSet(p.inputs) /\ k \in ToSet(p.outputs) /\ StreamerOf(n) = StreamerOf(k)
    BY <2>5 DEF ToSet
  <2>7. n # DMA
    BY <2>5 DEF StreamerOf
  <2> HIDE DEF n, k
  <2> QED
    BY <1>1, <2>2, <2>6, <2>7, KeptApart
<1>6. CASE ~ (m <= Cardinality(InRegion(r)))
  <2>1. RMAt(r, m).inputs = <<>>
    BY <1>6 DEF RMAt, NoPartition
  <2>2. load[d] = IDLE
    BY <1>4, <2>1 DEF IoMap
  <2> QED
    BY <1>4, <2>2
<1> QED
  BY <1>5, <1>6

LEMMA RegionsStoreApart == ParamsInvariant => OneStorer
<1> SUFFICES ASSUME ParamsInvariant, outcome = "built",
                    \A p \in ToSet(partitions) : \A s \in ToSet(p.outputs) \ {DMA} :
                      streams[s].region = p.region,
                    NEW r \in Region, NEW q \in Region,
                    NEW d \in dfx_regions[r].store_streamers \cap dfx_regions[q].store_streamers,
                    d # DMA_STREAMER_INDEX
             PROVE  r = q
  BY DEF OneStorer
<1>1. CalInvariant /\ Placement /\ Wiring /\ ~KeyError /\ dfx_regions = RegionDicts
  BY DEF ParamsInvariant, Wiring
<1>2. d \in StoreStreamers(r) /\ d \in StoreStreamers(q)
  BY <1>1 DEF RegionDicts
<1>3. ASSUME NEW x \in Region, d \in StoreStreamers(x)
      PROVE  dfx_streamers[d].region = x
  <2>1. PICK p \in InRegion(x) : \E n \in ToSet(p.outputs) : d = StreamerOf(n)
    BY <1>3 DEF StoreStreamers
  <2>2. PICK n \in ToSet(p.outputs) : d = StreamerOf(n)
    BY <2>1
  <2>3. p \in ToSet(partitions) /\ p.region = x
    BY DEF InRegion
  <2>4. n # DMA
    BY <2>2 DEF StreamerOf
  <2>5. IsPlaced(n)
    BY <1>1, <2>3 DEF KeyError
  <2>6. d \in Streamer /\ n \in dfx_streamers[d].streams
    BY <1>1, <2>2, <2>4, <2>5, Resolve
  <2> QED
    BY <1>1, <2>3, <2>4, <2>6 DEF Placement
<1> QED
  BY <1>2, <1>3

(* Every port of every kernel is wired to the streamer of its stream, but    *)
(* for ports whose streamer is wired to an earlier port of the same kernel; *)
(* in a scheduled declaration there are none of those.                      *)
THEOREM EveryPortIsWired == ParamsSpec => []PortsWired
<1> QED
  BY ParamsInvariantHolds, AllPortsWired, PTL

(* In a scheduled declaration no RM loads from the streamer it stores into. *)
THEOREM NoStreamerBothWays == ParamsSpec => []NoneBothWays
<1> QED
  BY ParamsInvariantHolds, NoneLoadsAndStores, PTL

(* No streamer is stored into from two regions, if every stream is declared *)
(* in the region that produces it.                                         *)
THEOREM StorersAreApart == ParamsSpec => []OneStorer
<1> QED
  BY ParamsInvariantHolds, RegionsStoreApart, PTL
=============================================================================
