-------------------------- MODULE MCDfxStreamerCal --------------------------
(* An instance of DfxParams: all lists of up to three declared streams of a  *)
(* few kinds, which differ in region, length and width, and for each the    *)
(* partitions that produce and read them.                                  *)
EXTENDS DfxParams

Kind(region, entries, bits) ==
  {[region |-> region, alloc_phase |-> a, free_phase |-> f, entries |-> entries, bits |-> bits] :
     a \in 0 .. (AmtPhase - 1), f \in 1 .. AmtPhase}

(* The second last kind is too long for a bank, the last stream has no phase. *)
Declared ==
  {s \in Kind(0, 2, 1) \cup Kind(0, 3, 1) \cup Kind(0, 3, 3) \cup Kind(1, 3, 1) \cup Kind(0, 8, 1) :
     s.alloc_phase < s.free_phase}
  \cup {[region |-> 0, alloc_phase |-> AmtPhase, free_phase |-> AmtPhase + 1,
         entries |-> 3, bits |-> 1]}

(* The streams a1, skip1, bneck, skip2, p3 of the two-region notebook. *)
Kept(region, alloc, free) ==
  [region |-> region, alloc_phase |-> alloc, free_phase |-> free, entries |-> 3, bits |-> 1]
NotebookStreams ==
  <<Kept(0, 0, 1), Kept(1, 0, 2), Kept(1, 1, 2), Kept(1, 1, 2), Kept(0, 2, 3)>>

MCTopologies ==
  {NotebookStreams} \cup [1 .. 0 -> Declared] \cup [1 .. 1 -> Declared] \cup [1 .. 2 -> Declared] \cup [1 .. 3 -> Declared]

(* Streams are produced in their own region or all elsewhere, read there or *)
(* in the other region; the partitions are listed first to last or last to  *)
(* first.  In the late layout, for lists of two streams, all are read in    *)
(* the last phase, also those that are freed before: that is not scheduled, *)
(* and a kernel may find two of its streams in one streamer.               *)
Layout ==
  { [away |-> FALSE, cross |-> FALSE, back |-> FALSE, late |-> FALSE],
    [away |-> FALSE, cross |-> TRUE,  back |-> TRUE,  late |-> FALSE],
    [away |-> TRUE,  cross |-> TRUE,  back |-> FALSE, late |-> FALSE],
    [away |-> FALSE, cross |-> FALSE, back |-> FALSE, late |-> TRUE] }

StoredIn(t, s, l) == IF l.away THEN 1 - t[s].region ELSE t[s].region
ReadIn(t, s, l) == IF l.cross THEN 1 - StoredIn(t, s, l) ELSE StoredIn(t, s, l)

Stores(t, l, w) == {s \in DOMAIN t : t[s].alloc_phase = w[1] /\ StoredIn(t, s, l) = w[2]}
ReadAt(t, s, l) == Max({t[s].free_phase} \cup IF l.late THEN {AmtPhase} ELSE {})
Reads(t, l, w) == {s \in DOMAIN t : ReadAt(t, s, l) = w[1] /\ ReadIn(t, s, l) = w[2]}

(* All places, by phase; those at which there is a partition. *)
Place == [i \in 1 .. 2 * (AmtPhase + 2) |-> <<(i - 1) \div 2, (i - 1) % 2>>]

Places(t, l) ==
  IF t = <<>> THEN <<Place[1]>>
  ELSE SelectSeq(Place, LAMBDA w : Stores(t, l, w) \cup Reads(t, l, w) # {})

Listed(t, S) == SelectSeq([s \in DOMAIN t |-> s], LAMBDA s : s \in S)

PartitionAt(t, l, ws, i) ==
  [ region |-> ws[i][2],
    rm |-> Cardinality({j \in 1 .. (i - 1) : ws[j][2] = ws[i][2]}),
    inputs |-> Listed(t, Reads(t, l, ws[i])) \o (IF i = 1 THEN <<DMA>> ELSE <<>>),
    outputs |-> Listed(t, Stores(t, l, ws[i])) \o (IF i = Len(ws) THEN <<DMA>> ELSE <<>>) ]

ListOf(t, l) ==
  LET ws == Places(t, l)
      ps == [i \in DOMAIN ws |-> PartitionAt(t, l, ws, i)]
  IN IF l.back THEN Reverse(ps) ELSE ps

(* The streams of a list of partitions are in its order. *)
InOrder(t, l) ==
  \A s \in 1 .. (Len(t) - 1) :
    LET a == 2 * t[s].alloc_phase + StoredIn(t, s, l)
        b == 2 * t[s + 1].alloc_phase + StoredIn(t, s + 1, l)
    IN IF l.back THEN b <= a ELSE a <= b

Part(region, rm, inputs, outputs) ==
  [region |-> region, rm |-> rm, inputs |-> inputs, outputs |-> outputs]
NotebookPartitions ==
  << Part(0, 0, <<DMA>>, <<1, 2>>), Part(1, 0, <<1>>, <<3, 4>>),
     Part(0, 1, <<3, 4>>, <<5>>),   Part(1, 1, <<5, 2>>, <<DMA>>) >>

MCDeclarations ==
  {[streams |-> c[1], partitions |-> ListOf(c[1], c[2])] :
     c \in {w \in (MCTopologies \ {NotebookStreams}) \X Layout :
              InOrder(w[1], w[2]) /\ (w[2].late => Len(w[1]) <= 2)}}
  \cup {[streams |-> NotebookStreams, partitions |-> NotebookPartitions]}
=============================================================================
