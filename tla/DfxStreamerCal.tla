--------------------------- MODULE DfxStreamerCal ---------------------------
(***************************************************************************)
(* Which streamer keeps which stream between the phases of a run, and how   *)
(* many banks each streamer gets (lib/dfx_streamer_cal.py; the depth and    *)
(* width of a streamer are taken from it in hls4ml_build/dfx_params.py).    *)
(* One action is one turn of one of the loops.                             *)
(*                                                                         *)
(* A stream is the record of its declaration: entries is the product of all *)
(* dimensions but the last, bits the last dimension times the precision.   *)
(***************************************************************************)
EXTENDS Naturals, Sequences, FiniteSets, FiniteSetsExt, Functions, SequencesExt

CONSTANTS
  Topologies,              \* the lists of streams a run is declared with
  TotalBanks, AmtPhase,
  BankWidth, BankDepth     \* bits and rows of one bank

Stream ==
  [region : Nat, alloc_phase : Nat, free_phase : Nat, entries : Nat \ {0}, bits : Nat \ {0}]

(* A stream is read in a later phase than the one that stores it.  (That    *)
(* phase may be one the run does not have.)                                *)
ASSUME CalAssumption ==
  /\ TotalBanks \in Nat /\ AmtPhase \in Nat
  /\ BankWidth \in Nat \ {0} /\ BankDepth \in Nat \ {0}
  /\ \A t \in Topologies :
       /\ t \in Seq(Stream)
       /\ \A s \in DOMAIN t : t[s].alloc_phase < t[s].free_phase

VARIABLES
  streams,                                   \* the argument
  step, phase, next,                         \* where the loops are
  dfx_streamers,                             \* all streamers, by number
  free_dfx_streamers, using_dfx_streamers    \* the two pools

pools == <<free_dfx_streamers, using_dfx_streamers>>
cal_vars == <<streams, step, phase, next, dfx_streamers, pools>>

Step == {"check", "allocate", "grow", "done", "error"}
Streamer == DOMAIN dfx_streamers

StreamerRecord ==
  [banks : Nat, region : {0, 1}, next_fin : Nat, mul : Nat \ {0},
   streams : SUBSET DOMAIN streams]

CalTypeOK ==
  /\ streams \in Seq(Stream) /\ step \in Step /\ phase \in 0 .. AmtPhase
  /\ next \in 1 .. (Len(streams) + 1)
  /\ dfx_streamers \in Seq(StreamerRecord)
  /\ free_dfx_streamers \in Seq(Streamer) /\ using_dfx_streamers \in Seq(Streamer)
  /\ ToSet(free_dfx_streamers) \cup ToSet(using_dfx_streamers) = Streamer

-----------------------------------------------------------------------------
(* Geometry of a stream. *)

AmtBanks(s) == (streams[s].bits + BankWidth - 1) \div BankWidth

(* Mutant: a query that fits in part counts as one. *)
AmtQueryPerBankGrp_RoundsUp(s) ==
  (BankDepth + streams[s].entries - 1) \div streams[s].entries

AmtQueryPerBankGrp(s) == BankDepth \div streams[s].entries

Unsupported ==
  \E s \in DOMAIN streams : streams[s].region \notin {0, 1} \/ AmtQueryPerBankGrp(s) = 0

AfterPhase(p, streamers) ==
  IF p < AmtPhase THEN "allocate" ELSE IF streamers = <<>> THEN "done" ELSE "grow"

Check ==
  /\ step = "check"
  /\ step' = IF Unsupported THEN "error" ELSE AfterPhase(0, <<>>)
  /\ UNCHANGED <<streams, phase, next, dfx_streamers, pools>>

-----------------------------------------------------------------------------
(* A phase: its streams in the order of the list, then the streamers whose  *)
(* stream is no longer needed.                                             *)

(* The streams of this phase whose turn is still to come. *)
Waiting == {s \in next .. Len(streams) : streams[s].alloc_phase = phase}

(* Mutant: only the first free streamer is considered. *)
Matching_HeadOnly(s) ==
  {i \in DOMAIN free_dfx_streamers :
     /\ i = 1
     /\ dfx_streamers[free_dfx_streamers[i]].banks = AmtBanks(s)
     /\ dfx_streamers[free_dfx_streamers[i]].region = streams[s].region}

(* Mutant: the region is not compared. *)
Matching_AnyRegion(s) ==
  {i \in DOMAIN free_dfx_streamers :
     dfx_streamers[free_dfx_streamers[i]].banks = AmtBanks(s)}

(* Places in the free pool of the streamers that can take stream s. *)
Matching(s) ==
  {i \in DOMAIN free_dfx_streamers :
     /\ dfx_streamers[free_dfx_streamers[i]].banks = AmtBanks(s)
     /\ dfx_streamers[free_dfx_streamers[i]].region = streams[s].region}

(* Mutant: a streamer that is taken stays in the free pool. *)
Reuse_StaysFree ==
  /\ step = "allocate" /\ Waiting # {}
  /\ LET s == Min(Waiting)
         d == free_dfx_streamers[Min(Matching(s))]
     IN /\ Matching(s) # {}
        /\ dfx_streamers' = [dfx_streamers EXCEPT ![d].next_fin = streams[s].free_phase,
                                                  ![d].streams = @ \cup {s}]
        /\ free_dfx_streamers' = free_dfx_streamers
        /\ using_dfx_streamers' = Append(using_dfx_streamers, d)
        /\ next' = s + 1
  /\ UNCHANGED <<streams, step, phase>>

Reuse ==
  /\ step = "allocate" /\ Waiting # {}
  /\ LET s == Min(Waiting)
         i == Min(Matching(s))
         d == free_dfx_streamers[i]
     IN /\ Matching(s) # {}
        /\ dfx_streamers' = [dfx_streamers EXCEPT ![d].next_fin = streams[s].free_phase,
                                                  ![d].streams = @ \cup {s}]
        /\ free_dfx_streamers' = RemoveAt(free_dfx_streamers, i)
        /\ using_dfx_streamers' = Append(using_dfx_streamers, d)
        /\ next' = s + 1
  /\ UNCHANGED <<streams, step, phase>>

Create ==
  /\ step = "allocate" /\ Waiting # {}
  /\ LET s == Min(Waiting)
     IN /\ Matching(s) = {}
        /\ dfx_streamers' = Append(dfx_streamers,
             [banks |-> AmtBanks(s), region |-> streams[s].region,
              next_fin |-> streams[s].free_phase, mul |-> 1, streams |-> {s}])
        /\ using_dfx_streamers' = Append(using_dfx_streamers, Len(dfx_streamers) + 1)
        /\ next' = s + 1
  /\ UNCHANGED <<streams, step, phase, free_dfx_streamers>>

(* Mutant: a streamer is freed in the phase before the one that reads it.   *)
Finished_Early ==
  {i \in DOMAIN using_dfx_streamers :
     dfx_streamers[using_dfx_streamers[i]].next_fin = phase + 1}

Finished ==
  {i \in DOMAIN using_dfx_streamers :
     dfx_streamers[using_dfx_streamers[i]].next_fin = phase}

Release ==
  /\ step = "allocate" /\ Waiting = {} /\ Finished # {}
  /\ free_dfx_streamers' = Append(free_dfx_streamers, using_dfx_streamers[Min(Finished)])
  /\ using_dfx_streamers' = RemoveAt(using_dfx_streamers, Min(Finished))
  /\ UNCHANGED <<streams, step, phase, next, dfx_streamers>>

EndPhase ==
  /\ step = "allocate" /\ Waiting = {} /\ Finished = {}
  /\ phase' = phase + 1 /\ next' = 1
  /\ step' = AfterPhase(phase + 1, dfx_streamers)
  /\ UNCHANGED <<streams, dfx_streamers, pools>>

-----------------------------------------------------------------------------
(* The streamer with the smallest capacity grows while the budget allows.   *)

QueryPerGroup(d) == Min({AmtQueryPerBankGrp(s) : s \in dfx_streamers[d].streams})
Capacity(d) == dfx_streamers[d].mul * QueryPerGroup(d)
BanksUsed == MapThenSumSet(LAMBDA d : dfx_streamers[d].banks * dfx_streamers[d].mul, Streamer)

(* Mutant: the streamer with the fewest groups grows. *)
Bottleneck_FewestGroups ==
  Min({d \in Streamer : \A e \in Streamer : dfx_streamers[d].mul <= dfx_streamers[e].mul})

Bottleneck == Min({d \in Streamer : \A e \in Streamer : Capacity(d) <= Capacity(e)})

Grow ==
  /\ step = "grow"
  /\ BanksUsed + dfx_streamers[Bottleneck].banks <= TotalBanks
  /\ dfx_streamers' = [dfx_streamers EXCEPT ![Bottleneck].mul = @ + 1]
  /\ UNCHANGED <<streams, step, phase, next, pools>>

(* Mutant: a growth that does not fit is skipped. *)
Stop_Skips ==
  /\ step = "grow"
  /\ BanksUsed + dfx_streamers[Bottleneck].banks > TotalBanks
  /\ UNCHANGED cal_vars

Stop ==
  /\ step = "grow"
  /\ BanksUsed + dfx_streamers[Bottleneck].banks > TotalBanks
  /\ step' = "done"
  /\ UNCHANGED <<streams, phase, next, dfx_streamers, pools>>

CalInit ==
  /\ streams \in Topologies
  /\ step = "check" /\ phase = 0 /\ next = 1 /\ dfx_streamers = <<>>
  /\ free_dfx_streamers = <<>> /\ using_dfx_streamers = <<>>

CalNext == Check \/ Reuse \/ Create \/ Release \/ EndPhase \/ Grow \/ Stop

CalSpec == CalInit /\ [][CalNext]_cal_vars

(* What a streamer is built with, and what the report says of all of them.  *)
AmountRow(d) == dfx_streamers[d].mul * BankDepth
BusBits(d) == dfx_streamers[d].banks * BankWidth
MinTotalQuery ==
  Min(UNION {{dfx_streamers[d].mul * AmtQueryPerBankGrp(s) : s \in dfx_streamers[d].streams} :
               d \in Streamer})

-----------------------------------------------------------------------------
(* Properties. *)

Live(s) == streams[s].alloc_phase .. streams[s].free_phase
Allocated == step \in {"grow", "done"}

(* No streamer holds two streams in one phase: nothing is overwritten before *)
(* it is read, and no phase loads and stores the same streamer.            *)
StreamsApart ==
  \A d \in Streamer : \A s, t \in dfx_streamers[d].streams :
    s # t => Live(s) \cap Live(t) = {}

(* Why StreamsApart holds, as an inductive invariant: a streamer is in one  *)
(* pool and there once, all streams of a free streamer have been read, and *)
(* the streams of a used one are read when it is released.                 *)
OnePool ==
  /\ IsInjective(free_dfx_streamers) /\ IsInjective(using_dfx_streamers)
  /\ ToSet(free_dfx_streamers) \cap ToSet(using_dfx_streamers) = {}

FreePoolRead ==
  \A d \in ToSet(free_dfx_streamers) : \A s \in dfx_streamers[d].streams :
    \/ streams[s].free_phase < phase
    \/ streams[s].free_phase = phase /\ Waiting = {}

UsedUntilRead ==
  \A d \in ToSet(using_dfx_streamers) : \A s \in dfx_streamers[d].streams :
    streams[s].free_phase <= dfx_streamers[d].next_fin

CalInvariant ==
  /\ CalTypeOK
  /\ \A s \in DOMAIN streams : streams[s].alloc_phase < streams[s].free_phase
  /\ step \notin {"check", "error"} => ~ Unsupported
  /\ step = "allocate" => phase < AmtPhase
  /\ step = "check" => phase = 0
  /\ OnePool
  /\ FreePoolRead
  /\ UsedUntilRead
  /\ StreamsApart

(* Every stream of a phase of the run has one streamer, as wide as the      *)
(* stream and in its region.                                               *)
EachPlaced ==
  Allocated => \A s \in {t \in DOMAIN streams : streams[t].alloc_phase < AmtPhase} :
    \E d \in Streamer :
      /\ \A e \in Streamer : s \in dfx_streamers[e].streams <=> e = d
      /\ streams[s].bits <= BusBits(d) /\ BusBits(d) < streams[s].bits + BankWidth
      /\ dfx_streamers[d].region = streams[s].region

(* The streamers, and the streams of phase p, of one width and region.      *)
StreamersOf(b, r) == {d \in Streamer : dfx_streamers[d].banks = b /\ dfx_streamers[d].region = r}

LivingOf(b, r, p) ==
  {s \in DOMAIN streams : AmtBanks(s) = b /\ streams[s].region = r /\ p \in Live(s)}

(* Reuse is complete: of streamers of a size and region there are only as   *)
(* many as streams of that size and region live in one phase.              *)
FewestStreamers ==
  Allocated /\ AmtPhase # 0 =>
    \A b \in {AmtBanks(s) : s \in DOMAIN streams}, r \in {0, 1} :
      Cardinality(StreamersOf(b, r)) =
        Max({Cardinality(LivingOf(b, r, p)) : p \in 0 .. (AmtPhase - 1)})

(* As many queries as the report promises fit into every streamer (this is  *)
(* what DfxStreamer assumes of a stream).                                  *)
QueriesFit ==
  step = "done" => \A d \in Streamer : \A s \in dfx_streamers[d].streams :
    MinTotalQuery * streams[s].entries <= AmountRow(d)

(* "maximising the buffered query count": no distribution of the budget     *)
(* buffers more queries.                                                   *)
NoBetterSplit ==
  step = "done" /\ Streamer # {} =>
    ~ \E mul \in [Streamer -> 1 .. TotalBanks] :
        /\ MapThenSumSet(LAMBDA d : dfx_streamers[d].banks * mul[d], Streamer) <= TotalBanks
        /\ \A d \in Streamer : mul[d] * QueryPerGroup(d) > MinTotalQuery

(* The calculation ends: no phase and no growth goes on for ever.           *)
CalEnds == <>(step \in {"done", "error"})
=============================================================================
