------------------------ MODULE DfxStreamerCalProofs ------------------------
(***************************************************************************)
(* Proofs about the packing of streams into streamers, for any declared    *)
(* streams, number of phases, bank budget and bank geometry.               *)
(***************************************************************************)
EXTENDS DfxStreamerCal, SequenceTheorems, FiniteSetTheorems, WellFoundedInduction, TLAPS

-----------------------------------------------------------------------------
(* Lemmas on the operators of the community modules. *)

LEMMA MinOfNats ==
  ASSUME NEW S \in SUBSET Nat, S # {}
  PROVE  Min(S) \in S /\ \A n \in S : Min(S) <= n
<1>1. PICK m \in S : \A n \in S : ~ (<<n, m>> \in OpToRel(<, Nat))
  BY WFMin, NatLessThanWellFounded
<1>2. \A n \in S : ~ (n < m)
  BY <1>1 DEF OpToRel
<1>3. \A n \in S : m <= n
  BY <1>2
<1> QED
  BY <1>3 DEF Min

LEMMA RemoveAtProperties ==
  ASSUME NEW S, NEW q \in Seq(S), NEW i \in DOMAIN q
  PROVE  /\ RemoveAt(q, i) \in Seq(S)
         /\ Len(RemoveAt(q, i)) = Len(q) - 1
         /\ \A j \in 1 .. (Len(q) - 1) :
              RemoveAt(q, i)[j] = IF j < i THEN q[j] ELSE q[j + 1]
<1> DEFINE front == SubSeq(q, 1, i - 1)
           back  == SubSeq(q, i + 1, Len(q))
<1>1. Len(q) \in Nat /\ i \in 1 .. Len(q) /\ \A j \in 1 .. Len(q) : q[j] \in S
  OBVIOUS
<1>2. /\ front \in Seq(S) /\ Len(front) = i - 1
      /\ \A j \in 1 .. (i - 1) : front[j] = q[j]
  <2>1. \A j \in 1 .. (i - 1) : q[j] \in S
    BY <1>1
  <2>2. /\ front \in Seq(S)
        /\ Len(front) = IF 1 <= i - 1 THEN (i - 1) - 1 + 1 ELSE 0
        /\ \A j \in 1 .. ((i - 1) - 1 + 1) : front[j] = q[1 + j - 1]
    <3>1. 1 \in Int /\ i - 1 \in Int
      BY <1>1
    <3> QED
      BY <2>1, <3>1, SubSeqProperties
  <2> QED
    BY <1>1, <2>2
<1>3. /\ back \in Seq(S) /\ Len(back) = Len(q) - i
      /\ \A j \in 1 .. (Len(q) - i) : back[j] = q[i + j]
  <2>1. \A j \in (i + 1) .. Len(q) : q[j] \in S
    BY <1>1
  <2>2. /\ back \in Seq(S)
        /\ Len(back) = IF i + 1 <= Len(q) THEN Len(q) - (i + 1) + 1 ELSE 0
        /\ \A j \in 1 .. (Len(q) - (i + 1) + 1) : back[j] = q[(i + 1) + j - 1]
    <3>1. i + 1 \in Int /\ Len(q) \in Int
      BY <1>1
    <3> QED
      BY <2>1, <3>1, SubSeqProperties
  <2>3. \A j \in 1 .. (Len(q) - i) : j \in 1 .. (Len(q) - (i + 1) + 1) /\ (i + 1) + j - 1 = i + j
    BY <1>1
  <2> QED
    BY <1>1, <2>2, <2>3
<1>4. /\ front \o back \in Seq(S)
      /\ Len(front \o back) = Len(front) + Len(back)
      /\ \A j \in 1 .. Len(front) + Len(back) :
           (front \o back)[j] = IF j <= Len(front) THEN front[j] ELSE back[j - Len(front)]
  BY <1>2, <1>3, ConcatProperties
<1>5. RemoveAt(q, i) = front \o back
  BY DEF RemoveAt
<1> HIDE DEF front, back
<1>6. Len(front) + Len(back) = Len(q) - 1
  BY <1>1, <1>2, <1>3
<1>7. ASSUME NEW j \in 1 .. (Len(q) - 1)
      PROVE  (front \o back)[j] = IF j < i THEN q[j] ELSE q[j + 1]
  <2>1. (front \o back)[j] = IF j <= i - 1 THEN front[j] ELSE back[j - (i - 1)]
    BY <1>2, <1>4, <1>6
  <2>2. CASE j < i
    BY <1>1, <1>2, <2>1, <2>2
  <2>3. CASE ~ (j < i)
    <3>1. j - (i - 1) \in 1 .. (Len(q) - i) /\ i + (j - (i - 1)) = j + 1 /\ ~ (j <= i - 1)
      BY <1>1, <2>3
    <3> QED
      BY <1>3, <2>1, <2>3, <3>1
  <2> QED
    BY <2>2, <2>3
<1> QED
  BY <1>4, <1>5, <1>6, <1>7

(* Taking a member out of a sequence without repetitions.                   *)
LEMMA RemoveAtInjective ==
  ASSUME NEW S, NEW q \in Seq(S), IsInjective(q), NEW i \in DOMAIN q
  PROVE  /\ RemoveAt(q, i) \in Seq(S)
         /\ IsInjective(RemoveAt(q, i))
         /\ ToSet(RemoveAt(q, i)) = ToSet(q) \ {q[i]}
<1> DEFINE r == RemoveAt(q, i)
<1> HIDE DEF r
<1>1. /\ r \in Seq(S) /\ Len(r) = Len(q) - 1
      /\ \A j \in 1 .. (Len(q) - 1) : r[j] = IF j < i THEN q[j] ELSE q[j + 1]
  BY RemoveAtProperties DEF r
<1>2. /\ DOMAIN r = 1 .. (Len(q) - 1) /\ DOMAIN q = 1 .. Len(q)
      /\ Len(q) \in Nat /\ i \in 1 .. Len(q)
  BY <1>1
<1>3. IsInjective(r)
  <2>1. SUFFICES ASSUME NEW j \in 1 .. (Len(q) - 1), NEW k \in 1 .. (Len(q) - 1), r[j] = r[k]
                 PROVE  j = k
    BY <1>2 DEF IsInjective
  <2> DEFINE old(n) == IF n < i THEN n ELSE n + 1
  <2>2. old(j) \in DOMAIN q /\ old(k) \in DOMAIN q
    BY <1>2
  <2>3. r[j] = q[old(j)] /\ r[k] = q[old(k)]
    BY <1>1
  <2>4. old(j) = old(k)
    BY <2>1, <2>2, <2>3 DEF IsInjective
  <2> QED
    BY <1>2, <2>4
<1>4. \A j \in DOMAIN r : r[j] \in ToSet(q) \ {q[i]}
  BY <1>1, <1>2 DEF IsInjective, ToSet
<1>5. ASSUME NEW k \in DOMAIN q, k # i
      PROVE  q[k] \in ToSet(r)
  <2>1. CASE k < i
    BY <1>1, <1>2, <2>1 DEF ToSet
  <2>2. CASE k > i
    <3>1. k - 1 \in DOMAIN r /\ r[k - 1] = q[k]
      BY <1>1, <1>2, <2>2
    <3> QED
      BY <3>1 DEF ToSet
  <2> QED
    BY <1>2, <1>5, <2>1, <2>2
<1>6. ToSet(r) = ToSet(q) \ {q[i]}
  BY <1>4, <1>5 DEF ToSet
<1> QED
  BY <1>1, <1>3, <1>6 DEF r

LEMMA AppendNew ==
  ASSUME NEW S, NEW q \in Seq(S), IsInjective(q), NEW new \in S, new \notin ToSet(q)
  PROVE  /\ Append(q, new) \in Seq(S)
         /\ IsInjective(Append(q, new))
         /\ ToSet(Append(q, new)) = ToSet(q) \cup {new}
<1> DEFINE r == Append(q, new)
<1> HIDE DEF r
<1>1. /\ r \in Seq(S) /\ DOMAIN r = 1 .. (Len(q) + 1) /\ Len(q) \in Nat
      /\ DOMAIN q = 1 .. Len(q)
      /\ \A j \in 1 .. Len(q) : r[j] = q[j]
      /\ r[Len(q) + 1] = new
  BY AppendProperties DEF r
<1>2. IsInjective(r)
  <2>1. \A j \in 1 .. Len(q) : r[j] \in ToSet(q)
    BY <1>1 DEF ToSet
  <2>2. \A j \in DOMAIN r : j \in 1 .. Len(q) \/ j = Len(q) + 1
    BY <1>1
  <2> QED
    BY <1>1, <2>1, <2>2 DEF IsInjective
<1>3. ToSet(r) = ToSet(q) \cup {new}
  BY <1>1 DEF ToSet
<1>4. Append(q, new) = r
  BY DEF r
<1> QED
  BY <1>1, <1>2, <1>3, <1>4

-----------------------------------------------------------------------------
(* What the actions choose. *)

LEMMA NextStream ==
  ASSUME CalTypeOK, Waiting # {}
  PROVE  /\ Min(Waiting) \in DOMAIN streams
         /\ Min(Waiting) \in Waiting
         /\ streams[Min(Waiting)] \in Stream
         /\ streams[Min(Waiting)].alloc_phase = phase
         /\ Min(Waiting) + 1 \in 1 .. (Len(streams) + 1)
         /\ next <= Min(Waiting)
<1>1. /\ next \in Nat \ {0} /\ Len(streams) \in Nat /\ streams \in Seq(Stream)
      /\ DOMAIN streams = 1 .. Len(streams)
  BY DEF CalTypeOK
<1>2. Waiting \in SUBSET Nat
  BY <1>1 DEF Waiting
<1>3. Min(Waiting) \in Waiting
  BY <1>2, MinOfNats
<1>4. /\ Min(Waiting) \in next .. Len(streams)
      /\ streams[Min(Waiting)].alloc_phase = phase
  BY <1>3 DEF Waiting
<1> HIDE DEF Waiting
<1> QED
  BY <1>1, <1>3, <1>4

LEMMA BanksTyped ==
  ASSUME CalTypeOK, NEW s \in DOMAIN streams
  PROVE  AmtBanks(s) \in Nat
<1>1. streams[s].bits \in Nat \ {0} /\ BankWidth \in Nat \ {0}
  <2>1. streams[s] \in Stream
    BY DEF CalTypeOK
  <2> QED
    BY <2>1, CalAssumption DEF Stream
<1>2. streams[s].bits + BankWidth - 1 \in Nat
  BY <1>1
<1>3. \A n \in Nat, w \in Nat \ {0} : n \div w \in Nat
  OBVIOUS
<1> QED
  BY <1>1, <1>2, <1>3 DEF AmtBanks

(* Only the domain of the streamers matters for the pools.                  *)
LEMMA PoolMembers ==
  ASSUME CalTypeOK
  PROVE  /\ Streamer = 1 .. Len(dfx_streamers) /\ Len(dfx_streamers) \in Nat
         /\ \A d \in Streamer : dfx_streamers[d] \in StreamerRecord
         /\ ToSet(free_dfx_streamers) \subseteq Streamer
         /\ ToSet(using_dfx_streamers) \subseteq Streamer
  BY DEF CalTypeOK, Streamer, ToSet

LEMMA PhasesTyped ==
  ASSUME CalTypeOK, NEW d \in Streamer, NEW s \in dfx_streamers[d].streams
  PROVE  /\ s \in DOMAIN streams
         /\ streams[s].alloc_phase \in Nat /\ streams[s].free_phase \in Nat
<1>1. dfx_streamers[d] \in StreamerRecord
  BY PoolMembers
<1>2. s \in DOMAIN streams
  BY <1>1 DEF StreamerRecord
<1>3. streams[s] \in Stream
  BY <1>2 DEF CalTypeOK
<1> QED
  BY <1>2, <1>3 DEF Stream

-----------------------------------------------------------------------------
(* Reuse: the streamer that is taken leaves the free pool, and all its      *)
(* streams have been read before this phase.                               *)
LEMMA ReuseKeeps ==
  ASSUME CalInvariant, Reuse
  PROVE  CalInvariant'
<1> DEFINE s == Min(Waiting)
           i == Min(Matching(s))
           d == free_dfx_streamers[i]
<1>1. /\ step = "allocate" /\ Waiting # {} /\ Matching(s) # {}
      /\ dfx_streamers' = [dfx_streamers EXCEPT ![d].next_fin = streams[s].free_phase,
                                               ![d].streams = @ \cup {s}]
      /\ free_dfx_streamers' = RemoveAt(free_dfx_streamers, i)
      /\ using_dfx_streamers' = Append(using_dfx_streamers, d)
      /\ next' = s + 1 /\ streams' = streams /\ step' = step /\ phase' = phase
  BY DEF Reuse
<1>2. CalTypeOK /\ OnePool
  BY DEF CalInvariant
<1>3. /\ s \in DOMAIN streams /\ s \in Waiting /\ streams[s] \in Stream
      /\ streams[s].alloc_phase = phase /\ s + 1 \in 1 .. (Len(streams) + 1)
      /\ next <= s
  BY <1>1, <1>2, NextStream
<1>4. i \in DOMAIN free_dfx_streamers
  <2>1. Matching(s) \in SUBSET Nat /\ Matching(s) \subseteq DOMAIN free_dfx_streamers
    BY <1>2 DEF Matching, CalTypeOK
  <2>2. i \in Matching(s)
    BY <1>1, <2>1, MinOfNats
  <2> QED
    BY <2>1, <2>2
<1> HIDE DEF s, i
<1>5. d \in Streamer /\ d \in ToSet(free_dfx_streamers) /\ d \notin ToSet(using_dfx_streamers)
  BY <1>2, <1>4 DEF CalTypeOK, OnePool, ToSet
<1> HIDE DEF d
<1>6. /\ Streamer' = Streamer
      /\ dfx_streamers' \in Seq(StreamerRecord)
      /\ \A e \in Streamer : e # d => dfx_streamers'[e] = dfx_streamers[e]
      /\ dfx_streamers'[d].next_fin = streams[s].free_phase
      /\ dfx_streamers'[d].streams = dfx_streamers[d].streams \cup {s}
  <2>1. dfx_streamers[d] \in StreamerRecord /\ streams[s].free_phase \in Nat
    BY <1>2, <1>3, <1>5, PoolMembers DEF Stream
  <2>2. dfx_streamers' = [dfx_streamers EXCEPT ![d] =
           [dfx_streamers[d] EXCEPT !.next_fin = streams[s].free_phase,
                                    !.streams = dfx_streamers[d].streams \cup {s}]]
    BY <1>1, <1>2, <1>5, <2>1 DEF CalTypeOK, StreamerRecord, Streamer
  <2> DEFINE rec == [dfx_streamers[d] EXCEPT !.next_fin = streams[s].free_phase,
                                             !.streams = dfx_streamers[d].streams \cup {s}]
  <2>3. /\ rec \in StreamerRecord /\ rec.next_fin = streams[s].free_phase
        /\ rec.streams = dfx_streamers[d].streams \cup {s}
    BY <1>3, <2>1 DEF StreamerRecord
  <2>4. dfx_streamers' = [dfx_streamers EXCEPT ![d] = rec]
    BY <2>2
  <2> HIDE DEF rec
  <2> QED
    BY <1>2, <1>5, <2>3, <2>4 DEF CalTypeOK, Streamer
<1>7. /\ free_dfx_streamers' \in Seq(Streamer) /\ IsInjective(free_dfx_streamers')
      /\ ToSet(free_dfx_streamers') = ToSet(free_dfx_streamers) \ {d}
  BY <1>1, <1>2, <1>4, RemoveAtInjective DEF CalTypeOK, OnePool, d
<1>8. /\ using_dfx_streamers' \in Seq(Streamer) /\ IsInjective(using_dfx_streamers')
      /\ ToSet(using_dfx_streamers') = ToSet(using_dfx_streamers) \cup {d}
  BY <1>1, <1>2, <1>5, AppendNew DEF CalTypeOK, OnePool
<1>9. \A e \in ToSet(free_dfx_streamers) : \A t \in dfx_streamers[e].streams :
        streams[t].free_phase < phase
  BY <1>1 DEF CalInvariant, FreePoolRead
<1>10. CalTypeOK'
  <2>1. ToSet(free_dfx_streamers') \cup ToSet(using_dfx_streamers') = Streamer
    BY <1>2, <1>5, <1>7, <1>8 DEF CalTypeOK
  <2>2. StreamerRecord' = StreamerRecord
    BY <1>1 DEF StreamerRecord
  <2> QED
    BY <1>1, <1>2, <1>3, <1>6, <1>7, <1>8, <2>1, <2>2 DEF CalTypeOK, ToSet
<1>11. OnePool'
  BY <1>2, <1>7, <1>8 DEF OnePool, ToSet, IsInjective
<1>12. FreePoolRead'
  <2>1. \A e \in ToSet(free_dfx_streamers') : e \in Streamer /\ e # d
    BY <1>2, <1>7, PoolMembers
  <2>2. \A e \in ToSet(free_dfx_streamers') : \A t \in dfx_streamers'[e].streams :
          streams[t].free_phase < phase
    BY <1>6, <1>7, <1>9, <2>1
  <2> QED
    BY <1>1, <2>2 DEF FreePoolRead, ToSet
<1>13. UsedUntilRead'
  <2>1. \A e \in ToSet(using_dfx_streamers) : e \in Streamer /\ e # d
    BY <1>2, <1>5, PoolMembers
  <2>2. \A e \in ToSet(using_dfx_streamers) : \A t \in dfx_streamers'[e].streams :
          streams[t].free_phase <= dfx_streamers'[e].next_fin
    BY <1>6, <2>1 DEF CalInvariant, UsedUntilRead
  <2>3. \A t \in dfx_streamers[d].streams : t \in DOMAIN streams /\ streams[t].free_phase \in Nat
    BY <1>2, <1>5, PhasesTyped
  <2>4. streams[s].free_phase \in Nat /\ phase \in Nat
    BY <1>2, <1>3, CalAssumption DEF CalTypeOK, Stream
  <2>5. phase <= streams[s].free_phase
    BY <1>3, <2>4 DEF CalInvariant
  <2>6. \A t \in dfx_streamers'[d].streams : streams[t].free_phase <= dfx_streamers'[d].next_fin
    BY <1>5, <1>6, <1>9, <2>3, <2>4, <2>5
  <2> QED
    BY <1>1, <1>8, <2>2, <2>6 DEF UsedUntilRead, ToSet
<1>14. StreamsApart'
  <2>1. \A t \in dfx_streamers[d].streams :
          Live(t) \cap Live(s) = {} /\ Live(s) \cap Live(t) = {}
    <3>1. \A t \in dfx_streamers[d].streams :
            /\ streams[t].free_phase \in Nat /\ streams[t].alloc_phase \in Nat
            /\ streams[t].free_phase < phase
      BY <1>2, <1>5, <1>9, PhasesTyped
    <3>2. streams[s].free_phase \in Nat /\ phase \in Nat
      BY <1>2, <1>3, CalAssumption DEF CalTypeOK, Stream
    <3> QED
      BY <1>3, <3>1, <3>2 DEF Live
  <2>2. \A e \in Streamer : \A t, u \in dfx_streamers[e].streams :
          t # u => Live(t) \cap Live(u) = {}
    BY DEF CalInvariant, StreamsApart
  <2>3. \A e \in Streamer : \A t, u \in dfx_streamers'[e].streams :
          t # u => Live(t) \cap Live(u) = {}
    <3>1. SUFFICES ASSUME NEW e \in Streamer, NEW t \in dfx_streamers'[e].streams,
                          NEW u \in dfx_streamers'[e].streams, t # u
                   PROVE  Live(t) \cap Live(u) = {}
      OBVIOUS
    <3>2. CASE e # d
      BY <1>6, <2>2, <3>1, <3>2
    <3>3. CASE e = d
      BY <1>5, <1>6, <2>1, <2>2, <3>1, <3>3
    <3> QED
      BY <3>2, <3>3
  <2> QED
    BY <1>1, <1>6, <2>3 DEF StreamsApart, Live
<1> QED
  BY <1>1, <1>10, <1>11, <1>12, <1>13, <1>14 DEF CalInvariant, Unsupported, AmtQueryPerBankGrp

(* Create: a new streamer, in use, with one stream.                         *)
LEMMA CreateKeeps ==
  ASSUME CalInvariant, Create
  PROVE  CalInvariant'
<1> DEFINE s == Min(Waiting)
           d == Len(dfx_streamers) + 1
           new == [banks |-> AmtBanks(s), region |-> streams[s].region,
                   next_fin |-> streams[s].free_phase, mul |-> 1, streams |-> {s}]
<1>1. /\ step = "allocate" /\ Waiting # {}
      /\ dfx_streamers' = Append(dfx_streamers, new)
      /\ using_dfx_streamers' = Append(using_dfx_streamers, d)
      /\ free_dfx_streamers' = free_dfx_streamers
      /\ next' = s + 1 /\ streams' = streams /\ step' = step /\ phase' = phase
  BY DEF Create
<1>2. CalTypeOK /\ OnePool
  BY DEF CalInvariant
<1>3. /\ s \in DOMAIN streams /\ streams[s] \in Stream
      /\ streams[s].alloc_phase = phase /\ s + 1 \in 1 .. (Len(streams) + 1)
      /\ next <= s
  BY <1>1, <1>2, NextStream
<1> HIDE DEF s
<1>4. new \in StreamerRecord /\ new.streams = {s} /\ new.next_fin = streams[s].free_phase
  <2>1. streams[s].region \in {0, 1}
    BY <1>1, <1>3 DEF CalInvariant, Unsupported
  <2>2. AmtBanks(s) \in Nat /\ streams[s].free_phase \in Nat
    BY <1>2, <1>3, BanksTyped DEF Stream
  <2> QED
    BY <1>3, <2>1, <2>2 DEF StreamerRecord
<1> HIDE DEF new
<1>5. /\ Streamer = 1 .. Len(dfx_streamers) /\ Len(dfx_streamers) \in Nat
      /\ ToSet(free_dfx_streamers) \subseteq Streamer
      /\ ToSet(using_dfx_streamers) \subseteq Streamer
  BY <1>2, PoolMembers
<1>6. /\ dfx_streamers' \in Seq(StreamerRecord)
      /\ Streamer' = Streamer \cup {d} /\ d \notin Streamer
      /\ \A e \in Streamer : dfx_streamers'[e] = dfx_streamers[e]
      /\ dfx_streamers'[d] = new
  <2>1. /\ dfx_streamers' \in Seq(StreamerRecord)
        /\ Len(dfx_streamers') = Len(dfx_streamers) + 1
        /\ \A e \in 1 .. Len(dfx_streamers) : dfx_streamers'[e] = dfx_streamers[e]
        /\ dfx_streamers'[Len(dfx_streamers) + 1] = new
    BY <1>1, <1>2, <1>4, AppendProperties DEF CalTypeOK
  <2>2. Streamer' = 1 .. (Len(dfx_streamers) + 1)
    BY <2>1 DEF Streamer
  <2> QED
    BY <1>5, <2>1, <2>2
<1> HIDE DEF d
<1>7. /\ using_dfx_streamers' \in Seq(Streamer') /\ IsInjective(using_dfx_streamers')
      /\ ToSet(using_dfx_streamers') = ToSet(using_dfx_streamers) \cup {d}
      /\ free_dfx_streamers \in Seq(Streamer')
  <2>1. using_dfx_streamers \in Seq(Streamer') /\ free_dfx_streamers \in Seq(Streamer')
    BY <1>2, <1>6, SeqMonotonic DEF CalTypeOK
  <2>2. d \in Streamer' /\ d \notin ToSet(using_dfx_streamers)
    BY <1>5, <1>6
  <2> QED
    BY <1>1, <1>2, <2>1, <2>2, AppendNew DEF OnePool
<1>8. CalTypeOK'
  <2>1. ToSet(free_dfx_streamers) \cup ToSet(using_dfx_streamers') = Streamer'
    BY <1>2, <1>6, <1>7 DEF CalTypeOK
  <2>2. StreamerRecord' = StreamerRecord
    BY <1>1 DEF StreamerRecord
  <2>3. (ToSet(free_dfx_streamers) \cup ToSet(using_dfx_streamers) = Streamer)'
    BY <1>1, <2>1 DEF ToSet
  <2> QED
    BY <1>1, <1>2, <1>3, <1>6, <1>7, <2>2, <2>3 DEF CalTypeOK
<1>9. OnePool'
  <2>1. ToSet(free_dfx_streamers) \cap ToSet(using_dfx_streamers') = {}
    BY <1>2, <1>5, <1>6, <1>7 DEF OnePool
  <2>2. (ToSet(free_dfx_streamers) \cap ToSet(using_dfx_streamers) = {})'
    BY <1>1, <2>1 DEF ToSet
  <2>3. (IsInjective(free_dfx_streamers) /\ IsInjective(using_dfx_streamers))'
    BY <1>1, <1>2, <1>7 DEF OnePool, IsInjective
  <2> QED
    BY <2>2, <2>3 DEF OnePool
<1>10. FreePoolRead'
  BY <1>1, <1>5, <1>6 DEF CalInvariant, FreePoolRead, ToSet
<1>11. UsedUntilRead'
  <2>1. \A e \in ToSet(using_dfx_streamers) : \A t \in dfx_streamers'[e].streams :
          streams[t].free_phase <= dfx_streamers'[e].next_fin
    BY <1>5, <1>6 DEF CalInvariant, UsedUntilRead
  <2>2. streams[s].free_phase <= streams[s].free_phase
    BY <1>3 DEF Stream
  <2> QED
    BY <1>1, <1>4, <1>6, <1>7, <2>1, <2>2 DEF UsedUntilRead, ToSet
<1>12. StreamsApart'
  <2>1. \A e \in Streamer : \A t, u \in dfx_streamers[e].streams :
          t # u => Live(t) \cap Live(u) = {}
    BY DEF CalInvariant, StreamsApart
  <2>2. \A e \in Streamer' : \A t, u \in dfx_streamers'[e].streams :
          t # u => Live(t) \cap Live(u) = {}
    BY <1>4, <1>6, <2>1
  <2> QED
    BY <1>1, <2>2 DEF StreamsApart, Live
<1> QED
  BY <1>1, <1>8, <1>9, <1>10, <1>11, <1>12 DEF CalInvariant, Unsupported, AmtQueryPerBankGrp

(* Release: all streams of a used streamer end with the last of them.       *)
LEMMA ReleaseKeeps ==
  ASSUME CalInvariant, Release
  PROVE  CalInvariant'
<1> DEFINE i == Min(Finished)
           d == using_dfx_streamers[i]
<1>1. /\ step = "allocate" /\ Waiting = {} /\ Finished # {}
      /\ free_dfx_streamers' = Append(free_dfx_streamers, d)
      /\ using_dfx_streamers' = RemoveAt(using_dfx_streamers, i)
      /\ streams' = streams /\ step' = step /\ phase' = phase /\ next' = next
      /\ dfx_streamers' = dfx_streamers
  BY DEF Release
<1>2. CalTypeOK /\ OnePool
  BY DEF CalInvariant
<1>3. i \in DOMAIN using_dfx_streamers /\ dfx_streamers[d].next_fin = phase
  <2>1. Finished \in SUBSET Nat
    BY <1>2 DEF Finished, CalTypeOK
  <2>2. i \in Finished
    BY <1>1, <2>1, MinOfNats
  <2> QED
    BY <2>2 DEF Finished
<1> HIDE DEF i
<1>4. d \in Streamer /\ d \in ToSet(using_dfx_streamers) /\ d \notin ToSet(free_dfx_streamers)
  BY <1>2, <1>3 DEF CalTypeOK, OnePool, ToSet
<1>5. /\ using_dfx_streamers' \in Seq(Streamer) /\ IsInjective(using_dfx_streamers')
      /\ ToSet(using_dfx_streamers') = ToSet(using_dfx_streamers) \ {d}
  BY <1>1, <1>2, <1>3, RemoveAtInjective DEF CalTypeOK, OnePool
<1> HIDE DEF d
<1>6. /\ free_dfx_streamers' \in Seq(Streamer) /\ IsInjective(free_dfx_streamers')
      /\ ToSet(free_dfx_streamers') = ToSet(free_dfx_streamers) \cup {d}
  BY <1>1, <1>2, <1>4, AppendNew DEF CalTypeOK, OnePool
<1>7. Streamer' = Streamer /\ StreamerRecord' = StreamerRecord
  BY <1>1 DEF Streamer, StreamerRecord
<1>8. CalTypeOK'
  <2>1. ToSet(free_dfx_streamers') \cup ToSet(using_dfx_streamers') = Streamer
    BY <1>2, <1>4, <1>5, <1>6 DEF CalTypeOK
  <2>2. (ToSet(free_dfx_streamers) \cup ToSet(using_dfx_streamers) = Streamer)'
    BY <1>7, <2>1 DEF ToSet
  <2> QED
    BY <1>1, <1>2, <1>5, <1>6, <1>7, <2>2 DEF CalTypeOK
<1>9. OnePool'
  <2>1. ToSet(free_dfx_streamers') \cap ToSet(using_dfx_streamers') = {}
    BY <1>2, <1>5, <1>6 DEF OnePool
  <2>2. (ToSet(free_dfx_streamers) \cap ToSet(using_dfx_streamers) = {})'
    BY <2>1 DEF ToSet
  <2>3. (IsInjective(free_dfx_streamers) /\ IsInjective(using_dfx_streamers))'
    BY <1>5, <1>6 DEF IsInjective
  <2> QED
    BY <2>2, <2>3 DEF OnePool
<1>10. FreePoolRead'
  <2>1. \A t \in dfx_streamers[d].streams : streams[t].free_phase <= phase
    BY <1>3, <1>4 DEF CalInvariant, UsedUntilRead
  <2>2. \A t \in dfx_streamers[d].streams :
          streams[t].free_phase < phase \/ streams[t].free_phase = phase
    BY <1>2, <1>4, <2>1, PhasesTyped, CalAssumption DEF CalTypeOK
  <2>3. Waiting' = {}
    BY <1>1 DEF Waiting
  <2> QED
    BY <1>1, <1>6, <2>2, <2>3 DEF CalInvariant, FreePoolRead, ToSet
<1>11. UsedUntilRead'
  BY <1>1, <1>5 DEF CalInvariant, UsedUntilRead, ToSet
<1>12. StreamsApart'
  BY <1>1, <1>7 DEF CalInvariant, StreamsApart, Live
<1> QED
  BY <1>1, <1>8, <1>9, <1>10, <1>11, <1>12 DEF CalInvariant, Unsupported, AmtQueryPerBankGrp

(* EndPhase: the next phase is later, so what was read stays read.          *)
LEMMA EndPhaseKeeps ==
  ASSUME CalInvariant, EndPhase
  PROVE  CalInvariant'
<1>1. /\ step = "allocate" /\ Waiting = {} /\ phase' = phase + 1 /\ next' = 1
      /\ step' = AfterPhase(phase + 1, dfx_streamers)
      /\ streams' = streams /\ dfx_streamers' = dfx_streamers
      /\ free_dfx_streamers' = free_dfx_streamers /\ using_dfx_streamers' = using_dfx_streamers
  BY DEF EndPhase, pools
<1>2. CalTypeOK /\ phase < AmtPhase
  BY <1>1 DEF CalInvariant
<1>3. /\ step' \in Step /\ step' \notin {"check", "error"}
      /\ step' = "allocate" => phase' < AmtPhase
      /\ step' # "check"
  BY <1>1 DEF AfterPhase, Step
<1>4. phase \in Nat /\ AmtPhase \in Nat
  BY <1>2, CalAssumption DEF CalTypeOK
<1>5. CalTypeOK'
  <2>1. phase' \in 0 .. AmtPhase
    BY <1>1, <1>2, <1>4
  <2>2. next' \in 1 .. (Len(streams) + 1)
    BY <1>1, <1>2 DEF CalTypeOK
  <2> QED
    BY <1>1, <1>2, <1>3, <2>1, <2>2 DEF CalTypeOK, Streamer, StreamerRecord, ToSet
<1>6. OnePool'
  BY <1>1 DEF CalInvariant, OnePool, ToSet, IsInjective
<1>7. FreePoolRead'
  <2>1. ASSUME NEW d \in ToSet(free_dfx_streamers), NEW s \in dfx_streamers[d].streams
        PROVE  streams[s].free_phase < phase + 1
    <3>1. d \in Streamer /\ streams[s].free_phase \in Nat
      BY <1>2, PoolMembers, PhasesTyped
    <3>2. streams[s].free_phase < phase \/ streams[s].free_phase = phase
      BY DEF CalInvariant, FreePoolRead
    <3> QED
      BY <1>4, <3>1, <3>2
  <2> QED
    BY <1>1, <2>1 DEF FreePoolRead, ToSet
<1>8. UsedUntilRead' /\ StreamsApart'
  BY <1>1 DEF CalInvariant, UsedUntilRead, StreamsApart, Live, Streamer, ToSet
<1> QED
  BY <1>1, <1>3, <1>5, <1>6, <1>7, <1>8 DEF CalInvariant, Unsupported, AmtQueryPerBankGrp

(* Grow: only the number of groups of a streamer changes.                   *)
LEMMA GrowKeeps ==
  ASSUME CalInvariant, Grow
  PROVE  CalInvariant'
<1> DEFINE d == Bottleneck
<1>1. /\ step = "grow" /\ dfx_streamers' = [dfx_streamers EXCEPT ![d].mul = @ + 1]
      /\ streams' = streams /\ step' = step /\ phase' = phase /\ next' = next
      /\ free_dfx_streamers' = free_dfx_streamers /\ using_dfx_streamers' = using_dfx_streamers
  BY DEF Grow, pools
<1> HIDE DEF d
<1>2. CalTypeOK
  BY DEF CalInvariant
<1>3. /\ Streamer' = Streamer /\ dfx_streamers' \in Seq(StreamerRecord)
      /\ \A e \in Streamer : /\ dfx_streamers'[e].streams = dfx_streamers[e].streams
                             /\ dfx_streamers'[e].next_fin = dfx_streamers[e].next_fin
  <2>1. CASE d \in Streamer
    <3> DEFINE rec == [dfx_streamers[d] EXCEPT !.mul = dfx_streamers[d].mul + 1]
    <3>1. dfx_streamers[d] \in StreamerRecord
      BY <1>2, <2>1, PoolMembers
    <3>2. dfx_streamers' = [dfx_streamers EXCEPT ![d] = rec]
      BY <1>1
    <3>3. /\ rec \in StreamerRecord /\ rec.streams = dfx_streamers[d].streams
          /\ rec.next_fin = dfx_streamers[d].next_fin
      BY <3>1 DEF StreamerRecord
    <3> HIDE DEF rec
    <3> QED
      BY <1>2, <2>1, <3>2, <3>3 DEF CalTypeOK, Streamer
  <2>2. CASE d \notin Streamer
    <3>1. dfx_streamers' = dfx_streamers
      BY <1>1, <1>2, <2>2 DEF CalTypeOK, Streamer
    <3> QED
      BY <1>2, <3>1 DEF CalTypeOK, Streamer
  <2> QED
    BY <2>1, <2>2
<1>4. /\ ToSet(free_dfx_streamers) \subseteq Streamer
      /\ ToSet(using_dfx_streamers) \subseteq Streamer
  BY <1>2, PoolMembers
<1>5. CalTypeOK'
  <2>1. StreamerRecord' = StreamerRecord
    BY <1>1 DEF StreamerRecord
  <2>2. (ToSet(free_dfx_streamers) \cup ToSet(using_dfx_streamers) = Streamer)'
    BY <1>1, <1>2, <1>3 DEF CalTypeOK, ToSet
  <2> QED
    BY <1>1, <1>2, <1>3, <2>1, <2>2 DEF CalTypeOK
<1>6. OnePool'
  BY <1>1 DEF CalInvariant, OnePool, ToSet, IsInjective
<1>7. FreePoolRead'
  BY <1>1, <1>3, <1>4 DEF CalInvariant, FreePoolRead, Waiting, ToSet
<1>8. UsedUntilRead'
  BY <1>1, <1>3, <1>4 DEF CalInvariant, UsedUntilRead, ToSet
<1>9. StreamsApart'
  BY <1>1, <1>3 DEF CalInvariant, StreamsApart, Live
<1> QED
  BY <1>1, <1>5, <1>6, <1>7, <1>8, <1>9 DEF CalInvariant, Unsupported, AmtQueryPerBankGrp

-----------------------------------------------------------------------------
(* Theorems. *)

LEMMA CalInitInvariant == CalInit => CalInvariant
<1> SUFFICES ASSUME CalInit PROVE CalInvariant
  OBVIOUS
<1>1. /\ streams \in Topologies /\ step = "check" /\ phase = 0 /\ next = 1
      /\ dfx_streamers = <<>> /\ free_dfx_streamers = <<>> /\ using_dfx_streamers = <<>>
  BY DEF CalInit
<1>2. Streamer = {} /\ ToSet(free_dfx_streamers) = {} /\ ToSet(using_dfx_streamers) = {}
  BY <1>1 DEF Streamer, ToSet
<1>3. CalTypeOK
  <2>1. 1 \in 1 .. (Len(streams) + 1) /\ 0 \in 0 .. AmtPhase
    BY <1>1, CalAssumption
  <2> QED
    BY <1>1, <1>2, <2>1, CalAssumption DEF CalTypeOK, Step
<1>4. OnePool
  BY <1>1, <1>2 DEF OnePool, IsInjective
<1>5. FreePoolRead /\ UsedUntilRead /\ StreamsApart
  BY <1>2 DEF FreePoolRead, UsedUntilRead, StreamsApart
<1> QED
  BY <1>1, <1>3, <1>4, <1>5, CalAssumption DEF CalInvariant

(* Check and Stop move the loops only.                                      *)
LEMMA StepKeeps ==
  ASSUME CalInvariant,
         UNCHANGED <<streams, phase, next, dfx_streamers, pools>>,
         step' \in Step,
         step' \notin {"check", "error"} => ~ Unsupported,
         step' = "allocate" => phase < AmtPhase,
         step' = "check" => phase = 0
  PROVE  CalInvariant'
<1>1. CalTypeOK'
  BY DEF CalInvariant, CalTypeOK, pools, Streamer, StreamerRecord, ToSet
<1>2. OnePool' /\ FreePoolRead' /\ UsedUntilRead'
  BY DEF CalInvariant, pools, OnePool, FreePoolRead, UsedUntilRead, Waiting, ToSet, IsInjective
<1>3. StreamsApart'
  BY DEF CalInvariant, StreamsApart, Live, Streamer
<1> QED
  BY <1>1, <1>2, <1>3 DEF CalInvariant, Unsupported, AmtQueryPerBankGrp

LEMMA CalNextInvariant == CalInvariant /\ [CalNext]_cal_vars => CalInvariant'
<1> SUFFICES ASSUME CalInvariant, [CalNext]_cal_vars
             PROVE  CalInvariant'
  OBVIOUS
<1>1. CASE Check
  <2>1. step' = IF Unsupported THEN "error" ELSE AfterPhase(0, <<>>)
    BY <1>1 DEF Check
  <2>2. AfterPhase(0, <<>>) = IF 0 < AmtPhase THEN "allocate" ELSE "done"
    BY DEF AfterPhase
  <2>3. phase = 0
    BY <1>1 DEF Check, CalInvariant
  <2> QED
    BY <1>1, <2>1, <2>2, <2>3, StepKeeps DEF Check, Step
<1>2. CASE Reuse
  BY <1>2, ReuseKeeps
<1>3. CASE Create
  BY <1>3, CreateKeeps
<1>4. CASE Release
  BY <1>4, ReleaseKeeps
<1>5. CASE EndPhase
  BY <1>5, EndPhaseKeeps
<1>6. CASE Grow
  BY <1>6, GrowKeeps
<1>7. CASE Stop
  BY <1>7, StepKeeps DEF Stop, Step, CalInvariant
<1>8. CASE UNCHANGED cal_vars
  BY <1>8, StepKeeps DEF cal_vars, CalInvariant, CalTypeOK
<1> QED
  BY <1>1, <1>2, <1>3, <1>4, <1>5, <1>6, <1>7, <1>8 DEF CalNext

(* The packing of streams into streamers, at every turn of its loops: a     *)
(* streamer is in one pool, free streamers have been read, the streams of  *)
(* one streamer never live in the same phase.                              *)
THEOREM CalInvariantHolds == CalSpec => []CalInvariant
<1> QED
  BY CalInitInvariant, CalNextInvariant, PTL DEF CalSpec

(* No variable of dfx_streamer_report leaves its type.                      *)
THEOREM CalTypeCorrect == CalSpec => []CalTypeOK
<1>1. CalInvariant => CalTypeOK
  BY DEF CalInvariant
<1> QED
  BY <1>1, CalInvariantHolds, PTL

(* No streamer is given a stream while it holds another: nothing that an RM *)
(* stored is overwritten before the RM that needs it has read it.          *)
THEOREM StreamsAreApart == CalSpec => []StreamsApart
<1>1. CalInvariant => StreamsApart
  BY DEF CalInvariant
<1> QED
  BY <1>1, CalInvariantHolds, PTL

-----------------------------------------------------------------------------
(* The number of queries the report promises. *)

LEMMA TimesMonotonic ==
  \A a, b, c \in Nat : a <= b => a * c <= b * c
<1> SUFFICES ASSUME NEW a \in Nat, NEW b \in Nat, NEW c \in Nat, a <= b
             PROVE  a * c <= b * c
  OBVIOUS
<1>1. PICK n \in Nat : b = a + n
  <2>1. b - a \in Nat /\ b = a + (b - a)
    OBVIOUS
  <2> QED
    BY <2>1
<1>2. b * c = a * c + n * c
  BY <1>1
<1>3. a * c \in Nat /\ n * c \in Nat
  OBVIOUS
<1> HIDE <1>1
<1> QED
  BY <1>2, <1>3

LEMMA DivTimes == \A n \in Nat, w \in Nat \ {0} : n \div w \in Nat /\ (n \div w) * w <= n
  OBVIOUS

LEMMA QueriesFitInStreamer == CalTypeOK => QueriesFit
<1> SUFFICES ASSUME CalTypeOK, NEW d \in Streamer, NEW s \in dfx_streamers[d].streams
             PROVE  MinTotalQuery * streams[s].entries <= AmountRow(d)
  BY DEF QueriesFit
<1> DEFINE mul == dfx_streamers[d].mul
           entries == streams[s].entries
           query(e, t) == dfx_streamers[e].mul * AmtQueryPerBankGrp(t)
           Queries == UNION {{query(e, t) : t \in dfx_streamers[e].streams} : e \in Streamer}
<1>1. ASSUME NEW e \in Streamer, NEW t \in dfx_streamers[e].streams
      PROVE  /\ dfx_streamers[e].mul \in Nat /\ streams[t].entries \in Nat \ {0}
             /\ AmtQueryPerBankGrp(t) \in Nat
             /\ AmtQueryPerBankGrp(t) * streams[t].entries <= BankDepth
             /\ query(e, t) \in Nat
  <2>1. dfx_streamers[e] \in StreamerRecord /\ t \in DOMAIN streams
    BY PoolMembers, PhasesTyped
  <2>2. streams[t] \in Stream
    BY <2>1 DEF CalTypeOK
  <2>3. dfx_streamers[e].mul \in Nat /\ streams[t].entries \in Nat \ {0} /\ BankDepth \in Nat
    BY <2>1, <2>2, CalAssumption DEF StreamerRecord, Stream
  <2>4. /\ AmtQueryPerBankGrp(t) \in Nat
        /\ AmtQueryPerBankGrp(t) * streams[t].entries <= BankDepth
    BY <2>3, DivTimes DEF AmtQueryPerBankGrp
  <2> QED
    BY <2>3, <2>4
<1>2. Queries \in SUBSET Nat /\ query(d, s) \in Queries
  BY <1>1
<1>3. MinTotalQuery = Min(Queries)
  BY DEF MinTotalQuery
<1>4. MinTotalQuery \in Nat /\ MinTotalQuery <= query(d, s)
  BY <1>2, <1>3, MinOfNats
<1> DEFINE perGroup == AmtQueryPerBankGrp(s)
<1>5. /\ mul \in Nat /\ entries \in Nat /\ perGroup \in Nat /\ BankDepth \in Nat
      /\ perGroup * entries <= BankDepth
      /\ MinTotalQuery <= mul * perGroup
  BY <1>1, <1>4, CalAssumption
<1>6. AmountRow(d) = mul * BankDepth
  BY DEF AmountRow
<1> HIDE DEF mul, entries, perGroup, query, Queries
<1>7. MinTotalQuery * entries <= (mul * perGroup) * entries
  BY <1>4, <1>5, TimesMonotonic
<1>8. (mul * perGroup) * entries = (perGroup * entries) * mul
  BY <1>5
<1>9. (perGroup * entries) * mul <= BankDepth * mul
  BY <1>5, TimesMonotonic
<1>10. /\ MinTotalQuery * entries \in Nat /\ BankDepth * mul = mul * BankDepth
       /\ (perGroup * entries) * mul \in Nat /\ BankDepth * mul \in Nat
  BY <1>4, <1>5
<1>11. MinTotalQuery * entries <= AmountRow(d)
  BY <1>6, <1>7, <1>8, <1>9, <1>10
<1> QED
  BY <1>11 DEF entries

(* As many queries as the report promises fit into the rows of every        *)
(* streamer, although both numbers are rounded.                            *)
THEOREM PromisedQueriesFit == CalSpec => []QueriesFit
<1> QED
  BY QueriesFitInStreamer, CalTypeCorrect, PTL

-----------------------------------------------------------------------------
(* Every stream has one streamer: the inductive invariant.  Turn is what the *)
(* loops have been through; only those streams are placed, each of them    *)
(* once, and every streamer is as wide as its streams and in their region. *)

Turn(s) == \/ streams[s].alloc_phase < phase
           \/ streams[s].alloc_phase = phase /\ s < next

Placement ==
  /\ \A s \in DOMAIN streams : \A d, e \in Streamer :
       s \in dfx_streamers[d].streams /\ s \in dfx_streamers[e].streams => d = e
  /\ \A s \in DOMAIN streams : Turn(s) <=> \E d \in Streamer : s \in dfx_streamers[d].streams
  /\ \A d \in Streamer : \A s \in dfx_streamers[d].streams :
       dfx_streamers[d].banks = AmtBanks(s) /\ dfx_streamers[d].region = streams[s].region
  /\ Allocated => AmtPhase <= phase

(* The turn of the next stream is the only one that begins when it is       *)
(* placed.                                                                 *)
LEMMA NextTurn ==
  ASSUME CalTypeOK, Waiting # {}, next' = Min(Waiting) + 1, phase' = phase, streams' = streams
  PROVE  /\ ~ Turn(Min(Waiting))
         /\ \A t \in DOMAIN streams : Turn(t)' <=> Turn(t) \/ t = Min(Waiting)
<1> DEFINE s == Min(Waiting)
<1>1. /\ s \in DOMAIN streams /\ streams[s].alloc_phase = phase /\ next <= s
      /\ next \in Nat /\ DOMAIN streams = 1 .. Len(streams) /\ Len(streams) \in Nat
      /\ phase \in Nat
  BY NextStream, CalAssumption DEF CalTypeOK
<1>2. \A t \in Waiting : s <= t
  <2>1. Waiting \in SUBSET Nat
    BY <1>1 DEF Waiting
  <2> QED
    BY <2>1, MinOfNats
<1> HIDE DEF s
<1>3. ASSUME NEW t \in DOMAIN streams, streams[t].alloc_phase = phase
      PROVE  t < s + 1 <=> t < next \/ t = s
  <2>1. t \in Waiting <=> next <= t
    BY <1>1, <1>3 DEF Waiting
  <2> QED
    BY <1>1, <1>2, <2>1
<1>4. \A t \in DOMAIN streams : Turn(t)' <=> Turn(t) \/ t = s
  <2>1. next' = s + 1
    BY DEF s
  <2> QED
    BY <1>1, <1>3, <2>1 DEF Turn
<1>5. ~ Turn(s)
  BY <1>1 DEF Turn
<1> QED
  BY <1>4, <1>5 DEF s

(* Placing the next stream in streamer d, old or new.                       *)
LEMMA PlacingKeeps ==
  ASSUME CalTypeOK, Placement, Waiting # {}, step = "allocate",
         next' = Min(Waiting) + 1, phase' = phase, streams' = streams, step' = step,
         NEW d, Streamer' = Streamer \cup {d},
         \A e \in Streamer : e # d => dfx_streamers'[e] = dfx_streamers[e],
         dfx_streamers'[d].streams =
           (IF d \in Streamer THEN dfx_streamers[d].streams ELSE {}) \cup {Min(Waiting)},
         d \in Streamer => /\ dfx_streamers'[d].banks = dfx_streamers[d].banks
                           /\ dfx_streamers'[d].region = dfx_streamers[d].region,
         dfx_streamers'[d].banks = AmtBanks(Min(Waiting)),
         dfx_streamers'[d].region = streams[Min(Waiting)].region
  PROVE  Placement'
<1> DEFINE s == Min(Waiting)
<1>1. /\ s \in DOMAIN streams /\ ~ Turn(s)
      /\ \A t \in DOMAIN streams : Turn(t)' <=> Turn(t) \/ t = s
  BY NextStream, NextTurn
<1>2. /\ \A t \in DOMAIN streams : \A c, e \in Streamer :
           t \in dfx_streamers[c].streams /\ t \in dfx_streamers[e].streams => c = e
      /\ \A t \in DOMAIN streams : Turn(t) <=> \E e \in Streamer : t \in dfx_streamers[e].streams
      /\ \A e \in Streamer : \A t \in dfx_streamers[e].streams :
           dfx_streamers[e].banks = AmtBanks(t) /\ dfx_streamers[e].region = streams[t].region
  BY DEF Placement
<1>3. \A t : AmtBanks(t)' = AmtBanks(t)
  BY DEF AmtBanks
<1>4. /\ dfx_streamers'[d].streams =
           (IF d \in Streamer THEN dfx_streamers[d].streams ELSE {}) \cup {s}
      /\ dfx_streamers'[d].banks = AmtBanks(s) /\ dfx_streamers'[d].region = streams[s].region
  OBVIOUS
<1> HIDE DEF s
<1>5. \A e \in Streamer : s \notin dfx_streamers[e].streams
  BY <1>1, <1>2
<1>6. \A t, e : e \in Streamer' =>
        (t \in dfx_streamers'[e].streams <=>
           \/ e \in Streamer /\ t \in dfx_streamers[e].streams
           \/ e = d /\ t = s)
  BY <1>4
<1>7. \A t \in DOMAIN streams : \A c, e \in Streamer' :
        t \in dfx_streamers'[c].streams /\ t \in dfx_streamers'[e].streams => c = e
  BY <1>2, <1>5, <1>6
<1>8. \A t \in DOMAIN streams : Turn(t)' <=> \E e \in Streamer' : t \in dfx_streamers'[e].streams
  BY <1>1, <1>2, <1>6
<1>9. \A e \in Streamer' : \A t \in dfx_streamers'[e].streams :
        dfx_streamers'[e].banks = AmtBanks(t) /\ dfx_streamers'[e].region = streams[t].region
  <2>1. \A t \in dfx_streamers'[d].streams :
          dfx_streamers'[d].banks = AmtBanks(t) /\ dfx_streamers'[d].region = streams[t].region
    BY <1>2, <1>4
  <2>2. \A e \in Streamer : e # d => \A t \in dfx_streamers'[e].streams :
          dfx_streamers'[e].banks = AmtBanks(t) /\ dfx_streamers'[e].region = streams[t].region
    BY <1>2
  <2> QED
    BY <2>1, <2>2
<1>10. ~ Allocated'
  BY DEF Allocated
<1> QED
  BY <1>3, <1>7, <1>8, <1>9, <1>10 DEF Placement

LEMMA ReusePlaces ==
  ASSUME CalTypeOK, Placement, Reuse
  PROVE  Placement'
<1> DEFINE s == Min(Waiting)
           i == Min(Matching(s))
           d == free_dfx_streamers[i]
<1>1. /\ step = "allocate" /\ Waiting # {} /\ Matching(s) # {}
      /\ dfx_streamers' = [dfx_streamers EXCEPT ![d].next_fin = streams[s].free_phase,
                                               ![d].streams = @ \cup {s}]
      /\ next' = s + 1 /\ streams' = streams /\ step' = step /\ phase' = phase
  BY DEF Reuse
<1>2. /\ i \in DOMAIN free_dfx_streamers
      /\ dfx_streamers[d].banks = AmtBanks(s) /\ dfx_streamers[d].region = streams[s].region
  <2>1. Matching(s) \in SUBSET Nat
    BY DEF Matching, CalTypeOK
  <2>2. i \in Matching(s)
    BY <1>1, <2>1, MinOfNats
  <2> QED
    BY <2>2 DEF Matching
<1>3. d \in Streamer
  BY <1>2 DEF CalTypeOK
<1>4. dfx_streamers[d] \in StreamerRecord
  BY <1>3, PoolMembers
<1> DEFINE rec == [dfx_streamers[d] EXCEPT !.next_fin = streams[s].free_phase,
                                           !.streams = dfx_streamers[d].streams \cup {s}]
<1>5. dfx_streamers' = [dfx_streamers EXCEPT ![d] = rec]
  BY <1>1, <1>3, <1>4 DEF CalTypeOK, StreamerRecord, Streamer
<1>6. /\ rec.streams = dfx_streamers[d].streams \cup {s}
      /\ rec.banks = dfx_streamers[d].banks /\ rec.region = dfx_streamers[d].region
  BY <1>4 DEF StreamerRecord
<1> HIDE DEF rec, i, d
<1>7. /\ Streamer' = Streamer \cup {d}
      /\ \A e \in Streamer : e # d => dfx_streamers'[e] = dfx_streamers[e]
      /\ dfx_streamers'[d] = rec
  BY <1>3, <1>5 DEF CalTypeOK, Streamer
<1> QED
  BY <1>1, <1>2, <1>3, <1>6, <1>7, PlacingKeeps

LEMMA CreatePlaces ==
  ASSUME CalTypeOK, Placement, Create
  PROVE  Placement'
<1> DEFINE s == Min(Waiting)
           d == Len(dfx_streamers) + 1
           new == [banks |-> AmtBanks(s), region |-> streams[s].region,
                   next_fin |-> streams[s].free_phase, mul |-> 1, streams |-> {s}]
<1>1. /\ step = "allocate" /\ Waiting # {}
      /\ dfx_streamers' = Append(dfx_streamers, new)
      /\ next' = s + 1 /\ streams' = streams /\ step' = step /\ phase' = phase
  BY DEF Create
<1>2. /\ new.streams = {s} /\ new.banks = AmtBanks(s) /\ new.region = streams[s].region
  OBVIOUS
<1> HIDE DEF new
<1>3. /\ Streamer' = Streamer \cup {d} /\ d \notin Streamer
      /\ \A e \in Streamer : e # d => dfx_streamers'[e] = dfx_streamers[e]
      /\ dfx_streamers'[d] = new
  BY <1>1 DEF CalTypeOK, Streamer
<1> HIDE DEF d
<1> QED
  BY <1>1, <1>2, <1>3, PlacingKeeps

(* A step that places no stream.                                            *)
LEMMA OthersPlace ==
  ASSUME Placement, streams' = streams, Streamer' = Streamer,
         \A d \in Streamer : /\ dfx_streamers'[d].streams = dfx_streamers[d].streams
                             /\ dfx_streamers'[d].banks = dfx_streamers[d].banks
                             /\ dfx_streamers'[d].region = dfx_streamers[d].region,
         \A s \in DOMAIN streams : Turn(s)' <=> Turn(s),
         Allocated' => AmtPhase <= phase'
  PROVE  Placement'
<1>1. \A t : AmtBanks(t)' = AmtBanks(t)
  BY DEF AmtBanks
<1> QED
  BY <1>1 DEF Placement

LEMMA GrowStreamers ==
  ASSUME CalTypeOK, Grow
  PROVE  /\ Streamer' = Streamer
         /\ \A d \in Streamer : /\ dfx_streamers'[d].streams = dfx_streamers[d].streams
                                /\ dfx_streamers'[d].banks = dfx_streamers[d].banks
                                /\ dfx_streamers'[d].region = dfx_streamers[d].region
<1> DEFINE d == Bottleneck
           rec == [dfx_streamers[d] EXCEPT !.mul = dfx_streamers[d].mul + 1]
<1>1. dfx_streamers' = [dfx_streamers EXCEPT ![d] = rec]
  BY DEF Grow
<1>2. d \in Streamer => /\ rec.streams = dfx_streamers[d].streams
                        /\ rec.banks = dfx_streamers[d].banks
                        /\ rec.region = dfx_streamers[d].region
  BY PoolMembers DEF StreamerRecord
<1> HIDE DEF d, rec
<1>3. Streamer' = Streamer
  BY <1>1 DEF Streamer, CalTypeOK
<1>4. \A e \in Streamer : dfx_streamers'[e] = IF e = d THEN rec ELSE dfx_streamers[e]
  BY <1>1 DEF Streamer, CalTypeOK
<1> QED
  BY <1>2, <1>3, <1>4

LEMMA PlacementNext ==
  ASSUME CalInvariant, Placement, [CalNext]_cal_vars
  PROVE  Placement'
<1>1. CalTypeOK /\ phase \in Nat /\ AmtPhase \in Nat /\ next \in Nat
  BY CalAssumption DEF CalInvariant, CalTypeOK
<1>2. CASE Check
  <2>1. /\ streams' = streams /\ dfx_streamers' = dfx_streamers /\ phase' = phase /\ next' = next
        /\ phase = 0 /\ (Allocated' => ~ (0 < AmtPhase))
    BY <1>2 DEF Check, CalInvariant, AfterPhase, Allocated
  <2> QED
    BY <1>1, <2>1, OthersPlace DEF Turn, Streamer
<1>3. CASE Reuse
  BY <1>1, <1>3, ReusePlaces
<1>4. CASE Create
  BY <1>1, <1>4, CreatePlaces
<1>5. CASE Release
  BY <1>1, <1>5, OthersPlace DEF Release, Turn, Streamer, Allocated
<1>6. CASE EndPhase
  <2>1. /\ streams' = streams /\ dfx_streamers' = dfx_streamers /\ phase' = phase + 1 /\ next' = 1
        /\ Waiting = {} /\ (Allocated' => ~ (phase + 1 < AmtPhase))
    BY <1>6 DEF EndPhase, AfterPhase, Allocated
  <2>2. ASSUME NEW s \in DOMAIN streams
        PROVE  Turn(s)' <=> Turn(s)
    <3>1. /\ s \in 1 .. Len(streams) /\ Len(streams) \in Nat
          /\ streams[s].alloc_phase \in Nat
      <4>1. streams[s] \in Stream /\ s \in 1 .. Len(streams) /\ Len(streams) \in Nat
        BY <1>1 DEF CalTypeOK
      <4> QED
        BY <4>1 DEF Stream
    <3>2. streams[s].alloc_phase = phase => s < next
      BY <1>1, <2>1, <3>1 DEF Waiting
    <3> QED
      BY <1>1, <2>1, <3>1, <3>2 DEF Turn
  <2> QED
    BY <1>1, <2>1, <2>2, OthersPlace DEF Streamer
<1>7. CASE Grow
  <2>1. /\ streams' = streams /\ phase' = phase /\ next' = next /\ step' = step
    BY <1>7 DEF Grow
  <2>2. Allocated' => AmtPhase <= phase'
    BY <2>1 DEF Allocated, Placement
  <2> QED
    BY <1>1, <1>7, <2>1, <2>2, GrowStreamers, OthersPlace DEF Turn
<1>8. CASE Stop
  <2>1. /\ streams' = streams /\ phase' = phase /\ next' = next
        /\ dfx_streamers' = dfx_streamers /\ Allocated
    BY <1>8 DEF Stop, Allocated
  <2> QED
    BY <2>1, OthersPlace DEF Turn, Streamer, Placement
<1>9. CASE UNCHANGED cal_vars
  BY <1>9, OthersPlace DEF cal_vars, Turn, Streamer, Allocated, Placement
<1> QED
  BY <1>2, <1>3, <1>4, <1>5, <1>6, <1>7, <1>8, <1>9 DEF CalNext

LEMMA PlacementInit ==
  ASSUME CalInit
  PROVE  Placement
<1>1. /\ streams \in Topologies /\ step = "check" /\ phase = 0 /\ next = 1 /\ Streamer = {}
  BY DEF CalInit, Streamer
<1>2. ASSUME NEW s \in DOMAIN streams
      PROVE  ~ Turn(s)
  <2>1. s \in Nat \ {0} /\ streams[s].alloc_phase \in Nat
    <3>1. streams \in Seq(Stream)
      BY <1>1, CalAssumption
    <3>2. streams[s] \in Stream /\ s \in 1 .. Len(streams) /\ Len(streams) \in Nat
      BY <3>1
    <3> QED
      BY <3>2 DEF Stream
  <2> QED
    BY <1>1, <2>1 DEF Turn
<1> QED
  BY <1>1, <1>2 DEF Placement, Allocated

LEMMA RoundUp ==
  \A n, w \in Nat \ {0} : LET k == (n + w - 1) \div w IN n <= k * w /\ k * w < n + w
  OBVIOUS

LEMMA PlacementPlaces == CalTypeOK /\ Placement => EachPlaced
<1> SUFFICES ASSUME CalTypeOK, Placement, Allocated,
                    NEW s \in DOMAIN streams, streams[s].alloc_phase < AmtPhase
             PROVE  \E d \in Streamer :
                      /\ \A e \in Streamer : s \in dfx_streamers[e].streams <=> e = d
                      /\ streams[s].bits <= BusBits(d) /\ BusBits(d) < streams[s].bits + BankWidth
                      /\ dfx_streamers[d].region = streams[s].region
  BY DEF EachPlaced
<1>1. streams[s] \in Stream /\ phase \in Nat /\ AmtPhase \in Nat
  BY CalAssumption DEF CalTypeOK
<1>2. Turn(s)
  <2>1. streams[s].alloc_phase \in Nat /\ AmtPhase <= phase
    BY <1>1 DEF Stream, Placement
  <2> QED
    BY <1>1, <2>1 DEF Turn
<1>3. PICK d \in Streamer : s \in dfx_streamers[d].streams
  BY <1>2 DEF Placement
<1>4. \A e \in Streamer : s \in dfx_streamers[e].streams <=> e = d
  BY <1>3 DEF Placement
<1>5. dfx_streamers[d].banks = AmtBanks(s) /\ dfx_streamers[d].region = streams[s].region
  BY <1>3 DEF Placement
<1>6. streams[s].bits <= BusBits(d) /\ BusBits(d) < streams[s].bits + BankWidth
  <2>1. streams[s].bits \in Nat \ {0} /\ BankWidth \in Nat \ {0}
    BY <1>1, CalAssumption DEF Stream
  <2> QED
    BY <1>5, <2>1, RoundUp DEF BusBits, AmtBanks
<1> QED
  BY <1>4, <1>5, <1>6

(* Every stream of a phase of the run gets one streamer, wide enough for it *)
(* without a bank to spare, in its own region.                             *)
THEOREM StreamsArePlaced == CalSpec => []EachPlaced
<1>1. CalInit => CalInvariant /\ Placement
  BY CalInitInvariant, PlacementInit
<1>2. CalInvariant /\ Placement /\ [CalNext]_cal_vars => (CalInvariant /\ Placement)'
  BY CalNextInvariant, PlacementNext
<1>3. CalInvariant /\ Placement => EachPlaced
  BY PlacementPlaces DEF CalInvariant
<1> QED
  BY <1>1, <1>2, <1>3, PTL DEF CalSpec

-----------------------------------------------------------------------------
(* Sums over a set, as MapThenSumSet takes them: one member after another.  *)

Member(set) == CHOOSE x \in set : TRUE

IsSum(sum, w, D) ==
  /\ sum \in [SUBSET D -> Nat]
  /\ \A set \in SUBSET D :
       sum[set] = IF set = {} THEN 0 ELSE w[Member(set)] + sum[set \ {Member(set)}]

(* Subsets by their size: what holds of a subset whenever it holds of it    *)
(* without one member holds of all.                                        *)
LEMMA LeastCounterexample ==
  ASSUME NEW D, IsFiniteSet(D), NEW Bad \in SUBSET (SUBSET D), Bad # {}
  PROVE  \E set \in Bad : set = {} \/ (set \ {Member(set)}) \notin Bad
<1> DEFINE Sizes == {Cardinality(set) : set \in Bad}
<1>1. \A set \in SUBSET D : IsFiniteSet(set) /\ Cardinality(set) \in Nat
  BY FS_Subset, FS_CardinalityType
<1>2. Min(Sizes) \in Sizes /\ \A n \in Sizes : Min(Sizes) <= n
  <2>1. Sizes \in SUBSET Nat /\ Sizes # {}
    BY <1>1
  <2> HIDE DEF Sizes
  <2> QED
    BY <2>1, MinOfNats
<1>3. PICK set \in Bad : Cardinality(set) = Min(Sizes)
  BY <1>2
<1>4. ASSUME set # {}, set \ {Member(set)} \in Bad
      PROVE  FALSE
  <2>1. Member(set) \in set
    BY <1>4 DEF Member
  <2>2. Cardinality(set \ {Member(set)}) = Cardinality(set) - 1
    BY <1>1, <2>1, FS_RemoveElement
  <2>3. Min(Sizes) <= Cardinality(set \ {Member(set)})
    BY <1>2, <1>4
  <2>4. Cardinality(set) \in Nat
    BY <1>1
  <2> HIDE DEF Sizes
  <2> QED
    BY <1>3, <2>2, <2>3, <2>4
<1> QED
  BY <1>4

(* There is such a sum: for the sets of at most k members, for every k.     *)
Partial(sum, w, D, k) ==
  /\ sum \in [SUBSET D -> Nat]
  /\ \A set \in SUBSET D : Cardinality(set) <= k =>
       sum[set] = IF set = {} THEN 0 ELSE w[Member(set)] + sum[set \ {Member(set)}]

LEMMA SumExists ==
  ASSUME NEW D, IsFiniteSet(D), NEW w \in [D -> Nat]
  PROVE  \E sum : IsSum(sum, w, D)
<1>1. \A set \in SUBSET D : IsFiniteSet(set) /\ Cardinality(set) \in Nat
                            /\ Cardinality(set) <= Cardinality(D)
  BY FS_Subset, FS_CardinalityType
<1>2. ASSUME NEW set \in SUBSET D, set # {}
      PROVE  /\ Member(set) \in D /\ set \ {Member(set)} \in SUBSET D
             /\ Cardinality(set \ {Member(set)}) = Cardinality(set) - 1
  <2>1. Member(set) \in set
    BY <1>2 DEF Member
  <2> QED
    BY <1>1, <2>1, FS_RemoveElement
<1> DEFINE Bad == {k \in Nat : ~ \E sum : Partial(sum, w, D, k)}
<1>3. Bad = {}
  <2>1. SUFFICES ASSUME Bad # {} PROVE FALSE
    OBVIOUS
  <2>2. Min(Bad) \in Bad /\ \A n \in Bad : Min(Bad) <= n
    BY <2>1, MinOfNats
  <2> DEFINE k == Min(Bad)
  <2>3. k \in Nat /\ ~ \E sum : Partial(sum, w, D, k)
    BY <2>2
  <2>4. CASE k = 0
    <3> DEFINE zero == [set \in SUBSET D |-> 0]
    <3>1. zero \in [SUBSET D -> Nat] /\ \A set \in SUBSET D : zero[set] = 0
      OBVIOUS
    <3>2. \A set \in SUBSET D : Cardinality(set) <= 0 => set = {}
      <4>1. \A set \in SUBSET D : Cardinality(set) <= 0 => Cardinality(set) = 0
        BY <1>1
      <4> QED
        BY <1>1, <4>1, FS_EmptySet
    <3> HIDE DEF zero
    <3>3. Partial(zero, w, D, 0)
      BY <3>1, <3>2 DEF Partial
    <3> QED
      BY <2>3, <2>4, <3>3
  <2>5. CASE k # 0
    <3>1. k - 1 \in Nat /\ k - 1 \notin Bad
      BY <2>2, <2>3, <2>5
    <3>2. PICK sum : Partial(sum, w, D, k - 1)
      BY <3>1
    <3> DEFINE value(set) == IF set = {} THEN 0
                             ELSE w[Member(set)] + sum[set \ {Member(set)}]
               longer == [set \in SUBSET D |-> value(set)]
    <3>3. \A set \in SUBSET D : value(set) \in Nat
      <4>1. \A set \in SUBSET D : set # {} => /\ w[Member(set)] \in Nat
                                             /\ sum[set \ {Member(set)}] \in Nat
        BY <1>2, <3>2 DEF Partial
      <4> QED
        BY <4>1
    <3>4. longer \in [SUBSET D -> Nat] /\ \A set \in SUBSET D : longer[set] = value(set)
      BY <3>3
    <3>5. ASSUME NEW set \in SUBSET D, Cardinality(set) <= k - 1
          PROVE  longer[set] = sum[set]
      BY <3>2, <3>4, <3>5 DEF Partial
    <3>6. ASSUME NEW set \in SUBSET D, Cardinality(set) <= k, set # {}
          PROVE  longer[set \ {Member(set)}] = sum[set \ {Member(set)}]
      <4>1. Cardinality(set \ {Member(set)}) <= k - 1
        BY <1>1, <1>2, <2>3, <3>6
      <4> HIDE DEF longer
      <4> QED
        BY <1>2, <3>5, <3>6, <4>1
    <3> HIDE DEF longer
    <3>7. Partial(longer, w, D, k)
      BY <3>4, <3>6 DEF Partial
    <3> QED
      BY <2>3, <3>7
  <2> QED
    BY <2>4, <2>5
<1>4. Cardinality(D) \in Nat
  BY FS_CardinalityType
<1>5. PICK sum : Partial(sum, w, D, Cardinality(D))
  BY <1>3, <1>4
<1>6. IsSum(sum, w, D)
  BY <1>1, <1>5 DEF Partial, IsSum
<1> QED
  BY <1>6

(* Greater summands, and one of them by n, give a sum greater by n.         *)
LEMMA SumGrows ==
  ASSUME NEW D, IsFiniteSet(D), NEW u \in [D -> Nat], NEW v \in [D -> Nat],
         NEW su, IsSum(su, u, D), NEW sv, IsSum(sv, v, D),
         \A d \in D : u[d] <= v[d],
         NEW e \in D, NEW n \in Nat, u[e] + n <= v[e]
  PROVE  su[D] + n <= sv[D]
<1> DEFINE extra(set) == IF e \in set THEN n ELSE 0
           Bad == {set \in SUBSET D : ~ (su[set] + extra(set) <= sv[set])}
<1>1. Bad = {}
  <2>1. SUFFICES ASSUME Bad # {} PROVE FALSE
    OBVIOUS
  <2>2. PICK set \in Bad : set = {} \/ (set \ {Member(set)}) \notin Bad
    <3>1. Bad \in SUBSET (SUBSET D)
      OBVIOUS
    <3> HIDE DEF Bad
    <3> QED
      BY <2>1, <3>1, LeastCounterexample
  <2>3. set \in SUBSET D /\ ~ (su[set] + extra(set) <= sv[set])
    OBVIOUS
  <2>4. set # {}
    <3>1. su[{}] = 0 /\ sv[{}] = 0 /\ extra({}) = 0
      BY DEF IsSum
    <3> QED
      BY <2>3, <3>1
  <2> DEFINE x == Member(set)
             rest == set \ {x}
  <2>5. x \in set
    BY <2>4 DEF Member
  <2>6. rest \in SUBSET D /\ su[rest] + extra(rest) <= sv[rest]
    BY <2>2, <2>3, <2>4
  <2>7. su[set] = u[x] + su[rest] /\ sv[set] = v[x] + sv[rest]
    BY <2>3, <2>4 DEF IsSum
  <2>8. /\ u[x] \in Nat /\ v[x] \in Nat /\ su[rest] \in Nat /\ sv[rest] \in Nat
    BY <2>3, <2>5, <2>6 DEF IsSum
  <2>9. IF x = e THEN extra(rest) = 0 /\ extra(set) = n /\ u[x] + n <= v[x]
        ELSE extra(rest) = extra(set) /\ u[x] <= v[x]
    BY <2>3, <2>5
  <2>10. extra(rest) \in Nat /\ extra(set) \in Nat
    OBVIOUS
  <2> HIDE DEF x, rest, extra
  <2> QED
    BY <2>3, <2>6, <2>7, <2>8, <2>9, <2>10
<1>2. su[D] + extra(D) <= sv[D]
  BY <1>1
<1> QED
  BY <1>2

LEMMA StreamersFinite ==
  ASSUME CalTypeOK
  PROVE  /\ IsFiniteSet(Streamer)
         /\ \A d \in Streamer : dfx_streamers[d].banks \in Nat /\ dfx_streamers[d].mul \in Nat \ {0}
<1>1. Streamer = 1 .. Len(dfx_streamers) /\ Len(dfx_streamers) \in Nat
      /\ \A d \in Streamer : dfx_streamers[d] \in StreamerRecord
  BY PoolMembers
<1>2. IsFiniteSet(1 .. Len(dfx_streamers))
  BY <1>1, FS_Interval
<1> QED
  BY <1>1, <1>2 DEF StreamerRecord

(* The equations of a sum make it one.                                      *)
LEMMA SumTyped ==
  ASSUME NEW D, IsFiniteSet(D), NEW w \in [D -> Nat],
         NEW f, f = [set \in SUBSET D |-> f[set]],
         \A set \in SUBSET D :
           f[set] = IF set = {} THEN 0 ELSE w[Member(set)] + f[set \ {Member(set)}]
  PROVE  IsSum(f, w, D)
<1> DEFINE Bad == {set \in SUBSET D : f[set] \notin Nat}
<1>1. SUFFICES ASSUME Bad # {} PROVE FALSE
  BY DEF IsSum
<1>2. PICK set \in Bad : set = {} \/ (set \ {Member(set)}) \notin Bad
  <2>1. Bad \in SUBSET (SUBSET D)
    OBVIOUS
  <2> HIDE DEF Bad
  <2> QED
    BY <1>1, <2>1, LeastCounterexample
<1>3. set # {}
  <2>1. f[{}] = 0
    OBVIOUS
  <2>2. f[set] \notin Nat
    OBVIOUS
  <2>3. f[{}] \in Nat
    BY ONLY <2>1
  <2>4. ASSUME set = {} PROVE FALSE
    BY ONLY <2>2, <2>3, <2>4
  <2> QED
    BY ONLY <2>4
<1>4. Member(set) \in set
  BY <1>3 DEF Member
<1>5. w[Member(set)] \in Nat /\ f[set \ {Member(set)}] \in Nat
  BY <1>2, <1>3, <1>4
<1>6. f[set] = w[Member(set)] + f[set \ {Member(set)}] /\ f[set] \notin Nat
  BY <1>3
<1> HIDE DEF Bad
<1> QED
  BY <1>5, <1>6

(* The banks that are used are such a sum ...                               *)
LEMMA UsedIsSum ==
  ASSUME CalTypeOK
  PROVE  \E sum : /\ IsSum(sum, [d \in Streamer |-> dfx_streamers[d].banks * dfx_streamers[d].mul],
                           Streamer)
                  /\ BanksUsed = sum[Streamer]
<1> DEFINE D == Streamer
           w == [d \in D |-> dfx_streamers[d].banks * dfx_streamers[d].mul]
           body(f) == [set \in SUBSET D |->
             IF set = {} THEN 0
             ELSE dfx_streamers[CHOOSE x \in set : TRUE].banks
                    * dfx_streamers[CHOOSE x \in set : TRUE].mul
                  + f[set \ {CHOOSE x \in set : TRUE}]]
           used == CHOOSE f : f = body(f)
<1>1. \A d \in D : /\ dfx_streamers[d].banks * dfx_streamers[d].mul \in Nat
                   /\ w[d] = dfx_streamers[d].banks * dfx_streamers[d].mul
  BY StreamersFinite
<1>2. w \in [D -> Nat]
  BY <1>1
<1>3. \A set \in SUBSET D : set # {} => Member(set) \in D
  BY DEF Member
<1>4. PICK sum : IsSum(sum, w, D)
  <2> HIDE DEF w, D
  <2> QED
    BY <1>2, SumExists, StreamersFinite DEF D
<1>5. sum = body(sum)
  BY <1>1, <1>3, <1>4 DEF IsSum, Member
<1>6. used = body(used)
  <2> HIDE DEF body
  <2> QED
    BY <1>5
<1>7. BanksUsed = used[D]
  BY DEF BanksUsed, MapThenSumSet, MapThenFoldSet
<1>8. \A set \in SUBSET D :
        used[set] = IF set = {} THEN 0 ELSE w[Member(set)] + used[set \ {Member(set)}]
  <2> HIDE DEF used
  <2>1. ASSUME NEW set \in SUBSET D
        PROVE  used[set] = IF set = {} THEN 0 ELSE w[Member(set)] + used[set \ {Member(set)}]
    <3>1. used[set] = body(used)[set]
      BY <1>6
    <3>2. CASE set = {}
      BY <3>1, <3>2
    <3>3. CASE set # {}
      <4> DEFINE x == Member(set)
      <4>1. body(used)[set] = dfx_streamers[x].banks * dfx_streamers[x].mul + used[set \ {x}]
        BY <3>3 DEF Member
      <4>2. w[x] = dfx_streamers[x].banks * dfx_streamers[x].mul
        BY <1>1, <1>3, <3>3
      <4> HIDE DEF x, w, body
      <4> QED
        BY <3>1, <3>3, <4>1, <4>2 DEF x
    <3> QED
      BY <3>2, <3>3
  <2> QED
    BY <2>1
<1>9. used = [set \in SUBSET D |-> used[set]]
  <2> HIDE DEF used
  <2> QED
    BY <1>6
<1>10. IsSum(used, w, D)
  <2> HIDE DEF used, w, D
  <2> QED
    BY <1>2, <1>8, <1>9, SumTyped, StreamersFinite DEF D
<1> QED
  BY <1>7, <1>10

(* ... and so are the banks of any split.                                   *)
SplitBanks(mul) == MapThenSumSet(LAMBDA d : dfx_streamers[d].banks * mul[d], Streamer)

LEMMA SplitIsSum ==
  ASSUME CalTypeOK, NEW mul \in [Streamer -> Nat]
  PROVE  \E sum : /\ IsSum(sum, [d \in Streamer |-> dfx_streamers[d].banks * mul[d]],
                           Streamer)
                  /\ SplitBanks(mul) = sum[Streamer]
<1> DEFINE D == Streamer
           w == [d \in D |-> dfx_streamers[d].banks * mul[d]]
           body(f) == [set \in SUBSET D |->
             IF set = {} THEN 0
             ELSE dfx_streamers[CHOOSE x \in set : TRUE].banks
                    * mul[CHOOSE x \in set : TRUE]
                  + f[set \ {CHOOSE x \in set : TRUE}]]
           used == CHOOSE f : f = body(f)
<1>1. \A d \in D : /\ dfx_streamers[d].banks * mul[d] \in Nat
                   /\ w[d] = dfx_streamers[d].banks * mul[d]
  BY StreamersFinite
<1>2. w \in [D -> Nat]
  BY <1>1
<1>3. \A set \in SUBSET D : set # {} => Member(set) \in D
  BY DEF Member
<1>4. PICK sum : IsSum(sum, w, D)
  <2> HIDE DEF w, D
  <2> QED
    BY <1>2, SumExists, StreamersFinite DEF D
<1>5. sum = body(sum)
  BY <1>1, <1>3, <1>4 DEF IsSum, Member
<1>6. used = body(used)
  <2> HIDE DEF body
  <2> QED
    BY <1>5
<1>7. SplitBanks(mul) = used[D]
  BY DEF SplitBanks, MapThenSumSet, MapThenFoldSet
<1>8. \A set \in SUBSET D :
        used[set] = IF set = {} THEN 0 ELSE w[Member(set)] + used[set \ {Member(set)}]
  <2> HIDE DEF used
  <2>1. ASSUME NEW set \in SUBSET D
        PROVE  used[set] = IF set = {} THEN 0 ELSE w[Member(set)] + used[set \ {Member(set)}]
    <3>1. used[set] = body(used)[set]
      BY <1>6
    <3>2. CASE set = {}
      BY <3>1, <3>2
    <3>3. CASE set # {}
      <4> DEFINE x == Member(set)
      <4>1. body(used)[set] = dfx_streamers[x].banks * mul[x] + used[set \ {x}]
        BY <3>3 DEF Member
      <4>2. w[x] = dfx_streamers[x].banks * mul[x]
        BY <1>1, <1>3, <3>3
      <4> HIDE DEF x, w, body
      <4> QED
        BY <3>1, <3>3, <4>1, <4>2 DEF x
    <3> QED
      BY <3>2, <3>3
  <2> QED
    BY <2>1
<1>9. used = [set \in SUBSET D |-> used[set]]
  <2> HIDE DEF used
  <2> QED
    BY <1>6
<1>10. IsSum(used, w, D)
  <2> HIDE DEF used, w, D
  <2> QED
    BY <1>2, <1>8, <1>9, SumTyped, StreamersFinite DEF D
<1> QED
  BY <1>7, <1>10

-----------------------------------------------------------------------------
(* The greedy growth: the inductive invariant.  The last group of every     *)
(* streamer was given to it when no other had a smaller capacity, and when *)
(* the growth is over the next one would not have fit.                     *)

HoldsStreams == \A d \in Streamer : dfx_streamers[d].streams # {}

GrewAtBottleneck ==
  \A d, e \in Streamer : (dfx_streamers[d].mul - 1) * QueryPerGroup(d) <= Capacity(e)

Growth ==
  /\ HoldsStreams
  /\ step = "check" => Streamer = {}
  /\ ~ Allocated => \A d \in Streamer : dfx_streamers[d].mul = 1
  /\ Allocated => GrewAtBottleneck
  /\ step = "done" /\ Streamer # {} =>
       BanksUsed + dfx_streamers[Bottleneck].banks > TotalBanks

LEMMA CapacityTyped ==
  ASSUME CalTypeOK, HoldsStreams, NEW d \in Streamer
  PROVE  /\ QueryPerGroup(d) \in Nat /\ Capacity(d) \in Nat
         /\ \A s \in dfx_streamers[d].streams :
              AmtQueryPerBankGrp(s) \in Nat /\ QueryPerGroup(d) <= AmtQueryPerBankGrp(s)
<1>1. ASSUME NEW s \in dfx_streamers[d].streams
      PROVE  AmtQueryPerBankGrp(s) \in Nat
  <2>1. streams[s] \in Stream
    BY PhasesTyped DEF CalTypeOK
  <2>2. streams[s].entries \in Nat \ {0} /\ BankDepth \in Nat
    BY <2>1, CalAssumption DEF Stream
  <2> QED
    BY <2>2, DivTimes DEF AmtQueryPerBankGrp
<1> DEFINE Groups == {AmtQueryPerBankGrp(s) : s \in dfx_streamers[d].streams}
<1>2. Groups \in SUBSET Nat /\ Groups # {}
  BY <1>1 DEF HoldsStreams
<1>3. \A s \in dfx_streamers[d].streams : AmtQueryPerBankGrp(s) \in Groups
  OBVIOUS
<1>4. QueryPerGroup(d) = Min(Groups)
  BY DEF QueryPerGroup
<1> HIDE DEF Groups
<1>5. QueryPerGroup(d) \in Nat /\ \A n \in Groups : QueryPerGroup(d) <= n
  BY <1>2, <1>4, MinOfNats
<1>6. Capacity(d) \in Nat
  BY <1>5, StreamersFinite DEF Capacity
<1> QED
  BY <1>1, <1>3, <1>5, <1>6

LEMMA BottleneckIsLeast ==
  ASSUME CalTypeOK, HoldsStreams, Streamer # {}
  PROVE  Bottleneck \in Streamer /\ \A e \in Streamer : Capacity(Bottleneck) <= Capacity(e)
<1> DEFINE Capacities == {Capacity(d) : d \in Streamer}
           Least == {d \in Streamer : \A e \in Streamer : Capacity(d) <= Capacity(e)}
<1>1. Capacities \in SUBSET Nat /\ Capacities # {}
  BY CapacityTyped
<1>2. \A e \in Streamer : Capacity(e) \in Capacities
  OBVIOUS
<1>3. PICK d \in Streamer : Capacity(d) = Min(Capacities)
  <2> HIDE DEF Capacities
  <2>1. Min(Capacities) \in Capacities
    BY <1>1, MinOfNats
  <2> QED
    BY <2>1 DEF Capacities
<1>4. \A e \in Streamer : Min(Capacities) <= Capacity(e)
  <2> HIDE DEF Capacities
  <2> QED
    BY <1>1, <1>2, MinOfNats
<1>5. d \in Least
  BY <1>3, <1>4
<1>6. Least \in SUBSET Nat
  BY PoolMembers
<1>7. Bottleneck = Min(Least)
  BY DEF Bottleneck
<1>8. Min(Least) \in Least
  <2> HIDE DEF Least
  <2> QED
    BY <1>5, <1>6, MinOfNats
<1> QED
  BY <1>7, <1>8

(* The promised number is not below the capacity of the bottleneck.         *)
LEMMA PromisedByBottleneck ==
  ASSUME CalTypeOK, HoldsStreams, Streamer # {}
  PROVE  MinTotalQuery \in Nat /\ Capacity(Bottleneck) <= MinTotalQuery
<1> DEFINE query(e, t) == dfx_streamers[e].mul * AmtQueryPerBankGrp(t)
           Queries == UNION {{query(e, t) : t \in dfx_streamers[e].streams} : e \in Streamer}
<1>1. ASSUME NEW e \in Streamer, NEW t \in dfx_streamers[e].streams
      PROVE  query(e, t) \in Nat /\ Capacity(e) <= query(e, t)
  <2>1. /\ QueryPerGroup(e) \in Nat /\ AmtQueryPerBankGrp(t) \in Nat
        /\ QueryPerGroup(e) <= AmtQueryPerBankGrp(t) /\ dfx_streamers[e].mul \in Nat
    BY CapacityTyped, StreamersFinite
  <2>2. QueryPerGroup(e) * dfx_streamers[e].mul <= AmtQueryPerBankGrp(t) * dfx_streamers[e].mul
    BY <2>1, TimesMonotonic
  <2>3. /\ QueryPerGroup(e) * dfx_streamers[e].mul = Capacity(e)
        /\ AmtQueryPerBankGrp(t) * dfx_streamers[e].mul = query(e, t)
    BY <2>1 DEF Capacity
  <2>4. query(e, t) \in Nat
    BY <2>1
  <2> QED
    BY <2>2, <2>3, <2>4
<1>2. Queries \in SUBSET Nat /\ Queries # {}
  <2>1. Queries \in SUBSET Nat
    BY <1>1
  <2>2. PICK e \in Streamer : dfx_streamers[e].streams # {}
    BY DEF HoldsStreams
  <2>3. PICK t \in dfx_streamers[e].streams : query(e, t) \in Queries
    BY <2>2
  <2> QED
    BY <2>1, <2>3
<1>3. MinTotalQuery = Min(Queries)
  BY DEF MinTotalQuery
<1>4. MinTotalQuery \in Queries /\ MinTotalQuery \in Nat
  <2> HIDE DEF Queries
  <2> QED
    BY <1>2, <1>3, MinOfNats
<1>5. PICK e \in Streamer : \E t \in dfx_streamers[e].streams : MinTotalQuery = query(e, t)
  BY <1>4
<1>6. Capacity(e) <= MinTotalQuery
  BY <1>1, <1>5
<1>7. /\ Capacity(Bottleneck) <= Capacity(e)
      /\ Capacity(Bottleneck) \in Nat /\ Capacity(e) \in Nat
  BY BottleneckIsLeast, CapacityTyped
<1> HIDE DEF query, Queries
<1> QED
  BY <1>4, <1>6, <1>7

LEMMA GrowthIsBest ==
  ASSUME CalTypeOK, Growth
  PROVE  NoBetterSplit
<1>1. SUFFICES ASSUME step = "done", Streamer # {},
                      NEW mul \in [Streamer -> 1 .. TotalBanks],
                      \A d \in Streamer : mul[d] * QueryPerGroup(d) > MinTotalQuery
               PROVE  ~ (SplitBanks(mul) <= TotalBanks)
  BY DEF NoBetterSplit, SplitBanks
<1> DEFINE b == Bottleneck
           q(d) == QueryPerGroup(d)
           old(d) == dfx_streamers[d].mul
           banks(d) == dfx_streamers[d].banks
           u == [d \in Streamer |-> banks(d) * old(d)]
           v == [d \in Streamer |-> banks(d) * mul[d]]
<1>2. HoldsStreams /\ GrewAtBottleneck /\ BanksUsed + banks(b) > TotalBanks
  BY <1>1 DEF Growth, Allocated
<1>3. b \in Streamer /\ Capacity(b) <= MinTotalQuery /\ MinTotalQuery \in Nat
  BY <1>1, <1>2, BottleneckIsLeast, PromisedByBottleneck
<1>4. ASSUME NEW d \in Streamer
      PROVE  /\ banks(d) \in Nat /\ old(d) \in Nat \ {0} /\ mul[d] \in Nat
             /\ q(d) \in Nat /\ Capacity(d) \in Nat
             /\ mul[d] * q(d) > MinTotalQuery
  BY <1>1, <1>2, StreamersFinite, CapacityTyped, CalAssumption
<1>5. ASSUME NEW d \in Streamer, NEW n \in Nat, n * q(d) <= MinTotalQuery
      PROVE  n < mul[d]
  <2>1. SUFFICES ASSUME mul[d] <= n PROVE FALSE
    BY <1>4
  <2>2. mul[d] * q(d) <= n * q(d)
    BY <1>4, <2>1, TimesMonotonic
  <2>3. mul[d] * q(d) \in Nat /\ n * q(d) \in Nat
    BY <1>4
  <2> QED
    BY <1>3, <1>4, <1>5, <2>2, <2>3
<1>6. ASSUME NEW d \in Streamer
      PROVE  old(d) <= mul[d]
  <2>1. old(d) - 1 \in Nat /\ (old(d) - 1) * q(d) <= Capacity(b)
    BY <1>2, <1>3, <1>4 DEF GrewAtBottleneck
  <2>2. (old(d) - 1) * q(d) \in Nat /\ Capacity(b) \in Nat
    BY <1>3, <1>4, <2>1
  <2>3. (old(d) - 1) * q(d) <= MinTotalQuery
    BY <1>3, <2>1, <2>2
  <2>4. old(d) - 1 < mul[d]
    BY <1>5, <2>1, <2>3
  <2> QED
    BY <1>4, <2>4
<1>7. old(b) + 1 <= mul[b]
  <2>1. old(b) * q(b) <= MinTotalQuery
    BY <1>3 DEF Capacity
  <2>2. old(b) < mul[b]
    BY <1>3, <1>4, <1>5, <2>1
  <2> QED
    BY <1>3, <1>4, <2>2
<1> HIDE DEF b, q, old, banks
<1>8. \A d \in Streamer : u[d] = banks(d) * old(d) /\ v[d] = banks(d) * mul[d]
  OBVIOUS
<1>9. u \in [Streamer -> Nat] /\ v \in [Streamer -> Nat]
  BY <1>4
<1>10. \A d \in Streamer : u[d] <= v[d]
  <2>1. \A d \in Streamer : old(d) * banks(d) <= mul[d] * banks(d)
    BY <1>4, <1>6, TimesMonotonic
  <2>2. \A d \in Streamer : /\ old(d) * banks(d) = banks(d) * old(d)
                            /\ mul[d] * banks(d) = banks(d) * mul[d]
    BY <1>4
  <2> QED
    BY <1>8, <2>1, <2>2
<1>11. u[b] + banks(b) <= v[b]
  <2>1. (old(b) + 1) * banks(b) <= mul[b] * banks(b)
    <3>1. old(b) + 1 \in Nat /\ mul[b] \in Nat /\ banks(b) \in Nat
      BY <1>3, <1>4
    <3> QED
      BY <1>7, <3>1, TimesMonotonic
  <2>2. /\ (old(b) + 1) * banks(b) = banks(b) * old(b) + banks(b)
        /\ mul[b] * banks(b) = banks(b) * mul[b]
    BY <1>3, <1>4
  <2> QED
    BY <1>3, <1>8, <2>1, <2>2
<1>12. PICK su : IsSum(su, u, Streamer) /\ BanksUsed = su[Streamer]
  BY UsedIsSum DEF old, banks
<1>13. PICK sv : /\ IsSum(sv, v, Streamer)
                 /\ SplitBanks(mul) = sv[Streamer]
  <2>1. mul \in [Streamer -> Nat]
    BY CalAssumption
  <2> QED
    BY <2>1, SplitIsSum DEF banks
<1>14. IsFiniteSet(Streamer) /\ b \in Streamer /\ banks(b) \in Nat
  BY <1>3, <1>4, StreamersFinite
<1> HIDE DEF u, v
<1>15. su[Streamer] + banks(b) <= sv[Streamer]
  BY <1>9, <1>10, <1>11, <1>12, <1>13, <1>14, SumGrows
<1>16. su[Streamer] \in Nat /\ sv[Streamer] \in Nat /\ TotalBanks \in Nat
  BY <1>12, <1>13, CalAssumption DEF IsSum
<1> QED
  BY <1>2, <1>12, <1>13, <1>14, <1>15, <1>16

LEMMA GrowthInit == CalInit => Growth
BY DEF CalInit, Growth, HoldsStreams, Streamer, Allocated

LEMMA BanksUnchanged ==
  ASSUME dfx_streamers' = dfx_streamers
  PROVE  BanksUsed' = BanksUsed
BY DEF BanksUsed, Streamer, MapThenSumSet, MapThenFoldSet

(* The growth begins with one group each. *)
LEMMA GrowthBegins ==
  ASSUME CalTypeOK, Growth, ~ Allocated, dfx_streamers' = dfx_streamers, streams' = streams,
         step' \in {"grow", "done"}, step' = "done" => Streamer = {}
  PROVE  Growth'
<1>1. \A d \in Streamer : dfx_streamers[d].mul = 1 /\ QueryPerGroup(d) \in Nat /\ Capacity(d) \in Nat
  BY CapacityTyped DEF Growth
<1>2. \A d, e \in Streamer : (dfx_streamers[d].mul - 1) * QueryPerGroup(d) <= Capacity(e)
  <2>1. \A d \in Streamer : (dfx_streamers[d].mul - 1) * QueryPerGroup(d) = 0
    BY <1>1
  <2> QED
    BY <1>1, <2>1
<1>3. /\ Streamer' = Streamer /\ HoldsStreams' /\ Allocated' /\ step' # "check"
  BY DEF Streamer, Growth, HoldsStreams, Allocated
<1>4. \A d : QueryPerGroup(d)' = QueryPerGroup(d) /\ Capacity(d)' = Capacity(d)
  BY DEF QueryPerGroup, Capacity, AmtQueryPerBankGrp
<1>5. GrewAtBottleneck'
  BY <1>2, <1>3, <1>4 DEF GrewAtBottleneck
<1> QED
  BY <1>3, <1>5 DEF Growth

(* A stream is placed in a new streamer or in one that is reused.           *)
LEMMA PlacingGrows ==
  ASSUME Growth, step = "allocate", step' = step, NEW d, NEW s,
         Streamer' = Streamer \cup {d}, dfx_streamers'[d].mul = 1,
         \A e \in Streamer : e # d => dfx_streamers'[e] = dfx_streamers[e],
         s \in dfx_streamers'[d].streams
  PROVE  Growth'
<1>1. HoldsStreams'
  BY DEF Growth, HoldsStreams
<1>2. \A e \in Streamer' : dfx_streamers'[e].mul = 1
  BY DEF Growth, Allocated
<1> QED
  BY <1>1, <1>2 DEF Growth, Allocated

LEMMA GrowGrows ==
  ASSUME CalTypeOK, Growth, Grow
  PROVE  Growth'
<1> DEFINE b == Bottleneck
           q(d) == QueryPerGroup(d)
           mul(d) == dfx_streamers[d].mul
           grown(d) == dfx_streamers'[d].mul
<1>1. /\ step = "grow" /\ step' = step /\ streams' = streams /\ Streamer' = Streamer
      /\ dfx_streamers' = [dfx_streamers EXCEPT ![b].mul = @ + 1]
      /\ \A d \in Streamer : dfx_streamers'[d].streams = dfx_streamers[d].streams
  BY GrowStreamers DEF Grow
<1>2. CASE Streamer = {}
  BY <1>1, <1>2 DEF Growth, HoldsStreams, GrewAtBottleneck, Allocated
<1>3. CASE Streamer # {}
  <2>1. b \in Streamer /\ \A e \in Streamer : Capacity(b) <= Capacity(e)
    BY <1>3, BottleneckIsLeast DEF Growth
  <2>2. \A d \in Streamer : /\ mul(d) \in Nat \ {0} /\ q(d) \in Nat /\ Capacity(d) \in Nat
                            /\ Capacity(d) = mul(d) * q(d)
    BY StreamersFinite, CapacityTyped DEF Growth, Capacity
  <2>3. \A d \in Streamer : QueryPerGroup(d)' = q(d)
    BY <1>1 DEF QueryPerGroup, AmtQueryPerBankGrp
  <2>4. \A d \in Streamer : grown(d) = IF d = b THEN mul(d) + 1 ELSE mul(d)
    <3>1. \A d \in Streamer : dfx_streamers[d] \in StreamerRecord
      BY PoolMembers
    <3> HIDE DEF b
    <3> QED
      BY <1>1, <2>1, <3>1 DEF Streamer, StreamerRecord
  <2>5. \A d \in Streamer : Capacity(d)' = grown(d) * q(d)
    BY <2>3 DEF Capacity
  <2> HIDE DEF b, mul, grown, q
  <2>6. \A d \in Streamer : Capacity(d)' \in Nat /\ Capacity(d) <= Capacity(d)'
    <3>1. \A d \in Streamer : mul(d) <= grown(d) /\ grown(d) \in Nat
      BY <2>2, <2>4
    <3>2. \A d \in Streamer : mul(d) * q(d) <= grown(d) * q(d)
      BY <2>2, <3>1, TimesMonotonic
    <3>3. \A d \in Streamer : grown(d) * q(d) \in Nat
      BY <2>2, <3>1
    <3> QED
      BY <2>2, <2>5, <3>2, <3>3
  <2>7. \A d, e \in Streamer : (grown(d) - 1) * q(d) <= Capacity(e)
    <3>1. \A e \in Streamer : (grown(b) - 1) * q(b) <= Capacity(e)
      <4>1. grown(b) - 1 = mul(b) /\ (grown(b) - 1) * q(b) = Capacity(b)
        BY <2>1, <2>2, <2>4
      <4> QED
        BY <2>1, <4>1
    <3>2. \A d, e \in Streamer : (mul(d) - 1) * q(d) <= Capacity(e)
      BY <1>1 DEF Growth, Allocated, GrewAtBottleneck, mul, q
    <3> QED
      BY <2>4, <3>1, <3>2
  <2>8. \A d, e \in Streamer : (grown(d) - 1) * q(d) <= Capacity(e)'
    <3>1. \A d \in Streamer : (grown(d) - 1) * q(d) \in Int
      <4>1. \A d \in Streamer : grown(d) - 1 \in Int /\ q(d) \in Int
        BY <2>2, <2>4
      <4> QED
        BY <4>1
    <3> QED
      BY <2>2, <2>6, <2>7, <3>1
  <2>9. GrewAtBottleneck'
    BY <1>1, <2>3, <2>8 DEF GrewAtBottleneck, grown, q
  <2> QED
    BY <1>1, <2>9 DEF Growth, HoldsStreams, Allocated
<1> QED
  BY <1>2, <1>3

LEMMA SameStreamers ==
  ASSUME dfx_streamers' = dfx_streamers, streams' = streams
  PROVE  /\ Streamer' = Streamer /\ Bottleneck' = Bottleneck /\ BanksUsed' = BanksUsed
         /\ \A d : QueryPerGroup(d)' = QueryPerGroup(d) /\ Capacity(d)' = Capacity(d)
<1>1. Streamer' = Streamer
  BY DEF Streamer
<1>2. \A d : QueryPerGroup(d)' = QueryPerGroup(d) /\ Capacity(d)' = Capacity(d)
  BY DEF Capacity, QueryPerGroup, AmtQueryPerBankGrp
<1>3. Bottleneck' = Bottleneck
  BY <1>1, <1>2 DEF Bottleneck
<1> QED
  BY <1>1, <1>2, <1>3, BanksUnchanged

LEMMA GrowthNext ==
  ASSUME CalInvariant, Growth, [CalNext]_cal_vars
  PROVE  Growth'
<1>1. CalTypeOK /\ AmtPhase \in Nat
  BY CalAssumption DEF CalInvariant
<1>2. ASSUME dfx_streamers' = dfx_streamers, streams' = streams, step' = step
      PROVE  Growth'
  <2>1. /\ Streamer' = Streamer /\ Bottleneck' = Bottleneck /\ BanksUsed' = BanksUsed
        /\ \A d : QueryPerGroup(d)' = QueryPerGroup(d) /\ Capacity(d)' = Capacity(d)
    BY <1>2, SameStreamers
  <2> QED
    BY <1>2, <2>1 DEF Growth, HoldsStreams, Allocated, GrewAtBottleneck
<1>3. CASE Check
  <2>1. /\ step = "check" /\ dfx_streamers' = dfx_streamers /\ streams' = streams
        /\ step' \in {"error", "allocate", "done"} /\ Streamer = {} /\ ~ Allocated
    BY <1>3 DEF Check, AfterPhase, Growth, Allocated
  <2>2. Streamer' = {}
    BY <2>1 DEF Streamer
  <2> QED
    BY <2>1, <2>2 DEF Growth, HoldsStreams, Allocated, GrewAtBottleneck
<1>4. CASE Reuse
  <2> DEFINE s == Min(Waiting)
             d == free_dfx_streamers[Min(Matching(s))]
  <2>1. /\ step = "allocate" /\ step' = step /\ Matching(s) # {}
        /\ dfx_streamers' = [dfx_streamers EXCEPT ![d].next_fin = streams[s].free_phase,
                                                 ![d].streams = @ \cup {s}]
    BY <1>4 DEF Reuse
  <2>2. d \in Streamer
    <3>1. Matching(s) \in SUBSET Nat /\ Matching(s) \subseteq DOMAIN free_dfx_streamers
      BY <1>1 DEF Matching, CalTypeOK
    <3>2. Min(Matching(s)) \in DOMAIN free_dfx_streamers
      BY <2>1, <3>1, MinOfNats
    <3> QED
      BY <1>1, <3>2 DEF CalTypeOK
  <2> HIDE DEF s, d
  <2>3. dfx_streamers[d] \in StreamerRecord /\ dfx_streamers[d].mul = 1
    BY <1>1, <2>1, <2>2, PoolMembers DEF Growth, Allocated
  <2>4. /\ Streamer' = Streamer \cup {d}
        /\ \A e \in Streamer : e # d => dfx_streamers'[e] = dfx_streamers[e]
        /\ dfx_streamers'[d].mul = 1 /\ s \in dfx_streamers'[d].streams
    BY <2>1, <2>2, <2>3 DEF Streamer, StreamerRecord
  <2> QED
    BY <2>1, <2>4, PlacingGrows
<1>5. CASE Create
  <2> DEFINE s == Min(Waiting)
             d == Len(dfx_streamers) + 1
             new == [banks |-> AmtBanks(s), region |-> streams[s].region,
                     next_fin |-> streams[s].free_phase, mul |-> 1, streams |-> {s}]
  <2>1. step = "allocate" /\ step' = step /\ dfx_streamers' = Append(dfx_streamers, new)
    BY <1>5 DEF Create
  <2>2. new.mul = 1 /\ s \in new.streams
    OBVIOUS
  <2>3. /\ Streamer = 1 .. Len(dfx_streamers) /\ Len(dfx_streamers) \in Nat
        /\ dfx_streamers \in Seq(StreamerRecord)
    BY <1>1, PoolMembers DEF CalTypeOK
  <2> HIDE DEF new, s
  <2>4. /\ Streamer' = Streamer \cup {d} /\ dfx_streamers'[d] = new
        /\ \A e \in Streamer : e # d => dfx_streamers'[e] = dfx_streamers[e]
    BY <2>1, <2>3 DEF Streamer
  <2> QED
    BY <2>1, <2>2, <2>4, PlacingGrows
<1>6. CASE Release
  BY <1>2, <1>6 DEF Release
<1>7. CASE EndPhase
  <2>1. /\ step = "allocate" /\ dfx_streamers' = dfx_streamers /\ streams' = streams
        /\ step' = AfterPhase(phase + 1, dfx_streamers)
    BY <1>7 DEF EndPhase
  <2>2. dfx_streamers = <<>> => Streamer = {}
    BY DEF Streamer
  <2>3. CASE step' = "allocate"
    BY <1>2, <2>1, <2>3
  <2>4. CASE step' # "allocate"
    BY <1>1, <2>1, <2>2, <2>4, GrowthBegins DEF AfterPhase, Allocated
  <2> QED
    BY <2>3, <2>4
<1>8. CASE Grow
  BY <1>1, <1>8, GrowGrows
<1>9. CASE Stop
  <2>1. /\ step = "grow" /\ step' = "done" /\ dfx_streamers' = dfx_streamers /\ streams' = streams
        /\ BanksUsed + dfx_streamers[Bottleneck].banks > TotalBanks
    BY <1>9 DEF Stop
  <2>2. /\ Streamer' = Streamer /\ BanksUsed' = BanksUsed /\ Bottleneck' = Bottleneck
        /\ \A d : QueryPerGroup(d)' = QueryPerGroup(d) /\ Capacity(d)' = Capacity(d)
    BY <2>1, SameStreamers
  <2> QED
    BY <2>1, <2>2 DEF Growth, HoldsStreams, Allocated, GrewAtBottleneck
<1>10. CASE UNCHANGED cal_vars
  BY <1>2, <1>10 DEF cal_vars
<1> QED
  BY <1>3, <1>4, <1>5, <1>6, <1>7, <1>8, <1>9, <1>10 DEF CalNext

(* The greedy growth is as good as any: no split of the banks that fits the  *)
(* budget buffers more queries in every streamer than the report promises. *)
THEOREM NoSplitIsBetter == CalSpec => []NoBetterSplit
<1>1. CalInit => CalInvariant /\ Growth
  BY CalInitInvariant, GrowthInit
<1>2. CalInvariant /\ Growth /\ [CalNext]_cal_vars => (CalInvariant /\ Growth)'
  BY CalNextInvariant, GrowthNext
<1>3. CalInvariant /\ Growth => NoBetterSplit
  BY GrowthIsBest DEF CalInvariant
<1> QED
  BY <1>1, <1>2, <1>3, PTL DEF CalSpec

-----------------------------------------------------------------------------
(* Why reuse is complete: the inductive invariant.  A used streamer holds a  *)
(* stream of the current phase, and when the last streamer of a width and  *)
(* region was added all of them were used.                                 *)

UsedNow ==
  step \in {"check", "allocate"} =>
    \A d \in ToSet(using_dfx_streamers) : \E s \in dfx_streamers[d].streams :
      phase \in Live(s) /\ streams[s].free_phase = dfx_streamers[d].next_fin

Peak ==
  \A b, r : StreamersOf(b, r) # {} =>
    \E p \in 0 .. (AmtPhase - 1) :
      \A d \in StreamersOf(b, r) : \E s \in dfx_streamers[d].streams : p \in Live(s)

LEMMA MaxOfNats ==
  ASSUME NEW S \in SUBSET Nat, NEW m \in S, \A n \in S : n <= m
  PROVE  Max(S) = m
<1>1. \E x \in S : \A y \in S : x >= y
  OBVIOUS
<1>2. Max(S) \in S /\ \A y \in S : Max(S) >= y
  BY <1>1 DEF Max
<1>3. Max(S) \in Nat /\ m \in Nat /\ Max(S) >= m /\ Max(S) <= m
  BY <1>2
<1> HIDE <1>1
<1> QED
  BY ONLY <1>3

(* Streams that live in one phase have streamers of their own ...           *)
LEMMA LiveHaveOwn ==
  ASSUME CalTypeOK, Placement, StreamsApart, Allocated, NEW p \in 0 .. (AmtPhase - 1),
         NEW b, NEW r
  PROVE  /\ IsFiniteSet(LivingOf(b, r, p)) /\ IsFiniteSet(StreamersOf(b, r))
         /\ Cardinality(LivingOf(b, r, p)) <= Cardinality(StreamersOf(b, r))
<1>1. IsFiniteSet(StreamersOf(b, r))
  BY StreamersFinite, FS_Subset DEF StreamersOf
<1> DEFINE S == LivingOf(b, r, p)
           home == [s \in S |-> CHOOSE d \in Streamer : s \in dfx_streamers[d].streams]
<1>2. ASSUME NEW s \in S
      PROVE  /\ home[s] \in StreamersOf(b, r) /\ s \in dfx_streamers[home[s]].streams
             /\ s \in DOMAIN streams /\ p \in Live(s)
  <2>1. s \in DOMAIN streams /\ p \in Live(s) /\ AmtBanks(s) = b /\ streams[s].region = r
    BY DEF LivingOf
  <2>2. streams[s].alloc_phase \in Nat /\ streams[s].free_phase \in Nat
    <3>1. streams[s] \in Stream
      BY <2>1 DEF CalTypeOK
    <3> QED
      BY <3>1 DEF Stream
  <2>3. streams[s].alloc_phase < phase
    <3>1. AmtPhase \in Nat /\ phase \in Nat /\ AmtPhase <= phase
      BY CalAssumption DEF CalTypeOK, Placement
    <3>2. streams[s].alloc_phase <= p
      BY <2>1, <2>2 DEF Live
    <3> QED
      BY <2>2, <3>1, <3>2
  <2>4. \E d \in Streamer : s \in dfx_streamers[d].streams
    BY <2>1, <2>3 DEF Placement, Turn
  <2>5. home[s] \in Streamer /\ s \in dfx_streamers[home[s]].streams
    BY <2>4
  <2>6. dfx_streamers[home[s]].banks = b /\ dfx_streamers[home[s]].region = r
    BY <2>1, <2>5 DEF Placement
  <2> QED
    BY <2>1, <2>5, <2>6 DEF StreamersOf
<1>3. ASSUME NEW s \in S, NEW t \in S, home[s] = home[t]
      PROVE  s = t
  <2>1. home[s] \in Streamer /\ {s, t} \subseteq dfx_streamers[home[s]].streams
    BY <1>2, <1>3 DEF StreamersOf
  <2>2. p \in Live(s) \cap Live(t)
    BY <1>2
  <2> HIDE DEF home
  <2> QED
    BY <2>1, <2>2 DEF StreamsApart
<1>4. home \in Injection(S, StreamersOf(b, r))
  <2>1. home \in [S -> StreamersOf(b, r)]
    BY <1>2
  <2> QED
    BY <1>3, <2>1 DEF Injection, IsInjective
<1> QED
  BY <1>1, <1>4, FS_Injection

(* ... and at the peak every streamer has a stream that lives.              *)
LEMMA PeakIsFull ==
  ASSUME CalTypeOK, Placement, NEW p \in Nat, NEW b, NEW r,
         \A d \in StreamersOf(b, r) : \E s \in dfx_streamers[d].streams : p \in Live(s),
         IsFiniteSet(LivingOf(b, r, p))
  PROVE  Cardinality(StreamersOf(b, r)) <= Cardinality(LivingOf(b, r, p))
<1> DEFINE S == LivingOf(b, r, p)
           held == [d \in StreamersOf(b, r) |->
                      CHOOSE s \in dfx_streamers[d].streams : p \in Live(s)]
<1>1. ASSUME NEW d \in StreamersOf(b, r)
      PROVE  held[d] \in dfx_streamers[d].streams /\ held[d] \in S
  <2>1. /\ d \in Streamer /\ dfx_streamers[d].banks = b /\ dfx_streamers[d].region = r
    BY DEF StreamersOf
  <2>2. held[d] \in dfx_streamers[d].streams /\ p \in Live(held[d])
    OBVIOUS
  <2>3. held[d] \in DOMAIN streams
    BY <2>1, <2>2, PhasesTyped
  <2>4. AmtBanks(held[d]) = b /\ streams[held[d]].region = r
    BY <2>1, <2>2 DEF Placement
  <2> HIDE DEF held
  <2> QED
    BY <2>2, <2>3, <2>4 DEF LivingOf
<1>2. ASSUME NEW d \in StreamersOf(b, r), NEW e \in StreamersOf(b, r), held[d] = held[e]
      PROVE  d = e
  <2>1. d \in Streamer /\ e \in Streamer
    BY DEF StreamersOf
  <2>2. held[d] \in DOMAIN streams
    BY <1>1 DEF LivingOf
  <2>3. held[d] \in dfx_streamers[d].streams /\ held[d] \in dfx_streamers[e].streams
    BY <1>1, <1>2
  <2> HIDE DEF held
  <2> QED
    BY <2>1, <2>2, <2>3 DEF Placement
<1>3. held \in Injection(StreamersOf(b, r), S)
  <2>1. held \in [StreamersOf(b, r) -> S]
    BY <1>1
  <2> HIDE DEF held
  <2> QED
    BY <1>2, <2>1 DEF Injection, IsInjective
<1> QED
  BY <1>3, FS_Injection

LEMMA PeakIsFewest ==
  ASSUME CalTypeOK, Placement, StreamsApart, Peak
  PROVE  FewestStreamers
<1> DEFINE Counts(b, r) == {Cardinality(LivingOf(b, r, p)) : p \in 0 .. (AmtPhase - 1)}
<1>1. SUFFICES ASSUME Allocated, AmtPhase # 0, NEW b, NEW r
               PROVE  Cardinality(StreamersOf(b, r)) = Max(Counts(b, r))
  BY DEF FewestStreamers
<1>2. \A p \in 0 .. (AmtPhase - 1) :
        /\ IsFiniteSet(LivingOf(b, r, p)) /\ IsFiniteSet(StreamersOf(b, r))
        /\ Cardinality(LivingOf(b, r, p)) <= Cardinality(StreamersOf(b, r))
  BY <1>1, LiveHaveOwn
<1>3. 0 \in 0 .. (AmtPhase - 1)
  BY <1>1, CalAssumption
<1>4. Cardinality(StreamersOf(b, r)) \in Nat
      /\ \A p \in 0 .. (AmtPhase - 1) : Cardinality(LivingOf(b, r, p)) \in Nat
  BY <1>2, <1>3, FS_CardinalityType
<1>5. \E p \in 0 .. (AmtPhase - 1) : Cardinality(StreamersOf(b, r)) = Cardinality(LivingOf(b, r, p))
  <2>1. CASE StreamersOf(b, r) = {}
    <3>1. Cardinality(StreamersOf(b, r)) = 0
      BY <2>1, FS_EmptySet
    <3>2. Cardinality(LivingOf(b, r, 0)) <= 0 /\ Cardinality(LivingOf(b, r, 0)) \in Nat
      BY <1>2, <1>3, <1>4, <3>1
    <3>3. Cardinality(LivingOf(b, r, 0)) = 0
      BY <3>2
    <3> QED
      BY <1>3, <3>1, <3>3
  <2>2. CASE StreamersOf(b, r) # {}
    <3>1. PICK p \in 0 .. (AmtPhase - 1) :
            \A d \in StreamersOf(b, r) : \E s \in dfx_streamers[d].streams : p \in Live(s)
      BY <2>2 DEF Peak
    <3>2. p \in Nat /\ IsFiniteSet(LivingOf(b, r, p))
      BY <1>2, CalAssumption
    <3>3. Cardinality(StreamersOf(b, r)) <= Cardinality(LivingOf(b, r, p))
      BY <3>1, <3>2, PeakIsFull
    <3>4. Cardinality(StreamersOf(b, r)) = Cardinality(LivingOf(b, r, p))
      BY <1>2, <1>4, <3>3
    <3> QED
      BY <3>4
  <2> QED
    BY <2>1, <2>2
<1>6. /\ Counts(b, r) \in SUBSET Nat /\ Cardinality(StreamersOf(b, r)) \in Counts(b, r)
      /\ \A n \in Counts(b, r) : n <= Cardinality(StreamersOf(b, r))
  BY <1>2, <1>4, <1>5
<1> HIDE DEF Counts
<1> QED
  BY <1>6, MaxOfNats

(* What the peak is made of does not change.                                *)
LEMMA PeakStays ==
  ASSUME Peak, streams' = streams, Streamer' = Streamer,
         \A d \in Streamer : /\ dfx_streamers[d].streams \subseteq dfx_streamers'[d].streams
                             /\ dfx_streamers'[d].banks = dfx_streamers[d].banks
                             /\ dfx_streamers'[d].region = dfx_streamers[d].region
  PROVE  Peak'
<1>1. \A s : Live(s)' = Live(s)
  BY DEF Live
<1>2. \A b, r : StreamersOf(b, r)' = StreamersOf(b, r)
  BY DEF StreamersOf
<1>3. \A b, r : StreamersOf(b, r) \subseteq Streamer
  BY DEF StreamersOf
<1> QED
  BY <1>1, <1>2, <1>3 DEF Peak

(* The streamer of the stream that is placed is used from now on.           *)
LEMMA PlacedIsUsed ==
  ASSUME CalInvariant, UsedNow, Waiting # {}, step = "allocate",
         phase' = phase, streams' = streams,
         NEW d, ToSet(using_dfx_streamers)' \subseteq ToSet(using_dfx_streamers) \cup {d},
         \A e \in Streamer : e # d => dfx_streamers'[e] = dfx_streamers[e],
         Min(Waiting) \in dfx_streamers'[d].streams,
         dfx_streamers'[d].next_fin = streams[Min(Waiting)].free_phase
  PROVE  UsedNow' /\ phase \in Live(Min(Waiting))
<1> DEFINE s == Min(Waiting)
<1>1. CalTypeOK /\ s \in DOMAIN streams /\ streams[s] \in Stream /\ streams[s].alloc_phase = phase
      /\ streams[s].alloc_phase < streams[s].free_phase
  BY NextStream DEF CalInvariant
<1>2. phase \in Live(s)
  BY <1>1 DEF Live, Stream
<1>3. \A t : Live(t)' = Live(t)
  BY DEF Live
<1>4. ToSet(using_dfx_streamers) \subseteq Streamer
  BY <1>1, PoolMembers
<1> HIDE DEF s
<1>5. ASSUME NEW e \in ToSet(using_dfx_streamers)'
      PROVE  \E t \in dfx_streamers'[e].streams :
               phase \in Live(t) /\ streams[t].free_phase = dfx_streamers'[e].next_fin
  <2>1. CASE e = d
    BY <1>2, <2>1 DEF s
  <2>2. CASE e # d
    BY <1>4, <1>5, <2>2 DEF UsedNow
  <2> QED
    BY <2>1, <2>2
<1>6. UsedNow'
  BY <1>3, <1>5 DEF UsedNow
<1> QED
  BY <1>2, <1>6 DEF s

LEMMA ReusePeak ==
  ASSUME CalInvariant, UsedNow, Peak, Reuse
  PROVE  UsedNow' /\ Peak'
<1> DEFINE s == Min(Waiting)
           i == Min(Matching(s))
           d == free_dfx_streamers[i]
<1>1. /\ step = "allocate" /\ Waiting # {} /\ Matching(s) # {}
      /\ dfx_streamers' = [dfx_streamers EXCEPT ![d].next_fin = streams[s].free_phase,
                                               ![d].streams = @ \cup {s}]
      /\ using_dfx_streamers' = Append(using_dfx_streamers, d)
      /\ streams' = streams /\ phase' = phase
  BY DEF Reuse
<1>2. d \in Streamer
  <2>1. Matching(s) \in SUBSET Nat /\ Matching(s) \subseteq DOMAIN free_dfx_streamers
    BY DEF Matching, CalInvariant, CalTypeOK
  <2>2. i \in DOMAIN free_dfx_streamers
    BY <1>1, <2>1, MinOfNats
  <2> QED
    BY <2>2 DEF CalInvariant, CalTypeOK
<1>3. ToSet(using_dfx_streamers)' \subseteq ToSet(using_dfx_streamers) \cup {d}
  <2>1. using_dfx_streamers \in Seq(Streamer)
    BY DEF CalInvariant, CalTypeOK
  <2> HIDE DEF d
  <2> QED
    BY <1>1, <1>2, <2>1, AppendProperties DEF ToSet
<1>4. dfx_streamers[d] \in StreamerRecord
  BY <1>2, PoolMembers DEF CalInvariant
<1> HIDE DEF d
<1>5. /\ Streamer' = Streamer
      /\ \A e \in Streamer : e # d => dfx_streamers'[e] = dfx_streamers[e]
      /\ dfx_streamers'[d].streams = dfx_streamers[d].streams \cup {s}
      /\ dfx_streamers'[d].next_fin = streams[s].free_phase
      /\ dfx_streamers'[d].banks = dfx_streamers[d].banks
      /\ dfx_streamers'[d].region = dfx_streamers[d].region
  BY <1>1, <1>2, <1>4 DEF Streamer, StreamerRecord
<1>6. UsedNow'
  BY <1>1, <1>3, <1>5, PlacedIsUsed
<1>7. Peak'
  BY <1>1, <1>5, PeakStays
<1> QED
  BY <1>6, <1>7

LEMMA CreatePeak ==
  ASSUME CalInvariant, UsedNow, Peak, Create
  PROVE  UsedNow' /\ Peak'
<1> DEFINE s == Min(Waiting)
           d == Len(dfx_streamers) + 1
           new == [banks |-> AmtBanks(s), region |-> streams[s].region,
                   next_fin |-> streams[s].free_phase, mul |-> 1, streams |-> {s}]
<1>1. /\ step = "allocate" /\ Waiting # {} /\ Matching(s) = {}
      /\ dfx_streamers' = Append(dfx_streamers, new)
      /\ using_dfx_streamers' = Append(using_dfx_streamers, d)
      /\ streams' = streams /\ phase' = phase
  BY DEF Create
<1>2. /\ CalTypeOK /\ Streamer = 1 .. Len(dfx_streamers) /\ Len(dfx_streamers) \in Nat
      /\ dfx_streamers \in Seq(StreamerRecord)
      /\ ToSet(free_dfx_streamers) \cup ToSet(using_dfx_streamers) = Streamer
      /\ phase \in 0 .. (AmtPhase - 1)
  <2>1. CalTypeOK /\ phase < AmtPhase
    BY <1>1 DEF CalInvariant
  <2> QED
    BY <2>1, PoolMembers, CalAssumption DEF CalTypeOK
<1>3. new.streams = {s} /\ new.banks = AmtBanks(s) /\ new.region = streams[s].region
      /\ new.next_fin = streams[s].free_phase
  OBVIOUS
<1> HIDE DEF new
<1>4. /\ Streamer' = Streamer \cup {d} /\ d \notin Streamer /\ dfx_streamers'[d] = new
      /\ \A e \in Streamer : dfx_streamers'[e] = dfx_streamers[e]
  BY <1>1, <1>2 DEF Streamer
<1>5. ToSet(using_dfx_streamers)' \subseteq ToSet(using_dfx_streamers) \cup {d}
  <2>1. using_dfx_streamers \in Seq(Nat) /\ d \in Nat
    BY <1>2 DEF CalTypeOK
  <2> HIDE DEF d
  <2> QED
    BY <1>1, <2>1, AppendProperties DEF ToSet
<1>6. UsedNow' /\ phase \in Live(s)
  BY <1>1, <1>3, <1>4, <1>5, PlacedIsUsed
<1>7. \A t : Live(t)' = Live(t)
  BY <1>1 DEF Live
<1> HIDE DEF d
<1>8. ASSUME NEW b, NEW r, StreamersOf(b, r)' # {}
      PROVE  \E p \in 0 .. (AmtPhase - 1) :
               \A e \in StreamersOf(b, r)' : \E t \in dfx_streamers'[e].streams : p \in Live(t)
  <2>1. CASE b = AmtBanks(s) /\ r = streams[s].region
    <3>1. ASSUME NEW e \in StreamersOf(b, r)'
          PROVE  \E t \in dfx_streamers'[e].streams : phase \in Live(t)
      <4>1. e \in Streamer' /\ dfx_streamers'[e].banks = b /\ dfx_streamers'[e].region = r
        BY DEF StreamersOf
      <4>2. CASE e = d
        BY <1>3, <1>4, <1>6, <4>2
      <4>3. CASE e # d
        <5>1. e \in Streamer /\ dfx_streamers[e].banks = b /\ dfx_streamers[e].region = r
          BY <1>4, <4>1, <4>3
        <5>2. e \notin ToSet(free_dfx_streamers)
          BY <1>1, <2>1, <5>1 DEF Matching, ToSet
        <5>3. e \in ToSet(using_dfx_streamers)
          BY <1>2, <5>1, <5>2
        <5> QED
          BY <1>1, <1>4, <5>1, <5>3 DEF UsedNow
      <4> QED
        BY <4>2, <4>3
    <3> QED
      BY <1>2, <3>1
  <2>2. CASE ~ (b = AmtBanks(s) /\ r = streams[s].region)
    <3>1. \A e \in StreamersOf(b, r)' : e \in StreamersOf(b, r)
      BY <1>3, <1>4, <2>2 DEF StreamersOf
    <3>2. StreamersOf(b, r) # {} /\ StreamersOf(b, r) \subseteq Streamer
      BY <1>8, <3>1 DEF StreamersOf
    <3>3. PICK p \in 0 .. (AmtPhase - 1) :
            \A e \in StreamersOf(b, r) : \E t \in dfx_streamers[e].streams : p \in Live(t)
      BY <3>2 DEF Peak
    <3> QED
      BY <1>4, <3>1, <3>2, <3>3
  <2> QED
    BY <2>1, <2>2
<1>9. Peak'
  BY <1>7, <1>8 DEF Peak
<1> QED
  BY <1>6, <1>9

(* A phase ends when no used streamer is read in it.                        *)
LEMMA EndPhasePeak ==
  ASSUME CalInvariant, UsedNow, EndPhase
  PROVE  UsedNow'
<1>1. /\ step = "allocate" /\ Finished = {} /\ phase' = phase + 1
      /\ streams' = streams /\ dfx_streamers' = dfx_streamers
      /\ using_dfx_streamers' = using_dfx_streamers
  BY DEF EndPhase, pools
<1>2. CalTypeOK
  BY DEF CalInvariant
<1>3. ASSUME NEW d \in ToSet(using_dfx_streamers)
      PROVE  \E s \in dfx_streamers[d].streams :
               phase + 1 \in Live(s) /\ streams[s].free_phase = dfx_streamers[d].next_fin
  <2>1. d \in Streamer
    BY <1>2, PoolMembers
  <2>2. PICK s \in dfx_streamers[d].streams :
          phase \in Live(s) /\ streams[s].free_phase = dfx_streamers[d].next_fin
    BY <1>1 DEF UsedNow
  <2>3. dfx_streamers[d].next_fin # phase
    BY <1>1 DEF Finished, ToSet
  <2>4. streams[s].alloc_phase \in Nat /\ streams[s].free_phase \in Nat /\ phase \in Nat
    BY <1>2, <2>1, PhasesTyped, CalAssumption DEF CalTypeOK
  <2>5. phase + 1 \in Live(s)
    BY <2>2, <2>3, <2>4 DEF Live
  <2> QED
    BY <2>2, <2>5
<1>4. \A s : Live(s)' = Live(s)
  BY <1>1 DEF Live
<1> QED
  BY <1>1, <1>3, <1>4 DEF UsedNow

LEMMA PeakInit ==
  ASSUME CalInit
  PROVE  UsedNow /\ Peak
<1>1. ToSet(using_dfx_streamers) = {} /\ Streamer = {}
  BY DEF CalInit, ToSet, Streamer
<1> QED
  BY <1>1 DEF UsedNow, Peak, StreamersOf

LEMMA PeakNext ==
  ASSUME CalInvariant, UsedNow, Peak, [CalNext]_cal_vars
  PROVE  UsedNow' /\ Peak'
<1>1. CalTypeOK
  BY DEF CalInvariant
<1>2. ASSUME streams' = streams, dfx_streamers' = dfx_streamers
      PROVE  Peak'
  BY <1>2, PeakStays DEF Streamer
<1>3. ASSUME streams' = streams, dfx_streamers' = dfx_streamers, phase' = phase,
             ToSet(using_dfx_streamers)' \subseteq ToSet(using_dfx_streamers),
             step' \in {"check", "allocate"} => step \in {"check", "allocate"}
      PROVE  UsedNow'
  BY <1>3 DEF UsedNow, Live
<1>4. CASE Check
  <2>1. CalTypeOK /\ ToSet(using_dfx_streamers)' = ToSet(using_dfx_streamers)
    BY <1>1, <1>4 DEF Check, pools
  <2> QED
    BY <1>2, <1>3, <1>4, <2>1 DEF Check
<1>5. CASE Reuse
  BY <1>5, ReusePeak
<1>6. CASE Create
  BY <1>6, CreatePeak
<1>7. CASE Release
  <2>1. /\ step' = step /\ streams' = streams /\ dfx_streamers' = dfx_streamers /\ phase' = phase
        /\ using_dfx_streamers' = RemoveAt(using_dfx_streamers, Min(Finished)) /\ Finished # {}
    BY <1>7 DEF Release
  <2>2. ToSet(using_dfx_streamers)' \subseteq ToSet(using_dfx_streamers)
    <3>1. IsInjective(using_dfx_streamers) /\ using_dfx_streamers \in Seq(Streamer)
      BY <1>1 DEF CalInvariant, OnePool, CalTypeOK
    <3>2. Min(Finished) \in DOMAIN using_dfx_streamers
      <4>1. Finished \in SUBSET Nat /\ Finished \subseteq DOMAIN using_dfx_streamers
        BY <3>1 DEF Finished
      <4> QED
        BY <2>1, <4>1, MinOfNats
    <3> QED
      BY <2>1, <3>1, <3>2, RemoveAtInjective
  <2> QED
    BY <1>2, <1>3, <2>1, <2>2
<1>8. CASE EndPhase
  BY <1>2, <1>8, EndPhasePeak DEF EndPhase
<1>9. CASE Grow
  <2>1. Peak'
    BY <1>1, <1>9, GrowStreamers, PeakStays DEF Grow
  <2> QED
    BY <1>9, <2>1 DEF Grow, UsedNow
<1>10. CASE Stop
  BY <1>2, <1>10 DEF Stop, UsedNow
<1>11. CASE UNCHANGED cal_vars
  BY <1>2, <1>3, <1>11 DEF cal_vars, pools
<1> QED
  BY <1>4, <1>5, <1>6, <1>7, <1>8, <1>9, <1>10, <1>11 DEF CalNext

(* First fit wastes nothing: of each width and region there are exactly as  *)
(* many streamers as streams of that kind live in its busiest phase.       *)
THEOREM StreamersAreFewest == CalSpec => []FewestStreamers
<1>1. CalInit => CalInvariant /\ Placement /\ UsedNow /\ Peak
  BY CalInitInvariant, PlacementInit, PeakInit
<1>2. CalInvariant /\ Placement /\ UsedNow /\ Peak /\ [CalNext]_cal_vars
        => (CalInvariant /\ Placement /\ UsedNow /\ Peak)'
  BY CalNextInvariant, PlacementNext, PeakNext
<1>3. CalInvariant /\ Placement /\ UsedNow /\ Peak => FewestStreamers
  BY PeakIsFewest DEF CalInvariant
<1> QED
  BY <1>1, <1>2, <1>3, PTL DEF CalSpec
=============================================================================
