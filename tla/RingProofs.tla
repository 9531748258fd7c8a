----------------------------- MODULE RingProofs -----------------------------
(***************************************************************************)
(* The ring's contents and its stream index agree in every reachable       *)
(* state, for any number of slots and streams, any clock and any packet    *)
(* IDs brought along by the writers.                                       *)
(***************************************************************************)
EXTENDS Ring, FiniteSetTheorems, SequenceTheorems, TLAPS

\* The ring is empty in both its ends or in neither.
EndsAgree == earliestoffset < 0 <=> latestoffset < 0

\* Packets in the ring belong to a stream and were stamped in the past.
LivePackets ==
  \A o \in Live : slot[o].streamid \in Streams /\ slot[o].pkttime <= last_pkttime

CountAgrees == streamcount = Cardinality(DOMAIN streamidx)

(* The inductive invariant: eviction trusts the index and the links, the   *)
(* index trusts the order of the stamps.                                   *)
IInv ==
  /\ TypeOK
  /\ EndsAgree
  /\ LivePackets
  /\ CountAgrees
  /\ TimesIncrease
  /\ IndexDescribesRing
  /\ ChainLinksStream

\* The slots a write leaves alone: the ring without a packet it evicts.
Kept == IF Full THEN Live \ {earliestoffset} ELSE Live

-----------------------------------------------------------------------------
(* The slots from e to l, spelled out: the range wraps around the end of   *)
(* the buffer or does not.                                                 *)
LEMMA BetweenMember ==
  ASSUME NEW e \in Offsets, NEW l \in Offsets
  PROVE  \A i : i \in Between(e, l) <=>
           i \in Offsets /\ IF e <= l THEN e <= i /\ i <= l ELSE i <= l \/ e <= i
BY RingAssumption DEF Between, Offsets

(* NEXTOFFSET stays in the buffer.                                         *)
LEMMA NextOffsetType ==
  ASSUME NEW o \in Offsets
  PROVE  NextOffset(o) \in Offsets
BY RingAssumption DEF NextOffset, Offsets

(* The range without its first slot, which is not its only one.            *)
LEMMA DropFirst ==
  ASSUME NEW e \in Offsets, NEW l \in Offsets, e # l
  PROVE  /\ Between(NextOffset(e), l) = Between(e, l) \ {e}
         /\ \A i, j \in Between(e, l) \ {e} :
              RankFrom(NextOffset(e), i) < RankFrom(NextOffset(e), j)
                => RankFrom(e, i) < RankFrom(e, j)
<1>1. NextOffset(e) \in Offsets
  BY NextOffsetType
<1>2. Between(NextOffset(e), l) = Between(e, l) \ {e}
  BY <1>1, BetweenMember, RingAssumption DEF NextOffset, Offsets
<1>3. ASSUME NEW i \in Between(e, l) \ {e}, NEW j \in Between(e, l) \ {e},
             RankFrom(NextOffset(e), i) < RankFrom(NextOffset(e), j)
      PROVE  RankFrom(e, i) < RankFrom(e, j)
  BY <1>3, BetweenMember, RingAssumption DEF NextOffset, Offsets, RankFrom
<1> QED
  BY <1>2, <1>3

(* The range with the slot after its last, which is not its first.         *)
LEMMA AddNext ==
  ASSUME NEW e \in Offsets, NEW l \in Offsets, NextOffset(l) # e
  PROVE  /\ NextOffset(l) \notin Between(e, l)
         /\ Between(e, NextOffset(l)) = Between(e, l) \cup {NextOffset(l)}
         /\ \A i \in Between(e, l) : RankFrom(e, i) < RankFrom(e, NextOffset(l))
<1>1. NextOffset(l) \in Offsets
  BY NextOffsetType
<1>2. NextOffset(l) \notin Between(e, l)
  BY BetweenMember, RingAssumption DEF NextOffset, Offsets
<1>3. Between(e, NextOffset(l)) = Between(e, l) \cup {NextOffset(l)}
  BY <1>1, BetweenMember, RingAssumption DEF NextOffset, Offsets
<1>4. ASSUME NEW i \in Between(e, l)
      PROVE  RankFrom(e, i) < RankFrom(e, NextOffset(l))
  BY BetweenMember, RingAssumption DEF NextOffset, Offsets, RankFrom
<1> QED
  BY <1>2, <1>3, <1>4

-----------------------------------------------------------------------------
(* What is left of the ring once RingWrite() has made room, from the types *)
(* of the two offsets alone.                                               *)
LEMMA KeptRange ==
  ASSUME earliestoffset \in Offsets \cup {-1}, latestoffset \in Offsets \cup {-1},
         EndsAgree, latestoffset >= 0
  PROVE  /\ earliestoffset \in Offsets /\ latestoffset \in Offsets
         /\ TrimmedEarliest \in Offsets
         /\ Kept = Between(TrimmedEarliest, latestoffset)
         /\ NextOffset(latestoffset) # TrimmedEarliest
         /\ \A i, j \in Kept : RankFrom(TrimmedEarliest, i) < RankFrom(TrimmedEarliest, j)
                                 => Rank(i) < Rank(j)
<1>1. earliestoffset \in Offsets /\ latestoffset \in Offsets
  BY DEF EndsAgree, Offsets
<1>2. TrimmedEarliest \in Offsets
  BY <1>1, NextOffsetType DEF TrimmedEarliest
<1>3. CASE Full
  <2>1. earliestoffset # latestoffset /\ NextOffset(latestoffset) = earliestoffset
    BY <1>3 DEF Full, TargetOffset
  <2>2. NextOffset(earliestoffset) # earliestoffset
    BY <1>1, RingAssumption DEF NextOffset, Offsets
  <2> QED
    BY <1>1, <1>2, <1>3, <2>1, <2>2, DropFirst DEF Kept, TrimmedEarliest, Live, Rank
<1>4. CASE ~Full
  <2>1. NextOffset(latestoffset) # earliestoffset
    BY <1>1, <1>4, RingAssumption DEF Full, TargetOffset, NextOffset, Offsets
  <2> QED
    BY <1>1, <1>2, <1>4, <2>1 DEF Kept, TrimmedEarliest, Live, Rank
<1> QED
  BY <1>3, <1>4

(* The same from the types of the ring's state.                            *)
LEMMA KeptWindow ==
  ASSUME TypeOK, EndsAgree, latestoffset >= 0
  PROVE  /\ earliestoffset \in Offsets /\ latestoffset \in Offsets
         /\ TrimmedEarliest \in Offsets
         /\ Kept = Between(TrimmedEarliest, latestoffset)
         /\ NextOffset(latestoffset) # TrimmedEarliest
         /\ \A i, j \in Kept : RankFrom(TrimmedEarliest, i) < RankFrom(TrimmedEarliest, j)
                                 => Rank(i) < Rank(j)
BY KeptRange DEF TypeOK

(* The earliest packet is older than every other packet in the ring.       *)
LEMMA EarliestIsOldest ==
  ASSUME IInv, latestoffset >= 0
  PROVE  /\ earliestoffset \in Live
         /\ \A p \in Live \ {earliestoffset} : slot[earliestoffset].pkttime < slot[p].pkttime
<1>1. earliestoffset \in Offsets /\ latestoffset \in Offsets
  BY DEF IInv, TypeOK, EndsAgree, Offsets
<1>2. earliestoffset \in Live
  BY <1>1, BetweenMember DEF Live, Offsets
<1>3. ASSUME NEW p \in Live \ {earliestoffset}
      PROVE  Rank(earliestoffset) < Rank(p)
  BY <1>1, BetweenMember, RingAssumption DEF Live, Rank, RankFrom, Offsets
<1> QED
  BY <1>2, <1>3 DEF IInv, TimesIncrease

(* Two packets in the ring with the same stamp are the same packet.        *)
LEMMA StampsDiffer ==
  ASSUME IInv, NEW o \in Live, NEW p \in Live, o # p
  PROVE  slot[o].pkttime # slot[p].pkttime
<1>1. latestoffset >= 0
  BY RingAssumption DEF IInv, TypeOK, Live, Between, Offsets
<1>2. earliestoffset \in Offsets /\ latestoffset \in Offsets
  BY <1>1 DEF IInv, TypeOK, EndsAgree, Offsets
<1>3. o \in Offsets /\ p \in Offsets
  BY <1>2, BetweenMember DEF Live
<1>4. Rank(o) < Rank(p) \/ Rank(p) < Rank(o)
  BY <1>2, <1>3, RingAssumption DEF Rank, RankFrom, Offsets
<1>5. slot[o].pkttime \in Nat /\ slot[p].pkttime \in Nat
  BY <1>3, RingAssumption DEF IInv, TypeOK, Packet
<1> QED
  BY <1>4, <1>5 DEF IInv, TimesIncrease

-----------------------------------------------------------------------------
(* Making room: the stream index and the links once the earliest packet    *)
(* has left.                                                               *)

(* The slots of packets in the ring hold typed packets of some stream.     *)
LEMMA LiveTyped ==
  ASSUME IInv, NEW o \in Live
  PROVE  /\ latestoffset >= 0
         /\ o \in Offsets
         /\ slot[o].streamid \in Streams
         /\ slot[o].pkttime \in Nat /\ slot[o].pkttime <= last_pkttime
<1>1. latestoffset >= 0
  BY RingAssumption DEF IInv, TypeOK, Live, Between, Offsets
<1>2. earliestoffset \in Offsets /\ latestoffset \in Offsets
  BY <1>1 DEF IInv, TypeOK, EndsAgree, Offsets
<1>3. o \in Offsets
  BY <1>2, BetweenMember DEF Live
<1>4. slot[o].pkttime \in Nat
  BY <1>3, RingAssumption DEF IInv, TypeOK, Packet
<1> QED
  BY <1>1, <1>3, <1>4 DEF IInv, LivePackets

(* The index entry that eviction looks up exists and starts at the packet  *)
(* evicted.                                                                *)
LEMMA EvictedEntry ==
  ASSUME IInv, Full
  PROVE  LET sid == slot[earliestoffset].streamid
         IN  /\ sid \in DOMAIN streamidx
             /\ streamidx[sid].earliestoffset = earliestoffset
             /\ OnlyPacket => PacketsOf(Live, sid) = {earliestoffset}
             /\ ~OnlyPacket => PacketsOf(Live, sid) \ {earliestoffset} # {}
<1> DEFINE sid == slot[earliestoffset].streamid
           st  == streamidx[sid]
           T   == PacketsOf(Live, sid)
<1>1. latestoffset >= 0 /\ earliestoffset \in Live
  BY EarliestIsOldest DEF Full
<1>2. \A p \in Live \ {earliestoffset} :
        slot[earliestoffset].pkttime < slot[p].pkttime /\ slot[p].pkttime \in Nat
  BY <1>1, EarliestIsOldest, LiveTyped
<1>3. sid \in Streams /\ earliestoffset \in T /\ slot[earliestoffset].pkttime \in Nat
  BY <1>1, LiveTyped DEF PacketsOf
<1>4. sid \in DOMAIN streamidx
  BY <1>3 DEF IInv, IndexDescribesRing, IndexDescribes
<1>5. IsFirst(st.earliestoffset, T) /\ IsLast(st.latestoffset, T)
  BY <1>4 DEF IInv, IndexDescribesRing, IndexDescribes
<1>6. T \subseteq Live
  BY DEF PacketsOf
<1> HIDE DEF T, sid, st
<1>7. st.earliestoffset = earliestoffset
  <2>1. st.earliestoffset \in Live
    BY <1>5, <1>6 DEF IsFirst
  <2>2. slot[st.earliestoffset].pkttime <= slot[earliestoffset].pkttime
    BY <1>3, <1>5 DEF IsFirst
  <2> QED
    BY <1>2, <1>3, <2>1, <2>2
<1>8. CASE OnlyPacket
  <2>1. st.latestoffset = earliestoffset
    BY <1>8 DEF OnlyPacket, st, sid
  <2>2. \A p \in T : p = earliestoffset
    BY <1>2, <1>3, <1>5, <1>6, <2>1 DEF IsLast
  <2> QED
    BY <1>3, <1>4, <1>7, <1>8, <2>2 DEF T, st, sid
<1>9. CASE ~OnlyPacket
  <2>1. st.latestoffset # earliestoffset
    BY <1>7, <1>9 DEF OnlyPacket, st, sid
  <2>2. st.latestoffset \in T
    BY <1>5 DEF IsLast
  <2> QED
    BY <1>4, <1>7, <1>9, <2>1, <2>2 DEF T, st, sid
<1> QED
  BY <1>8, <1>9

(* What the links of the kept packets say is said of kept packets only.    *)
LEMMA KeptChain ==
  ASSUME IInv
  PROVE  ChainLinks(Kept)
<1>1. CASE ~Full
  BY <1>1 DEF Kept, IInv, ChainLinksStream
<1>2. CASE Full
  <2>1. Kept = Live \ {earliestoffset} /\ latestoffset >= 0
    BY <1>2 DEF Kept, Full
  <2>2. ASSUME NEW o \in Kept
        PROVE  {p \in PacketsOf(Kept, slot[o].streamid) : slot[o].pkttime < slot[p].pkttime}
             = {p \in PacketsOf(Live, slot[o].streamid) : slot[o].pkttime < slot[p].pkttime}
    <3>1. slot[earliestoffset].pkttime < slot[o].pkttime
      BY <2>1, EarliestIsOldest
    <3>2. slot[earliestoffset].pkttime \in Nat /\ slot[o].pkttime \in Nat
      BY <2>1, EarliestIsOldest, LiveTyped
    <3>3. ~(slot[o].pkttime < slot[earliestoffset].pkttime)
      BY <3>1, <3>2
    <3> QED
      BY <2>1, <3>3 DEF PacketsOf
  <2> QED
    BY <2>1, <2>2 DEF ChainLinks, IInv, ChainLinksStream
<1> QED
  BY <1>1, <1>2

(* The index describes the kept packets, and streamcount its size.         *)
LEMMA TrimmedIndexDescribes ==
  ASSUME IInv
  PROVE  /\ ~Orphaned
         /\ IndexDescribes(TrimmedIndex, Kept)
         /\ TrimmedIndex \in [DOMAIN TrimmedIndex -> RingStream]
         /\ IsFiniteSet(DOMAIN TrimmedIndex)
         /\ TrimmedCount = Cardinality(DOMAIN TrimmedIndex)
<1>0. IsFiniteSet(DOMAIN streamidx) /\ DOMAIN streamidx \subseteq Streams
  BY FS_Subset, RingAssumption DEF IInv, TypeOK
<1>1. CASE ~Full
  BY <1>0, <1>1 DEF Orphaned, TrimmedIndex, TrimmedCount, Kept, IInv, TypeOK, CountAgrees,
     IndexDescribesRing
<1>2. CASE Full
  <2> DEFINE e   == earliestoffset
             sid == slot[e].streamid
             nis == slot[e].nextinstream
  <2>1. /\ sid \in DOMAIN streamidx
        /\ OnlyPacket => PacketsOf(Live, sid) = {e}
        /\ ~OnlyPacket => PacketsOf(Live, sid) \ {e} # {}
    BY <1>2, EvictedEntry
  <2>2. Kept = Live \ {e} /\ latestoffset >= 0 /\ e \in Live
    BY <1>2, EarliestIsOldest DEF Kept, Full
  <2>3. PacketsOf(Kept, sid) = PacketsOf(Live, sid) \ {e}
    BY <2>2 DEF PacketsOf
  <2>4. ASSUME NEW s, s # sid
        PROVE  PacketsOf(Kept, s) = PacketsOf(Live, s)
    BY <2>2, <2>4 DEF PacketsOf
  <2>5. ~Orphaned
    BY <2>1 DEF Orphaned
  <2>6. /\ streamidx \in [DOMAIN streamidx -> RingStream]
        /\ IndexDescribes(streamidx, Live)
        /\ streamcount = Cardinality(DOMAIN streamidx)
    BY DEF IInv, TypeOK, IndexDescribesRing, CountAgrees
  <2>7. CASE OnlyPacket
    <3>1. TrimmedIndex = [s \in DOMAIN streamidx \ {sid} |-> streamidx[s]]
      BY <1>2, <2>7 DEF TrimmedIndex, IndexAfterRemoval
    <3>2. PacketsOf(Kept, sid) = {}
      BY <2>1, <2>3, <2>7
    <3> HIDE DEF sid, nis, e
    <3>3. IndexDescribes(TrimmedIndex, Kept)
      <4>1. DOMAIN TrimmedIndex = {s \in Streams : PacketsOf(Kept, s) # {}}
        BY <2>4, <2>6, <3>1, <3>2 DEF IndexDescribes
      <4>2. \A s \in DOMAIN TrimmedIndex :
              s # sid /\ s \in DOMAIN streamidx /\ TrimmedIndex[s] = streamidx[s]
        BY <3>1
      <4> QED
        BY <4>1, <4>2, <2>4, <2>6 DEF IndexDescribes
    <3>4. /\ IsFiniteSet(DOMAIN streamidx \ {sid})
          /\ Cardinality(DOMAIN streamidx \ {sid}) = streamcount - 1
      BY <1>0, <2>1, <2>6, FS_RemoveElement
    <3>5. TrimmedCount = streamcount - 1
      BY <1>2, <2>7 DEF TrimmedCount
    <3>6. TrimmedIndex \in [DOMAIN TrimmedIndex -> RingStream]
      BY <2>6, <3>1
    <3> QED
      BY <2>5, <3>1, <3>3, <3>4, <3>5, <3>6
  <2>8. CASE ~OnlyPacket
    <3>1. PacketsOf(Kept, sid) # {}
      BY <2>1, <2>3, <2>8
    <3>2. {p \in PacketsOf(Live, sid) : slot[e].pkttime < slot[p].pkttime}
            = PacketsOf(Kept, sid)
      <4>1. \A p \in Live \ {e} : slot[e].pkttime < slot[p].pkttime
        BY <2>2, EarliestIsOldest
      <4>2. ~(slot[e].pkttime < slot[e].pkttime)
        BY <2>2, LiveTyped
      <4> QED
        BY <2>2, <4>1, <4>2 DEF PacketsOf
    <3>3. IsFirst(nis, PacketsOf(Kept, sid))
      BY <2>2, <3>1, <3>2 DEF IInv, ChainLinksStream, ChainLinks
    <3>4. nis \in Live /\ nis \in Offsets
      <4>1. nis \in Live
        BY <2>2, <3>3 DEF IsFirst, PacketsOf
      <4> QED
        BY <4>1, LiveTyped
    <3>5. TrimmedIndex = [streamidx EXCEPT ![sid].earliestptime  = slot[nis].pkttime,
                                           ![sid].earliestid     = slot[nis].pktid,
                                           ![sid].earliestoffset = nis]
      BY <1>2, <2>8, <3>4 DEF TrimmedIndex, IndexAfterRemoval, Offsets
    <3>6. slot[nis] \in Packet
      BY <3>4 DEF IInv, TypeOK
    <3> HIDE DEF sid, nis, e
    <3>7. /\ DOMAIN TrimmedIndex = DOMAIN streamidx
          /\ \A s \in DOMAIN streamidx : s # sid => TrimmedIndex[s] = streamidx[s]
          /\ TrimmedIndex[sid] = [streamidx[sid] EXCEPT !.earliestptime  = slot[nis].pkttime,
                                                        !.earliestid     = slot[nis].pktid,
                                                        !.earliestoffset = nis]
      BY <2>1, <2>6, <3>5
    <3>8. streamidx[sid] \in RingStream
      BY <2>1, <2>6
    <3>9. /\ TrimmedIndex[sid] \in RingStream
          /\ TrimmedIndex[sid].earliestoffset = nis
          /\ TrimmedIndex[sid].earliestid = slot[nis].pktid
          /\ TrimmedIndex[sid].earliestptime = slot[nis].pkttime
          /\ TrimmedIndex[sid].latestoffset = streamidx[sid].latestoffset
          /\ TrimmedIndex[sid].latestid = streamidx[sid].latestid
          /\ TrimmedIndex[sid].latestptime = streamidx[sid].latestptime
      BY <3>4, <3>6, <3>7, <3>8 DEF RingStream, Packet
    <3>10. IsLast(streamidx[sid].latestoffset, PacketsOf(Kept, sid))
      <4>1. IsLast(streamidx[sid].latestoffset, PacketsOf(Live, sid))
        BY <2>1, <2>6 DEF IndexDescribes
      <4>2. streamidx[sid].latestoffset # e
        BY <1>2, <2>8, EvictedEntry DEF OnlyPacket, e, sid
      <4> QED
        BY <2>3, <4>1, <4>2 DEF IsLast
    <3>11. IndexDescribes(TrimmedIndex, Kept)
      <4>1. DOMAIN TrimmedIndex = {s \in Streams : PacketsOf(Kept, s) # {}}
        BY <2>1, <2>4, <2>6, <3>1, <3>7 DEF IndexDescribes
      <4>2. ASSUME NEW s \in DOMAIN TrimmedIndex
            PROVE  /\ IsFirst(TrimmedIndex[s].earliestoffset, PacketsOf(Kept, s))
                   /\ IsLast(TrimmedIndex[s].latestoffset, PacketsOf(Kept, s))
                   /\ TrimmedIndex[s].earliestid = slot[TrimmedIndex[s].earliestoffset].pktid
                   /\ TrimmedIndex[s].earliestptime = slot[TrimmedIndex[s].earliestoffset].pkttime
                   /\ TrimmedIndex[s].latestid = slot[TrimmedIndex[s].latestoffset].pktid
                   /\ TrimmedIndex[s].latestptime = slot[TrimmedIndex[s].latestoffset].pkttime
        <5>1. CASE s = sid
          BY <2>1, <2>6, <3>3, <3>9, <3>10, <5>1 DEF IndexDescribes
        <5>2. CASE s # sid
          BY <2>4, <2>6, <3>7, <5>2 DEF IndexDescribes
        <5> QED
          BY <5>1, <5>2
      <4> QED
        BY <4>1, <4>2 DEF IndexDescribes
    <3>12. TrimmedIndex \in [DOMAIN TrimmedIndex -> RingStream]
      <4>1. \A s \in DOMAIN streamidx : TrimmedIndex[s] \in RingStream
        BY <2>6, <3>7, <3>9
      <4> QED
        BY <2>6, <3>5, <3>7, <4>1
    <3>13. TrimmedCount = streamcount
      BY <2>8 DEF TrimmedCount
    <3> QED
      BY <1>0, <2>5, <2>6, <3>7, <3>11, <3>12, <3>13
  <2> QED
    BY <2>7, <2>8
<1> QED
  BY <1>1, <1>2

-----------------------------------------------------------------------------
(* Each operation preserves the invariant.                                 *)

(* A write adds one slot, after the kept ones in ring order.               *)
LEMMA WriteWindow ==
  ASSUME IInv, NEW sid \in Streams, NEW now \in Instants,
         NEW reqid \in SuppliedIds \cup {RINGID_NONE}, RingWrite(sid, now, reqid)
  PROVE  /\ TargetOffset \in Offsets /\ earliestoffset' \in Offsets
         /\ latestoffset' = TargetOffset
         /\ Kept \subseteq Live /\ TargetOffset \notin Kept
         /\ Live' = Kept \cup {TargetOffset}
         /\ \A i \in Kept : ~(RankFrom(earliestoffset', TargetOffset)
                                < RankFrom(earliestoffset', i))
         /\ \A i, j \in Kept : RankFrom(earliestoffset', i) < RankFrom(earliestoffset', j)
                                 => Rank(i) < Rank(j)
<1>1. latestoffset' = TargetOffset
  BY DEF RingWrite
<1>2. Kept \subseteq Live
  BY DEF Kept
<1>3. CASE latestoffset < 0
  <2>1. earliestoffset < 0 /\ TargetOffset = 0 /\ 0 \in Offsets
    BY <1>3, RingAssumption DEF IInv, TypeOK, EndsAgree, TargetOffset, Offsets
  <2>2. Kept = {}
    BY <1>2, <1>3 DEF Live, Between
  <2>3. earliestoffset' = 0
    BY <2>1 DEF RingWrite
  <2>4. Live' = {0}
    BY <1>1, <2>1, <2>3 DEF Live, Between
  <2> QED
    BY <1>1, <2>1, <2>2, <2>3, <2>4
<1>4. CASE latestoffset >= 0
  <2>1. TypeOK /\ EndsAgree
    BY DEF IInv
  <2>2. /\ earliestoffset \in Offsets /\ latestoffset \in Offsets
        /\ TrimmedEarliest \in Offsets
        /\ Kept = Between(TrimmedEarliest, latestoffset)
        /\ NextOffset(latestoffset) # TrimmedEarliest
        /\ \A i, j \in Kept : RankFrom(TrimmedEarliest, i) < RankFrom(TrimmedEarliest, j)
                                => Rank(i) < Rank(j)
    BY <1>4, <2>1, KeptWindow
  <2>3. TargetOffset = NextOffset(latestoffset) /\ TargetOffset \in Offsets
    BY <1>4, <2>2, NextOffsetType DEF TargetOffset
  <2>4. earliestoffset' = TrimmedEarliest
    BY <2>2, RingAssumption DEF RingWrite, Offsets
  <2>5. /\ TargetOffset \notin Kept
        /\ Between(TrimmedEarliest, TargetOffset) = Kept \cup {TargetOffset}
        /\ \A i \in Kept : RankFrom(TrimmedEarliest, i) < RankFrom(TrimmedEarliest, TargetOffset)
    BY <2>2, <2>3, AddNext
  <2>6. Live' = Kept \cup {TargetOffset}
    BY <1>1, <2>4, <2>5 DEF Live
  <2>7. \A i \in Kept \cup {TargetOffset} : RankFrom(TrimmedEarliest, i) \in Int
    BY <2>2, <2>3, BetweenMember, RingAssumption DEF RankFrom, Offsets
  <2>8. \A i \in Kept : ~(RankFrom(TrimmedEarliest, TargetOffset) < RankFrom(TrimmedEarliest, i))
    BY <2>5, <2>7
  <2> QED
    BY <1>1, <1>2, <2>2, <2>3, <2>4, <2>5, <2>6, <2>8
<1>5. latestoffset < 0 \/ latestoffset >= 0
  BY DEF IInv, TypeOK, Offsets
<1> QED
  BY <1>3, <1>4, <1>5

(* What a write stores, against what the kept packets say.                 *)
LEMMA WriteSlots ==
  ASSUME IInv, NEW sid \in Streams, NEW now \in Instants,
         NEW reqid \in SuppliedIds \cup {RINGID_NONE}, RingWrite(sid, now, reqid)
  PROVE  LET o    == TargetOffset
             id   == IF reqid = RINGID_NONE THEN NextPktId ELSE reqid
             prev == IF sid \in DOMAIN TrimmedIndex THEN TrimmedIndex[sid].latestoffset ELSE -1
         IN  /\ Stamp(now) \in 0 .. MaxTime /\ last_pkttime < Stamp(now)
             /\ id \in PktIds
             /\ slot' \in [Offsets -> Packet]
             /\ slot'[o] = [pktid |-> id, pkttime |-> Stamp(now), streamid |-> sid,
                            nextinstream |-> -1]
             /\ \A i \in Kept : /\ slot'[i].pktid = slot[i].pktid
                                /\ slot'[i].pkttime = slot[i].pkttime
                                /\ slot'[i].streamid = slot[i].streamid
                                /\ slot[i].pkttime \in Nat /\ slot[i].pkttime < Stamp(now)
                                /\ i = prev => slot'[i].nextinstream = o
                                /\ i # prev => slot'[i].nextinstream = slot[i].nextinstream
<1> DEFINE o    == TargetOffset
           id   == IF reqid = RINGID_NONE THEN NextPktId ELSE reqid
           prev == IF sid \in DOMAIN TrimmedIndex THEN TrimmedIndex[sid].latestoffset ELSE -1
           pkt  == [pktid |-> id, pkttime |-> Stamp(now), streamid |-> sid, nextinstream |-> -1]
<1>1. /\ o \in Offsets /\ Kept \subseteq Live /\ o \notin Kept
  BY WriteWindow
<1>2. Stamp(now) \in 0 .. MaxTime /\ last_pkttime < Stamp(now)
  BY RingAssumption DEF RingWrite, Stamp, IInv, TypeOK
<1>3. slot \in [Offsets -> Packet] /\ latestoffset \in Offsets \cup {-1}
  BY DEF IInv, TypeOK
<1>4. id \in PktIds
  <2>1. NextPktId \in PktIds
    BY <1>3, RingAssumption DEF NextPktId, PktIds, Packet, Offsets
  <2> QED
    BY <2>1, RingAssumption DEF PktIds
<1>5. pkt \in Packet
  BY <1>2, <1>4 DEF Packet
<1>6. slot' = SlotsAfterWrite(pkt, o, prev)
  BY DEF RingWrite
<1> HIDE DEF o, id, prev, pkt
<1>7. slot' = [i \in Offsets |-> IF i = o THEN pkt
                                ELSE IF i = prev THEN [slot[i] EXCEPT !.nextinstream = o]
                                ELSE slot[i]]
  BY <1>6 DEF SlotsAfterWrite
<1>8. ASSUME NEW i \in Offsets
      PROVE  /\ [slot[i] EXCEPT !.nextinstream = o] \in Packet
             /\ [slot[i] EXCEPT !.nextinstream = o].pktid = slot[i].pktid
             /\ [slot[i] EXCEPT !.nextinstream = o].pkttime = slot[i].pkttime
             /\ [slot[i] EXCEPT !.nextinstream = o].streamid = slot[i].streamid
             /\ [slot[i] EXCEPT !.nextinstream = o].nextinstream = o
  <2>1. slot[i] \in Packet
    BY <1>3
  <2> QED
    BY <1>1, <2>1 DEF Packet
<1>9. slot' \in [Offsets -> Packet]
  BY <1>3, <1>5, <1>7, <1>8
<1>10. slot'[o] = pkt
  BY <1>1, <1>7
<1>11. ASSUME NEW i \in Kept
       PROVE  /\ slot'[i].pktid = slot[i].pktid
              /\ slot'[i].pkttime = slot[i].pkttime
              /\ slot'[i].streamid = slot[i].streamid
              /\ slot[i].pkttime \in Nat /\ slot[i].pkttime < Stamp(now)
              /\ i = prev => slot'[i].nextinstream = o
              /\ i # prev => slot'[i].nextinstream = slot[i].nextinstream
  <2>1. i \in Offsets /\ i # o /\ slot[i].pkttime \in Nat /\ slot[i].pkttime <= last_pkttime
    BY <1>1, LiveTyped
  <2>2. slot'[i] = IF i = prev THEN [slot[i] EXCEPT !.nextinstream = o] ELSE slot[i]
    BY <1>7, <2>1
  <2>3. slot[i].pkttime < Stamp(now)
    BY <1>2, <2>1 DEF IInv, TypeOK
  <2> QED
    BY <1>8, <2>1, <2>2, <2>3
<1> QED
  BY <1>2, <1>4, <1>9, <1>10, <1>11 DEF o, id, prev, pkt

(* A write preserves the invariant.                                        *)
LEMMA WritePreserves ==
  ASSUME IInv, NEW sid \in Streams, NEW now \in Instants,
         NEW reqid \in SuppliedIds \cup {RINGID_NONE}, RingWrite(sid, now, reqid)
  PROVE  IInv'
<1> DEFINE o    == TargetOffset
           id   == IF reqid = RINGID_NONE THEN NextPktId ELSE reqid
           prev == IF sid \in DOMAIN TrimmedIndex THEN TrimmedIndex[sid].latestoffset ELSE -1
           time == Stamp(now)
           idx  == TrimmedIndex
           Later(x) == {p \in PacketsOf(Kept, slot[x].streamid) : slot[x].pkttime < slot[p].pkttime}
           LaterNow(x) == {p \in {q \in Live' : slot'[q].streamid = slot'[x].streamid} :
                             slot'[x].pkttime < slot'[p].pkttime}
<1>1. /\ o \in Offsets /\ earliestoffset' \in Offsets /\ latestoffset' = o
      /\ Kept \subseteq Live /\ o \notin Kept
      /\ Live' = Kept \cup {o}
      /\ \A i \in Kept : ~(RankFrom(earliestoffset', o) < RankFrom(earliestoffset', i))
      /\ \A i, j \in Kept : RankFrom(earliestoffset', i) < RankFrom(earliestoffset', j)
                              => Rank(i) < Rank(j)
  BY WriteWindow
<1>2. /\ time \in 0 .. MaxTime /\ last_pkttime < time
      /\ id \in PktIds
      /\ slot' \in [Offsets -> Packet]
      /\ slot'[o] = [pktid |-> id, pkttime |-> time, streamid |-> sid, nextinstream |-> -1]
      /\ \A i \in Kept : /\ slot'[i].pktid = slot[i].pktid
                         /\ slot'[i].pkttime = slot[i].pkttime
                         /\ slot'[i].streamid = slot[i].streamid
                         /\ slot[i].pkttime \in Nat /\ slot[i].pkttime < time
                         /\ i = prev => slot'[i].nextinstream = o
                         /\ i # prev => slot'[i].nextinstream = slot[i].nextinstream
  BY WriteSlots
<1>3. /\ IndexDescribes(idx, Kept)
      /\ idx \in [DOMAIN idx -> RingStream]
      /\ IsFiniteSet(DOMAIN idx)
      /\ TrimmedCount = Cardinality(DOMAIN idx)
      /\ DOMAIN idx \subseteq Streams
  BY TrimmedIndexDescribes DEF IndexDescribes
<1>4. /\ last_pkttime' = time
      /\ streamidx' = [s \in DOMAIN idx \cup {sid} |->
                          IF s = sid THEN EntryAfterWrite(idx, sid, id, time, o) ELSE idx[s]]
      /\ streamcount' = IF sid \in DOMAIN idx THEN TrimmedCount ELSE TrimmedCount + 1
  BY DEF RingWrite
<1>5. ChainLinks(Kept)
  BY KeptChain
<1>6. \A i \in Kept : slot[i].streamid \in Streams /\ slot[i].pkttime <= last_pkttime
  BY <1>1, LiveTyped
<1>7. \A i, j \in Kept : i # j => slot[i].pkttime # slot[j].pkttime
  BY <1>1, StampsDiffer
<1>8. \A i \in Kept : i \in Offsets
  BY <1>1, LiveTyped
<1>9. last_pkttime \in Nat
  BY DEF IInv, TypeOK
<1> DEFINE entry == EntryAfterWrite(idx, sid, id, time, o)
<1>10. entry \in RingStream
  <2>1. CASE sid \in DOMAIN idx
    <3>1. idx[sid] \in RingStream
      BY <1>3, <2>1
    <3> QED
      BY <1>1, <1>2, <2>1, <3>1 DEF EntryAfterWrite, RingStream
  <2>2. CASE sid \notin DOMAIN idx
    BY <1>1, <1>2, <2>2 DEF EntryAfterWrite, RingStream
  <2> QED
    BY <2>1, <2>2
<1>11. sid \in DOMAIN idx <=> PacketsOf(Kept, sid) # {}
  BY <1>3 DEF IndexDescribes
<1>12. sid \in DOMAIN idx => IsLast(prev, PacketsOf(Kept, sid))
  BY <1>3 DEF IndexDescribes
<1>13. sid \notin DOMAIN idx => prev = -1
  OBVIOUS
<1>14. entry.latestoffset = o /\ entry.latestid = id /\ entry.latestptime = time
  BY DEF EntryAfterWrite
<1>15. sid \in DOMAIN idx => /\ entry.earliestoffset = idx[sid].earliestoffset
                            /\ entry.earliestid = idx[sid].earliestid
                            /\ entry.earliestptime = idx[sid].earliestptime
  BY DEF EntryAfterWrite
<1>16. sid \notin DOMAIN idx => /\ entry.earliestoffset = o
                               /\ entry.earliestid = id
                               /\ entry.earliestptime = time
  BY DEF EntryAfterWrite
<1> HIDE DEF o, id, prev, time, idx, entry, Later, LaterNow
<1>17. /\ DOMAIN streamidx' = DOMAIN idx \cup {sid}
       /\ streamidx'[sid] = entry
       /\ \A s \in DOMAIN idx : s # sid => streamidx'[s] = idx[s]
  BY <1>4 DEF entry
<1>18. TypeOK'
  <2>1. streamidx' \in [DOMAIN streamidx' -> RingStream]
    BY <1>3, <1>4, <1>10 DEF entry
  <2>2. streamcount' \in Nat
    BY <1>3, <1>4, FS_CardinalityType
  <2> QED
    BY <1>1, <1>2, <1>3, <1>4, <1>17, <2>1, <2>2 DEF TypeOK
<1>19. EndsAgree'
  BY <1>1 DEF EndsAgree, Offsets
<1>20. LivePackets'
  <2>1. ASSUME NEW i \in Live'
        PROVE  slot'[i].streamid \in Streams /\ slot'[i].pkttime <= last_pkttime'
    <3>1. CASE i = o
      BY <1>2, <1>4, <3>1
    <3>2. CASE i \in Kept
      BY <1>2, <1>4, <1>6, <3>2
    <3> QED
      BY <1>1, <2>1, <3>1, <3>2
  <2> QED
    BY <2>1 DEF LivePackets
<1>21. CountAgrees'
  <2>1. CASE sid \in DOMAIN idx
    <3>1. DOMAIN idx \cup {sid} = DOMAIN idx
      BY <2>1
    <3> QED
      BY <1>3, <1>4, <1>17, <2>1, <3>1 DEF CountAgrees
  <2>2. CASE sid \notin DOMAIN idx
    <3>1. Cardinality(DOMAIN idx \cup {sid}) = Cardinality(DOMAIN idx) + 1
      BY <1>3, <2>2, FS_AddElement
    <3> QED
      BY <1>3, <1>4, <1>17, <2>2, <3>1 DEF CountAgrees
  <2> QED
    BY <2>1, <2>2
<1>22. TimesIncrease'
  <2>1. ASSUME NEW i \in Live', NEW j \in Live',
               RankFrom(earliestoffset', i) < RankFrom(earliestoffset', j)
        PROVE  slot'[i].pkttime < slot'[j].pkttime
    <3>1. CASE i \in Kept /\ j \in Kept
      BY <1>1, <1>2, <2>1, <3>1 DEF IInv, TimesIncrease
    <3>2. CASE i \in Kept /\ j = o
      BY <1>2, <3>2
    <3>3. CASE i = o /\ j \in Kept
      BY <1>1, <2>1, <3>3
    <3>4. CASE i = o /\ j = o
      BY <1>1, <2>1, <3>4, RingAssumption DEF RankFrom, Offsets
    <3> QED
      BY <1>1, <2>1, <3>1, <3>2, <3>3, <3>4
  <2> QED
    BY <2>1 DEF TimesIncrease, Rank, RankFrom
<1>23. IndexDescribesRing'
  <2>1. \A s : s # sid => PacketsOf(Live, s)' = PacketsOf(Kept, s)
    BY <1>1, <1>2 DEF PacketsOf
  <2>2. PacketsOf(Live, sid)' = PacketsOf(Kept, sid) \cup {o}
    BY <1>1, <1>2 DEF PacketsOf
  <2>3. \A s : PacketsOf(Kept, s) \subseteq Kept
    BY DEF PacketsOf
  <2>4. DOMAIN streamidx' = {s \in Streams : PacketsOf(Live, s)' # {}}
    BY <1>3, <1>17, <2>1, <2>2 DEF IndexDescribes
  <2>5. ASSUME NEW s \in DOMAIN streamidx'
        PROVE  /\ IsFirst(streamidx[s].earliestoffset, PacketsOf(Live, s))'
               /\ IsLast(streamidx[s].latestoffset, PacketsOf(Live, s))'
               /\ streamidx'[s].earliestid = slot'[streamidx'[s].earliestoffset].pktid
               /\ streamidx'[s].earliestptime = slot'[streamidx'[s].earliestoffset].pkttime
               /\ streamidx'[s].latestid = slot'[streamidx'[s].latestoffset].pktid
               /\ streamidx'[s].latestptime = slot'[streamidx'[s].latestoffset].pkttime
    <3>1. CASE s # sid
      <4>1. s \in DOMAIN idx /\ streamidx'[s] = idx[s] /\ PacketsOf(Live, s)' = PacketsOf(Kept, s)
        BY <1>17, <2>1, <3>1
      <4>2. /\ IsFirst(idx[s].earliestoffset, PacketsOf(Kept, s))
            /\ IsLast(idx[s].latestoffset, PacketsOf(Kept, s))
            /\ idx[s].earliestid = slot[idx[s].earliestoffset].pktid
            /\ idx[s].earliestptime = slot[idx[s].earliestoffset].pkttime
            /\ idx[s].latestid = slot[idx[s].latestoffset].pktid
            /\ idx[s].latestptime = slot[idx[s].latestoffset].pkttime
        BY <1>3, <4>1 DEF IndexDescribes
      <4> QED
        BY <1>2, <2>3, <4>1, <4>2 DEF IsFirst, IsLast
    <3>2. CASE s = sid
      <4>1. IsLast(streamidx[sid].latestoffset, PacketsOf(Live, sid))'
        BY <1>2, <1>14, <1>17, <2>2, <2>3 DEF IsLast
      <4>2. CASE sid \in DOMAIN idx
        <5>1. /\ IsFirst(idx[sid].earliestoffset, PacketsOf(Kept, sid))
              /\ idx[sid].earliestid = slot[idx[sid].earliestoffset].pktid
              /\ idx[sid].earliestptime = slot[idx[sid].earliestoffset].pkttime
          BY <1>3, <4>2 DEF IndexDescribes
        <5>2. idx[sid].earliestoffset \in Kept
          BY <2>3, <5>1 DEF IsFirst
        <5>3. IsFirst(streamidx[sid].earliestoffset, PacketsOf(Live, sid))'
          BY <1>2, <1>15, <1>17, <2>2, <2>3, <4>2, <5>1, <5>2 DEF IsFirst
        <5> QED
          BY <1>2, <1>14, <1>15, <1>17, <3>2, <4>1, <4>2, <5>1, <5>2, <5>3
      <4>3. CASE sid \notin DOMAIN idx
        <5>1. PacketsOf(Live, sid)' = {o}
          BY <1>11, <2>2, <4>3
        <5>2. IsFirst(streamidx[sid].earliestoffset, PacketsOf(Live, sid))'
          BY <1>2, <1>16, <1>17, <4>3, <5>1 DEF IsFirst
        <5> QED
          BY <1>2, <1>14, <1>16, <1>17, <3>2, <4>1, <4>3, <5>2
      <4> QED
        BY <4>2, <4>3
    <3> QED
      BY <3>1, <3>2
  <2> QED
    BY <2>4, <2>5 DEF IndexDescribesRing, IndexDescribes
<1>24. ChainLinksStream'
  <2>1. ASSUME NEW x \in Live'
        PROVE  IF LaterNow(x) = {}
                 THEN slot'[x].nextinstream = -1
                 ELSE /\ slot'[x].nextinstream \in LaterNow(x)
                      /\ \A p \in LaterNow(x) :
                           slot'[slot'[x].nextinstream].pkttime <= slot'[p].pkttime
    <3>1. CASE x = o
      <4>1. \A p \in Live' : ~(slot'[o].pkttime < slot'[p].pkttime)
        BY <1>1, <1>2
      <4> QED
        BY <1>2, <3>1, <4>1 DEF LaterNow
    <3>2. CASE x \in Kept
      <4>1. /\ Later(x) = {} => slot[x].nextinstream = -1
            /\ Later(x) # {} => IsFirst(slot[x].nextinstream, Later(x))
        BY <1>5, <3>2 DEF ChainLinks, Later
      <4>2. Later(x) \subseteq Kept
        BY DEF Later, PacketsOf
      <4>3. CASE slot[x].streamid # sid
        <5>1. LaterNow(x) = Later(x)
          BY <1>1, <1>2, <3>2, <4>3 DEF LaterNow, Later, PacketsOf
        <5>2. x # prev
          <6>1. sid \in DOMAIN idx => prev \in PacketsOf(Kept, sid)
            BY <1>12 DEF IsLast
          <6>2. x # -1
            BY <1>8, <3>2 DEF Offsets
          <6> QED
            BY <1>13, <4>3, <6>1, <6>2 DEF PacketsOf
        <5>3. slot'[x].nextinstream = slot[x].nextinstream
          BY <1>2, <3>2, <5>2
        <5> QED
          BY <1>2, <4>1, <4>2, <5>1, <5>3 DEF IsFirst
      <4>4. CASE slot[x].streamid = sid
        <5>1. LaterNow(x) = Later(x) \cup {o}
          BY <1>1, <1>2, <3>2, <4>4 DEF LaterNow, Later, PacketsOf
        <5>2. x \in PacketsOf(Kept, sid)
          BY <3>2, <4>4 DEF PacketsOf
        <5>3. /\ prev \in PacketsOf(Kept, sid)
              /\ \A p \in PacketsOf(Kept, sid) : slot[p].pkttime <= slot[prev].pkttime
          BY <1>11, <1>12, <5>2 DEF IsLast
        <5>4. prev \in Kept
          BY <5>3 DEF PacketsOf
        <5>5. CASE x = prev
          <6>1. Later(x) = {}
            BY <1>2, <4>2, <4>4, <5>3, <5>4, <5>5 DEF Later, PacketsOf
          <6>2. slot'[x].nextinstream = o
            BY <1>2, <3>2, <5>5
          <6> QED
            BY <1>2, <5>1, <6>1, <6>2
        <5>6. CASE x # prev
          <6>1. slot[x].pkttime < slot[prev].pkttime
            BY <1>2, <1>7, <3>2, <5>2, <5>3, <5>4, <5>6
          <6>2. Later(x) # {}
            BY <4>4, <5>3, <6>1 DEF Later
          <6>3. slot'[x].nextinstream = slot[x].nextinstream
            BY <1>2, <3>2, <5>6
          <6>4. /\ slot[x].nextinstream \in Later(x)
                /\ \A p \in Later(x) : slot[slot[x].nextinstream].pkttime <= slot[p].pkttime
            BY <4>1, <6>2 DEF IsFirst
          <6> QED
            BY <1>2, <4>2, <5>1, <6>3, <6>4
        <5> QED
          BY <5>5, <5>6
      <4> QED
        BY <4>3, <4>4
    <3> QED
      BY <1>1, <2>1, <3>1, <3>2
  <2> QED
    BY <2>1 DEF ChainLinksStream, ChainLinks, LaterNow, PacketsOf, IsFirst
<1> QED
  BY <1>18, <1>19, <1>20, <1>21, <1>22, <1>23, <1>24 DEF IInv

(* A write that fails half way preserves the invariant too.                *)
LEMMA WriteErrorPreserves ==
  ASSUME IInv, NEW sid \in Streams, NEW now \in Instants, RingWriteError(sid, now)
  PROVE  IInv'
<1>1. /\ ~Orphaned
      /\ IndexDescribes(TrimmedIndex, Kept)
      /\ TrimmedIndex \in [DOMAIN TrimmedIndex -> RingStream]
      /\ IsFiniteSet(DOMAIN TrimmedIndex)
      /\ TrimmedCount = Cardinality(DOMAIN TrimmedIndex)
  BY TrimmedIndexDescribes
<1>2. /\ slot' = slot /\ latestoffset' = latestoffset
      /\ earliestoffset' = TrimmedEarliest
      /\ streamidx' = TrimmedIndex /\ streamcount' = TrimmedCount
      /\ last_pkttime' = Stamp(now) /\ Stamp(now) <= MaxTime
  BY <1>1 DEF RingWriteError
<1>3. last_pkttime < Stamp(now) /\ Stamp(now) \in 0 .. MaxTime /\ last_pkttime \in Nat
  BY <1>2, RingAssumption DEF Stamp, IInv, TypeOK
<1>4. /\ earliestoffset' \in Offsets \cup {-1}
      /\ EndsAgree'
      /\ Live' = Kept
      /\ \A i, j \in Kept : RankFrom(earliestoffset', i) < RankFrom(earliestoffset', j)
                              => Rank(i) < Rank(j)
  <2>1. CASE latestoffset < 0
    <3>1. ~Full
      BY <2>1 DEF Full, IInv, TypeOK, Offsets
    <3>2. earliestoffset' = earliestoffset /\ Kept = Live
      BY <1>2, <3>1 DEF TrimmedEarliest, Kept
    <3> QED
      BY <1>2, <3>2 DEF IInv, TypeOK, EndsAgree, Live, Rank
  <2>2. CASE latestoffset >= 0
    <3>1. TypeOK /\ EndsAgree
      BY DEF IInv
    <3>2. /\ TrimmedEarliest \in Offsets
          /\ latestoffset \in Offsets
          /\ Kept = Between(TrimmedEarliest, latestoffset)
          /\ \A i, j \in Kept : RankFrom(TrimmedEarliest, i) < RankFrom(TrimmedEarliest, j)
                                 => Rank(i) < Rank(j)
      BY <2>2, <3>1, KeptWindow
    <3>3. EndsAgree'
      BY <1>2, <3>2, RingAssumption DEF EndsAgree, Offsets
    <3> QED
      BY <1>2, <3>2, <3>3 DEF Live
  <2>3. latestoffset < 0 \/ latestoffset >= 0
    BY DEF IInv, TypeOK, Offsets
  <2> QED
    BY <2>1, <2>2, <2>3
<1>5. Kept \subseteq Live
  BY DEF Kept
<1>6. TypeOK'
  <2>1. DOMAIN TrimmedIndex \subseteq Streams
    BY <1>1 DEF IndexDescribes
  <2>2. TrimmedCount \in Nat
    BY <1>1, FS_CardinalityType
  <2> QED
    BY <1>1, <1>2, <1>3, <1>4, <2>1, <2>2 DEF IInv, TypeOK
<1>7. LivePackets'
  <2>1. \A i \in Kept : slot[i].streamid \in Streams /\ slot[i].pkttime \in Nat
                         /\ slot[i].pkttime <= last_pkttime
    BY <1>5, LiveTyped
  <2>2. \A i \in Kept : slot[i].pkttime <= Stamp(now)
    BY <1>3, <2>1
  <2> QED
    BY <1>2, <1>4, <2>1, <2>2 DEF LivePackets
<1>8. TimesIncrease'
  BY <1>2, <1>4, <1>5 DEF IInv, TimesIncrease, Rank, RankFrom
<1>9. IndexDescribesRing'
  BY <1>1, <1>2, <1>4 DEF IndexDescribesRing, IndexDescribes, PacketsOf, IsFirst, IsLast
<1>10. ChainLinksStream'
  <2>1. ChainLinks(Kept)
    BY KeptChain
  <2> QED
    BY <1>2, <1>4, <2>1 DEF ChainLinksStream, ChainLinks, PacketsOf, IsFirst
<1>11. CountAgrees'
  BY <1>1, <1>2 DEF CountAgrees
<1> QED
  BY <1>4, <1>6, <1>7, <1>8, <1>9, <1>10, <1>11 DEF IInv

(* The empty ring satisfies the invariant.                                 *)
LEMMA InitSatisfies ==
  ASSUME Init
  PROVE  IInv
<1>1. Live = {}
  BY DEF Init, Live, Between
<1>2. DOMAIN streamidx = {}
  BY DEF Init
<1>3. TypeOK
  <2>1. EmptySlot \in Packet
    BY RingAssumption DEF EmptySlot, Packet, PktIds, Offsets
  <2> QED
    BY <1>2, <2>1, RingAssumption DEF Init, TypeOK
<1>4. CountAgrees
  BY <1>2, FS_EmptySet DEF Init, CountAgrees
<1> QED
  BY <1>1, <1>2, <1>3, <1>4
     DEF Init, IInv, EndsAgree, LivePackets, TimesIncrease, IndexDescribesRing,
         IndexDescribes, PacketsOf, ChainLinksStream, ChainLinks

(* The invariant holds in every reachable state of the ring: whatever      *)
(* RingWrite() did or failed to do before.                                 *)
THEOREM RingInvariant == Spec => []IInv
<1>1. Init => IInv
  BY InitSatisfies
<1>2. IInv /\ [Next]_vars => IInv'
  <2> SUFFICES ASSUME IInv, [Next]_vars
               PROVE  IInv'
    OBVIOUS
  <2>1. CASE Next
    BY <2>1, WritePreserves, WriteErrorPreserves DEF Next
  <2>2. CASE UNCHANGED vars
    BY <2>2 DEF vars, IInv, TypeOK, EndsAgree, LivePackets, CountAgrees, TimesIncrease,
       IndexDescribesRing, IndexDescribes, ChainLinksStream, ChainLinks, Live, Rank,
       PacketsOf, IsFirst, IsLast
  <2> QED
    BY <2>1, <2>2
<1> QED
  BY <1>1, <1>2, PTL DEF Spec

-----------------------------------------------------------------------------
(* The types of the ring's state: offsets stay inside the buffer and       *)
(* packet IDs inside their range across wraparound of both.                *)
THEOREM TypeCorrect == Spec => []TypeOK
<1>1. IInv => TypeOK
  BY DEF IInv
<1> QED
  BY <1>1, RingInvariant, PTL

(* The stamps of the packets in the ring grow in ring order whatever the   *)
(* clock reads, so that a stamp names one packet.                          *)
THEOREM StampsIncrease == Spec => []TimesIncrease
<1>1. IInv => TimesIncrease
  BY DEF IInv
<1> QED
  BY <1>1, RingInvariant, PTL

(* The stream index names exactly the streams with packets in the ring and *)
(* their earliest and latest packets.                                      *)
THEOREM IndexCorrect == Spec => []IndexDescribesRing
<1>1. IInv => IndexDescribesRing
  BY DEF IInv
<1> QED
  BY <1>1, RingInvariant, PTL

(* nextinstream leads from each packet of the ring to the next of its      *)
(* stream.                                                                 *)
THEOREM LinksCorrect == Spec => []ChainLinksStream
<1>1. IInv => ChainLinksStream
  BY DEF IInv
<1> QED
  BY <1>1, RingInvariant, PTL

(* GetStreams() lists exactly the streams with packets in the ring, and    *)
(* CountStreams() counts them.                                             *)
THEOREM StreamListCorrect == Spec => []StreamListExact
<1>1. IInv => StreamListExact
  <2> SUFFICES ASSUME IInv
               PROVE  StreamListExact
    OBVIOUS
  <2>1. DOMAIN streamidx = {s \in Streams : PacketsOf(Live, s) # {}}
    BY DEF IInv, IndexDescribesRing, IndexDescribes
  <2>2. streamcount = Cardinality(DOMAIN streamidx) /\ streamcount \in Nat
    BY DEF IInv, CountAgrees, TypeOK
  <2>3. ASSUME NEW selected \in SUBSET Streams
        PROVE  DOMAIN GetStreams(selected) = DOMAIN streamidx \cap selected
    BY <2>2 DEF GetStreams
  <2> QED
    BY <2>1, <2>2, <2>3 DEF StreamListExact
<1> QED
  BY <1>1, RingInvariant, PTL

-----------------------------------------------------------------------------
(***************************************************************************)
(* The ring implements the window of the latest packets: RingWrite(), with *)
(* its slots that wrap around the end of the buffer, the eviction of the   *)
(* earliest packet and the error exits after it, takes the steps of module *)
(* PacketWindow, for any number of slots and any streams, clock and IDs.   *)
(***************************************************************************)

\* The i-th slot from slot e on, around the end of the buffer.
SlotFrom(e, i) == IF e + i - 1 < MaxPackets THEN e + i - 1 ELSE e + i - 1 - MaxPackets

\* A packet as the window keeps it.
WindowEntry == [pktid : PktIds, pkttime : 0 .. MaxTime, streamid : Streams \cup {NoStream}]
EntryOf(p) == [pktid |-> p.pktid, pkttime |-> p.pkttime, streamid |-> p.streamid]

\* The number of packets left once RingWrite() has made room.
KeptCount == IF Full THEN LiveCount - 1 ELSE LiveCount

-----------------------------------------------------------------------------
(* A function on 1 .. n is a sequence.                                     *)
LEMMA FunctionIsSeq ==
  ASSUME NEW S, NEW n \in Nat, NEW q \in [1 .. n -> S]
  PROVE  q \in Seq(S) /\ Len(q) = n
  BY SeqDef, LenProperties

(* The window of a ring that is not empty, slot by slot.                   *)
LEMMA WindowTyped ==
  ASSUME TypeOK, EndsAgree
  PROVE  /\ LiveCount \in 0 .. MaxPackets
         /\ LiveCount = 0 <=> latestoffset < 0
         /\ WindowNow \in Seq(WindowEntry) /\ Len(WindowNow) = LiveCount
         /\ \A i \in 1 .. LiveCount : SlotAt(i) \in Offsets /\ WindowNow[i] = EntryOf(slot[SlotAt(i)])
<1>1. CASE latestoffset < 0
  <2>1. LiveCount = 0
    BY <1>1 DEF LiveCount
  <2>2. WindowNow \in [1 .. 0 -> WindowEntry]
    BY <2>1 DEF WindowNow
  <2>3. WindowNow \in Seq(WindowEntry) /\ Len(WindowNow) = 0
    BY <2>2, FunctionIsSeq
  <2> QED
    BY <1>1, <2>1, <2>3, RingAssumption
<1>2. CASE ~(latestoffset < 0)
  <2>1. earliestoffset \in Offsets /\ latestoffset \in Offsets
    BY <1>2, RingAssumption DEF TypeOK, EndsAgree, Offsets
  <2>2. LiveCount \in 1 .. MaxPackets
    BY <1>2, <2>1, RingAssumption DEF LiveCount, Rank, RankFrom, Offsets
  <2>3. \A i \in 1 .. LiveCount : SlotAt(i) \in Offsets
    BY <2>1, <2>2, RingAssumption DEF SlotAt, Offsets
  <2>4. \A i \in 1 .. LiveCount : EntryOf(slot[SlotAt(i)]) \in WindowEntry
    BY <2>3 DEF EntryOf, WindowEntry, TypeOK, Packet
  <2>5. /\ WindowNow \in [1 .. LiveCount -> WindowEntry]
        /\ \A i \in 1 .. LiveCount : WindowNow[i] = EntryOf(slot[SlotAt(i)])
    BY <2>4 DEF WindowNow, EntryOf
  <2>6. WindowNow \in Seq(WindowEntry) /\ Len(WindowNow) = LiveCount
    BY <2>2, <2>5, FunctionIsSeq
  <2> QED
    BY <1>2, <2>2, <2>3, <2>5, <2>6
<1> QED
  BY <1>1, <1>2

(* The same in the next state.                                             *)
LEMMA NextWindowTyped ==
  TypeOK' /\ EndsAgree' =>
    /\ WindowNow' \in Seq(WindowEntry) /\ Len(WindowNow') = LiveCount'
    /\ \A i \in 1 .. LiveCount' : WindowNow'[i] = EntryOf(slot[SlotAt(i)])'
<1>1. TypeOK /\ EndsAgree =>
        /\ WindowNow \in Seq(WindowEntry) /\ Len(WindowNow) = LiveCount
        /\ \A i \in 1 .. LiveCount : WindowNow[i] = EntryOf(slot[SlotAt(i)])
  BY WindowTyped
<1>2. (TypeOK /\ EndsAgree =>
        /\ WindowNow \in Seq(WindowEntry) /\ Len(WindowNow) = LiveCount
        /\ \A i \in 1 .. LiveCount : WindowNow[i] = EntryOf(slot[SlotAt(i)]))'
  BY <1>1, PTL
<1> QED
  BY <1>2

(* RingWrite() makes room exactly when the window has its full capacity.   *)
LEMMA FullIsCapacity ==
  ASSUME TypeOK, EndsAgree
  PROVE  Full <=> LiveCount = MaxPackets
<1>1. CASE latestoffset < 0
  BY <1>1, RingAssumption DEF Full, LiveCount, TypeOK, Offsets
<1>2. CASE ~(latestoffset < 0)
  <2>1. earliestoffset \in Offsets /\ latestoffset \in Offsets
    BY <1>2, RingAssumption DEF TypeOK, EndsAgree, Offsets
  <2> QED
    BY <1>2, <2>1, RingAssumption
       DEF Full, TargetOffset, NextOffset, LiveCount, Rank, RankFrom, Offsets
<1> QED
  BY <1>1, <1>2

(* What is left of the window once RingWrite() has made room.              *)
LEMMA TrimmedSlots ==
  ASSUME TypeOK, EndsAgree
  PROVE  /\ KeptCount \in 0 .. MaxPackets - 1
         /\ Window!Trimmed \in Seq(WindowEntry) /\ Len(Window!Trimmed) = KeptCount
         /\ \A i \in 1 .. KeptCount :
              /\ SlotFrom(TrimmedEarliest, i) \in Kept
              /\ Window!Trimmed[i] = EntryOf(slot[SlotFrom(TrimmedEarliest, i)])
<1>1. /\ LiveCount \in 0 .. MaxPackets /\ WindowNow \in Seq(WindowEntry) /\ Len(WindowNow) = LiveCount
      /\ LiveCount = 0 <=> latestoffset < 0
      /\ \A i \in 1 .. LiveCount : SlotAt(i) \in Offsets /\ WindowNow[i] = EntryOf(slot[SlotAt(i)])
  BY WindowTyped
<1>2. \A i \in 1 .. LiveCount : SlotAt(i) \in Live /\ (i # 1 => SlotAt(i) # earliestoffset)
  <2> SUFFICES ASSUME NEW i \in 1 .. LiveCount
               PROVE  SlotAt(i) \in Live /\ (i # 1 => SlotAt(i) # earliestoffset)
    OBVIOUS
  <2>1. earliestoffset \in Offsets /\ latestoffset \in Offsets
    BY <1>1, RingAssumption DEF TypeOK, EndsAgree, Offsets
  <2>2. LiveCount = Rank(latestoffset) + 1
    BY <2>1 DEF LiveCount, Offsets
  <2> QED
    BY <2>1, <2>2, BetweenMember, RingAssumption DEF Live, Rank, RankFrom, SlotAt, Offsets
<1>3. CASE Full
  <2>1. LiveCount = MaxPackets /\ KeptCount = LiveCount - 1
    BY <1>3, FullIsCapacity DEF KeptCount
  <2>2. WindowNow # <<>>
    BY <1>1, <2>1, EmptySeq, RingAssumption
  <2>3. Window!Trimmed = Tail(WindowNow)
    BY <1>1, <2>1 DEF Window!Trimmed
  <2>4. /\ Tail(WindowNow) \in Seq(WindowEntry) /\ Len(Tail(WindowNow)) = KeptCount
        /\ \A i \in 1 .. KeptCount : Tail(WindowNow)[i] = WindowNow[i + 1]
    BY <1>1, <2>1, <2>2, HeadTailProperties
  <2>5. \A i \in 1 .. KeptCount : SlotFrom(TrimmedEarliest, i) = SlotAt(i + 1)
    <3>1. earliestoffset \in Offsets /\ TrimmedEarliest = NextOffset(earliestoffset)
      BY <1>3 DEF TrimmedEarliest, Full, TypeOK, Offsets
    <3> QED
      BY <2>1, <3>1, RingAssumption DEF SlotFrom, SlotAt, NextOffset, Offsets
  <2>6. \A i \in 1 .. KeptCount : i + 1 \in 1 .. LiveCount /\ i + 1 # 1
    BY <1>1, <2>1
  <2> QED
    BY <1>1, <1>2, <1>3, <2>1, <2>3, <2>4, <2>5, <2>6, RingAssumption DEF Kept
<1>4. CASE ~Full
  <2>1. LiveCount # MaxPackets /\ KeptCount = LiveCount /\ TrimmedEarliest = earliestoffset /\ Kept = Live
    BY <1>4, FullIsCapacity DEF KeptCount, TrimmedEarliest, Kept
  <2>2. Window!Trimmed = WindowNow
    BY <1>1, <2>1 DEF Window!Trimmed
  <2>3. \A i \in 1 .. KeptCount : SlotFrom(TrimmedEarliest, i) = SlotAt(i)
    BY <2>1 DEF SlotFrom, SlotAt
  <2> QED
    BY <1>1, <1>2, <2>1, <2>2, <2>3, RingAssumption
<1> QED
  BY <1>3, <1>4

(* The ID of a packet without one of its own follows that of the latest.   *)
LEMMA IdFollows ==
  ASSUME TypeOK, EndsAgree
  PROVE  NextPktId = Window!IdAfterLast
<1>1. /\ LiveCount \in 0 .. MaxPackets /\ WindowNow \in Seq(WindowEntry) /\ Len(WindowNow) = LiveCount
      /\ LiveCount = 0 <=> latestoffset < 0
      /\ \A i \in 1 .. LiveCount : SlotAt(i) \in Offsets /\ WindowNow[i] = EntryOf(slot[SlotAt(i)])
  BY WindowTyped
<1>2. WindowNow = <<>> <=> LiveCount = 0
  BY <1>1, EmptySeq
<1>3. CASE latestoffset < 0
  BY <1>1, <1>2, <1>3 DEF NextPktId, Window!IdAfterLast
<1>4. CASE ~(latestoffset < 0)
  <2>1. earliestoffset \in Offsets /\ latestoffset \in Offsets
    BY <1>4, RingAssumption DEF TypeOK, EndsAgree, Offsets
  <2>2. SlotAt(LiveCount) = latestoffset
    BY <1>4, <2>1, RingAssumption DEF LiveCount, Rank, RankFrom, SlotAt, Offsets
  <2>3. LiveCount \in 1 .. LiveCount
    BY <1>1, <1>4
  <2>4. WindowNow[Len(WindowNow)].pktid = slot[latestoffset].pktid
    BY <1>1, <2>2, <2>3 DEF EntryOf
  <2> QED
    BY <1>1, <1>2, <1>4, <2>4 DEF NextPktId, Window!IdAfterLast, Window!Successor
<1> QED
  BY <1>3, <1>4

-----------------------------------------------------------------------------
(* A write appends to the window.                                          *)
LEMMA WriteAppends ==
  ASSUME IInv, IInv', NEW sid \in Streams, NEW now \in Instants,
         NEW reqid \in SuppliedIds \cup {RINGID_NONE}, RingWrite(sid, now, reqid)
  PROVE  \E id \in SuppliedIds \cup {Window!IdAfterLast} : Window!Write(sid, id)
<1> DEFINE id == IF reqid = RINGID_NONE THEN NextPktId ELSE reqid
           entry == [pktid |-> id, pkttime |-> Stamp(now), streamid |-> sid]
<1>1. TypeOK /\ EndsAgree /\ TypeOK' /\ EndsAgree'
  BY DEF IInv
<1>2. id \in SuppliedIds \cup {Window!IdAfterLast}
  BY <1>1, IdFollows
<1>3. /\ Stamp(now) \in 0 .. MaxTime /\ last_pkttime < Stamp(now) /\ last_pkttime' = Stamp(now)
      /\ id \in PktIds
      /\ slot'[TargetOffset] = [pktid |-> id, pkttime |-> Stamp(now), streamid |-> sid, nextinstream |-> -1]
      /\ \A i \in Kept : /\ slot'[i].pktid = slot[i].pktid
                         /\ slot'[i].pkttime = slot[i].pkttime
                         /\ slot'[i].streamid = slot[i].streamid
  BY WriteSlots DEF RingWrite
<1>4. /\ TargetOffset \in Offsets /\ earliestoffset' \in Offsets /\ latestoffset' = TargetOffset
  BY WriteWindow
<1>5. /\ KeptCount \in 0 .. MaxPackets - 1
      /\ Window!Trimmed \in Seq(WindowEntry) /\ Len(Window!Trimmed) = KeptCount
      /\ \A i \in 1 .. KeptCount : /\ SlotFrom(TrimmedEarliest, i) \in Kept
                                   /\ Window!Trimmed[i] = EntryOf(slot[SlotFrom(TrimmedEarliest, i)])
  BY <1>1, TrimmedSlots
<1>6. /\ LiveCount' = KeptCount + 1
      /\ SlotFrom(earliestoffset', KeptCount + 1) = TargetOffset
      /\ \A i \in 1 .. KeptCount : SlotFrom(earliestoffset', i) = SlotFrom(TrimmedEarliest, i)
  <2>1. CASE latestoffset < 0
    <3>1. earliestoffset < 0 /\ TargetOffset = 0 /\ ~Full
      BY <1>1, <2>1, RingAssumption DEF TypeOK, EndsAgree, TargetOffset, Full, Offsets
    <3>2. earliestoffset' = 0 /\ latestoffset' = 0 /\ KeptCount = 0
      BY <2>1, <3>1 DEF RingWrite, KeptCount, LiveCount
    <3> QED
      BY <3>1, <3>2, RingAssumption DEF LiveCount, Rank, RankFrom, SlotFrom
  <2>2. CASE ~(latestoffset < 0)
    <3>1. earliestoffset \in Offsets /\ latestoffset \in Offsets
      BY <1>1, <2>2, RingAssumption DEF TypeOK, EndsAgree, Offsets
    <3>2. earliestoffset' = TrimmedEarliest /\ TargetOffset = NextOffset(latestoffset)
      BY <3>1, RingAssumption DEF RingWrite, TargetOffset, Offsets
    <3>3. LiveCount = Rank(latestoffset) + 1
      BY <2>2 DEF LiveCount
    <3>4. LiveCount' = RankFrom(TrimmedEarliest, TargetOffset) + 1
      BY <1>4, <3>2, RingAssumption DEF LiveCount, Rank, Offsets
    <3>5. CASE Full
      BY <3>1, <3>2, <3>3, <3>4, <3>5, RingAssumption
         DEF Full, KeptCount, TrimmedEarliest, TargetOffset, NextOffset, Rank, RankFrom, SlotFrom, Offsets
    <3>6. CASE ~Full
      <4>1. TargetOffset # earliestoffset
        BY <3>1, <3>2, <3>6, RingAssumption DEF Full, TargetOffset, NextOffset, Offsets
      <4> QED
        BY <3>1, <3>2, <3>3, <3>4, <3>6, <4>1, RingAssumption
           DEF KeptCount, TrimmedEarliest, NextOffset, Rank, RankFrom, SlotFrom, Offsets
    <3> QED
      BY <3>5, <3>6
  <2> QED
    BY <2>1, <2>2
<1>7. entry \in WindowEntry
  BY <1>3 DEF WindowEntry
<1>8. /\ Append(Window!Trimmed, entry) \in Seq(WindowEntry)
      /\ Len(Append(Window!Trimmed, entry)) = KeptCount + 1
      /\ \A i \in 1 .. KeptCount : Append(Window!Trimmed, entry)[i] = Window!Trimmed[i]
      /\ Append(Window!Trimmed, entry)[KeptCount + 1] = entry
  BY <1>5, <1>7, AppendProperties
<1>9. /\ WindowNow' \in Seq(WindowEntry) /\ Len(WindowNow') = KeptCount + 1
      /\ \A i \in 1 .. KeptCount + 1 : WindowNow'[i] = EntryOf(slot'[SlotFrom(earliestoffset', i)])
  <2>1. /\ WindowNow' \in Seq(WindowEntry) /\ Len(WindowNow') = LiveCount'
        /\ \A i \in 1 .. LiveCount' : WindowNow'[i] = EntryOf(slot[SlotAt(i)])'
    BY <1>1, NextWindowTyped
  <2>2. \A i \in 1 .. LiveCount' : EntryOf(slot[SlotAt(i)])' = EntryOf(slot'[SlotFrom(earliestoffset', i)])
    BY DEF EntryOf, SlotAt, SlotFrom
  <2> QED
    BY <1>6, <2>1, <2>2
<1> HIDE DEF id, entry
<1>10. ASSUME NEW i \in 1 .. KeptCount + 1
       PROVE  WindowNow'[i] = Append(Window!Trimmed, entry)[i]
  <2>1. CASE i = KeptCount + 1
    <3>1. EntryOf(slot'[TargetOffset]) = entry
      BY <1>3 DEF EntryOf, entry
    <3> QED
      BY <1>5, <1>6, <1>8, <1>9, <2>1, <3>1
  <2>2. CASE i # KeptCount + 1
    <3>1. i \in 1 .. KeptCount
      BY <1>5, <2>2
    <3> DEFINE o == SlotFrom(TrimmedEarliest, i)
    <3>2. EntryOf(slot'[o]) = EntryOf(slot[o])
      BY <1>3, <1>5, <3>1 DEF EntryOf
    <3> QED
      BY <1>5, <1>6, <1>8, <1>9, <3>1, <3>2
  <2> QED
    BY <2>1, <2>2
<1>11. WindowNow' = Append(Window!Trimmed, entry)
  BY <1>8, <1>9, <1>10, SeqEqual
<1>12. Window!Write(sid, id)
  BY <1>1, <1>3, <1>11 DEF Window!Write, entry, TypeOK
<1> QED
  BY <1>2, <1>12

(* A write that fails after it made room leaves the rest of the window.    *)
LEMMA ErrorTrims ==
  ASSUME IInv, IInv', NEW sid \in Streams, NEW now \in Instants, RingWriteError(sid, now)
  PROVE  Window!FailedWrite
<1>1. TypeOK /\ EndsAgree /\ TypeOK' /\ EndsAgree'
  BY DEF IInv
<1>2. /\ KeptCount \in 0 .. MaxPackets - 1
      /\ Window!Trimmed \in Seq(WindowEntry) /\ Len(Window!Trimmed) = KeptCount
      /\ \A i \in 1 .. KeptCount : /\ SlotFrom(TrimmedEarliest, i) \in Kept
                                   /\ Window!Trimmed[i] = EntryOf(slot[SlotFrom(TrimmedEarliest, i)])
  BY <1>1, TrimmedSlots
<1>3. /\ slot' = slot /\ latestoffset' = latestoffset /\ earliestoffset' = TrimmedEarliest
      /\ last_pkttime' = Stamp(now)
  BY DEF RingWriteError
<1>4. last_pkttime < last_pkttime'
  BY <1>1, <1>3, RingAssumption DEF Stamp, TypeOK
<1>5. LiveCount' = KeptCount
  <2>1. CASE latestoffset < 0
    <3>1. ~Full
      BY <1>1, <2>1 DEF Full, TypeOK, Offsets
    <3> QED
      BY <1>3, <2>1, <3>1 DEF LiveCount, KeptCount
  <2>2. CASE ~(latestoffset < 0)
    <3>1. earliestoffset \in Offsets /\ latestoffset \in Offsets
      BY <1>1, <2>2, RingAssumption DEF TypeOK, EndsAgree, Offsets
    <3> QED
      BY <1>3, <2>2, <3>1, RingAssumption
         DEF LiveCount, KeptCount, Full, TargetOffset, TrimmedEarliest, NextOffset, Rank, RankFrom, Offsets
  <2> QED
    BY <2>1, <2>2
<1>6. /\ WindowNow' \in Seq(WindowEntry) /\ Len(WindowNow') = KeptCount
      /\ \A i \in 1 .. KeptCount : WindowNow'[i] = EntryOf(slot'[SlotFrom(earliestoffset', i)])
  <2>1. /\ WindowNow' \in Seq(WindowEntry) /\ Len(WindowNow') = LiveCount'
        /\ \A i \in 1 .. LiveCount' : WindowNow'[i] = EntryOf(slot[SlotAt(i)])'
    BY <1>1, NextWindowTyped
  <2>2. \A i \in 1 .. LiveCount' : EntryOf(slot[SlotAt(i)])' = EntryOf(slot'[SlotFrom(earliestoffset', i)])
    BY DEF EntryOf, SlotAt, SlotFrom
  <2> QED
    BY <1>5, <2>1, <2>2
<1>7. WindowNow' = Window!Trimmed
  BY <1>2, <1>3, <1>6, SeqEqual
<1> QED
  BY <1>1, <1>4, <1>7 DEF Window!FailedWrite, TypeOK

-----------------------------------------------------------------------------
(* RingWrite() with its wrapped slots, eviction and error exits implements *)
(* the bounded window of the latest packets: what the ring holds is always *)
(* the most recent packets in the order they were written, at most as many *)
(* as there are slots, and a packet leaves only from the front and only    *)
(* because a write needed room (ring.c, RingWrite()).                      *)
THEOREM RingImplementsWindow == Spec => ImplementsWindow
<1>1. Init => Window!WInit
  <2> SUFFICES ASSUME Init PROVE Window!WInit
    OBVIOUS
  <2>1. TypeOK /\ EndsAgree /\ latestoffset < 0 /\ last_pkttime = 0
    BY InitSatisfies DEF IInv, Init
  <2>2. WindowNow \in Seq(WindowEntry) /\ Len(WindowNow) = 0
    BY <2>1, WindowTyped
  <2>3. WindowNow = <<>>
    BY <2>2, EmptySeq
  <2> QED
    BY <2>1, <2>3 DEF Window!WInit
<1>2. IInv /\ IInv' /\ [Next]_vars => [Window!WNext]_(Window!wvars)
  <2> SUFFICES ASSUME IInv, IInv', [Next]_vars
               PROVE  Window!WNext \/ UNCHANGED Window!wvars
    OBVIOUS
  <2>1. ASSUME NEW sid \in Streams, NEW now \in Instants, NEW reqid \in SuppliedIds \cup {RINGID_NONE},
               RingWrite(sid, now, reqid)
        PROVE  Window!WNext
    BY <2>1, WriteAppends DEF Window!WNext
  <2>2. ASSUME NEW sid \in Streams, NEW now \in Instants, RingWriteError(sid, now)
        PROVE  Window!WNext
    BY <2>2, ErrorTrims DEF Window!WNext
  <2>3. CASE UNCHANGED vars
    BY <2>3 DEF vars, Window!wvars, WindowNow, LiveCount, Rank, RankFrom, SlotAt
  <2> QED
    BY <2>1, <2>2, <2>3 DEF Next
<1> QED
  BY <1>1, <1>2, RingInvariant, PTL DEF Spec, ImplementsWindow, Window!WSpec

=============================================================================
