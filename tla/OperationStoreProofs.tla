------------------------ MODULE OperationStoreProofs ------------------------
(***************************************************************************)
(* Proofs about the operation table, for any set of operations, any number *)
(* of concurrent lookups and any retention policy.                         *)
(***************************************************************************)
EXTENDS OperationStore, FiniteSetTheorems, TLAPS

(* Clock values in flight come from the past.                               *)
SamplesInPast ==
    /\ \A i \in Ids : handler[i].at <= clock /\ handler[i].stamp <= clock
    /\ \A r \in Readers : lookup[r] # NoLookup => lookup[r].at <= clock

(* An entry carries the timestamp and revision of its operation's last      *)
(* write, and revisions are handed out in increasing order.                 *)
EntriesMatchWrites ==
    /\ \A i \in DOMAIN entries :
          /\ handler[i].last # "none"
          /\ entries[i].updated_at = handler[i].stamp
          /\ entries[i].revision = handler[i].revision
          /\ Active(entries[i]) => entries[i].state = handler[i].last
    /\ \A i \in Ids :
          /\ handler[i].revision <= next_revision
          /\ next_revision < RevisionLimit => handler[i].revision < next_revision

(* The inductive invariant.  The safety properties are not inductive by     *)
(* themselves: that an entry was written in the past is what makes an       *)
(* expiry justified, and that revisions order the writes is what makes an   *)
(* eviction hit the right entry.                                            *)
IInv ==
    /\ TypeOK
    /\ IsFiniteSet(DOMAIN entries)
    /\ SamplesInPast
    /\ EntriesMatchWrites
    /\ Bounded
    /\ ForgetsOnlyWhenFull
    /\ RecentOperationsRetained
    /\ ExpiredOnlyAfterTtl

-----------------------------------------------------------------------------
(* What one prune of a table `es` does: nothing is added, at most            *)
(* max_entries stay, entries go only when there were too many and never      *)
(* ahead of one that stays, and what stays is unchanged up to expiry.        *)
LEMMA PruneFacts ==
    ASSUME NEW es, NEW now \in Nat, IsFiniteSet(DOMAIN es),
           \A i \in DOMAIN es : es[i] \in Entry,
           Prune(es, now)
    PROVE  /\ DOMAIN entries' \subseteq DOMAIN es
           /\ IsFiniteSet(DOMAIN entries')
           /\ Cardinality(DOMAIN entries') <= MaxEntries
           /\ DOMAIN entries' # DOMAIN es => Cardinality(DOMAIN entries') = MaxEntries
           /\ Cardinality(DOMAIN es) <= MaxEntries => DOMAIN entries' = DOMAIN es
           /\ \A i \in DOMAIN entries' : entries'[i] = Aged(es, now)[i]
           /\ \A k \in DOMAIN entries', v \in DOMAIN es \ DOMAIN entries' :
                 ~EvictsBefore(entries'[k], Aged(es, now)[v])
  <1>1. PICK kept \in SUBSET DOMAIN es :
           /\ Keeps(Aged(es, now), kept)
           /\ entries' = [i \in kept |-> Aged(es, now)[i]]
    BY DEF Prune
  <1>2. DOMAIN Aged(es, now) = DOMAIN es
    BY DEF Aged
  <1>3. DOMAIN entries' = kept
    BY <1>1
  <1>4. IsFiniteSet(kept) /\ Cardinality(kept) <= Cardinality(DOMAIN es)
        /\ (Cardinality(DOMAIN es) = Cardinality(kept) => DOMAIN es = kept)
    BY FS_Subset
  <1>5. Cardinality(kept) \in Nat /\ Cardinality(DOMAIN es) \in Nat
    BY <1>4, FS_CardinalityType
  <1>6. Cardinality(kept) = IF Cardinality(DOMAIN es) <= MaxEntries
                            THEN Cardinality(DOMAIN es) ELSE MaxEntries
    BY <1>1, <1>2 DEF Keeps
  <1>7. \A i \in kept : entries'[i] = Aged(es, now)[i]
    BY <1>1
  <1>8. \A k \in kept, v \in DOMAIN es \ kept :
           ~EvictsBefore(Aged(es, now)[k], Aged(es, now)[v])
    BY <1>1, <1>2 DEF Keeps
  <1> QED
    BY <1>3, <1>4, <1>5, <1>6, <1>7, <1>8, RetentionAssumption

(* Aging an entry keeps its timestamp and revision, and changes its state    *)
(* only to Expired and only past the TTL.                                    *)
LEMMA AgedFacts ==
    ASSUME NEW es, NEW now \in Nat, NEW i \in DOMAIN es, es[i] \in Entry
    PROVE  /\ Aged(es, now)[i] \in Entry
           /\ Aged(es, now)[i].updated_at = es[i].updated_at
           /\ Aged(es, now)[i].revision = es[i].revision
           /\ Active(Aged(es, now)[i]) => Aged(es, now)[i] = es[i]
           /\ ~Active(Aged(es, now)[i]) =>
                 ~Active(es[i]) \/ now - es[i].updated_at > TtlMs
           /\ now - es[i].updated_at <= TtlMs => Aged(es, now)[i] = es[i]
  BY RetentionAssumption DEF Aged, Active, Entry, State, SaturatingSub

-----------------------------------------------------------------------------
LEMMA InitIInv == Init => IInv
  <1> SUFFICES ASSUME Init PROVE IInv
    OBVIOUS
  <1>1. DOMAIN entries = {}
    BY DEF Init
  <1>2. TypeOK
    BY <1>1, BoundsAssumption
    DEF Init, TypeOK, Handler, Live, Terminal, NoLookup, State
  <1>3. IsFiniteSet(DOMAIN entries) /\ Cardinality(DOMAIN entries) = 0
    BY <1>1, FS_EmptySet
  <1>4. SamplesInPast /\ EntriesMatchWrites
    BY <1>1, BoundsAssumption DEF Init, SamplesInPast, EntriesMatchWrites
  <1>5. Bounded /\ ForgetsOnlyWhenFull /\ RecentOperationsRetained
        /\ ExpiredOnlyAfterTtl
    BY <1>1, <1>3, RetentionAssumption
    DEF Init, Bounded, ForgetsOnlyWhenFull, RecentOperationsRetained,
        ExpiredOnlyAfterTtl
  <1> QED
    BY <1>2, <1>3, <1>4, <1>5 DEF IInv

(* The table an insert hands to prune: the written entry on top of the old   *)
(* ones.                                                                     *)
LEMMA UpdatedFacts ==
    ASSUME IInv, NEW i \in Ids, handler[i].next \in Live
    PROVE  LET es == Updated(i, handler[i].next, handler[i].at)
           IN  /\ DOMAIN es = DOMAIN entries \cup {i}
               /\ IsFiniteSet(DOMAIN es)
               /\ Cardinality(DOMAIN es) <= Cardinality(DOMAIN entries) + 1
               /\ \A j \in DOMAIN es : es[j] \in Entry
               /\ \A j \in DOMAIN entries \ {i} : es[j] = entries[j]
               /\ es[i] = [state |-> handler[i].next, updated_at |-> handler[i].at,
                           revision |-> next_revision]
  <1> DEFINE es == Updated(i, handler[i].next, handler[i].at)
  <1>1. DOMAIN es = DOMAIN entries \cup {i}
    BY DEF Updated
  <1>2. IsFiniteSet(DOMAIN es)
        /\ Cardinality(DOMAIN es) <= Cardinality(DOMAIN entries) + 1
    <2>1. IsFiniteSet(DOMAIN entries)
      BY DEF IInv
    <2>2. Cardinality(DOMAIN entries) \in Nat
      BY <2>1, FS_CardinalityType
    <2>3. /\ IsFiniteSet(DOMAIN entries \cup {i})
          /\ Cardinality(DOMAIN entries \cup {i}) =
               IF i \in DOMAIN entries THEN Cardinality(DOMAIN entries)
               ELSE Cardinality(DOMAIN entries) + 1
      BY <2>1, FS_AddElement, Zenon
    <2> QED
      BY <1>1, <2>2, <2>3
  <1>3. \A j \in DOMAIN entries \ {i} : es[j] = entries[j]
    BY <1>1 DEF Updated
  <1>4. es[i] = [state |-> handler[i].next, updated_at |-> handler[i].at,
                 revision |-> next_revision]
    BY <1>1 DEF Updated
  <1>5. es[i] \in Entry
    BY <1>4, BoundsAssumption DEF IInv, TypeOK, Handler, Entry, State
  <1>6. \A j \in DOMAIN es : es[j] \in Entry
    BY <1>1, <1>3, <1>5 DEF IInv, TypeOK
  <1> QED
    BY <1>1, <1>2, <1>3, <1>4, <1>6

(* An insert keeps the invariant: the new entry carries the newest revision  *)
(* and is not yet aged, so what prune evicts was written before it.          *)
LEMMA InsertIInv ==
    ASSUME IInv, NEW i \in Ids, Insert(i)
    PROVE  IInv'
  <1> DEFINE es == Updated(i, handler[i].next, handler[i].at)
  <1> DEFINE at == handler[i].at
  <1>0. /\ handler[i].next \in Live
        /\ Prune(es, at)
        /\ next_revision' = IF next_revision < RevisionLimit
                            THEN next_revision + 1 ELSE next_revision
        /\ handler' = [handler EXCEPT ![i] =
              [last |-> handler[i].next, revision |-> next_revision,
               stamp |-> handler[i].at, next |-> "none", at |-> 0]]
        /\ UNCHANGED <<clock, lookup>>
    BY DEF Insert, SaturatingSucc
  <1>1. /\ DOMAIN es = DOMAIN entries \cup {i}
        /\ IsFiniteSet(DOMAIN es)
        /\ Cardinality(DOMAIN es) <= Cardinality(DOMAIN entries) + 1
        /\ \A j \in DOMAIN es : es[j] \in Entry
        /\ \A j \in DOMAIN entries \ {i} : es[j] = entries[j]
        /\ es[i] = [state |-> handler[i].next, updated_at |-> at,
                    revision |-> next_revision]
    BY <1>0, UpdatedFacts
  <1>2. at \in Nat /\ clock \in Nat /\ at <= clock
    BY DEF IInv, TypeOK, Handler, SamplesInPast
  <1> HIDE DEF es, at
  <1>3. /\ DOMAIN entries' \subseteq DOMAIN es
        /\ IsFiniteSet(DOMAIN entries')
        /\ Cardinality(DOMAIN entries') <= MaxEntries
        /\ DOMAIN entries' # DOMAIN es => Cardinality(DOMAIN entries') = MaxEntries
        /\ Cardinality(DOMAIN es) <= MaxEntries => DOMAIN entries' = DOMAIN es
        /\ \A j \in DOMAIN entries' : entries'[j] = Aged(es, at)[j]
        /\ \A k \in DOMAIN entries', v \in DOMAIN es \ DOMAIN entries' :
              ~EvictsBefore(entries'[k], Aged(es, at)[v])
    BY <1>0, <1>1, <1>2, PruneFacts
  <1>4. \A j \in DOMAIN es :
           /\ Aged(es, at)[j] \in Entry
           /\ Aged(es, at)[j].updated_at = es[j].updated_at
           /\ Aged(es, at)[j].revision = es[j].revision
           /\ Active(Aged(es, at)[j]) => Aged(es, at)[j] = es[j]
           /\ ~Active(Aged(es, at)[j]) =>
                 ~Active(es[j]) \/ at - es[j].updated_at > TtlMs
           /\ at - es[j].updated_at <= TtlMs => Aged(es, at)[j] = es[j]
    BY <1>1, <1>2, AgedFacts
  <1>5. TypeOK'
    <2>1. handler' \in [Ids -> Handler]
      <3>1. handler \in [Ids -> Handler] /\ next_revision \in Nat
        BY BoundsAssumption DEF IInv, TypeOK
      <3>2. [last |-> handler[i].next, revision |-> next_revision, stamp |-> handler[i].at,
             next |-> "none", at |-> 0] \in Handler
        BY <1>0, <3>1 DEF Handler
      <3> QED
        BY <1>0, <3>1, <3>2
    <2>2. next_revision' \in 1..RevisionLimit
      BY <1>0, BoundsAssumption DEF IInv, TypeOK
    <2>3. DOMAIN entries' \subseteq Ids /\ \A j \in DOMAIN entries' : entries'[j] \in Entry
      BY <1>1, <1>3, <1>4 DEF IInv, TypeOK
    <2> QED
      BY <1>0, <2>1, <2>2, <2>3 DEF IInv, TypeOK
  <1>6. SamplesInPast'
    BY <1>0, <1>2 DEF IInv, TypeOK, Handler, SamplesInPast, at
  <1>7. EntriesMatchWrites'
    <2>1. ASSUME NEW j \in DOMAIN entries'
          PROVE  /\ handler'[j].last # "none"
                 /\ entries'[j].updated_at = handler'[j].stamp
                 /\ entries'[j].revision = handler'[j].revision
                 /\ Active(entries'[j]) => entries'[j].state = handler'[j].last
      <3>1. CASE j = i
        BY <3>1, <1>0, <1>1, <1>3, <1>4
        DEF IInv, TypeOK, Handler, Live, Terminal, at
      <3>2. CASE j # i
        <4>1. j \in DOMAIN entries /\ handler'[j] = handler[j] /\ es[j] = entries[j]
          BY <3>2, <1>0, <1>1, <1>3 DEF IInv, TypeOK
        <4> QED
          BY <4>1, <1>1, <1>3, <1>4 DEF IInv, EntriesMatchWrites
      <3> QED
        BY <3>1, <3>2
    <2>2. ASSUME NEW j \in Ids
          PROVE  /\ handler'[j].revision <= next_revision'
                 /\ next_revision' < RevisionLimit =>
                       handler'[j].revision < next_revision'
      BY <1>0, BoundsAssumption DEF IInv, TypeOK, Handler, EntriesMatchWrites
    <2> QED
      BY <2>1, <2>2 DEF EntriesMatchWrites
  <1>8. Bounded' /\ ForgetsOnlyWhenFull'
    <2>1. Bounded'
      BY <1>3 DEF Bounded
    <2>2. ASSUME NEW j \in Ids, handler'[j].last # "none", j \notin DOMAIN entries'
          PROVE  Cardinality(DOMAIN entries') = MaxEntries
      <3>1. CASE j \in DOMAIN es
        BY <3>1, <2>2, <1>3
      <3>2. CASE j \notin DOMAIN es
        <4>1. j # i /\ j \notin DOMAIN entries /\ handler[j].last # "none"
          BY <3>2, <2>2, <1>0, <1>1 DEF IInv, TypeOK
        <4>2. Cardinality(DOMAIN entries) = MaxEntries
          BY <4>1 DEF IInv, ForgetsOnlyWhenFull
        <4>3. CASE DOMAIN entries' = DOMAIN es
          <5>1. DOMAIN entries \in SUBSET DOMAIN entries'
            BY <4>3, <1>1
          <5>2. Cardinality(DOMAIN entries) <= Cardinality(DOMAIN entries')
            BY <5>1, <1>3, FS_Subset
          <5>3. Cardinality(DOMAIN entries') \in Nat
            BY <1>3, FS_CardinalityType
          <5> QED
            BY <5>2, <5>3, <4>2, <1>3, RetentionAssumption
        <4> QED
          BY <4>3, <1>3
      <3> QED
        BY <3>1, <3>2
    <2> QED
      BY <2>1, <2>2 DEF ForgetsOnlyWhenFull
  <1>9. RecentOperationsRetained'
    <2> SUFFICES ASSUME NEW j \in Ids, NEW k \in DOMAIN entries',
                        handler'[j].last # "none",
                        j \notin DOMAIN entries',
                        clock - handler'[j].stamp <= TtlMs,
                        Active(entries'[k])
                 PROVE  entries'[k].revision >= handler'[j].revision
      BY <1>0 DEF RecentOperationsRetained
    <2>1. /\ entries'[k] \in Entry
          /\ handler'[k] \in Handler /\ handler'[j] \in Handler
          /\ entries'[k].revision = handler'[k].revision
      BY <1>5, <1>7 DEF TypeOK, EntriesMatchWrites
    <2>2. CASE j \in DOMAIN es
      <3>1. ~EvictsBefore(entries'[k], Aged(es, at)[j])
        BY <2>2, <1>3
      <3>2. es[j].updated_at = handler'[j].stamp /\ es[j].revision = handler'[j].revision
            /\ es[j] \in Entry
        <4>1. CASE j = i
          BY <4>1, <1>0, <1>1, <2>2 DEF IInv, TypeOK, Handler, at
        <4>2. CASE j # i
          BY <4>2, <1>0, <1>1, <2>2 DEF IInv, TypeOK, EntriesMatchWrites
        <4> QED
          BY <4>1, <4>2
      <3>3. Active(Aged(es, at)[j])
        <4>1. at - es[j].updated_at <= TtlMs
          BY <3>2, <1>2, RetentionAssumption DEF Entry
        <4>2. Aged(es, at)[j] = es[j]
          BY <4>1, <1>4, <2>2
        <4>3. Active(es[j])
          <5>1. CASE j = i
            BY <5>1, <1>0, <1>1 DEF IInv, TypeOK, Handler, Active, Live, Terminal
          <5>2. CASE j # i
            <6>1. j \in DOMAIN entries /\ es[j] = entries[j]
              BY <5>2, <1>1, <2>2
            <6>2. clock - entries[j].updated_at <= TtlMs
              BY <6>1, <3>2
            <6> QED
              BY <6>1, <6>2, <3>2, <1>2, RetentionAssumption
              DEF IInv, ExpiredOnlyAfterTtl, Entry
          <5> QED
            BY <5>1, <5>2
        <4> QED
          BY <4>2, <4>3
      <3>4. ~(entries'[k].revision < Aged(es, at)[j].revision)
        BY <3>1, <3>3, Active(entries'[k]) DEF EvictsBefore
      <3> QED
        BY <3>2, <3>4, <2>1, <2>2, <1>4 DEF Entry
    <2>3. CASE j \notin DOMAIN es
      <3>1. j # i /\ j \notin DOMAIN entries /\ handler'[j] = handler[j]
        BY <2>3, <1>0, <1>1 DEF IInv, TypeOK
      <3>2. CASE k = i
        BY <3>1, <3>2, <2>1, <1>0 DEF IInv, TypeOK, Handler, EntriesMatchWrites
      <3>3. CASE k # i
        <4>1. k \in DOMAIN entries /\ es[k] = entries[k]
          BY <3>3, <1>1, <1>3
        <4>2. entries'[k] = entries[k]
          BY <4>1, <1>1, <1>3, <1>4
        <4> QED
          BY <3>1, <4>1, <4>2 DEF IInv, RecentOperationsRetained
      <3> QED
        BY <3>2, <3>3
    <2> QED
      BY <2>2, <2>3
  <1>10. ExpiredOnlyAfterTtl'
    <2> SUFFICES ASSUME NEW j \in DOMAIN entries', ~Active(entries'[j])
                 PROVE  clock - entries'[j].updated_at > TtlMs
      BY <1>0 DEF ExpiredOnlyAfterTtl
    <2>1. ~Active(es[j]) \/ at - es[j].updated_at > TtlMs
      BY <1>3, <1>4
    <2>2. entries'[j].updated_at = es[j].updated_at /\ es[j] \in Entry
      BY <1>1, <1>3, <1>4
    <2>3. CASE at - es[j].updated_at > TtlMs
      BY <2>2, <2>3, <1>2, RetentionAssumption DEF Entry
    <2>4. CASE ~Active(es[j])
      <3>1. j # i
        BY <2>4, <1>0, <1>1 DEF IInv, TypeOK, Handler, Active, Live, Terminal
      <3> QED
        BY <3>1, <2>2, <2>4, <1>1, <1>3 DEF IInv, ExpiredOnlyAfterTtl
    <2> QED
      BY <2>1, <2>3, <2>4
  <1> QED
    BY <1>3, <1>5, <1>6, <1>7, <1>8, <1>9, <1>10 DEF IInv

(* A lookup keeps the invariant and, since the table is never above its      *)
(* ceiling between two steps, evicts nothing.                                *)
LEMMA GetIInv ==
    ASSUME IInv, NEW r \in Readers, Get(r)
    PROVE  IInv' /\ DOMAIN entries' = DOMAIN entries
  <1> DEFINE at == lookup[r].at
  <1>0. /\ lookup[r] # NoLookup
        /\ Prune(entries, at)
        /\ lookup' = [lookup EXCEPT ![r] = NoLookup]
        /\ UNCHANGED <<clock, next_revision, handler>>
    BY DEF Get
  <1>1. at \in Nat /\ clock \in Nat /\ at <= clock /\ lookup[r].id \in Ids
    BY <1>0 DEF IInv, TypeOK, Lookup, SamplesInPast
  <1>2. IsFiniteSet(DOMAIN entries) /\ \A j \in DOMAIN entries : entries[j] \in Entry
    BY DEF IInv, TypeOK
  <1> HIDE DEF at
  <1>3. /\ DOMAIN entries' = DOMAIN entries
        /\ \A j \in DOMAIN entries' : entries'[j] = Aged(entries, at)[j]
    BY <1>0, <1>1, <1>2, PruneFacts DEF IInv, Bounded
  <1>4. \A j \in DOMAIN entries :
           /\ entries'[j] \in Entry
           /\ entries'[j].updated_at = entries[j].updated_at
           /\ entries'[j].revision = entries[j].revision
           /\ Active(entries'[j]) => entries'[j] = entries[j]
           /\ ~Active(entries'[j]) =>
                 ~Active(entries[j]) \/ at - entries[j].updated_at > TtlMs
    BY <1>1, <1>2, <1>3, AgedFacts
  <1>5. TypeOK'
    <2>3. lookup' \in [Readers -> Lookup \cup {NoLookup}]
      BY <1>0 DEF IInv, TypeOK
    <2> QED
      BY <1>0, <1>3, <1>4, <2>3 DEF IInv, TypeOK
  <1>6. SamplesInPast' /\ EntriesMatchWrites'
    <2>1. SamplesInPast'
      BY <1>0 DEF IInv, TypeOK, SamplesInPast
    <2>2. EntriesMatchWrites'
      BY <1>0, <1>3, <1>4 DEF IInv, EntriesMatchWrites
    <2> QED
      BY <2>1, <2>2
  <1>7. Bounded' /\ ForgetsOnlyWhenFull' /\ RecentOperationsRetained'
    BY <1>0, <1>3, <1>4
    DEF IInv, Bounded, ForgetsOnlyWhenFull, RecentOperationsRetained
  <1>8. ExpiredOnlyAfterTtl'
    BY <1>0, <1>1, <1>2, <1>3, <1>4, RetentionAssumption
    DEF IInv, ExpiredOnlyAfterTtl, Entry
  <1> QED
    BY <1>2, <1>3, <1>5, <1>6, <1>7, <1>8 DEF IInv

(* The steps that leave the table alone.                                     *)
LEMMA OtherIInv ==
    ASSUME IInv,
           \/ \E i \in Ids : \E s \in Live : Sample(i, s)
           \/ \E i \in Ids : Drop(i)
           \/ \E r \in Readers, i \in Ids : SampleLookup(r, i)
           \/ Tick
           \/ UNCHANGED vars
    PROVE  IInv'
  <1>1. ASSUME NEW i \in Ids, NEW s \in Live, Sample(i, s)
        PROVE  IInv'
    <2>1. TypeOK' /\ SamplesInPast'
      BY <1>1 DEF IInv, TypeOK, Handler, SamplesInPast, Sample
    <2>2. EntriesMatchWrites' /\ Bounded' /\ ForgetsOnlyWhenFull'
      BY <1>1 DEF IInv, TypeOK, Handler, EntriesMatchWrites, Bounded,
                  ForgetsOnlyWhenFull, Sample
    <2>3. RecentOperationsRetained' /\ ExpiredOnlyAfterTtl'
      BY <1>1 DEF IInv, TypeOK, Handler, RecentOperationsRetained,
                  ExpiredOnlyAfterTtl, Sample
    <2> QED
      BY <2>1, <2>2, <2>3, <1>1 DEF IInv, Sample
  <1>2. ASSUME NEW i \in Ids, Drop(i)
        PROVE  IInv'
    <2>0. handler' \in [Ids -> Handler]
      <3>1. handler \in [Ids -> Handler]
        BY DEF IInv, TypeOK
      <3>2. [handler[i] EXCEPT !.next = "dropped", !.at = 0] \in Handler
        BY <3>1 DEF Handler
      <3> QED
        BY <1>2, <3>1, <3>2 DEF Drop
    <2>1. TypeOK' /\ SamplesInPast'
      BY <1>2, <2>0 DEF IInv, TypeOK, Handler, SamplesInPast, Drop
    <2>2. EntriesMatchWrites' /\ Bounded' /\ ForgetsOnlyWhenFull'
      BY <1>2 DEF IInv, TypeOK, Handler, EntriesMatchWrites, Bounded,
                  ForgetsOnlyWhenFull, Drop
    <2>3. RecentOperationsRetained' /\ ExpiredOnlyAfterTtl'
      BY <1>2 DEF IInv, TypeOK, Handler, RecentOperationsRetained,
                  ExpiredOnlyAfterTtl, Drop
    <2> QED
      BY <2>1, <2>2, <2>3, <1>2 DEF IInv, Drop
  <1>3. ASSUME NEW r \in Readers, NEW i \in Ids, SampleLookup(r, i)
        PROVE  IInv'
    <2>1. TypeOK' /\ SamplesInPast'
      BY <1>3 DEF IInv, TypeOK, Lookup, SamplesInPast, SampleLookup
    <2> QED
      BY <1>3, <2>1 DEF IInv, EntriesMatchWrites, Bounded, ForgetsOnlyWhenFull,
                        RecentOperationsRetained, ExpiredOnlyAfterTtl, SampleLookup
  <1>4. ASSUME Tick
        PROVE  IInv'
    <2>1. TypeOK' /\ SamplesInPast'
      BY <1>4 DEF IInv, TypeOK, Handler, Lookup, SamplesInPast, Tick
    <2>2. RecentOperationsRetained' /\ ExpiredOnlyAfterTtl'
      BY <1>4, RetentionAssumption
      DEF IInv, TypeOK, Handler, Entry, RecentOperationsRetained,
          ExpiredOnlyAfterTtl, Tick
    <2> QED
      BY <1>4, <2>1, <2>2 DEF IInv, EntriesMatchWrites, Bounded, ForgetsOnlyWhenFull, Tick
  <1>5. ASSUME UNCHANGED vars
        PROVE  IInv'
    BY <1>5 DEF vars, IInv, TypeOK, SamplesInPast, EntriesMatchWrites, Bounded,
                ForgetsOnlyWhenFull, RecentOperationsRetained, ExpiredOnlyAfterTtl
  <1> QED
    BY <1>1, <1>2, <1>3, <1>4, <1>5

LEMMA NextIInv == IInv /\ [Next]_vars => IInv'
  BY InsertIInv, GetIInv, OtherIInv DEF Next

-----------------------------------------------------------------------------
(* Every state of the table is well formed: the inductive invariant holds.   *)
THEOREM IInvHolds == Spec => []IInv
  BY InitIInv, NextIInv, PTL DEF Spec

(* Type correctness of the table under every interleaving of handlers and    *)
(* lookups.                                                                  *)
THEOREM TypeCorrect == Spec => []TypeOK
  <1>1. IInv => TypeOK
    BY DEF IInv
  <1> QED
    BY <1>1, IInvHolds, PTL

(* The operation table never exceeds its ceiling, forgets only when full,    *)
(* never forgets a recent operation before an older active one, and expires  *)
(* only what really aged: for any retention policy and any number of         *)
(* concurrent requests.                                                      *)
THEOREM StoreSafe ==
    Spec => [](Bounded /\ ForgetsOnlyWhenFull /\ RecentOperationsRetained
               /\ ExpiredOnlyAfterTtl)
  <1>1. IInv => Bounded /\ ForgetsOnlyWhenFull /\ RecentOperationsRetained
                /\ ExpiredOnlyAfterTtl
    BY DEF IInv
  <1> QED
    BY <1>1, IInvHolds, PTL

(* The entry that an insert writes is not the one that its prune evicts.     *)
LEMMA InsertVisible ==
    ASSUME IInv, NEW i \in Ids, Insert(i), next_revision < RevisionLimit
    PROVE  i \in DOMAIN entries' /\ entries'[i].state = handler[i].next
  <1> DEFINE es == Updated(i, handler[i].next, handler[i].at)
  <1> DEFINE at == handler[i].at
  <1>0. handler[i].next \in Live /\ Prune(es, at)
    BY DEF Insert
  <1>1. /\ DOMAIN es = DOMAIN entries \cup {i}
        /\ IsFiniteSet(DOMAIN es)
        /\ \A j \in DOMAIN es : es[j] \in Entry
        /\ \A j \in DOMAIN entries \ {i} : es[j] = entries[j]
        /\ es[i] = [state |-> handler[i].next, updated_at |-> at,
                    revision |-> next_revision]
    BY <1>0, UpdatedFacts
  <1>2. at \in Nat
    BY DEF IInv, TypeOK, Handler
  <1> HIDE DEF es, at
  <1>3. /\ DOMAIN entries' \subseteq DOMAIN es
        /\ DOMAIN entries' # DOMAIN es => Cardinality(DOMAIN entries') = MaxEntries
        /\ \A j \in DOMAIN entries' : entries'[j] = Aged(es, at)[j]
        /\ \A k \in DOMAIN entries', v \in DOMAIN es \ DOMAIN entries' :
              ~EvictsBefore(entries'[k], Aged(es, at)[v])
    BY <1>0, <1>1, <1>2, PruneFacts
  <1>4. Aged(es, at)[i] = es[i]
    <2>1. at - es[i].updated_at <= TtlMs
      BY <1>1, <1>2, RetentionAssumption
    <2> QED
      BY <2>1, <1>1, <1>2, AgedFacts
  <1>5. ASSUME i \notin DOMAIN entries'
        PROVE  FALSE
    <2>1. PICK k \in DOMAIN entries' : TRUE
      BY <1>1, <1>3, <1>5, FS_EmptySet, RetentionAssumption
    <2>2. k \in DOMAIN entries /\ k # i /\ es[k] = entries[k]
      BY <2>1, <1>1, <1>3, <1>5
    <2>3. Aged(es, at)[k].revision = entries[k].revision
      BY <2>2, <1>1, <1>2, AgedFacts
    <2>4. entries[k].revision < next_revision
      BY <2>2 DEF IInv, TypeOK, EntriesMatchWrites
    <2>5. EvictsBefore(entries'[k], Aged(es, at)[i])
      <3>1. Active(es[i])
        BY <1>0, <1>1 DEF Active, Live, Terminal
      <3>2. entries'[k].revision < es[i].revision
        BY <2>1, <2>3, <2>4, <1>1, <1>3
      <3>3. CASE Active(entries'[k])
        BY <3>1, <3>2, <3>3, <1>4, Zenon DEF EvictsBefore
      <3>4. CASE ~Active(entries'[k])
        BY <3>1, <3>4, <1>4, Zenon DEF EvictsBefore
      <3> QED
        BY <3>3, <3>4
    <2> QED
      BY <2>1, <2>5, <1>1, <1>3, <1>5
  <1> QED
    BY <1>1, <1>3, <1>4, <1>5

(* set_operation's return value is what the table holds: no insert is undone *)
(* by its own prune, for any retention policy and any interleaving, until    *)
(* the revision counter saturates.                                           *)
THEOREM WritesAreVisible == Spec => WriteVisible
  <1>1. ASSUME IInv, [Next]_vars
        PROVE  [\A i \in Ids :
                  (handler[i].next \in Live /\ handler'[i].next = "none"
                   /\ next_revision < RevisionLimit)
                  => i \in DOMAIN entries' /\ entries'[i].state = handler[i].next]_vars
    <2> SUFFICES ASSUME Next, NEW i \in Ids,
                        handler[i].next \in Live, handler'[i].next = "none",
                        next_revision < RevisionLimit
                 PROVE  i \in DOMAIN entries' /\ entries'[i].state = handler[i].next
      BY <1>1
    <2>0. handler \in [Ids -> Handler]
      BY <1>1 DEF IInv, TypeOK
    <2>1. ASSUME NEW j \in Ids, NEW s \in Live, Sample(j, s)
          PROVE  FALSE
      BY <2>0, <2>1 DEF Sample, Handler, Live, Terminal
    <2>2. ASSUME NEW j \in Ids, Drop(j)
          PROVE  FALSE
      BY <2>0, <2>2 DEF Drop, Handler, Live, Terminal
    <2>3. ASSUME NEW j \in Ids, Insert(j)
          PROVE  j = i
      BY <2>0, <2>3 DEF Insert, Live, Terminal
    <2>4. ASSUME \/ \E r \in Readers, j \in Ids : SampleLookup(r, j)
                 \/ \E r \in Readers : Get(r)
                 \/ Tick
          PROVE  FALSE
      BY <2>4 DEF SampleLookup, Get, Tick, Live, Terminal
    <2> QED
      BY <1>1, <2>1, <2>2, <2>3, <2>4, InsertVisible DEF Next
  <1> QED
    BY <1>1, IInvHolds, PTL DEF WriteVisible, Spec

(* What one lookup answers.                                                  *)
LEMMA GetTruthful ==
    ASSUME IInv, NEW r \in Readers, Get(r)
    PROVE  TruthfulAnswer(r)
  <1> DEFINE at == lookup[r].at
  <1> DEFINE i == lookup[r].id
  <1>0. Prune(entries, at) /\ UNCHANGED <<clock, handler>>
    BY DEF Get
  <1>1. at \in Nat /\ clock \in Nat /\ at <= clock /\ i \in Ids
    BY DEF Get, IInv, TypeOK, Lookup, SamplesInPast
  <1>2. IsFiniteSet(DOMAIN entries) /\ \A j \in DOMAIN entries : entries[j] \in Entry
    BY DEF IInv, TypeOK
  <1>3. IInv' /\ DOMAIN entries' = DOMAIN entries
    BY GetIInv
  <1> HIDE DEF at, i
  <1>4. \A j \in DOMAIN entries' : entries'[j] = Aged(entries, at)[j]
    BY <1>0, <1>1, <1>2, PruneFacts
  <1>5. CASE i \notin DOMAIN entries'
    BY <1>0, <1>1, <1>3, <1>5
    DEF TruthfulAnswer, Answer, Live, Terminal, IInv, ForgetsOnlyWhenFull, i
  <1>6. CASE i \in DOMAIN entries'
    <2>1. Answer(i) = entries'[i].state /\ entries'[i] \in Entry
      BY <1>3, <1>6 DEF Answer, IInv, TypeOK
    <2>2. Answer(i) # "NotFound"
      BY <2>1 DEF Entry, State, Live, Terminal
    <2>3. entries'[i].updated_at = handler[i].stamp
      BY <1>0, <1>3, <1>6 DEF IInv, EntriesMatchWrites
    <2>4. CASE Active(entries'[i])
      <3>1. Answer(i) = handler[i].last
        BY <1>0, <1>3, <1>6, <2>1, <2>4 DEF IInv, EntriesMatchWrites
      <3>2. at - entries'[i].updated_at <= TtlMs
        BY <1>1, <1>2, <1>3, <1>4, <1>6, <2>4, RetentionAssumption
        DEF Aged, Active, Entry, SaturatingSub
      <3> QED
        BY <2>1, <2>2, <2>3, <2>4, <3>1, <3>2 DEF TruthfulAnswer, Active, at, i
    <2>5. CASE ~Active(entries'[i])
      <3>1. clock - entries'[i].updated_at > TtlMs
        BY <1>0, <1>3, <1>6, <2>5 DEF IInv, ExpiredOnlyAfterTtl
      <3> QED
        BY <2>1, <2>3, <2>5, <3>1 DEF TruthfulAnswer, Active, Live, Terminal, i
    <2> QED
      BY <2>4, <2>5
  <1> QED
    BY <1>5, <1>6

(* GetOperationStatus answers the truth: the last state written while it is  *)
(* within its TTL, Expired only after it, not found only when the table is   *)
(* full or the operation never began.                                        *)
THEOREM LookupsTruthful == Spec => LookupTruthful
  <1>1. ASSUME IInv, [Next]_vars
        PROVE  [\A r \in Readers :
                  (lookup[r] # NoLookup /\ lookup'[r] = NoLookup) => TruthfulAnswer(r)]_vars
    <2> SUFFICES ASSUME Next, NEW r \in Readers,
                        lookup[r] # NoLookup, lookup'[r] = NoLookup
                 PROVE  Get(r)
      BY <1>1, GetTruthful
    <2>0. lookup \in [Readers -> Lookup \cup {NoLookup}]
      BY <1>1 DEF IInv, TypeOK
    <2>1. ASSUME \/ \E i \in Ids : \E s \in Live : Sample(i, s)
                 \/ \E i \in Ids : Insert(i) \/ Drop(i)
                 \/ Tick
          PROVE  FALSE
      BY <2>1 DEF Sample, Insert, Drop, Tick
    <2>2. ASSUME NEW q \in Readers, NEW i \in Ids, SampleLookup(q, i)
          PROVE  FALSE
      BY <2>0, <2>2 DEF SampleLookup, NoLookup
    <2>3. ASSUME NEW q \in Readers, Get(q)
          PROVE  q = r
      BY <2>0, <2>3 DEF Get
    <2> QED
      BY <2>1, <2>2, <2>3 DEF Next
  <1> QED
    BY <1>1, IInvHolds, PTL DEF LookupTruthful, Spec

(* An insert that evicts a live entry leaves no Expired one behind.          *)
LEMMA InsertEvictsExpiredFirst ==
    ASSUME IInv, NEW i \in Ids, Insert(i),
           NEW v \in DOMAIN entries \ DOMAIN entries',
           Active(entries[v]), clock - entries[v].updated_at <= TtlMs,
           NEW k \in DOMAIN entries'
    PROVE  Active(entries'[k])
  <1> DEFINE es == Updated(i, handler[i].next, handler[i].at)
  <1> DEFINE at == handler[i].at
  <1>0. handler[i].next \in Live /\ Prune(es, at)
    BY DEF Insert
  <1>1. /\ DOMAIN es = DOMAIN entries \cup {i}
        /\ IsFiniteSet(DOMAIN es)
        /\ \A j \in DOMAIN es : es[j] \in Entry
        /\ \A j \in DOMAIN entries \ {i} : es[j] = entries[j]
        /\ es[i] = [state |-> handler[i].next, updated_at |-> at,
                    revision |-> next_revision]
    BY <1>0, UpdatedFacts
  <1>2. at \in Nat /\ clock \in Nat /\ at <= clock
    BY DEF IInv, TypeOK, Handler, SamplesInPast
  <1> HIDE DEF es, at
  <1>3. ~EvictsBefore(entries'[k], Aged(es, at)[v])
    BY <1>0, <1>1, <1>2, PruneFacts
  <1>4. Active(es[v]) /\ at - es[v].updated_at <= TtlMs /\ es[v] \in Entry
    <2>1. CASE v = i
      BY <2>1, <1>0, <1>1, <1>2, RetentionAssumption DEF Active, Live, Terminal
    <2>2. CASE v # i
      BY <2>2, <1>1, <1>2, RetentionAssumption DEF Entry
    <2> QED
      BY <2>1, <2>2
  <1>5. Aged(es, at)[v] = es[v]
    BY <1>1, <1>2, <1>4, AgedFacts
  <1> QED
    BY <1>3, <1>4, <1>5, Zenon DEF EvictsBefore

(* No live operation is evicted while an Expired one stays in the table, for *)
(* any retention policy and any interleaving.                                *)
THEOREM ExpiredGoFirst == Spec => ExpiredEvictedFirst
  <1>1. ASSUME IInv, [Next]_vars
        PROVE  [\A i \in DOMAIN entries \ DOMAIN entries' :
                  Active(entries[i]) /\ clock - entries[i].updated_at <= TtlMs
                  => \A j \in DOMAIN entries' : Active(entries'[j])]_vars
    <2> SUFFICES ASSUME Next, NEW v \in DOMAIN entries \ DOMAIN entries'
                 PROVE  \E i \in Ids : Insert(i)
      BY <1>1, InsertEvictsExpiredFirst
    <2>1. ASSUME \/ \E i \in Ids : \E s \in Live : Sample(i, s)
                 \/ \E i \in Ids : Drop(i)
                 \/ \E r \in Readers, i \in Ids : SampleLookup(r, i)
                 \/ Tick
          PROVE  FALSE
      BY <2>1 DEF Sample, Drop, SampleLookup, Tick
    <2>2. ASSUME NEW r \in Readers, Get(r)
          PROVE  FALSE
      BY <1>1, <2>2, GetIInv
    <2> QED
      BY <2>1, <2>2 DEF Next
  <1> QED
    BY <1>1, IInvHolds, PTL DEF ExpiredEvictedFirst, Spec
=============================================================================
