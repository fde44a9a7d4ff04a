---------------------------- MODULE SnapshotCache ----------------------------
(***************************************************************************)
(* query_account_snapshot after its validations: the shared snapshot cache *)
(* of the gateway (crates/gateway/src/snapshot.rs, snapshot_cache.rs),     *)
(* concurrent refreshes of it over separate RPC reads, and the freshness   *)
(* metadata reported to callers.                                           *)
(*                                                                         *)
(* The chain is external: it appends blocks, and a read is answered from   *)
(* the block its selector names at that moment.  What a snapshot contains  *)
(* is abstracted to the heights its reads were answered at.                *)
(***************************************************************************)
EXTENDS Integers, Sequences, FiniteSets, SequencesExt

CONSTANTS
    Requests,       \* the requests that may be in flight at the same time
    Keys,           \* SnapshotCacheKey: chain, address, block selector, tokens
    Selector,       \* its BlockSelector: [tag |-> "Latest" or "Pending"], or
                    \* [tag |-> "Pinned", at |-> b] for a Number or a Hash
    Policies,       \* CachePolicy values, records [ttl_ms, stale_ms]
    CacheMax,       \* DEFAULT_SNAPSHOT_CACHE_MAX_ENTRIES
    MaxTtlMs,       \* MAX_SNAPSHOT_TTL_MS
    MaxStaleMs,     \* MAX_SNAPSHOT_STALE_MS
    Quantum,        \* SNAPSHOT_TIME_QUANTUM_MS
    MaxRequests,    \* bound: requests in all
    AskedUntil,     \* bound: until when requests name a key
    MaxTime,        \* bound: the clock stops here
    MaxHeight       \* bound: the chain stops growing here

ASSUME CacheAssumption ==
    /\ \A p \in Policies : p.ttl_ms \in Nat \ {0} /\ p.stale_ms \in Nat
    /\ CacheMax \in Nat \ {0} /\ Quantum \in Nat \ {0}
    /\ MaxTtlMs \in Nat /\ MaxStaleMs \in Nat
    /\ MaxRequests \in Nat /\ AskedUntil \in [Keys -> Nat]
    /\ MaxTime \in Nat /\ MaxHeight \in Nat
    /\ \A k \in Keys : \/ Selector[k].tag \in {"Latest", "Pending"}
                      \/ /\ Selector[k].tag = "Pinned"
                         /\ Selector[k].at \in 0..MaxHeight

VARIABLES
    now,        \* Clock::now_ms()
    born,       \* external chain: born[b] is when block b was produced
    entries,    \* SnapshotCache::entries
    order,      \* SnapshotCache::order
    task,       \* per request: where its handler is, and the locals it still needs
    made,       \* how many requests were made
    answer      \* what the last step returned to its caller, if it returned

vars == <<now, born, entries, order, task, made, answer>>

Height == Len(born)

Modes == {"ActiveView", "BackgroundView"}

None == [none |-> TRUE]

(* A snapshot: the height below which its state reads show every block, the  *)
(* highest block they show anything of, and the height in its block          *)
(* metadata.  The pre-confirmed block is one above the chain.                *)
NoBlock == -1

Snapshot == [low : 0..MaxHeight, high : 0..(MaxHeight + 1),
             block : (0..(MaxHeight + 1)) \cup {NoBlock}]
Entry == [generated_at_ms : Nat, snapshot : Snapshot]

Idle == [pc |-> "idle"]

(* The handler returns: Ok with a snapshot, or the error.                    *)
Returns(q, response) ==
    /\ task' = [task EXCEPT ![q] = Idle]
    /\ answer' = IF response = None THEN None
                 ELSE [key |-> task[q].key, policy |-> task[q].policy, response |-> response]

MinOf(a, b) == IF a < b THEN a ELSE b
SaturatingSub(a, b) == IF a > b THEN a - b ELSE 0

quantize_down(v) == v - (v % Quantum)
quantize_up(v) == IF v % Quantum = 0 THEN v ELSE v + (Quantum - (v % Quantum))

max_cache_age(p) == MinOf(p.ttl_ms, MaxTtlMs) + MinOf(p.stale_ms, MaxStaleMs)

BugNowRoundedDown(s, status, generated_at_ms, now_ms) ==
    [status |-> status, snapshot |-> s, at |-> now_ms,
     generated_at_ms |-> quantize_down(generated_at_ms),
     age_ms |-> SaturatingSub(quantize_down(now_ms), quantize_down(generated_at_ms))]

apply_cache_metadata(s, status, generated_at_ms, now_ms) ==
    [status |-> status, snapshot |-> s, at |-> now_ms,
     generated_at_ms |-> quantize_down(generated_at_ms),
     age_ms |-> SaturatingSub(quantize_up(now_ms), quantize_down(generated_at_ms))]

(* Hit within the clamped TTL, Stale for background views within the window. *)
cached_snapshot_response(t, mode, cached) ==
    LET age == SaturatingSub(t.now_ms, cached.generated_at_ms)
    IN  IF cached = None THEN None
        ELSE IF age <= MinOf(t.policy.ttl_ms, MaxTtlMs)
        THEN apply_cache_metadata(cached.snapshot, "Hit", cached.generated_at_ms, t.now_ms)
        ELSE IF age <= max_cache_age(t.policy) /\ mode = "BackgroundView"
        THEN apply_cache_metadata(cached.snapshot, "Stale", cached.generated_at_ms, t.now_ms)
        ELSE None

BugFallbackUnbounded(t) ==
    IF t.cached # None
    THEN apply_cache_metadata(t.cached.snapshot, "Stale", t.cached.generated_at_ms, t.now_ms)
    ELSE None

stale_snapshot_fallback(t) ==
    IF /\ t.cached # None
       /\ SaturatingSub(t.now_ms, t.cached.generated_at_ms) <= max_cache_age(t.policy)
    THEN apply_cache_metadata(t.cached.snapshot, "Stale", t.cached.generated_at_ms, t.now_ms)
    ELSE None

-----------------------------------------------------------------------------
Init ==
    /\ now = 0
    /\ born = <<>>
    /\ entries = [k \in {} |-> None]
    /\ order = <<>>
    /\ task = [q \in Requests |-> Idle]
    /\ made = 0
    /\ answer = None

(* query_account_snapshot: the clock is read before the cache lock.          *)
Start(q, k, policy) ==
    /\ task[q] = Idle
    /\ made < MaxRequests /\ now <= AskedUntil[k]
    /\ made' = made + 1
    /\ task' = [task EXCEPT ![q] =
                  [pc |-> "lookup", key |-> k, policy |-> policy, now_ms |-> now]]
    /\ answer' = None
    /\ UNCHANGED <<now, born, entries, order>>

Lookup(q, mode) ==
    LET t == task[q]
        cached == IF t.key \in DOMAIN entries THEN entries[t.key] ELSE None
        response == cached_snapshot_response(t, mode, cached)
    IN  /\ t.pc = "lookup"
        /\ IF response # None
           THEN Returns(q, response)
           ELSE /\ task' = [task EXCEPT ![q] =
                      [pc |-> "check", key |-> t.key, policy |-> t.policy, now_ms |-> t.now_ms,
                       cached |-> cached,
                       snap |-> [low |-> MaxHeight, high |-> 0, block |-> NoBlock]]]
                /\ answer' = None
        /\ UNCHANGED <<now, born, entries, order, made>>

(* to_block_id: the block a read at this key's selector is answered from.  A *)
(* pre-confirmed block is being filled: it shows all of the chain, and some  *)
(* of what the next block may hold.  A pinned block is there or it is not.   *)
Whole(k) == IF Selector[k].tag = "Pinned" THEN Selector[k].at ELSE Height

BlockRead(k) ==
    CASE Selector[k].tag = "Latest"  -> Height
      [] Selector[k].tag = "Pending" -> Height + 1
      [] Selector[k].tag = "Pinned"  -> Selector[k].at

Exists(k) == Whole(k) <= Height

(* fetch_snapshot: each read is an RPC of its own.                           *)
BugReadsParent(s, k) ==
    [s EXCEPT !.low = MinOf(@, Whole(k) - 1), !.high = IF @ < BlockRead(k) THEN BlockRead(k) ELSE @]

ReadAt(s, k) ==
    [s EXCEPT !.low = MinOf(@, Whole(k)), !.high = IF @ < BlockRead(k) THEN BlockRead(k) ELSE @]

Reads(q, pc) ==
    /\ task[q].pc = pc
    /\ Exists(task[q].key)
    /\ answer' = None
    /\ UNCHANGED <<now, born, entries, order, made>>

(* The nonce is read only if the class hash was found; the model leaves open *)
(* whether it was.                                                           *)
CheckDeployed(q) ==
    /\ Reads(q, "check")
    /\ \E found \in BOOLEAN :
          task' = [task EXCEPT ![q].snap = ReadAt(@, task[q].key),
                               ![q].pc = IF found THEN "nonce" ELSE "balances"]

Nonce(q) ==
    /\ Reads(q, "nonce")
    /\ task' = [task EXCEPT ![q].snap = ReadAt(@, task[q].key), ![q].pc = "balances"]

(* One more of the tracked tokens.                                           *)
TokenBalance(q) ==
    /\ Reads(q, "balances")
    /\ task' = [task EXCEPT ![q].snap = ReadAt(@, task[q].key)]

(* A failing block_metadata call is tolerated.                               *)
BugBlockCached(q, answered) ==
    /\ Reads(q, "balances")
    /\ task' = [task EXCEPT ![q].snap.block = IF answered THEN task[q].snap.low ELSE NoBlock,
                            ![q].cached = None,
                            ![q].pc = "store"]

BlockMetadata(q, answered) ==
    /\ Reads(q, "balances")
    /\ task' = [task EXCEPT ![q].snap.block = IF answered THEN BlockRead(task[q].key) ELSE NoBlock,
                            ![q].cached = None,
                            ![q].pc = "store"]

(* Any other failing RPC ends the refresh: bounded stale fallback or error.  *)
FetchFails(q) ==
    /\ task[q].pc \in {"check", "nonce", "balances"}
    /\ Returns(q, stale_snapshot_fallback(task[q]))
    /\ UNCHANGED <<now, born, entries, order, made>>

(* store_snapshot under the write lock, then the Miss response.  The loop    *)
(* pops keys off `order` until the entries fit; the number of pops is the    *)
(* first that is enough, and with none that is enough the loop never ends.   *)
BugPushedAgain(k) == Append(order, k)

Pushed(k) == IF k \in DOMAIN entries THEN order ELSE Append(order, k)

Remaining(k, pops) ==
    (DOMAIN entries \cup {k}) \ ToSet(SubSeq(Pushed(k), 1, pops))

BugMakesRoom(k, pops) ==
    IF Cardinality(Remaining(k, 0)) <= CacheMax THEN pops = 0
    ELSE /\ Cardinality(Remaining(k, pops)) < CacheMax
         /\ \A n \in 0..(pops - 1) : Cardinality(Remaining(k, n)) >= CacheMax

PopsEnough(k, pops) ==
    /\ Cardinality(Remaining(k, pops)) <= CacheMax
    /\ \A n \in 0..(pops - 1) : Cardinality(Remaining(k, n)) > CacheMax

StoreSnapshot(q) ==
    LET t == task[q]
        k == t.key
        entry == [generated_at_ms |-> t.now_ms, snapshot |-> t.snap]
    IN  /\ t.pc = "store"
        /\ \E pops \in 0..Len(Pushed(k)) :
              /\ PopsEnough(k, pops)
              /\ order' = SubSeq(Pushed(k), pops + 1, Len(Pushed(k)))
              /\ entries' = [j \in Remaining(k, pops) |->
                                IF j = k THEN entry ELSE entries[j]]
        /\ Returns(q, [status |-> "Miss", snapshot |-> t.snap, at |-> t.now_ms,
                       generated_at_ms |-> quantize_down(t.now_ms), age_ms |-> 0])
        /\ UNCHANGED <<now, born, made>>

(* The caller drops the future at an await.                                  *)
Dropped(q) ==
    /\ task[q] # Idle
    /\ Returns(q, None)
    /\ UNCHANGED <<now, born, entries, order, made>>

(* External: time passes, blocks are produced.                               *)
Tick ==
    /\ now < MaxTime
    /\ now' = now + 1
    /\ answer' = None
    /\ UNCHANGED <<born, entries, order, task, made>>

ProduceBlock ==
    /\ Height < MaxHeight
    /\ born' = Append(born, now)
    /\ answer' = None
    /\ UNCHANGED <<now, entries, order, task, made>>

Handle(q) ==
    \/ \E mode \in Modes : Lookup(q, mode)
    \/ CheckDeployed(q)
    \/ Nonce(q)
    \/ TokenBalance(q)
    \/ \E answered \in BOOLEAN : BlockMetadata(q, answered)
    \/ FetchFails(q)
    \/ StoreSnapshot(q)

Next ==
    \/ \E q \in Requests, k \in Keys, p \in Policies : Start(q, k, p)
    \/ \E q \in Requests : Handle(q) \/ Dropped(q)
    \/ Tick
    \/ ProduceBlock

Spec == Init /\ [][Next]_vars

-----------------------------------------------------------------------------
(* The cache maps known keys to well-formed entries, whatever refreshes do.  *)
TypeOK ==
    /\ now \in 0..MaxTime
    /\ born \in Seq(0..MaxTime) /\ Height <= MaxHeight
    /\ DOMAIN entries \subseteq Keys
    /\ \A k \in DOMAIN entries : entries[k] \in Entry
    /\ order \in Seq(Keys)
    /\ \A q \in Requests :
          task[q].pc \in {"idle", "lookup", "check", "nonce", "balances", "store"}

(* store_snapshot keeps its two collections in step: `order` lists exactly   *)
(* the cached keys, each once, and never more than the ceiling.  Hence the   *)
(* eviction loop of any store ends, and does not spin under the write lock.  *)
OrderMatchesEntries ==
    /\ ToSet(order) = DOMAIN entries
    /\ IsInjective(order)
    /\ Len(order) <= CacheMax
    /\ \A k \in Keys : \E pops \in 0..Len(Pushed(k)) : PopsEnough(k, pops)

(* The state s shows every block produced before time t.                     *)
Reflects(s, t) == \A b \in 1..Height : born[b] < t => s.low >= b

(* The last step answered a request that follows the chain, and did not pin  *)
(* a block.                                                                  *)
Followed == answer # None /\ Selector[answer.key].tag # "Pinned"

(* The metadata never over-states freshness: a caller who believes           *)
(* generated_at_ms, or subtracts age_ms from the time of the request, never  *)
(* concludes that a block is reflected when it is not, although timestamps   *)
(* are quantized, RPC reads are spread over time, and entries are written by *)
(* whichever refresh ends last.                                              *)
FreshnessNotOverstated ==
    Followed => LET r == answer.response IN
        /\ Reflects(r.snapshot, r.generated_at_ms)
        /\ Reflects(r.snapshot, r.at - r.age_ms)

(* How old an answer may be: a Hit is within the clamped TTL, a Stale answer *)
(* within the clamped stale window, a Miss has everything up to the request. *)
(* The bound is exact, not up to a quantum, and survives a slow refresh that *)
(* overwrites a newer entry, because the entry keeps the time at which its   *)
(* own refresh began.                                                        *)
StalenessBounded ==
    Followed => LET r == answer.response IN
        Reflects(r.snapshot, r.at -
            CASE r.status = "Hit" -> MinOf(answer.policy.ttl_ms, MaxTtlMs)
              [] r.status = "Stale" -> max_cache_age(answer.policy)
              [] r.status = "Miss" -> 0)

(* The reads of one snapshot may straddle blocks, but the block metadata is  *)
(* read last: state is never newer than the block the snapshot names.        *)
StateNotNewerThanBlock ==
    \A k \in DOMAIN entries : LET s == entries[k].snapshot IN
        s.block # NoBlock => s.high <= s.block

(* "a single request cannot flush unrelated shared-cache entries": a store   *)
(* displaces at most one other entry, and never the one it stores.           *)
StoreDisplacesAtMostOne ==
    [][\A q \in Requests :
        (task[q].pc = "store" /\ answer' # None /\ task'[q] = Idle) =>
            /\ task[q].key \in DOMAIN entries'
            /\ Cardinality(DOMAIN entries \ DOMAIN entries') <= 1]_vars
=============================================================================
