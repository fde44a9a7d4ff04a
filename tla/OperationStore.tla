--------------------------- MODULE OperationStore ---------------------------
(***************************************************************************)
(* The bounded, TTL-pruned table of tracked operations inside the gateway  *)
(* (crates/gateway/src/operations.rs), used concurrently by the request    *)
(* handlers (begin_operation / set_operation / reject_operation) and by    *)
(* status lookups (operation_status), crates/gateway/src/gateway.rs.       *)
(*                                                                         *)
(* The table itself is only touched under a write lock, so an insert and a *)
(* lookup are single steps.  What is NOT atomic is the pair "read the      *)
(* clock, then take the lock": every caller evaluates now_ms() before it   *)
(* awaits the lock, so timestamps reach the table out of order.  Sample    *)
(* and SampleLookup are the clock reads, Insert and Get the locked steps.  *)
(***************************************************************************)
EXTENDS Integers, FiniteSets

CONSTANTS
    Ids,            \* operation ids; ids are 128 random bits, so one per request
    Readers,        \* concurrent operation_status callers
    Outcomes,       \* bound: the final states that requests reach
    TtlMs,          \* OperationRetentionPolicy::ttl_ms
    MaxEntries,     \* OperationRetentionPolicy::max_entries
    MaxTime,        \* bound: the clock stops here
    RevisionLimit   \* u64::MAX, where next_revision saturates

Terminal == {"Submitted", "Accepted", "Completed", "Rejected"}

ASSUME RetentionAssumption ==
    /\ TtlMs \in Nat \ {0}
    /\ MaxEntries \in Nat \ {0}

ASSUME BoundsAssumption ==
    /\ Outcomes \subseteq Terminal
    /\ MaxTime \in Nat
    /\ RevisionLimit \in Nat \ {0}

VARIABLES
    clock,          \* what Clock::now_ms() would return now; never decreases
    entries,        \* OperationStore::entries, a function on the ids present
    next_revision,  \* OperationStore::next_revision
    handler,        \* per operation: the request handler that owns it
    lookup          \* per reader: the lookup in progress

vars == <<clock, entries, next_revision, handler, lookup>>

Live == {"Queued", "Running"} \cup Terminal

(* OperationState; "NotFound" is the lookup result for an absent id.        *)
State == Live \cup {"Expired"}

Entry == [state : State, updated_at : Nat, revision : Nat]

(* A handler has written `last` (history: with revision `revision`, stamped  *)
(* `stamp`); when `next` is a state it has read the clock (`at`) and waits  *)
(* for the lock to write it.                                                 *)
Handler == [last : Live \cup {"none"}, revision : Nat, stamp : Nat,
            next : Live \cup {"none", "dropped"}, at : Nat]

Lookup == [id : Ids, at : Nat]
NoLookup == [idle |-> TRUE]

(* u64::saturating_sub.                                                      *)
SaturatingSub(a, b) == IF a > b THEN a - b ELSE 0

(* next_revision.saturating_add(1).                                          *)
BugPlainSucc(n) == n + 1

SaturatingSucc(n) == IF n < RevisionLimit THEN n + 1 ELSE n

(* The handlers' order of writes: begin_operation queues, every handler then *)
(* sets Running, and ends with exactly one final state.                      *)
Writes(s) ==
    CASE s = "none" -> {"Queued"}
      [] s = "Queued" -> {"Running"}
      [] s = "Running" -> Outcomes
      [] OTHER -> {}

-----------------------------------------------------------------------------
(* prune: entries older than the TTL become Expired ...                      *)
BugNoSaturation(es, now) ==
    [i \in DOMAIN es |->
        IF now # es[i].updated_at /\ (now < es[i].updated_at \/ now - es[i].updated_at > TtlMs)
        THEN [es[i] EXCEPT !.state = "Expired"]
        ELSE es[i]]

BugNeverAges(es, now) == es

Aged(es, now) ==
    [i \in DOMAIN es |->
        IF SaturatingSub(now, es[i].updated_at) > TtlMs
        THEN [es[i] EXCEPT !.state = "Expired"]
        ELSE es[i]]

Active(e) == e.state # "Expired"

(* ... and above max_entries the first ones in the order                     *)
(* (active, revision) go: Expired before active, then lowest revision.       *)
BugOldestStampFirst(a, b) == a.updated_at < b.updated_at

BugIgnoresExpired(a, b) == a.revision < b.revision

EvictsBefore(a, b) ==
    \/ ~Active(a) /\ Active(b)
    \/ Active(a) = Active(b) /\ a.revision < b.revision

(* `kept` is what remains of `es`; sort_unstable leaves the order of equal   *)
(* keys open, hence a relation and not a function.                           *)
BugOneTooMany(es, kept) ==
    /\ kept \subseteq DOMAIN es
    /\ Cardinality(kept) = IF Cardinality(DOMAIN es) <= MaxEntries + 1
                           THEN Cardinality(DOMAIN es) ELSE MaxEntries

BugDropsExpired(es, kept) == kept = {i \in DOMAIN es : Active(es[i])}

Keeps(es, kept) ==
    /\ kept \subseteq DOMAIN es
    /\ Cardinality(kept) = IF Cardinality(DOMAIN es) <= MaxEntries
                           THEN Cardinality(DOMAIN es) ELSE MaxEntries
    /\ \A k \in kept, v \in DOMAIN es \ kept : ~EvictsBefore(es[k], es[v])

Prune(es, now) ==
    \E kept \in SUBSET DOMAIN es :
        /\ Keeps(Aged(es, now), kept)
        /\ entries' = [i \in kept |-> Aged(es, now)[i]]

Updated(i, s, now) ==
    [j \in DOMAIN entries \cup {i} |->
        IF j = i THEN [state |-> s, updated_at |-> now, revision |-> next_revision]
        ELSE entries[j]]

-----------------------------------------------------------------------------
Init ==
    /\ clock = 0
    /\ entries = [i \in {} |-> [state |-> "Queued", updated_at |-> 0, revision |-> 0]]
    /\ next_revision = 1
    /\ handler = [i \in Ids |-> [last |-> "none", revision |-> 0, stamp |-> 0,
                                 next |-> "none", at |-> 0]]
    /\ lookup = [r \in Readers |-> NoLookup]

(* begin_operation / set_operation: now_ms() is read before the lock.        *)
Sample(i, s) ==
    /\ handler[i].next = "none"
    /\ s \in Writes(handler[i].last)
    /\ handler' = [handler EXCEPT ![i].next = s, ![i].at = clock]
    /\ UNCHANGED <<clock, entries, next_revision, lookup>>

(* OperationStore::insert under the write lock, its prune included.          *)
Insert(i) ==
    /\ handler[i].next \in Live
    /\ Prune(Updated(i, handler[i].next, handler[i].at), handler[i].at)
    /\ next_revision' = SaturatingSucc(next_revision)
    /\ handler' = [handler EXCEPT ![i] =
          [last |-> handler[i].next, revision |-> next_revision,
           stamp |-> handler[i].at, next |-> "none", at |-> 0]]
    /\ UNCHANGED <<clock, lookup>>

(* The future of a request is dropped at an await: it writes nothing more.   *)
Drop(i) ==
    /\ handler[i].next # "dropped"
    /\ handler[i].last \in {"Queued", "Running"}
    /\ handler' = [handler EXCEPT ![i].next = "dropped", ![i].at = 0]
    /\ UNCHANGED <<clock, entries, next_revision, lookup>>

(* operation_status: now_ms() before the lock ...                            *)
SampleLookup(r, i) ==
    /\ lookup[r] = NoLookup
    /\ lookup' = [lookup EXCEPT ![r] = [id |-> i, at |-> clock]]
    /\ UNCHANGED <<clock, entries, next_revision, handler>>

(* ... then OperationStore::get, which prunes first, under the write lock.   *)
Answer(i) == IF i \in DOMAIN entries' THEN entries'[i].state ELSE "NotFound"

Get(r) ==
    /\ lookup[r] # NoLookup
    /\ Prune(entries, lookup[r].at)
    /\ lookup' = [lookup EXCEPT ![r] = NoLookup]
    /\ UNCHANGED <<clock, next_revision, handler>>

Tick ==
    /\ clock < MaxTime
    /\ clock' = clock + 1
    /\ UNCHANGED <<entries, next_revision, handler, lookup>>

Next ==
    \/ \E i \in Ids : \E s \in Live : Sample(i, s)
    \/ \E i \in Ids : Insert(i)
    \/ \E i \in Ids : Drop(i)
    \/ \E r \in Readers, i \in Ids : SampleLookup(r, i)
    \/ \E r \in Readers : Get(r)
    \/ Tick

Spec == Init /\ [][Next]_vars

-----------------------------------------------------------------------------
(* Every variable keeps its shape, whatever order the callers reach the lock *)
(* in: in particular an entry is never left without status or revision.      *)
TypeOK ==
    /\ clock \in Nat
    /\ DOMAIN entries \subseteq Ids
    /\ \A i \in DOMAIN entries : entries[i] \in Entry
    /\ next_revision \in 1..RevisionLimit
    /\ handler \in [Ids -> Handler]
    /\ lookup \in [Readers -> Lookup \cup {NoLookup}]

(* After every insert and lookup the table holds at most max_entries         *)
(* operations (prune's ceiling), however many requests are in flight.        *)
Bounded == Cardinality(DOMAIN entries) <= MaxEntries

(* An operation that was tracked is missing only from a full table: expiry   *)
(* marks entries and never deletes them, only the ceiling does.              *)
ForgetsOnlyWhenFull ==
    (\E i \in Ids : handler[i].last # "none" /\ i \notin DOMAIN entries)
        => Cardinality(DOMAIN entries) = MaxEntries

(* An operation still within its TTL is missing only if every active entry   *)
(* was written after it: prune evicts by write order, and so is not fooled   *)
(* by clock values that were sampled before the lock was taken.              *)
RecentOperationsRetained ==
    \A i \in Ids, j \in DOMAIN entries :
        /\ handler[i].last # "none"
        /\ i \notin DOMAIN entries
        /\ clock - handler[i].stamp <= TtlMs
        /\ Active(entries[j])
        => entries[j].revision >= handler[i].revision

(* An entry is marked Expired only when more than ttl_ms have really passed  *)
(* since its last write, although prune compares clock values that callers   *)
(* sampled at different times and may apply in the wrong order.              *)
ExpiredOnlyAfterTtl ==
    \A i \in DOMAIN entries :
        ~Active(entries[i]) => clock - entries[i].updated_at > TtlMs

(* The status that set_operation returns to its caller is the one a lookup   *)
(* would find: an insert is never undone by the prune it ends with, even     *)
(* when the table is full and its timestamp is the oldest.                   *)
WriteVisible ==
    [][\A i \in Ids :
        (handler[i].next \in Live /\ handler'[i].next = "none"
         /\ next_revision < RevisionLimit)
        => i \in DOMAIN entries' /\ entries'[i].state = handler[i].next]_vars

(* No live operation is evicted while an Expired one stays in the table.     *)
ExpiredEvictedFirst ==
    [][\A i \in DOMAIN entries \ DOMAIN entries' :
        Active(entries[i]) /\ clock - entries[i].updated_at <= TtlMs
        => \A j \in DOMAIN entries' : Active(entries'[j])]_vars

(* The answer of reader r's lookup, when it is the truth.                    *)
TruthfulAnswer(r) ==
    LET i == lookup[r].id IN
    /\ Answer(i) \in Live =>
          Answer(i) = handler[i].last /\ lookup[r].at - handler[i].stamp <= TtlMs
    /\ Answer(i) = "Expired" => clock - handler[i].stamp > TtlMs
    /\ Answer(i) = "NotFound" =>
          handler[i].last = "none" \/ Cardinality(DOMAIN entries') = MaxEntries

(* What GetOperationStatus answers about an operation: a live state only if  *)
(* it is the last one written and, by the reading of the lookup, within its  *)
(* TTL (so a request that was dropped is not Running for ever, and a late    *)
(* write never shows an earlier state); Expired only if the TTL has really   *)
(* passed; not found only if it never began or the table is full.            *)
LookupTruthful ==
    [][\A r \in Readers :
        (lookup[r] # NoLookup /\ lookup'[r] = NoLookup) => TruthfulAnswer(r)]_vars

(* docs/oracle-stdio-v1.md:55 says that expired operations remain queryable. *)
ExpiredRemainQueryable ==
    [][\A i \in DOMAIN entries : ~Active(entries[i]) => i \in DOMAIN entries']_vars
=============================================================================
