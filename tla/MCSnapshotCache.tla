--------------------------- MODULE MCSnapshotCache ---------------------------
(* A policy whose TTL is above the server-side ceiling and whose stale       *)
(* window is at it: entries outlive their window of 2 before the clock stops *)
(* at 4.  One key of every kind of block selector, one key more than the     *)
(* cache holds.  Requests for the key at Latest come at any time, those for  *)
(* the others only early, which is enough to fill the cache and to evict.    *)
EXTENDS SnapshotCache, TLC

CONSTANTS k1, k2, k3

MCPolicies == {[ttl_ms |-> 9, stale_ms |-> 1]}
MCSelector ==
    k1 :> [tag |-> "Latest"] @@ k2 :> [tag |-> "Pending"] @@ k3 :> [tag |-> "Pinned", at |-> 0]
MCAskedUntil == k1 :> MaxTime @@ k2 :> 1 @@ k3 :> 0
CacheSymmetry == Permutations(Requests)
=============================================================================
