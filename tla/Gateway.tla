------------------------------ MODULE Gateway ------------------------------
(***************************************************************************)
(* The gateway's request handlers (crates/gateway/src/accounts.rs,         *)
(* signing.rs, snapshot.rs, gateway.rs) composed with the operation store  *)
(* they report to: which checks each makes, in which order, before it      *)
(* touches the secret resolver and the backend, and what it records at the *)
(* end.  Each write of a status is the store's two steps, Sample and       *)
(* Insert.  The inside of the deploy backend and of the snapshot cache are *)
(* modules Deploy and SnapshotCache; here they succeed or fail.            *)
(***************************************************************************)
EXTENDS OperationStore

CONSTANT Requests   \* bound: per operation, the requests callers make

Derivations == {"derive", "check", "deploy"}
StarkKinds == {"stark_hash", "stark_raw"}
NostrKinds == {"nostr_event", "nostr_raw"}
Kinds == Derivations \cup StarkKinds \cup NostrKinds \cup {"snapshot"}

(* What can be wrong with a request: its derivation path or payload, its key *)
(* domain, its account class, a class deploy does not support, its wait or   *)
(* cache policy, its number of tokens.                                       *)
Flaws(kind) ==
    CASE kind \in {"derive", "check"} -> {"none", "path", "domain", "class"}
      [] kind = "deploy" -> {"none", "policy", "path", "domain", "class", "kind"}
      [] kind = "snapshot" -> {"none", "policy", "tokens"}
      [] OTHER -> {"none", "path"}

(* Only these requests name a chain (SignRequest::chain_id is None for the   *)
(* others).                                                                  *)
NamesChain(r) == r.kind \in Derivations \cup {"stark_hash", "snapshot"}

(* `chain` is "own" when the request names the backend's chain.              *)
Request ==
    {r \in UNION {[kind : {k}, chain : {"own", "other", "none"}, flaw : Flaws(k)] : k \in Kinds} :
        NamesChain(r) <=> r.chain # "none"}
NoRequest == [kind |-> "none", chain |-> "none", flaw |-> "none"]

ASSUME RequestsAssumption == Requests \in [Ids -> SUBSET Request]

VARIABLES
    req,        \* per operation: the request
    pc,         \* per operation: idle, queued, validate, secret, backend, settle, done
    outcome,    \* per operation: the provenance that goes with the pending write
    provenance, \* per operation: the provenance recorded, the chain it names
    answer      \* per operation: the state the caller was told

control == <<req, pc, outcome, provenance, answer>>
allVars == <<vars, control>>

GatewayInit ==
    /\ Init
    /\ req = [i \in Ids |-> NoRequest]
    /\ pc = [i \in Ids |-> "idle"]
    /\ outcome = [i \in Ids |-> "none"]
    /\ provenance = [i \in Ids |-> "none"]
    /\ answer = [i \in Ids |-> "none"]

-----------------------------------------------------------------------------
ensure_chain_matches(r) == NamesChain(r) => r.chain = "own"

(* The checks before the first await on the resolver or the backend:         *)
(* derive_account_descriptor up to the secret, validate_wait_mode,           *)
(* SignRequest::validate, validate_cache_policy and the token limit.         *)
BugSignSkipsChain(r) ==
    /\ r.kind # "stark_hash" => ensure_chain_matches(r)
    /\ r.flaw \notin {"path", "domain", "policy", "tokens"}

PassesChecks(r) ==
    /\ ensure_chain_matches(r)
    /\ r.flaw \notin {"path", "domain", "policy", "tokens"}

(* The class is one the gateway knows, for the request's chain.              *)
resolve_account_class(r) == r.flaw # "class"

(* The handler runs: its last write is in the store, and it was not dropped. *)
Runs(i) == handler[i].next = "none"

(* What the record says of a request whose account or chain is established.  *)
Provenance(r) == IF r.kind \in Derivations \cup {"stark_hash"} THEN r.chain ELSE "none"

(* begin_operation / set_operation / reject_operation up to the lock: read   *)
(* the clock.  Which state is written is the handler's doing.                *)
Record(i, s) ==
    /\ Runs(i)
    /\ handler' = [handler EXCEPT ![i].next = s, ![i].at = clock]
    /\ UNCHANGED <<clock, entries, next_revision, lookup>>

Report(i, s, p) ==
    /\ Record(i, s)
    /\ outcome' = [outcome EXCEPT ![i] = p]
    /\ pc' = [pc EXCEPT ![i] = "settle"]
    /\ UNCHANGED <<req, provenance, answer>>

Proceed(i, to) ==
    /\ pc' = [pc EXCEPT ![i] = to]
    /\ UNCHANGED <<vars, req, outcome, provenance, answer>>

(* begin_operation.                                                          *)
Begin(i, r) ==
    /\ pc[i] = "idle"
    /\ Record(i, "Queued")
    /\ req' = [req EXCEPT ![i] = r]
    /\ pc' = [pc EXCEPT ![i] = "queued"]
    /\ UNCHANGED <<outcome, provenance, answer>>

StartRunning(i) ==
    /\ pc[i] = "queued"
    /\ Record(i, "Running")
    /\ pc' = [pc EXCEPT ![i] = "validate"]
    /\ UNCHANGED <<req, outcome, provenance, answer>>

Validate(i) ==
    /\ pc[i] = "validate" /\ Runs(i)
    /\ CASE ~PassesChecks(req[i]) -> Report(i, "Rejected", "none")
         [] PassesChecks(req[i]) /\ req[i].kind = "snapshot" -> Proceed(i, "backend")
         [] OTHER -> Proceed(i, "secret")

(* resolve_private_key / resolve_nostr_private_key refuses.                  *)
SecretUnavailable(i) ==
    /\ pc[i] = "secret" /\ Runs(i)
    /\ Report(i, "Rejected", "none")

(* The secret is there: signing ends the request, a derivation goes on with  *)
(* the account class and, for check and deploy, the backend.                 *)
SecretResolved(i) ==
    /\ pc[i] = "secret" /\ Runs(i)
    /\ CASE req[i].kind \in StarkKinds \cup NostrKinds ->
                \E s \in {"Completed", "Rejected"} : Report(i, s, Provenance(req[i]))
         [] req[i].kind \in Derivations /\ ~resolve_account_class(req[i]) ->
                Report(i, "Rejected", "none")
         [] req[i].kind = "derive" /\ resolve_account_class(req[i]) ->
                Report(i, "Completed", Provenance(req[i]))
         [] req[i].kind = "deploy" /\ req[i].flaw = "kind" ->
                Report(i, "Rejected", Provenance(req[i]))
         [] OTHER -> Proceed(i, "backend")

(* The backend's answer, or the cache's, ends the request.                   *)
Outcome(r) ==
    IF r.kind = "deploy" THEN {"Completed", "Submitted", "Accepted", "Rejected"}
    ELSE {"Completed", "Rejected"}

BugForgetsReject(i) ==
    /\ pc[i] = "backend" /\ Runs(i)
    /\ \/ \E s \in Outcome(req[i]) \ {"Rejected"} : Report(i, s, Provenance(req[i]))
       \/ Proceed(i, "done")

Backend(i) ==
    /\ pc[i] = "backend" /\ Runs(i)
    /\ \E s \in Outcome(req[i]) : Report(i, s, Provenance(req[i]))

(* The write reaches the store; after the last one the caller is answered.   *)
BugAnswersEarly(i) == handler[i].next

Told(i) == IF pc[i] = "settle" THEN handler[i].next ELSE answer[i]

BugFallsThrough(i) == IF pc[i] = "settle" THEN "backend" ELSE pc[i]

After(i) == IF pc[i] = "settle" THEN "done" ELSE pc[i]

Write(i) ==
    /\ Insert(i)
    /\ answer' = [answer EXCEPT ![i] = Told(i)]
    /\ provenance' = [provenance EXCEPT ![i] = outcome[i]]
    /\ pc' = [pc EXCEPT ![i] = After(i)]
    /\ UNCHANGED <<req, outcome>>

DropRequest(i) == Drop(i) /\ UNCHANGED control

GatewayTick == Tick /\ UNCHANGED control

Handle(i) ==
    \/ StartRunning(i) \/ Validate(i) \/ SecretUnavailable(i) \/ SecretResolved(i)
    \/ Backend(i) \/ Write(i)

GatewayNext ==
    \/ GatewayTick
    \/ \E i \in Ids : (\E r \in Requests[i] : Begin(i, r)) \/ Handle(i) \/ DropRequest(i)

GatewaySpec == GatewayInit /\ [][GatewayNext]_allVars

-----------------------------------------------------------------------------
(* Handlers stay within their types: a caller is only ever told a final      *)
(* state.                                                                    *)
GatewayTypeOK ==
    /\ req \in [Ids -> Request \cup {NoRequest}]
    /\ pc \in [Ids -> {"idle", "queued", "validate", "secret", "backend", "settle", "done"}]
    /\ outcome \in [Ids -> {"none", "own", "other"}]
    /\ provenance \in [Ids -> {"none", "own", "other"}]
    /\ answer \in [Ids -> Terminal \cup {"none"}]

(* signing.rs: the recorded provenance "must be a verified fact, not a       *)
(* caller claim": whichever handler recorded it, and also when the request   *)
(* failed late, it names the chain the backend is configured for.            *)
ProvenanceVerified == \A i \in Ids : provenance[i] # "other"

(* GatewayResponse: the "final tracked operation state".  A handler that     *)
(* returned has told its caller a final state, on every error path as well,  *)
(* and what it told is what the store holds from then on, until the entry    *)
(* expires or is evicted: no write of the handler is still on its way.       *)
AnswerIsTheRecord ==
    \A i \in Ids :
        /\ pc[i] = "done" => answer[i] # "none"
        /\ answer[i] # "none" =>
              /\ handler[i].last = answer[i] /\ handler[i].next = "none"
              /\ i \in DOMAIN entries => entries[i].state \in {answer[i], "Expired"}

(* The handlers drive the store as it expects: each operation is queued, set *)
(* running, and settled once (OperationStore's own specification).           *)
HandlersFollowStore == Spec
=============================================================================
