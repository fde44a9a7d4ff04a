------------------------------- MODULE Deploy -------------------------------
(***************************************************************************)
(* deploy_account (crates/gateway/src/accounts.rs) over the Starknet       *)
(* backend (crates/gateway/src/backend/starknet.rs) and its acceptance     *)
(* polling (crates/gateway/src/backend/wait.rs), for several requests that *)
(* deploy the SAME account, against a node that may answer late, lose the  *)
(* answer to a submission, drop a transaction, or take a pre-confirmed     *)
(* result back.                                                            *)
(*                                                                         *)
(* All that tells two deployments of one account apart is the resource     *)
(* bounds of the fee estimate: nonce, class, salt and tip are the same.    *)
(* Two requests may thus build the very same transaction, and a node that  *)
(* knows it already turns the second down as a duplicate.                  *)
(*                                                                         *)
(* Every RPC is two steps: the node serves it (the environment), and the   *)
(* handler resumes with the answer, which may be stale by then.            *)
(*                                                                         *)
(* Time.  Timers are counted from the start of the wait.  Code between two *)
(* awaits takes no time and timers fire when they are due: Tick waits for  *)
(* both.  RPCs take any time.                                              *)
(***************************************************************************)
EXTENDS Integers

CONSTANTS
    Tasks,              \* concurrent or successive deploy requests
    Hashes,             \* the transactions they can build, one for each estimate
    NoTx,               \* none built yet
    Modes,              \* the DeployModes requests ask for
    MaxWaitTimeout,     \* MAX_WAIT_TIMEOUT_MS
    MinPollInterval,    \* MIN_WAIT_POLL_INTERVAL_MS
    RpcTimeout,         \* RPC_REQUEST_TIMEOUT of the HTTP client
    ResolveTime,        \* assumed: how long a SecretResolver takes at most
    TakenBack,          \* pre-confirmed results the sequencer may revise
    HeldCap             \* bound: how far `held` counts

SubmitOnly == [kind |-> "SubmitOnly", poll |-> 0, timeout |-> 0]
WaitForAcceptance(p, d) == [kind |-> "WaitForAcceptance", poll |-> p, timeout |-> d]

ASSUME WaitAssumption ==
    /\ MaxWaitTimeout \in Nat
    /\ MinPollInterval \in Nat \ {0}
    /\ Modes \subseteq [kind : {"SubmitOnly", "WaitForAcceptance"}, poll : Nat, timeout : Nat]
    /\ \A m \in Modes : m.kind = "SubmitOnly" => m = SubmitOnly
    /\ RpcTimeout \in Nat \ {0} /\ ResolveTime \in Nat
    /\ NoTx \notin Hashes
    /\ TakenBack \subseteq {"succeeded", "reverted"}
    /\ HeldCap \in Nat

VARIABLES
    status,     \* per request: the OperationState last written
    task,       \* per request: where its handler is
    submission, \* per request: its addDeployAccountTransaction, as the node got it
    hash,       \* per request: the transaction it built
    tx,         \* the network: where each transaction is
    revised,    \* history: the transactions of which a revert was taken back
    held,       \* history: per request, the time since it began
    late        \* history: the requests that asked when the account existed

chain == <<submission, hash, tx, revised>>
vars == <<status, task, submission, hash, tx, revised, held, late>>

(* Where a handler is suspended: at the secret resolver, at one of its RPCs, *)
(* in the poll sleep, or (the first three) between two awaits.               *)
EarlyRpcs == {"check", "estimate", "send"}
Rpcs == EarlyRpcs \cup {"receipt", "status"}
Pcs == {"queued", "prepare", "poll", "resolve", "nap", "idle", "done", "dropped"} \cup Rpcs

Replies == {"none", "transport", "notfound", "deployed", "ok", "refused", "duplicate",
            "degraded", "received", "pre_succeeded", "pre_reverted", "succeeded", "reverted"}

(* `receipt`: why the last receipt request gave none. `waited` counts since  *)
(* the wait began, `timer` down to the end of the sleep or HTTP request.     *)
(* `failure` is the GatewayError returned: whether it is marked retryable.   *)
Task == [pc : Pcs, mode : Modes \cup {SubmitOnly}, reply : Replies,
         receipt : {"none", "missing", "failed"}, waited : 0..MaxWaitTimeout, timer : Nat,
         failure : {"none", "final", "retryable"}]

Idle == [pc |-> "idle", mode |-> SubmitOnly, reply |-> "none", receipt |-> "none",
         waited |-> 0, timer |-> 0, failure |-> "none"]

Submissions == {"unsent", "sent", "taken", "refused"}
TxStates == {"unknown", "received", "pre_succeeded", "pre_reverted", "succeeded", "reverted"}

Deployed == \E h \in Hashes : tx[h] = "succeeded"

(* deadline.saturating_duration_since(Instant::now()).                      *)
Remaining(t) ==
    IF task[t].waited < task[t].mode.timeout THEN task[t].mode.timeout - task[t].waited ELSE 0

Waiting(t) == task[t].pc \in {"poll", "receipt", "status", "nap"}

Init ==
    /\ status = [t \in Tasks |-> "none"]
    /\ task = [t \in Tasks |-> Idle]
    /\ submission = [t \in Tasks |-> "unsent"]
    /\ hash = [t \in Tasks |-> NoTx]
    /\ tx = [h \in Hashes |-> "unknown"]
    /\ revised = {}
    /\ held = [t \in Tasks |-> 0]
    /\ late = {}

-----------------------------------------------------------------------------
(* Suspend at `pc`, with no answer yet.                                      *)
Goto(t, pc) ==
    /\ task' = [task EXCEPT ![t] = [@ EXCEPT !.pc = pc, !.reply = "none",
                  !.timer = CASE pc \in EarlyRpcs -> RpcTimeout
                              [] pc = "resolve" -> ResolveTime
                              [] OTHER -> 0]]
    /\ UNCHANGED status

(* The call is over, with `failure` as the retryable mark of its error; its  *)
(* locals are gone.                                                          *)
Ended(pc, failure) == [Idle EXCEPT !.pc = pc, !.failure = failure]

(* set_operation with a final state, then return.                            *)
Return(t, s) ==
    /\ status' = [status EXCEPT ![t] = s]
    /\ task' = [task EXCEPT ![t] = Ended("done", "none")]

(* reject_operation, then return Err.                                        *)
Reject(t, failure) ==
    /\ status' = [status EXCEPT ![t] = "Rejected"]
    /\ task' = [task EXCEPT ![t] = Ended("done", failure)]

(* begin_operation.                                                          *)
Begin(t, m) ==
    /\ task[t].pc = "idle"
    /\ task' = [task EXCEPT ![t] = [@ EXCEPT !.pc = "queued", !.mode = m]]
    /\ status' = [status EXCEPT ![t] = "Queued"]
    /\ UNCHANGED <<chain, held, late>>

BugSkipsRunning(t) ==
    /\ task[t].pc = "queued"
    /\ task' = [task EXCEPT ![t] = [@ EXCEPT !.pc = "prepare"]]
    /\ UNCHANGED <<status, chain, held, late>>

Run(t) ==
    /\ task[t].pc = "queued"
    /\ task' = [task EXCEPT ![t] = [@ EXCEPT !.pc = "prepare"]]
    /\ status' = [status EXCEPT ![t] = "Running"]
    /\ UNCHANGED <<chain, held, late>>

BugNoTimeoutCeiling(m) ==
    m.kind = "WaitForAcceptance" =>
        MinPollInterval <= m.poll /\ m.poll <= MaxWaitTimeout /\ 0 < m.timeout

validate_wait_mode(m) ==
    m.kind = "WaitForAcceptance" =>
        /\ MinPollInterval <= m.poll /\ m.poll <= MaxWaitTimeout
        /\ 0 < m.timeout /\ m.timeout <= MaxWaitTimeout

(* validate_wait_mode and the checks of derive_account_descriptor before it  *)
(* asks for the key: they pass, or the request is refused.                   *)
Prepare(t) ==
    /\ task[t].pc = "prepare"
    /\ Reject(t, "final") \/ (validate_wait_mode(task[t].mode) /\ Goto(t, "resolve"))
    /\ UNCHANGED <<chain, held, late>>

(* GatewayError::retryable of a failed RPC: transport trouble and node-side  *)
(* "unexpected error" may be retried, a refusal may not, and DuplicateTx     *)
(* counts as one.                                                            *)
BugTransportFinal(reply) == "final"

Failure(reply) == IF reply \in {"transport", "degraded"} THEN "retryable" ELSE "final"

(* The resolver answered.  The rest of derive_account_descriptor, the        *)
(* OpenZeppelin check and the backend's own checks of the descriptor pass,   *)
(* or the request is refused without contacting the node.                    *)
OnResolve(t) ==
    /\ task[t].pc = "resolve" /\ task[t].reply # "none"
    /\ IF task[t].reply = "ok"
       THEN Reject(t, "final") \/ Goto(t, "check")
       ELSE Reject(t, Failure(task[t].reply))
    /\ late' = IF task'[t].pc = "check" /\ Deployed THEN late \cup {t} ELSE late
    /\ UNCHANGED <<chain, held>>

(* check_deployed answered.                                                  *)
BugCheckIgnored(t) ==
    /\ task[t].pc = "check" /\ task[t].reply # "none"
    /\ IF task[t].reply = "transport" THEN Reject(t, "retryable") ELSE Goto(t, "estimate")
    /\ UNCHANGED <<chain, held, late>>

OnCheck(t) ==
    /\ task[t].pc = "check" /\ task[t].reply # "none"
    /\ CASE task[t].reply = "deployed" -> Return(t, "Completed")
         [] task[t].reply = "notfound" -> Goto(t, "estimate")
         [] OTHER -> Reject(t, Failure(task[t].reply))
    /\ UNCHANGED <<chain, held, late>>

(* The fee estimate: made and held against the ceiling when there is one,    *)
(* by send() itself otherwise.  Its figures make the transaction.            *)
OnEstimate(t) ==
    /\ task[t].pc = "estimate" /\ task[t].reply # "none"
    /\ IF task[t].reply = "ok"
       THEN /\ Goto(t, "send")
            /\ submission' = [submission EXCEPT ![t] = "sent"]
            /\ \E h \in Hashes : hash' = [hash EXCEPT ![t] = h]
       ELSE Reject(t, Failure(task[t].reply)) /\ UNCHANGED <<submission, hash>>
    /\ UNCHANGED <<tx, revised, held, late>>

(* The submission answered: SubmitOnly ends here, otherwise the wait begins, *)
(* and with it the count towards the deadline.                               *)
OnSend(t) ==
    /\ task[t].pc = "send" /\ task[t].reply # "none"
    /\ CASE task[t].reply # "ok" -> Reject(t, Failure(task[t].reply))
         [] task[t].reply = "ok" /\ task[t].mode = SubmitOnly -> Return(t, "Submitted")
         [] OTHER -> Goto(t, "poll")
    /\ UNCHANGED <<chain, held, late>>

-----------------------------------------------------------------------------
(* GatewayError::retryable of the errors wait_for_acceptance returns.        *)
map_kms_error(error) == IF error \in {"Timeout", "RpcError"} THEN "retryable" ELSE "final"

(* wait_for_acceptance.  The head of the loop.                               *)
BugDeadlineRestarts(t) ==
    /\ task[t].pc = "poll"
    /\ IF Remaining(t) = 0
       THEN Reject(t, map_kms_error("Timeout"))
       ELSE /\ task' = [task EXCEPT ![t] = [@ EXCEPT !.pc = "receipt", !.reply = "none", !.waited = 0]]
            /\ UNCHANGED status
    /\ UNCHANGED <<chain, held, late>>

Poll(t) ==
    /\ task[t].pc = "poll"
    /\ IF Remaining(t) = 0 THEN Reject(t, map_kms_error("Timeout")) ELSE Goto(t, "receipt")
    /\ UNCHANGED <<chain, held, late>>

(* classify_execution and classify_transaction_status.                       *)
BugPreConfirmedAccepted(reply) ==
    CASE reply \in {"reverted", "pre_reverted"} -> "Reverted"
      [] reply \in {"succeeded", "pre_succeeded"} -> "Accepted"
      [] OTHER -> "Pending"

classify(reply) ==
    CASE reply \in {"reverted", "pre_reverted"} -> "Reverted"
      [] reply = "succeeded" -> "Accepted"
      [] OTHER -> "Pending"

(* interval.min(remaining).                                                  *)
BugSleepsFullInterval(t) == task[t].mode.poll

NapFor(t) == IF task[t].mode.poll < Remaining(t) THEN task[t].mode.poll ELSE Remaining(t)

OnObservation(t, observation) ==
    CASE observation = "Accepted" -> Return(t, "Accepted")
      [] observation = "Reverted" -> Reject(t, map_kms_error("TransactionReverted"))
      [] OTHER ->
            /\ task' = [task EXCEPT ![t] = [@ EXCEPT !.pc = "nap", !.reply = "none", !.timer = NapFor(t)]]
            /\ UNCHANGED status

(* observe_transaction: the receipt, and on any error the status.            *)
OnReceipt(t) ==
    /\ task[t].pc = "receipt" /\ task[t].reply # "none"
    /\ IF task[t].reply \in {"notfound", "transport"}
       THEN /\ task' = [task EXCEPT ![t] = [@ EXCEPT !.pc = "status", !.reply = "none",
                  !.receipt = IF task[t].reply = "notfound" THEN "missing" ELSE "failed"]]
            /\ UNCHANGED status
       ELSE OnObservation(t, classify(task[t].reply))
    /\ UNCHANGED <<chain, held, late>>

OnStatus(t) ==
    /\ task[t].pc = "status" /\ task[t].reply # "none"
    /\ IF task[t].reply = "transport" \/ (task[t].reply = "notfound" /\ task[t].receipt # "missing")
       THEN Reject(t, map_kms_error("RpcError"))
       ELSE OnObservation(t, classify(task[t].reply))
    /\ UNCHANGED <<chain, held, late>>

(* tokio::time::timeout in await_before_deadline: an answer that is there    *)
(* already wins over the timer.                                              *)
Expire(t) ==
    /\ task[t].pc \in {"receipt", "status"} /\ task[t].reply = "none"
    /\ Remaining(t) = 0
    /\ Reject(t, map_kms_error("Timeout"))
    /\ UNCHANGED <<chain, held, late>>

Wake(t) ==
    /\ task[t].pc = "nap" /\ task[t].timer = 0
    /\ Goto(t, "poll")
    /\ UNCHANGED <<chain, held, late>>

(* The caller drops the future at an await: nothing more is written.         *)
Drop(t) ==
    /\ task[t].pc \in Rpcs \cup {"resolve", "nap"}
    /\ task' = [task EXCEPT ![t] = Ended("dropped", "none")]
    /\ UNCHANGED <<status, chain, held, late>>

-----------------------------------------------------------------------------
(* The environment.  What the node answers, by method.                      *)
Found(t) == IF tx[hash[t]] = "unknown" THEN "notfound" ELSE tx[hash[t]]

Answers(t) ==
    CASE task[t].pc = "check" -> {IF Deployed THEN "deployed" ELSE "notfound"}
      [] task[t].pc = "estimate" -> {"ok", "refused", "degraded"}
      [] task[t].pc = "receipt" -> {IF Found(t) = "received" THEN "notfound" ELSE Found(t)}
      [] OTHER -> {Found(t)}

Answer(t, replies) == \E r \in replies : task' = [task EXCEPT ![t] = [@ EXCEPT !.reply = r]]

(* The secret resolver has the key, does not, or fails for the moment.       *)
ResolverReturns(t) ==
    /\ task[t].pc = "resolve" /\ task[t].reply = "none"
    /\ Answer(t, {"ok", "refused", "transport"})
    /\ UNCHANGED <<status, chain, held, late>>

Serve(t) ==
    /\ task[t].pc \in Rpcs \ {"send"} /\ task[t].reply = "none"
    /\ Answer(t, Answers(t) \cup {"transport"})
    /\ UNCHANGED <<status, chain, held, late>>

(* The HTTP client gives up on a request (RPC_REQUEST_TIMEOUT).              *)
RequestTimesOut(t) ==
    /\ task[t].pc \in EarlyRpcs /\ task[t].reply = "none" /\ task[t].timer = 0
    /\ Answer(t, {"transport"})
    /\ UNCHANGED <<status, chain, held, late>>

(* The node decides on a submission, possibly after its sender gave up.      *)
Decide(t, verdict, replies) ==
    /\ submission[t] = "sent"
    /\ submission' = [submission EXCEPT ![t] = verdict]
    /\ IF task[t].pc = "send" /\ task[t].reply = "none" THEN Answer(t, replies) ELSE UNCHANGED task
    /\ UNCHANGED <<status, hash, revised, held, late>>

(* It turns the submission down, as a duplicate if it knows the transaction, *)
(* or never gets it.                                                         *)
Refuse(t) ==
    /\ Decide(t, "refused", {"refused", "degraded", "transport"}
                              \cup IF tx[hash[t]] = "unknown" THEN {} ELSE {"duplicate"})
    /\ UNCHANGED tx

(* It takes the transaction, and its answer may get lost.  It takes none for *)
(* an account that exists, and none that it has.                             *)
Admit(t) ==
    /\ Decide(t, "taken", {"ok", "degraded", "transport"})
    /\ ~Deployed /\ tx[hash[t]] = "unknown"
    /\ tx' = [tx EXCEPT ![hash[t]] = "received"]

PreConfirmed == {"pre_succeeded", "pre_reverted"}
Confirmed(x) == IF x = "pre_succeeded" THEN "succeeded" ELSE "reverted"

(* The sequencer executes, discards, confirms or takes back a transaction;   *)
(* only one of those that deploy the same account can succeed.               *)
Sequence(h) ==
    /\ \/ /\ tx[h] = "received"
          /\ \/ /\ \A g \in Hashes : tx[g] \notin {"pre_succeeded", "succeeded"}
                /\ tx' = [tx EXCEPT ![h] = "pre_succeeded"]
             \/ \E x \in {"pre_reverted", "unknown"} : tx' = [tx EXCEPT ![h] = x]
          /\ UNCHANGED revised
       \/ /\ tx[h] \in PreConfirmed
          /\ tx' = [tx EXCEPT ![h] = Confirmed(tx[h])]
          /\ UNCHANGED revised
       \/ /\ tx[h] \in PreConfirmed /\ Confirmed(tx[h]) \in TakenBack
          /\ tx' = [tx EXCEPT ![h] = "received"]
          /\ revised' = IF tx[h] = "pre_reverted" THEN revised \cup {h} ELSE revised
    /\ UNCHANGED <<status, task, submission, hash, held, late>>

(* Code that is ready to run, or a timer that is due.                        *)
Due(t) ==
    \/ task[t].pc \in {"queued", "prepare", "poll"}
    \/ task[t].reply # "none"
    \/ task[t].pc \in EarlyRpcs \cup {"resolve", "nap"} /\ task[t].timer = 0
    \/ task[t].pc \in {"receipt", "status"} /\ Remaining(t) = 0

Tick ==
    /\ \A t \in Tasks : ~Due(t)
    /\ task' = [t \in Tasks |->
                    [task[t] EXCEPT !.waited = IF Waiting(t) THEN @ + 1 ELSE @,
                                    !.timer = IF @ > 0 THEN @ - 1 ELSE 0]]
    /\ held' = [t \in Tasks |->
                    IF task[t].pc \notin {"idle", "done", "dropped"} /\ held[t] < HeldCap
                    THEN held[t] + 1 ELSE held[t]]
    /\ UNCHANGED <<status, chain, late>>

Step(t) ==
    \/ Run(t) \/ Prepare(t) \/ OnResolve(t) \/ OnCheck(t) \/ OnEstimate(t) \/ OnSend(t)
    \/ RequestTimesOut(t) \/ Poll(t) \/ OnReceipt(t) \/ OnStatus(t) \/ Expire(t) \/ Wake(t)

Next ==
    \/ Tick
    \/ \E t \in Tasks :
          \/ \E m \in Modes : Begin(t, m)
          \/ Step(t) \/ Drop(t) \/ ResolverReturns(t) \/ Serve(t) \/ Refuse(t) \/ Admit(t)
    \/ \E h \in Hashes : Sequence(h)

Spec == Init /\ [][Next]_vars

(* The executor runs ready tasks, timers fire and time passes.  Nothing is   *)
(* assumed of the node: it may never answer.  The secret resolver has no     *)
(* timeout in the gateway: that it returns is an assumption.                 *)
FairSpec ==
    /\ Spec
    /\ WF_vars(Tick)
    /\ \A t \in Tasks : WF_vars(Step(t)) /\ WF_vars(ResolverReturns(t))

-----------------------------------------------------------------------------
(* Handlers stay within their types; in particular no wait that passed       *)
(* validate_wait_mode counts past MAX_WAIT_TIMEOUT_MS.                       *)
TypeOK ==
    /\ status \in [Tasks -> {"none", "Queued", "Running", "Submitted", "Accepted",
                             "Completed", "Rejected"}]
    /\ task \in [Tasks -> Task]
    /\ submission \in [Tasks -> Submissions]
    /\ hash \in [Tasks -> Hashes \cup {NoTx}]
    /\ tx \in [Hashes -> TxStates] /\ revised \subseteq Hashes
    /\ held \in [Tasks -> 0..HeldCap]
    /\ late \subseteq Tasks

(* deploy_account reports Accepted only for a transaction of its own that    *)
(* the network accepted and that succeeded, however stale the answer it saw  *)
(* (classify_execution keeps polling on a pre-confirmed success); and        *)
(* Completed, the already_deployed answer, only for a deployed account.      *)
DeployedClaimsAreTrue ==
    \A t \in Tasks :
        /\ status[t] = "Accepted" => hash[t] \in Hashes /\ tx[hash[t]] = "succeeded"
        /\ status[t] = "Completed" => Deployed

Reverts == {"pre_reverted", "reverted"}
CanLand(h) == h \in Hashes /\ tx[h] \in {"received", "pre_succeeded", "succeeded"}

(* What a failure that deploy_account marks as not retryable says, and no    *)
(* more.  The submission of that request was never taken by the node, or its *)
(* transaction was seen reverted; lost answers and timeouts, where it may    *)
(* have been taken, are always marked retryable.  Hence when the transaction *)
(* can still deploy the account, another request submitted the very same one *)
(* (a retry after a lost answer is told DuplicateTx, deploy.rs:55), or the   *)
(* sequencer took the revert back.                                           *)
FinalFailureNeverLandsItself ==
    \A t \in Tasks : task[t].failure = "final" =>
        /\ submission[t] # "sent"
        /\ submission[t] = "taken" => tx[hash[t]] \in Reverts \/ hash[t] \in revised
        /\ CanLand(hash[t]) =>
              \/ hash[t] \in revised
              \/ \E u \in Tasks \ {t} : hash[u] = hash[t] /\ submission[u] = "taken"

(* wait_for_acceptance is over when its deadline is: neither an RPC that     *)
(* never answers nor a poll interval longer than what remains holds it up.   *)
WaitEndsByDeadline ==
    \A t \in Tasks :
        Waiting(t) => task[t].waited + task[t].timer <= task[t].mode.timeout

(* A retry after a timeout or a lost answer finds the account deployed: a    *)
(* request that asks check_deployed when the account is there already never  *)
(* estimates or submits.                                                     *)
RetryNeverResubmits ==
    \A t \in late : task[t].pc \notin {"estimate", "send"} /\ submission[t] = "unsent"

(* Every deploy_account call ends, also when the node stops answering: the   *)
(* HTTP timeout ends the RPCs before the wait, the deadline those during it. *)
(* Only the secret resolver, which the gateway awaits without a timeout, is  *)
(* assumed to return.                                                        *)
EveryDeploySettles ==
    \A t \in Tasks : task[t].pc = "queued" ~> task[t].pc \in {"done", "dropped"}

(* deploy_account implements its promise.                                    *)
Promise == INSTANCE AbstractDeploy WITH deployed <- Deployed
KeepsPromise == Promise!Spec

-----------------------------------------------------------------------------
(* gateway.rs, on MAX_WAIT_TIMEOUT_MS: "Transports serve requests            *)
(* sequentially (see the stdio oracle), so this is also the worst case one   *)
(* request can monopolize the pipe."                                         *)
PipeHeldAtMostMaxWait == \A t \in Tasks : held[t] <= MaxWaitTimeout

(* gateway.rs, on MAX_WAIT_TIMEOUT_MS: "Callers that need to track slower    *)
(* deployments should use `SubmitOnly` and poll `GetOperationStatus`": then  *)
(* the status of a submitted deployment follows its transaction.             *)
SubmitOnlyIsTracked ==
    \A t \in Tasks :
        (status[t] = "Submitted" /\ tx[hash[t]] = "succeeded") ~> status[t] = "Accepted"
=============================================================================
