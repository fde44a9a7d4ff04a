------------------------------- MODULE TxWait -------------------------------
(***************************************************************************)
(* Tx::wait and Tx::receipt (crates/wallet-api/src/lib.rs): polling a      *)
(* submitted transaction until it has an accepted receipt.                 *)
(*                                                                         *)
(* Unlike the gateway's wait (module Deploy), the RPCs here are not wrapped*)
(* in the deadline: only the HTTP client's own timeout ends them.  Time is *)
(* counted from the start of the call; code takes none and timers fire     *)
(* when due.                                                                *)
(***************************************************************************)
EXTENDS Integers

CONSTANTS
    Options,        \* the <<interval_secs, timeout_secs>> callers pass
    MinInterval,    \* MIN_WAIT_INTERVAL_SECS
    MinTimeout,     \* MIN_WAIT_TIMEOUT_SECS
    MaxTimeout,     \* MAX_WAIT_TIMEOUT_SECS
    RpcTimeout,     \* RPC_REQUEST_TIMEOUT of the HTTP client
    TakenBack       \* pre-confirmed results the sequencer may revise

ASSUME TxWaitAssumption ==
    /\ Options \subseteq Nat \X Nat
    /\ MinInterval \in Nat \ {0} /\ MinTimeout \in Nat \ {0}
    /\ MaxTimeout \in Nat /\ MinTimeout <= MaxTimeout /\ MinInterval <= MaxTimeout
    /\ RpcTimeout \in Nat \ {0}
    /\ TakenBack \subseteq {"succeeded", "reverted"}

VARIABLES
    pc,         \* idle, poll, receipt, status (the RPCs), nap, done
    call,       \* wait or receipt
    interval,   \* effective_wait_bounds: the interval ...
    timeout,    \* ... and the timeout in use
    waited,     \* time since the call
    timer,      \* down to the end of the sleep or of the HTTP request
    reply,      \* the answer to the RPC, "none" while there is none
    missing,    \* the receipt was not found
    result,     \* what the call returned
    tx,         \* the transaction, as the network has it
    polls       \* history: the observations made

vars == <<pc, call, interval, timeout, waited, timer, reply, missing, result, tx, polls>>

Least(a, b) == IF a < b THEN a ELSE b
Greatest(a, b) == IF a < b THEN b ELSE a

(* effective_wait_bounds.                                                    *)
BugNoTimeoutFloor(o) == Least(o[2], MaxTimeout)

EffectiveTimeout(o) == Least(Greatest(o[2], MinTimeout), MaxTimeout)

BugNoIntervalFloor(o) == Least(o[1], EffectiveTimeout(o))

EffectiveInterval(o) ==
    Least(Greatest(o[1], MinInterval), Greatest(EffectiveTimeout(o), MinInterval))

Remaining == IF waited < timeout THEN timeout - waited ELSE 0

Init ==
    /\ pc = "idle" /\ call = "wait" /\ interval = 0 /\ timeout = 0
    /\ waited = 0 /\ timer = 0 /\ reply = "none" /\ missing = FALSE
    /\ result = "none" /\ tx = "received" /\ polls = 0

-----------------------------------------------------------------------------
Wait(o) ==
    /\ pc = "idle"
    /\ pc' = "poll" /\ interval' = EffectiveInterval(o) /\ timeout' = EffectiveTimeout(o)
    /\ UNCHANGED <<call, waited, timer, reply, missing, result, tx, polls>>

Request(rpc) ==
    /\ pc' = rpc /\ timer' = RpcTimeout /\ reply' = "none"
    /\ UNCHANGED <<waited, result, tx>>

(* Tx::receipt: one observation.                                             *)
Receipt ==
    /\ pc = "idle"
    /\ call' = "receipt" /\ polls' = polls + 1
    /\ Request("receipt")
    /\ UNCHANGED <<interval, timeout, missing>>

Return(r) ==
    /\ pc' = "done" /\ result' = r /\ reply' = "none"
    /\ UNCHANGED <<timer, waited, tx, polls>>

(* The head of wait()'s loop.                                                *)
Poll ==
    /\ pc = "poll"
    /\ IF Remaining = 0
       THEN Return("Timeout") /\ UNCHANGED missing
       ELSE Request("receipt") /\ polls' = polls + 1 /\ UNCHANGED missing
    /\ UNCHANGED <<call, interval, timeout>>

(* classify_execution, for a receipt and for a bare status.                  *)
BugPreConfirmedAccepted(r, has_receipt) ==
    CASE r \in {"reverted", "pre_reverted"} -> "Reverted"
      [] r \in {"succeeded", "pre_succeeded"} /\ has_receipt -> "Accepted"
      [] OTHER -> "Pending"

classify(r, has_receipt) ==
    CASE r \in {"reverted", "pre_reverted"} -> "Reverted"
      [] r = "succeeded" /\ has_receipt -> "Accepted"
      [] r = "succeeded" /\ ~has_receipt -> "AcceptedWithoutReceipt"
      [] OTHER -> "Pending"

(* interval.min(remaining).                                                  *)
BugSleepsFullInterval == interval

NapFor == Least(interval, Remaining)

(* What wait() and receipt() make of an observation.                         *)
Observed(o) ==
    IF call = "wait" /\ o \in {"Pending", "AcceptedWithoutReceipt"}
    THEN /\ pc' = "nap" /\ timer' = NapFor /\ reply' = "none"
         /\ UNCHANGED <<waited, result, tx, polls>>
    ELSE Return(CASE o = "Accepted" -> "Ok"
                  [] o = "Reverted" -> "Reverted"
                  [] o = "Pending" -> "NotYetAccepted"
                  [] o = "AcceptedWithoutReceipt" -> "RpcError")

(* observe_transaction: the receipt, and on any error the status.            *)
OnReceipt ==
    /\ pc = "receipt" /\ reply # "none"
    /\ IF reply \in {"notfound", "transport"}
       THEN Request("status") /\ missing' = (reply = "notfound") /\ UNCHANGED polls
       ELSE Observed(classify(reply, TRUE)) /\ UNCHANGED missing
    /\ UNCHANGED <<call, interval, timeout>>

OnStatus ==
    /\ pc = "status" /\ reply # "none"
    /\ IF reply = "transport" \/ (reply = "notfound" /\ ~missing)
       THEN Return("RpcError")
       ELSE Observed(classify(reply, FALSE))
    /\ UNCHANGED <<call, interval, timeout, missing>>

BugSleepsForever ==
    /\ pc = "nap" /\ timer = 0 /\ Remaining > 0
    /\ pc' = "poll"
    /\ UNCHANGED <<call, interval, timeout, waited, timer, reply, missing, result, tx, polls>>

Wake ==
    /\ pc = "nap" /\ timer = 0
    /\ pc' = "poll"
    /\ UNCHANGED <<call, interval, timeout, waited, timer, reply, missing, result, tx, polls>>

-----------------------------------------------------------------------------
(* The node: it answers with what it knows, fails, or does not answer until  *)
(* the HTTP client gives up.                                                 *)
Known ==
    CASE pc = "receipt" /\ tx \in {"received", "gone"} -> "notfound"
      [] pc = "status" /\ tx = "gone" -> "notfound"
      [] OTHER -> tx

Serve ==
    /\ pc \in {"receipt", "status"} /\ reply = "none"
    /\ reply' \in {Known, "transport"}
    /\ UNCHANGED <<pc, call, interval, timeout, waited, timer, missing, result, tx, polls>>

RequestTimesOut ==
    /\ pc \in {"receipt", "status"} /\ reply = "none" /\ timer = 0
    /\ reply' = "transport"
    /\ UNCHANGED <<pc, call, interval, timeout, waited, timer, missing, result, tx, polls>>

PreConfirmed == {"pre_succeeded", "pre_reverted"}
Confirmed(x) == IF x = "pre_succeeded" THEN "succeeded" ELSE "reverted"

(* The sequencer executes, discards, confirms, or takes back.                *)
Sequence ==
    /\ \/ tx = "received" /\ tx' \in {"pre_succeeded", "pre_reverted", "gone"}
       \/ tx \in PreConfirmed /\ tx' = Confirmed(tx)
       \/ tx \in PreConfirmed /\ Confirmed(tx) \in TakenBack /\ tx' = "received"
    /\ UNCHANGED <<pc, call, interval, timeout, waited, timer, reply, missing, result, polls>>

Due ==
    \/ pc = "poll" \/ reply # "none"
    \/ pc \in {"nap", "receipt", "status"} /\ timer = 0

Tick ==
    /\ pc \notin {"idle", "done"} /\ ~Due
    /\ waited' = waited + 1 /\ timer' = IF timer > 0 THEN timer - 1 ELSE 0
    /\ UNCHANGED <<pc, call, interval, timeout, reply, missing, result, tx, polls>>

Step == Poll \/ OnReceipt \/ OnStatus \/ Wake \/ RequestTimesOut

Next == (\E o \in Options : Wait(o)) \/ Receipt \/ Step \/ Serve \/ Sequence \/ Tick

Spec == Init /\ [][Next]_vars

(* The executor runs the call, timers fire and time passes; nothing is       *)
(* assumed of the node.                                                      *)
FairSpec == Spec /\ WF_vars(Step) /\ WF_vars(Tick)

-----------------------------------------------------------------------------
(* Every variable keeps its type, and effective_wait_bounds holds a running  *)
(* wait() at or above its floors.                                            *)
TypeOK ==
    /\ pc \in {"idle", "poll", "receipt", "status", "nap", "done"}
    /\ call \in {"wait", "receipt"}
    /\ interval \in 0..MaxTimeout /\ timeout \in 0..MaxTimeout
    /\ pc \notin {"idle", "done"} /\ call = "wait" => interval >= MinInterval /\ timeout >= MinTimeout
    /\ waited \in Nat /\ timer \in Nat /\ polls \in Nat
    /\ reply \in {"none", "transport", "notfound", "received", "pre_succeeded",
                  "pre_reverted", "succeeded", "reverted"}
    /\ missing \in BOOLEAN
    /\ result \in {"none", "Ok", "Reverted", "Timeout", "NotYetAccepted", "RpcError"}
    /\ tx \in {"received", "gone", "pre_succeeded", "pre_reverted", "succeeded", "reverted"}

(* wait() and receipt() return a receipt only of a transaction the network   *)
(* accepted and that succeeded, and report a revert only of one that         *)
(* reverted, although they act on answers that may be stale.                 *)
ResultMatchesChain ==
    /\ result = "Ok" => tx = "succeeded"
    /\ result = "Reverted" => tx \in {"pre_reverted", "reverted"}

(* wait() outlives its timeout by two requests at the most: the sleep is cut *)
(* at the deadline, and an observation that began before it makes at most    *)
(* two RPCs.                                                                 *)
OverrunIsTwoRequests ==
    call = "wait" /\ pc # "idle" => waited <= timeout + 2 * RpcTimeout

(* wait() observes at most once per second, whatever interval it is given:   *)
(* effective_wait_bounds raises it to the floor.                             *)
NoRpcFlood == call = "wait" => polls * MinInterval <= waited + MinInterval

(* Every wait() and receipt() returns, also when the node never answers.     *)
CallReturns == pc # "idle" ~> pc = "done"

(* WaitOptions::timeout_secs: "Maximum wait time in seconds."                *)
WaitsAtMostTimeout == call = "wait" /\ pc # "idle" => waited <= timeout
=============================================================================
