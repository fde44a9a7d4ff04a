---------------------------- MODULE TxWaitProofs ----------------------------
(***************************************************************************)
(* Proofs about Tx::wait and Tx::receipt for every choice of options and   *)
(* bounds.  The inductive invariant says, for each place the call can be   *)
(* suspended at, how much time is left there, how far the count of         *)
(* observations may be ahead of the time, and what an answer that is still *)
(* on its way says about the transaction.                                  *)
(***************************************************************************)
EXTENDS TxWait, TLAPS

(* What an answer says of the transaction stays true until it is used.       *)
AnswerStillTrue ==
    /\ reply = "succeeded" => tx = "succeeded"
    /\ ("reverted" \notin TakenBack /\ reply \in {"pre_reverted", "reverted"})
          => tx \in {"pre_reverted", "reverted"}

(* The same of the result that the call returned.                            *)
ResultStillTrue ==
    /\ result = "Ok" => tx = "succeeded"
    /\ ("reverted" \notin TakenBack /\ result = "Reverted")
          => tx \in {"pre_reverted", "reverted"}

(* The time a wait() has used and may still use where it is.                 *)
TimeBudget ==
    CASE pc = "receipt" -> waited + timer < timeout + RpcTimeout
      [] pc = "status" -> waited + timer < timeout + 2 * RpcTimeout
      [] pc = "nap" -> timer = 0 \/ waited + timer <= timeout
      [] OTHER -> TRUE

(* Observations are a MinInterval apart, but for the last nap, which the     *)
(* deadline cuts short and after which there is none.                        *)
Spacing ==
    /\ pc = "poll" => polls * MinInterval <= waited \/ timeout <= waited
    /\ pc = "nap" => polls * MinInterval <= waited + timer \/ timeout <= waited + timer
    /\ polls * MinInterval <= waited + MinInterval

IInv ==
    /\ TypeOK
    /\ AnswerStillTrue
    /\ ResultStillTrue
    /\ pc = "idle" => waited = 0 /\ timer = 0 /\ polls = 0 /\ call = "wait"
    /\ (call = "wait" /\ pc # "idle") =>
          /\ waited <= timeout + 2 * RpcTimeout
          /\ TimeBudget
          /\ Spacing

-----------------------------------------------------------------------------
(* effective_wait_bounds: whatever the options, the timeout is within its    *)
(* bounds and the interval between the floor and the ceiling.                *)
LEMMA BoundsEffective ==
    ASSUME NEW o \in Options
    PROVE  /\ EffectiveTimeout(o) \in MinTimeout..MaxTimeout
           /\ EffectiveInterval(o) \in MinInterval..MaxTimeout
  <1>1. o[1] \in Nat /\ o[2] \in Nat
    BY TxWaitAssumption
  <1> QED
    BY <1>1, TxWaitAssumption DEF EffectiveTimeout, EffectiveInterval, Least, Greatest

(* One more observation is one more MinInterval.                             *)
LEMMA OneMore ==
    ASSUME NEW n \in Nat
    PROVE  (n + 1) * MinInterval = n * MinInterval + MinInterval /\ n * MinInterval \in Nat
  BY TxWaitAssumption

LEMMA InitIInv == Init => IInv
  <1> SUFFICES ASSUME Init PROVE IInv
    OBVIOUS
  <1>1. interval \in 0..MaxTimeout /\ timeout \in 0..MaxTimeout /\ waited \in Nat /\ timer \in Nat
    BY TxWaitAssumption DEF Init
  <1>2. TypeOK
    BY <1>1 DEF Init, TypeOK
  <1> QED
    BY <1>2 DEF Init, IInv, AnswerStillTrue, ResultStillTrue

-----------------------------------------------------------------------------
(* What the steps of the call do.                                            *)
LEMMA StartIInv ==
    ASSUME IInv, (\E o \in Options : Wait(o)) \/ Receipt
    PROVE  IInv'
  <1>1. ASSUME NEW o \in Options, Wait(o)
        PROVE  IInv'
    <2>1. EffectiveTimeout(o) \in MinTimeout..MaxTimeout /\ EffectiveInterval(o) \in MinInterval..MaxTimeout
      BY BoundsEffective
    <2> QED
      BY <1>1, <2>1, TxWaitAssumption
      DEF Wait, IInv, TypeOK, AnswerStillTrue, ResultStillTrue, TimeBudget, Spacing
  <1>2. CASE Receipt
    BY <1>2, TxWaitAssumption
    DEF Receipt, Request, IInv, TypeOK, AnswerStillTrue, ResultStillTrue
  <1> QED
    BY <1>1, <1>2

LEMMA PollIInv ==
    ASSUME IInv, Poll
    PROVE  IInv'
  <1>1. TypeOK /\ polls \in Nat
    BY DEF IInv, TypeOK
  <1>2. (polls + 1) * MinInterval = polls * MinInterval + MinInterval /\ polls * MinInterval \in Nat
    BY <1>1, OneMore
  <1>3. CASE Remaining = 0
    BY <1>1, <1>2, <1>3, TxWaitAssumption
    DEF Poll, Return, IInv, TypeOK, AnswerStillTrue, ResultStillTrue, TimeBudget, Spacing
  <1>4. CASE Remaining # 0
    <2>1. waited < timeout
      BY <1>1, <1>4 DEF Remaining, TypeOK
    <2> QED
      BY <1>1, <1>2, <1>4, <2>1, TxWaitAssumption
      DEF Poll, Request, IInv, TypeOK, AnswerStillTrue, ResultStillTrue, TimeBudget, Spacing
  <1> QED
    BY <1>3, <1>4

(* An observation that the call acts on: it sleeps, or returns.              *)
LEMMA ObservedIInv ==
    ASSUME IInv, reply # "none", pc \in {"receipt", "status"}, NEW h \in BOOLEAN,
           Observed(classify(reply, h)), UNCHANGED <<call, interval, timeout, missing>>
    PROVE  IInv'
  <1> DEFINE o == classify(reply, h)
  <1>1. TypeOK /\ polls \in Nat /\ waited \in Nat /\ timeout \in Nat /\ interval \in Nat
    BY TxWaitAssumption DEF IInv, TypeOK
  <1>2. polls * MinInterval \in Nat
    BY <1>1, OneMore
  <1>3. /\ o \in {"Accepted", "Reverted", "Pending", "AcceptedWithoutReceipt"}
        /\ o = "Accepted" => reply = "succeeded"
        /\ o = "Reverted" => reply \in {"pre_reverted", "reverted"}
    BY DEF classify
  <1>4. CASE call = "wait" /\ o \in {"Pending", "AcceptedWithoutReceipt"}
    <2>1. /\ pc' = "nap" /\ timer' = NapFor /\ reply' = "none"
          /\ UNCHANGED <<waited, result, tx, polls>>
      BY <1>4 DEF Observed
    <2>2. /\ NapFor \in Nat
          /\ NapFor = 0 \/ waited + NapFor <= timeout
          /\ NapFor = interval \/ timeout <= waited + NapFor
      BY <1>1 DEF NapFor, Least, Remaining
    <2>3. interval >= MinInterval
      BY <1>1, <1>4 DEF TypeOK
    <2>4. polls * MinInterval <= waited + MinInterval /\ waited <= timeout + 2 * RpcTimeout
      BY <1>4 DEF IInv, Spacing
    <2>5. polls * MinInterval <= waited + NapFor \/ timeout <= waited + NapFor
      BY <1>1, <1>2, <2>2, <2>3, <2>4, TxWaitAssumption
    <2>6. TypeOK'
      BY <1>1, <2>1, <2>2 DEF TypeOK
    <2>7. Spacing' /\ TimeBudget'
      BY <2>1, <2>2, <2>4, <2>5 DEF Spacing, TimeBudget
    <2> QED
      BY <2>1, <2>4, <2>6, <2>7 DEF IInv, AnswerStillTrue, ResultStillTrue
  <1>5. CASE ~(call = "wait" /\ o \in {"Pending", "AcceptedWithoutReceipt"})
    <2>1. /\ pc' = "done" /\ reply' = "none"
          /\ result' \in {"Ok", "Reverted", "NotYetAccepted", "RpcError"}
          /\ result' = "Ok" => o = "Accepted"
          /\ result' = "Reverted" => o = "Reverted"
          /\ UNCHANGED <<timer, waited, tx, polls>>
      BY <1>3, <1>5 DEF Observed, Return
    <2>2. TypeOK'
      BY <1>1, <2>1 DEF TypeOK
    <2>3. ResultStillTrue' /\ AnswerStillTrue'
      BY <1>3, <2>1 DEF IInv, AnswerStillTrue, ResultStillTrue
    <2>4. (call = "wait") => waited <= timeout + 2 * RpcTimeout /\ polls * MinInterval <= waited + MinInterval
      BY DEF IInv, Spacing
    <2> QED
      BY <2>1, <2>2, <2>3, <2>4 DEF IInv, TimeBudget, Spacing
  <1> QED
    BY <1>4, <1>5

LEMMA OnReceiptIInv ==
    ASSUME IInv, OnReceipt
    PROVE  IInv'
  <1>1. TypeOK
    BY DEF IInv
  <1>2. CASE reply \in {"notfound", "transport"}
    <2>1. /\ pc = "receipt" /\ pc' = "status" /\ timer' = RpcTimeout /\ reply' = "none"
          /\ missing' \in BOOLEAN
          /\ UNCHANGED <<waited, result, tx, polls, call, interval, timeout>>
      BY <1>2 DEF OnReceipt, Request
    <2>2. TypeOK'
      BY <1>1, <2>1, TxWaitAssumption DEF TypeOK
    <2>3. (call = "wait") => waited + timer < timeout + RpcTimeout /\ Spacing
      BY <2>1 DEF IInv, TimeBudget
    <2>4. (call = "wait") => waited' + timer' < timeout' + 2 * RpcTimeout /\ waited' <= timeout' + 2 * RpcTimeout
      BY <1>1, <2>1, <2>3, TxWaitAssumption DEF TypeOK
    <2> QED
      BY <2>1, <2>2, <2>3, <2>4 DEF IInv, AnswerStillTrue, ResultStillTrue, TimeBudget, Spacing
  <1>3. CASE reply \notin {"notfound", "transport"}
    BY <1>3, ObservedIInv DEF OnReceipt
  <1> QED
    BY <1>2, <1>3

LEMMA OnStatusIInv ==
    ASSUME IInv, OnStatus
    PROVE  IInv'
  <1>1. CASE Return("RpcError") /\ UNCHANGED <<call, interval, timeout, missing>>
    BY <1>1
    DEF OnStatus, Return, IInv, TypeOK, AnswerStillTrue, ResultStillTrue, TimeBudget, Spacing
  <1>2. CASE Observed(classify(reply, FALSE)) /\ UNCHANGED <<call, interval, timeout, missing>>
    BY <1>2, ObservedIInv DEF OnStatus
  <1> QED
    BY <1>1, <1>2 DEF OnStatus

LEMMA WakeIInv ==
    ASSUME IInv, Wake
    PROVE  IInv'
  BY TxWaitAssumption
  DEF Wake, IInv, TypeOK, AnswerStillTrue, ResultStillTrue, TimeBudget, Spacing

(* What the environment does.                                                *)
LEMMA ServeIInv ==
    ASSUME IInv, Serve \/ RequestTimesOut
    PROVE  IInv'
  <1>1. /\ UNCHANGED <<pc, call, interval, timeout, waited, timer, missing, result, tx, polls>>
        /\ reply' \in {Known, "transport"}
        /\ pc \in {"receipt", "status"}
    BY DEF Serve, RequestTimesOut
  <1>2. TypeOK /\ tx \in {"received", "gone", "pre_succeeded", "pre_reverted", "succeeded", "reverted"}
    BY DEF IInv, TypeOK
  <1>3. (Known = tx /\ tx # "gone") \/ Known = "notfound"
    BY <1>1, <1>2 DEF Known
  <1>4. TypeOK' /\ AnswerStillTrue' /\ ResultStillTrue'
    BY <1>1, <1>2, <1>3 DEF IInv, TypeOK, AnswerStillTrue, ResultStillTrue
  <1> QED
    BY <1>1, <1>4 DEF IInv, TimeBudget, Spacing

LEMMA SequenceIInv ==
    ASSUME IInv, Sequence
    PROVE  IInv'
  <1>1. /\ UNCHANGED <<pc, call, interval, timeout, waited, timer, reply, missing, result, polls>>
        /\ tx' \in {"received", "gone", "pre_succeeded", "pre_reverted", "succeeded", "reverted"}
        /\ tx # "succeeded"
        /\ (tx \in {"pre_reverted", "reverted"} /\ "reverted" \notin TakenBack) => tx' = "reverted"
    BY DEF Sequence, PreConfirmed, Confirmed
  <1>2. TypeOK' /\ AnswerStillTrue' /\ ResultStillTrue'
    BY <1>1 DEF IInv, TypeOK, AnswerStillTrue, ResultStillTrue
  <1> QED
    BY <1>1, <1>2 DEF IInv, TimeBudget, Spacing

LEMMA TickIInv ==
    ASSUME IInv, Tick
    PROVE  IInv'
  <1>1. /\ TypeOK
        /\ pc \notin {"idle", "done", "poll"} /\ timer # 0
        /\ UNCHANGED <<pc, call, interval, timeout, reply, missing, result, tx, polls>>
    BY DEF Tick, Due, IInv, TypeOK
  <1>2. waited' = waited + 1 /\ timer' = timer - 1 /\ waited \in Nat /\ timer \in Nat \ {0}
    BY <1>1 DEF Tick, TypeOK
  <1>3. TypeOK' /\ AnswerStillTrue' /\ ResultStillTrue'
    BY <1>1, <1>2 DEF IInv, TypeOK, AnswerStillTrue, ResultStillTrue
  <1>4. ASSUME call = "wait"
        PROVE  waited' <= timeout' + 2 * RpcTimeout /\ TimeBudget' /\ Spacing'
    <2>1. TimeBudget /\ Spacing
      BY <1>1, <1>4 DEF IInv
    <2>2. polls * MinInterval \in Nat
      BY <1>1, OneMore DEF TypeOK
    <2>3. waited + timer <= timeout + 2 * RpcTimeout
      BY <1>1, <2>1, TxWaitAssumption DEF TimeBudget, TypeOK
    <2>4. waited' <= timeout' + 2 * RpcTimeout
      BY <1>1, <1>2, <2>3, TxWaitAssumption DEF TypeOK
    <2>5. TimeBudget'
      BY <1>1, <1>2, <2>1, TxWaitAssumption DEF TimeBudget, TypeOK
    <2>6. Spacing'
      BY <1>1, <1>2, <2>1, <2>2, TxWaitAssumption DEF Spacing, TypeOK
    <2> QED
      BY <2>4, <2>5, <2>6
  <1> QED
    BY <1>1, <1>3, <1>4 DEF IInv

-----------------------------------------------------------------------------
(* The invariant holds in every state of every call.                         *)
THEOREM IInvHolds == Spec => []IInv
  <1>1. IInv /\ [Next]_vars => IInv'
    <2> SUFFICES ASSUME IInv, [Next]_vars PROVE IInv'
      OBVIOUS
    <2>1. CASE UNCHANGED vars
      BY <2>1
      DEF vars, IInv, TypeOK, AnswerStillTrue, ResultStillTrue, TimeBudget, Spacing
    <2>2. CASE Next
      BY <2>2, StartIInv, PollIInv, OnReceiptIInv, OnStatusIInv, WakeIInv, ServeIInv,
         SequenceIInv, TickIInv
      DEF Next, Step
    <2> QED
      BY <2>1, <2>2
  <1> QED
    BY InitIInv, <1>1, PTL DEF Spec

(* Whatever WaitOptions a caller assembles, wait() outlives its effective    *)
(* timeout by at most two HTTP requests.                                     *)
THEOREM WaitOverrun == Spec => []OverrunIsTwoRequests
  <1>1. IInv => OverrunIsTwoRequests
    BY DEF IInv, OverrunIsTwoRequests
  <1> QED
    BY <1>1, IInvHolds, PTL

(* Whatever WaitOptions a caller assembles, wait() makes no more than one    *)
(* observation per MIN_WAIT_INTERVAL_SECS.                                   *)
THEOREM WaitNeverFloods == Spec => []NoRpcFlood
  <1>1. IInv => NoRpcFlood
    <2> SUFFICES ASSUME IInv, call = "wait" PROVE polls * MinInterval <= waited + MinInterval
      BY DEF NoRpcFlood
    <2>1. CASE pc = "idle"
      BY <2>1, TxWaitAssumption DEF IInv
    <2>2. CASE pc # "idle"
      BY <2>2 DEF IInv, Spacing
    <2> QED
      BY <2>1, <2>2
  <1> QED
    BY <1>1, IInvHolds, PTL

(* As long as the sequencer takes no pre-confirmed revert back, wait() and   *)
(* receipt() report success and revert only of transactions that succeeded   *)
(* or reverted.  Successes it may take back: the code does not trust them    *)
(* before they are accepted.                                                 *)
THEOREM WaitTruthful == Spec => [](("reverted" \notin TakenBack) => ResultMatchesChain)
  <1>1. IInv => (("reverted" \notin TakenBack) => ResultMatchesChain)
    BY DEF IInv, ResultStillTrue, ResultMatchesChain
  <1> QED
    BY <1>1, IInvHolds, PTL

(* Every variable keeps its type; while a wait() runs, its interval and      *)
(* timeout are at their floors at least.                                     *)
THEOREM TypeCorrect == Spec => []TypeOK
  <1>1. IInv => TypeOK
    BY DEF IInv
  <1> QED
    BY <1>1, IInvHolds, PTL
=============================================================================
