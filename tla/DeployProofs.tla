---------------------------- MODULE DeployProofs ----------------------------
(***************************************************************************)
(* Proofs about deploy_account for any number of requests, any modes and   *)
(* any bounds.  The inductive invariant has a part for each request: its   *)
(* handler, its submission, its recorded status, and what they say of its  *)
(* transaction; a part about what requests learn from each other, that the *)
(* account is deployed; and one on where known transactions come from.     *)
(***************************************************************************)
EXTENDS Deploy, TLAPS

Statuses == {"none", "Queued", "Running", "Submitted", "Accepted", "Completed", "Rejected"}
EstimateReplies == {"none", "ok", "refused", "degraded", "transport"}
SendReplies == EstimateReplies \cup {"duplicate"}
WaitPcs == {"poll", "receipt", "status", "nap"}
Observing(r) == r.pc \in {"receipt", "status"}

(* Handler r, submission m and recorded status s of one request.             *)
Typed(r, m, s) == r \in Task /\ m \in Submissions /\ s \in Statuses

(* The status recorded is that of the place the handler is at.               *)
Recorded(r, s) ==
    /\ r.pc = "idle" => s = "none"
    /\ r.pc = "queued" => s = "Queued"
    /\ r.pc \in {"prepare", "resolve", "poll", "nap"} \cup Rpcs => s = "Running"

(* Nothing is sent before the submission, by the wait the node has taken it, *)
(* and a refusal is the node's.                                              *)
Sent(r, m) ==
    /\ r.pc \in {"idle", "queued", "prepare", "resolve", "check", "estimate"} => m = "unsent"
    /\ r.pc \in WaitPcs => m = "taken"
    /\ r.pc = "send" => m # "unsent"
    /\ (r.pc = "send" /\ r.reply = "ok") => m = "taken"
    /\ (r.pc = "send" /\ r.reply \in {"refused", "duplicate"}) => m = "refused"

(* The answers a call can have.                                              *)
Replied(r) ==
    /\ r.pc = "resolve" => r.reply \in {"none", "ok", "refused", "transport"}
    /\ r.pc = "check" => r.reply \in {"none", "deployed", "notfound", "transport"}
    /\ r.pc = "estimate" => r.reply \in EstimateReplies
    /\ r.pc = "send" => r.reply \in SendReplies
    /\ r.pc \in {"idle", "queued", "prepare", "poll", "nap"} => r.reply = "none"

Failed(r, m) ==
    /\ r.failure # "none" => r.pc = "done"
    /\ r.failure = "final" => m # "sent"

(* The wait is within what validate_wait_mode admits and what is left of it. *)
Timed(r) ==
    /\ r.pc \in {"resolve", "poll", "nap"} \cup Rpcs => validate_wait_mode(r.mode)
    /\ r.pc \in WaitPcs =>
          /\ r.mode.kind = "WaitForAcceptance"
          /\ r.waited + r.timer <= r.mode.timeout
    /\ r.pc \notin WaitPcs \cup {"done", "dropped"} => r.waited = 0

LocalInv(r, m, s) ==
    Typed(r, m, s) /\ Recorded(r, s) /\ Sent(r, m) /\ Replied(r) /\ Failed(r, m) /\ Timed(r)

(* What the network, T and R, makes of transaction h for good.               *)
Succeeded(h, T) == h \in Hashes /\ T[h] = "succeeded"
Reverted(h, T, R) == h \in Hashes /\ (T[h] \in Reverts \/ h \in R)

(* What an answer or a recorded result says of the transaction h that the    *)
(* request built is true; a final failure after the node took it is a revert.*)
Told(r, m, h, s, T, R) ==
    /\ m = "unsent" <=> h = NoTx
    /\ (Observing(r) /\ r.reply = "succeeded") \/ s = "Accepted" => Succeeded(h, T)
    /\ (Observing(r) /\ r.reply \in Reverts) \/ (r.failure = "final" /\ m = "taken")
            => Reverted(h, T, R)

(* A request that learned that the account is deployed is right, and one     *)
(* that began its check afterwards learns it or fails.                       *)
SharedInv ==
    \A t \in Tasks :
        /\ status[t] = "Completed" => Deployed
        /\ (task[t].pc = "check" /\ task[t].reply = "deployed") => Deployed
        /\ t \in late => /\ Deployed
                         /\ task[t].pc \in {"check", "done", "dropped"}
                         /\ task[t].pc = "check" => task[t].reply # "notfound"
                         /\ submission[t] = "unsent"

(* What the network knows, the node took from a request.                     *)
KnownInv ==
    \A h \in Hashes : tx[h] # "unknown" =>
        \E t \in Tasks : submission[t] = "taken" /\ hash[t] = h

FunctionsOK ==
    /\ status \in [Tasks -> Statuses] /\ task \in [Tasks -> Task]
    /\ submission \in [Tasks -> Submissions] /\ hash \in [Tasks -> Hashes \cup {NoTx}]
    /\ tx \in [Hashes -> TxStates] /\ revised \subseteq Hashes
    /\ held \in [Tasks -> 0..HeldCap] /\ late \subseteq Tasks

Local(t) ==
    /\ LocalInv(task[t], submission[t], status[t])
    /\ Told(task[t], submission[t], hash[t], status[t], tx, revised)

IInv == FunctionsOK /\ (\A t \in Tasks : Local(t)) /\ SharedInv /\ KnownInv

(* How the network moves: what it confirmed stays, a revert stays or its     *)
(* revision is recorded, and it learns of transactions from submissions.     *)
Forward ==
    /\ tx' \in [Hashes -> TxStates] /\ revised' \subseteq Hashes /\ revised \subseteq revised'
    /\ \A h \in Hashes :
          /\ tx[h] = "succeeded" => tx'[h] = "succeeded"
          /\ tx[h] \in Reverts => tx'[h] \in Reverts \/ h \in revised'
          /\ tx[h] = "unknown" /\ tx'[h] # "unknown" =>
                \E t \in Tasks : submission'[t] = "taken" /\ hash'[t] = h

-----------------------------------------------------------------------------
(* A mode a request may have: its numbers are naturals, and only SubmitOnly  *)
(* has that kind.                                                            *)
LEMMA ModeFacts ==
    ASSUME NEW r \in Task
    PROVE  /\ r.mode \in Modes \cup {SubmitOnly}
           /\ r.mode.kind \in {"SubmitOnly", "WaitForAcceptance"}
           /\ r.mode.poll \in Nat /\ r.mode.timeout \in Nat
           /\ r.mode.kind = "SubmitOnly" <=> r.mode = SubmitOnly
  BY WaitAssumption DEF Task, SubmitOnly

(* What was said of a transaction stays true as the network moves.           *)
LEMMA StaysTold ==
    ASSUME Forward, NEW r, NEW m, NEW h, NEW s, Told(r, m, h, s, tx, revised)
    PROVE  Told(r, m, h, s, tx', revised')
  <1>1. Succeeded(h, tx) => Succeeded(h, tx')
    BY DEF Forward, Succeeded
  <1>2. Reverted(h, tx, revised) => Reverted(h, tx', revised')
    BY DEF Forward, Reverted
  <1> QED
    BY <1>1, <1>2 DEF Told

LEMMA NetworkRests ==
    ASSUME IInv, UNCHANGED <<tx, revised>>
    PROVE  Forward
  BY DEF IInv, FunctionsOK, Forward

(* The invariant of the next state from that of each request.                *)
LEMMA Gathered ==
    ASSUME FunctionsOK', SharedInv', KnownInv',
           \A u \in Tasks : /\ LocalInv(task'[u], submission'[u], status'[u])
                            /\ Told(task'[u], submission'[u], hash'[u], status'[u], tx', revised')
    PROVE  IInv'
  <1>1. (\A u \in Tasks : Local(u))'
    BY DEF Local, LocalInv, Typed, Recorded, Sent, Replied, Failed, Timed, Told, Observing, Succeeded, Reverted
  <1> QED
    BY <1>1 DEF IInv

(* A step of request t, given by its new handler, submission, transaction    *)
(* and status, preserves the invariant if it does so for t.                  *)
LEMMA OneTask ==
    ASSUME IInv, NEW t \in Tasks, NEW r, NEW m, NEW h \in Hashes \cup {NoTx}, NEW s,
           task' = [task EXCEPT ![t] = r],
           submission' = [submission EXCEPT ![t] = m],
           hash' = [hash EXCEPT ![t] = h],
           status' = [status EXCEPT ![t] = s],
           held' = held,
           Forward,
           \/ late' = late
           \/ late' = late \cup {t} /\ Deployed /\ r.pc = "check" /\ r.reply = "none" /\ m = "unsent",
           LocalInv(r, m, s),
           Told(r, m, h, s, tx', revised'),
           submission[t] = "taken" => m = "taken" /\ h = hash[t],
           s = "Completed" => Deployed,
           (r.pc = "check" /\ r.reply = "deployed") => Deployed,
           t \in late => /\ r.pc \in {"check", "done", "dropped"} /\ m = "unsent"
                         /\ r.pc = "check" => r.reply # "notfound"
    PROVE  IInv' /\ (Deployed => Deployed')
  <1>1. FunctionsOK'
    BY DEF IInv, FunctionsOK, LocalInv, Typed, Forward
  <1>2. /\ task'[t] = r /\ submission'[t] = m /\ hash'[t] = h /\ status'[t] = s
        /\ \A u \in Tasks \ {t} : /\ task'[u] = task[u] /\ submission'[u] = submission[u]
                                   /\ hash'[u] = hash[u] /\ status'[u] = status[u]
    BY DEF IInv, FunctionsOK
  <1>3. Deployed => Deployed'
    BY DEF Deployed, Forward
  <1>4. \A u \in Tasks : /\ LocalInv(task'[u], submission'[u], status'[u])
                         /\ Told(task'[u], submission'[u], hash'[u], status'[u], tx', revised')
    <2> TAKE u \in Tasks
    <2>1. CASE u = t
      BY <1>2, <2>1
    <2>2. CASE u # t
      <3>1. /\ LocalInv(task[u], submission[u], status[u])
            /\ Told(task[u], submission[u], hash[u], status[u], tx, revised)
        BY DEF IInv, Local
      <3>2. Told(task[u], submission[u], hash[u], status[u], tx', revised')
        BY <3>1, StaysTold
      <3> QED
        BY <1>2, <2>2, <3>1, <3>2
    <2> QED
      BY <2>1, <2>2
  <1>5. SharedInv'
    <2> SUFFICES ASSUME NEW u \in Tasks
                 PROVE  /\ status'[u] = "Completed" => Deployed'
                        /\ (task'[u].pc = "check" /\ task'[u].reply = "deployed") => Deployed'
                        /\ u \in late' => /\ Deployed'
                                          /\ task'[u].pc \in {"check", "done", "dropped"}
                                          /\ task'[u].pc = "check" => task'[u].reply # "notfound"
                                          /\ submission'[u] = "unsent"
      BY DEF SharedInv
    <2>1. CASE u = t
      BY <1>2, <1>3, <2>1 DEF IInv, SharedInv
    <2>2. CASE u # t
      BY <1>2, <1>3, <2>2 DEF IInv, SharedInv
    <2> QED
      BY <2>1, <2>2
  <1>6. KnownInv'
    <2> SUFFICES ASSUME NEW g \in Hashes, tx'[g] # "unknown"
                 PROVE  \E u \in Tasks : submission'[u] = "taken" /\ hash'[u] = g
      BY DEF KnownInv
    <2>1. CASE tx[g] = "unknown"
      BY <2>1 DEF Forward
    <2>2. CASE tx[g] # "unknown"
      <3>1. PICK u \in Tasks : submission[u] = "taken" /\ hash[u] = g
        BY <2>2 DEF IInv, KnownInv
      <3> QED
        BY <1>2, <3>1
    <2> QED
      BY <2>1, <2>2
  <1> QED
    BY <1>1, <1>3, <1>4, <1>5, <1>6, Gathered

-----------------------------------------------------------------------------
(* The ways a handler leaves a place.  The first two end it.                 *)
LEMMA EndedFacts ==
    ASSUME NEW pc \in {"done", "dropped"}, NEW f \in {"none", "final", "retryable"}
    PROVE  /\ Ended(pc, f) \in Task
           /\ Ended(pc, f).pc = pc /\ Ended(pc, f).failure = f
  <1>1. Idle \in Task
    BY WaitAssumption DEF Idle, Task, Pcs, Replies
  <1> QED
    BY <1>1, Zenon DEF Ended, Task, Pcs

LEMMA Ending ==
    ASSUME IInv, NEW t \in Tasks, NEW pc \in {"done", "dropped"},
           NEW f \in {"none", "final", "retryable"}, NEW s \in Statuses,
           task' = [task EXCEPT ![t] = Ended(pc, f)], status' = [status EXCEPT ![t] = s],
           UNCHANGED <<chain, held, late>>,
           f # "none" => pc = "done",
           f = "final" => submission[t] # "sent",
           f = "final" /\ submission[t] = "taken" => Reverted(hash[t], tx, revised),
           s = "Accepted" => Succeeded(hash[t], tx),
           s = "Completed" => Deployed
    PROVE  IInv' /\ (Deployed => Deployed')
  <1> DEFINE r == Ended(pc, f)
  <1>1. Local(t) /\ SharedInv /\ submission[t] \in Submissions /\ hash[t] \in Hashes \cup {NoTx}
    BY DEF IInv, FunctionsOK
  <1>2. /\ submission' = [submission EXCEPT ![t] = submission[t]] /\ hash' = [hash EXCEPT ![t] = hash[t]]
        /\ held' = held /\ late' = late /\ tx' = tx /\ revised' = revised
    BY DEF IInv, FunctionsOK, chain
  <1>3. r \in Task /\ r.pc = pc /\ r.failure = f
    BY EndedFacts
  <1>4. task' = [task EXCEPT ![t] = r]
    OBVIOUS
  <1> HIDE DEF r
  <1>5. LocalInv(r, submission[t], s)
    BY <1>1, <1>3 DEF LocalInv, Typed, Recorded, Sent, Replied, Failed, Timed, WaitPcs, Rpcs, EarlyRpcs
  <1>6. Told(r, submission[t], hash[t], s, tx', revised')
    BY <1>1, <1>2, <1>3 DEF Local, Told, Observing
  <1>7. t \in late => submission[t] = "unsent"
    BY <1>1 DEF SharedInv
  <1>8. Forward
    BY <1>2, NetworkRests, SMTT(30)
  <1> QED
    BY <1>1, <1>2, <1>3, <1>4, <1>5, <1>6, <1>7, <1>8, OneTask, Zenon

LEMMA Rejecting ==
    ASSUME IInv, NEW t \in Tasks, NEW f \in {"final", "retryable"}, Reject(t, f),
           UNCHANGED <<chain, held, late>>,
           f = "final" => submission[t] # "sent",
           f = "final" /\ submission[t] = "taken" => Reverted(hash[t], tx, revised)
    PROVE  IInv' /\ (Deployed => Deployed')
  BY Ending, ZenonT(30) DEF Reject, Statuses

LEMMA Returning ==
    ASSUME IInv, NEW t \in Tasks, NEW s \in {"Submitted", "Accepted", "Completed"}, Return(t, s),
           UNCHANGED <<chain, held, late>>,
           s = "Accepted" => Succeeded(hash[t], tx),
           s = "Completed" => Deployed
    PROVE  IInv' /\ (Deployed => Deployed')
  BY Ending, Zenon DEF Return, Statuses

LEMMA DropIInv ==
    ASSUME IInv, NEW t \in Tasks, Drop(t)
    PROVE  IInv' /\ (Deployed => Deployed')
  <1>1. /\ status' = [status EXCEPT ![t] = status[t]] /\ status[t] \in Statuses
        /\ task' = [task EXCEPT ![t] = Ended("dropped", "none")] /\ UNCHANGED <<chain, held, late>>
    BY DEF Drop, IInv, FunctionsOK
  <1>2. /\ status[t] = "Accepted" => Succeeded(hash[t], tx)
        /\ status[t] = "Completed" => Deployed
    BY DEF IInv, Local, Told, SharedInv
  <1> QED
    BY <1>1, <1>2, Ending, Zenon

(* A step that leaves the status and the network alone.                      *)
LEMMA Moving ==
    ASSUME IInv, NEW t \in Tasks, NEW r, task' = [task EXCEPT ![t] = r],
           UNCHANGED <<status, chain, held>>,
           \/ late' = late
           \/ late' = late \cup {t} /\ Deployed /\ r.pc = "check" /\ r.reply = "none" /\ submission[t] = "unsent",
           LocalInv(r, submission[t], status[t]),
           Told(r, submission[t], hash[t], status[t], tx, revised),
           (r.pc = "check" /\ r.reply = "deployed") => Deployed,
           t \in late => /\ r.pc \in {"check", "done", "dropped"}
                         /\ r.pc = "check" => r.reply # "notfound"
    PROVE  IInv' /\ (Deployed => Deployed')
  <1>1. /\ submission' = [submission EXCEPT ![t] = submission[t]] /\ hash' = [hash EXCEPT ![t] = hash[t]]
        /\ status' = [status EXCEPT ![t] = status[t]] /\ held' = held /\ tx' = tx /\ revised' = revised
        /\ hash[t] \in Hashes \cup {NoTx}
        /\ status[t] = "Completed" => Deployed
        /\ t \in late => submission[t] = "unsent"
    BY DEF IInv, FunctionsOK, SharedInv, chain
  <1>2. Forward
    BY <1>1, NetworkRests
  <1>3. Told(r, submission[t], hash[t], status[t], tx', revised')
    BY <1>1
  <1> QED
    BY <1>1, <1>2, <1>3, OneTask, Zenon

(* The next await.  Nothing has been answered there, so nothing is claimed.  *)
Suspends(t, r, pc) ==
    /\ task' = [task EXCEPT ![t] = r] /\ r \in Task
    /\ r.pc = pc /\ r.reply = "none" /\ r.mode = task[t].mode /\ r.failure = task[t].failure
    /\ r.waited = task[t].waited

LEMMA Going ==
    ASSUME IInv, NEW t \in Tasks, NEW pc \in Pcs, Goto(t, pc)
    PROVE  \E r : Suspends(t, r, pc) /\ (pc \notin EarlyRpcs \cup {"resolve"} => r.timer = 0)
  <1> DEFINE k == CASE pc \in EarlyRpcs -> RpcTimeout [] pc = "resolve" -> ResolveTime [] OTHER -> 0
             r == [task[t] EXCEPT !.pc = pc, !.reply = "none", !.timer = k]
  <1>1. k \in Nat /\ (pc \notin EarlyRpcs \cup {"resolve"} => k = 0)
    BY WaitAssumption
  <1>2. task' = [task EXCEPT ![t] = r] /\ task[t] \in Task
    BY DEF Goto, IInv, FunctionsOK
  <1> HIDE DEF k
  <1>3. r \in Task /\ r.timer = k /\ r.pc = pc /\ r.reply = "none" /\ r.mode = task[t].mode
        /\ r.failure = task[t].failure /\ r.waited = task[t].waited
    BY <1>1, <1>2, Zenon DEF Task, Replies
  <1> HIDE DEF r
  <1> QED
    BY <1>1, <1>2, <1>3, Zenon DEF Suspends

(* The handler reaches an await of the wait, with what is left of its time.  *)
LEMMA Awaiting ==
    ASSUME IInv, NEW t \in Tasks, NEW pc \in WaitPcs, NEW r, Suspends(t, r, pc),
           UNCHANGED <<status, chain, held, late>>,
           task[t].pc \in Rpcs \cup WaitPcs, submission[t] = "taken",
           task[t].mode.kind = "WaitForAcceptance",
           r.waited + r.timer <= r.mode.timeout
    PROVE  IInv' /\ (Deployed => Deployed')
  <1>1. LocalInv(task[t], submission[t], status[t]) /\ SharedInv
        /\ Told(task[t], submission[t], hash[t], status[t], tx, revised)
    BY DEF IInv, Local
  <1>2. /\ task' = [task EXCEPT ![t] = r] /\ r \in Task
        /\ r.pc = pc /\ r.reply = "none" /\ r.mode = task[t].mode /\ r.failure = task[t].failure
    BY DEF Suspends
  <1>3. task[t].failure = "none" /\ status[t] = "Running" /\ validate_wait_mode(r.mode)
    BY <1>1, <1>2 DEF LocalInv, Typed, Task, Failed, Recorded, Timed, WaitPcs, Rpcs, EarlyRpcs
  <1>4. LocalInv(r, submission[t], status[t])
    <2>1. Timed(r)
      BY <1>2, <1>3 DEF Timed, WaitPcs
    <2>2. Typed(r, submission[t], status[t]) /\ Recorded(r, status[t]) /\ Replied(r)
      BY <1>1, <1>2, <1>3 DEF LocalInv, Typed, Recorded, Replied, WaitPcs
    <2>3. Sent(r, submission[t]) /\ Failed(r, submission[t])
      BY <1>2, <1>3 DEF Sent, Failed, WaitPcs
    <2> QED
      BY <2>1, <2>2, <2>3 DEF LocalInv
  <1>5. Told(r, submission[t], hash[t], status[t], tx, revised)
    BY <1>1, <1>2, <1>3 DEF Told, Reverts
  <1>6. t \notin late
    BY <1>1 DEF SharedInv
  <1> QED
    BY <1>2, <1>4, <1>5, <1>6, Moving, Zenon DEF WaitPcs

-----------------------------------------------------------------------------
LEMMA BeginIInv ==
    ASSUME IInv, NEW t \in Tasks, NEW m \in Modes, Begin(t, m)
    PROVE  IInv' /\ (Deployed => Deployed')
  <1> DEFINE r == [task[t] EXCEPT !.pc = "queued", !.mode = m]
  <1>1. LocalInv(task[t], submission[t], status[t]) /\ SharedInv /\ task[t].pc = "idle"
        /\ Told(task[t], submission[t], hash[t], status[t], tx, revised)
    BY DEF IInv, Local, Begin
  <1>2. /\ task' = [task EXCEPT ![t] = r] /\ status' = [status EXCEPT ![t] = "Queued"]
        /\ submission' = [submission EXCEPT ![t] = submission[t]] /\ hash' = [hash EXCEPT ![t] = hash[t]]
        /\ hash[t] \in Hashes \cup {NoTx}
        /\ held' = held /\ late' = late /\ tx' = tx /\ revised' = revised
    BY DEF Begin, IInv, FunctionsOK, chain
  <1>3. LocalInv(r, submission[t], "Queued") /\ r.pc = "queued" /\ r.failure = "none"
    BY <1>1, Zenon DEF LocalInv, Typed, Task, Recorded, Sent, Replied, Failed, Timed,
                WaitPcs, Rpcs, Statuses, Pcs, Replies, EarlyRpcs
  <1>4. t \notin late
    BY <1>1 DEF SharedInv
  <1> HIDE DEF r
  <1>5. Told(r, submission[t], hash[t], "Queued", tx', revised')
    BY <1>1, <1>2, <1>3 DEF Told, Observing
  <1>6. Forward
    BY <1>2, NetworkRests
  <1> QED
    BY <1>2, <1>3, <1>4, <1>5, <1>6, OneTask, Zenon

LEMMA RunIInv ==
    ASSUME IInv, NEW t \in Tasks, Run(t)
    PROVE  IInv' /\ (Deployed => Deployed')
  <1> DEFINE r == [task[t] EXCEPT !.pc = "prepare"]
  <1>1. LocalInv(task[t], submission[t], status[t]) /\ SharedInv /\ task[t].pc = "queued"
        /\ Told(task[t], submission[t], hash[t], status[t], tx, revised)
    BY DEF IInv, Local, Run
  <1>2. /\ task' = [task EXCEPT ![t] = r] /\ status' = [status EXCEPT ![t] = "Running"]
        /\ submission' = [submission EXCEPT ![t] = submission[t]] /\ hash' = [hash EXCEPT ![t] = hash[t]]
        /\ hash[t] \in Hashes \cup {NoTx}
        /\ held' = held /\ late' = late /\ tx' = tx /\ revised' = revised
    BY DEF Run, IInv, FunctionsOK, chain
  <1>3. LocalInv(r, submission[t], "Running") /\ r.pc = "prepare" /\ r.failure = "none"
    BY <1>1 DEF LocalInv, Typed, Task, Recorded, Sent, Replied, Failed, Timed,
                WaitPcs, Rpcs, Statuses, Pcs, Replies, EarlyRpcs
  <1>4. t \notin late
    BY <1>1 DEF SharedInv
  <1> HIDE DEF r
  <1>5. Told(r, submission[t], hash[t], "Running", tx', revised')
    BY <1>1, <1>2, <1>3 DEF Told, Observing
  <1>6. Forward
    BY <1>2, NetworkRests
  <1> QED
    BY <1>2, <1>3, <1>4, <1>5, <1>6, OneTask, Zenon

(* The awaits before the submission.  The request is late if the account is  *)
(* there when it asks.                                                       *)
LEMMA Asking ==
    ASSUME IInv, NEW t \in Tasks, NEW pc \in {"resolve", "check", "estimate"}, Goto(t, pc),
           UNCHANGED <<chain, held>>,
           task[t].pc \in {"prepare", "resolve", "check"}, validate_wait_mode(task[t].mode),
           late' = late \/ (late' = late \cup {t} /\ Deployed /\ pc = "check"),
           t \notin late
    PROVE  IInv' /\ (Deployed => Deployed')
  <1>1. LocalInv(task[t], submission[t], status[t])
        /\ Told(task[t], submission[t], hash[t], status[t], tx, revised)
    BY DEF IInv, Local
  <1>2. PICK r : Suspends(t, r, pc)
    BY Going DEF Pcs, Rpcs, EarlyRpcs
  <1>3. /\ task' = [task EXCEPT ![t] = r] /\ r \in Task
        /\ r.pc = pc /\ r.reply = "none" /\ r.mode = task[t].mode /\ r.failure = task[t].failure
        /\ r.waited = task[t].waited
    BY <1>2 DEF Suspends
  <1>4. LocalInv(r, submission[t], status[t]) /\ submission[t] = "unsent"
    BY <1>1, <1>3
    DEF LocalInv, Typed, Recorded, Sent, Replied, Failed, Timed, WaitPcs, Rpcs, EarlyRpcs,
        EstimateReplies
  <1>5. Told(r, submission[t], hash[t], status[t], tx, revised)
    BY <1>1, <1>3 DEF Told, Observing
  <1> QED
    BY <1>3, <1>4, <1>5, Moving, Zenon DEF Goto

LEMMA PrepareIInv ==
    ASSUME IInv, NEW t \in Tasks, Prepare(t)
    PROVE  IInv' /\ (Deployed => Deployed')
  <1>1. submission[t] = "unsent" /\ task[t].pc = "prepare" /\ UNCHANGED <<chain, held, late>>
        /\ t \notin late
    BY DEF IInv, Local, Prepare, LocalInv, Sent, SharedInv
  <1>2. CASE Reject(t, "final")
    BY <1>1, <1>2, Rejecting
  <1>3. CASE validate_wait_mode(task[t].mode) /\ Goto(t, "resolve")
    BY <1>1, <1>3, Asking
  <1> QED
    BY <1>2, <1>3 DEF Prepare

LEMMA OnResolveIInv ==
    ASSUME IInv, NEW t \in Tasks, OnResolve(t)
    PROVE  IInv' /\ (Deployed => Deployed')
  <1>1. submission[t] = "unsent" /\ task[t].pc = "resolve" /\ UNCHANGED <<chain, held>>
        /\ t \notin late /\ validate_wait_mode(task[t].mode)
    BY DEF IInv, Local, OnResolve, LocalInv, Sent, SharedInv, Timed
  <1>2. ASSUME NEW f \in {"final", "retryable"}, Reject(t, f)
        PROVE  IInv' /\ (Deployed => Deployed')
    <2>1. task'[t].pc = "done"
      BY <1>2, EndedFacts, SMTT(30) DEF Reject, IInv, FunctionsOK
    <2>2. UNCHANGED late
      BY <2>1 DEF OnResolve
    <2> QED
      BY <1>1, <1>2, <2>2, Rejecting
  <1>3. CASE Goto(t, "check")
    BY <1>1, <1>3, Asking DEF OnResolve
  <1>4. Failure(task[t].reply) \in {"final", "retryable"}
    BY DEF Failure
  <1> QED
    BY <1>2, <1>3, <1>4, SMTT(30) DEF OnResolve

LEMMA OnCheckIInv ==
    ASSUME IInv, NEW t \in Tasks, OnCheck(t)
    PROVE  IInv' /\ (Deployed => Deployed')
  <1>1. /\ SharedInv /\ validate_wait_mode(task[t].mode)
        /\ task[t].pc = "check" /\ task[t].reply \in {"deployed", "notfound", "transport"}
        /\ UNCHANGED <<chain, held, late>>
    BY DEF IInv, Local, OnCheck, LocalInv, Replied, Timed, Rpcs, EarlyRpcs
  <1>2. CASE task[t].reply = "deployed"
    <2>1. Return(t, "Completed") /\ Deployed
      BY <1>1, <1>2 DEF OnCheck, SharedInv
    <2> QED
      BY <1>1, <2>1, Returning
  <1>3. CASE task[t].reply = "transport"
    <2>1. Reject(t, "retryable")
      BY <1>3 DEF OnCheck, Failure
    <2> QED
      BY <1>1, <2>1, Rejecting
  <1>4. CASE task[t].reply = "notfound"
    <2>1. Goto(t, "estimate") /\ t \notin late
      BY <1>1, <1>4 DEF OnCheck, SharedInv
    <2> QED
      BY <1>1, <2>1, Asking
  <1> QED
    BY <1>1, <1>2, <1>3, <1>4

(* The submission leaves, with the transaction the estimate makes.           *)
LEMMA OnEstimateIInv ==
    ASSUME IInv, NEW t \in Tasks, OnEstimate(t)
    PROVE  IInv' /\ (Deployed => Deployed')
  <1>1. /\ LocalInv(task[t], submission[t], status[t]) /\ SharedInv
        /\ Told(task[t], submission[t], hash[t], status[t], tx, revised)
        /\ task[t].pc = "estimate" /\ submission[t] = "unsent"
        /\ held' = held /\ late' = late /\ tx' = tx /\ revised' = revised
    BY DEF IInv, Local, OnEstimate, LocalInv, Sent
  <1>2. CASE task[t].reply = "ok"
    <2>1. PICK h \in Hashes : hash' = [hash EXCEPT ![t] = h]
      BY <1>2 DEF OnEstimate
    <2>2. /\ Goto(t, "send") /\ submission' = [submission EXCEPT ![t] = "sent"]
          /\ status' = [status EXCEPT ![t] = status[t]]
      BY <1>2 DEF OnEstimate, Goto, IInv, FunctionsOK
    <2>3. PICK r : Suspends(t, r, "send")
      BY <2>2, Going DEF Pcs, Rpcs, EarlyRpcs
    <2>4. /\ task' = [task EXCEPT ![t] = r] /\ r \in Task
          /\ r.pc = "send" /\ r.reply = "none" /\ r.mode = task[t].mode /\ r.failure = task[t].failure
          /\ r.waited = task[t].waited
      BY <2>3 DEF Suspends
    <2>5. r.failure = "none" /\ status[t] = "Running"
      BY <1>1, <2>4 DEF LocalInv, Typed, Task, Failed, Recorded, Rpcs, EarlyRpcs
    <2>6. LocalInv(r, "sent", status[t])
      BY <1>1, <2>4, <2>5
      DEF LocalInv, Typed, Submissions, Recorded, Sent, Replied, Failed, Timed,
          WaitPcs, Rpcs, EarlyRpcs, SendReplies, EstimateReplies
    <2>7. Told(r, "sent", h, status[t], tx', revised')
      BY <2>4, <2>5, WaitAssumption, SMTT(30) DEF Told, Observing
    <2>8. t \notin late
      BY <1>1, SMTT(30) DEF SharedInv
    <2>9. Forward
      BY <1>1, NetworkRests
    <2> QED
      BY <1>1, <2>1, <2>2, <2>4, <2>5, <2>6, <2>7, <2>8, <2>9, OneTask, Zenon
  <1>3. CASE task[t].reply # "ok"
    <2>1. Reject(t, Failure(task[t].reply)) /\ UNCHANGED <<chain, held, late>>
      BY <1>3 DEF OnEstimate, chain
    <2>2. Failure(task[t].reply) \in {"final", "retryable"}
      BY DEF Failure
    <2> QED
      BY <1>1, <2>1, <2>2, Rejecting
  <1> QED
    BY <1>2, <1>3, SMTT(30)

LEMMA OnSendIInv ==
    ASSUME IInv, NEW t \in Tasks, OnSend(t)
    PROVE  IInv' /\ (Deployed => Deployed')
  <1>1. /\ LocalInv(task[t], submission[t], status[t]) /\ task[t] \in Task
        /\ task[t].pc = "send" /\ task[t].reply \in SendReplies \ {"none"}
        /\ UNCHANGED <<chain, held, late>>
    BY DEF IInv, Local, OnSend, LocalInv, Typed, Replied
  <1>2. CASE task[t].reply # "ok"
    <2>1. Reject(t, Failure(task[t].reply))
      BY <1>2 DEF OnSend
    <2>2. Failure(task[t].reply) \in {"final", "retryable"}
      BY DEF Failure
    <2>3. Failure(task[t].reply) = "final" => submission[t] = "refused"
      BY <1>1, <1>2, SMTT(30) DEF Failure, SendReplies, EstimateReplies, LocalInv, Sent
    <2> QED
      BY <1>1, <2>1, <2>2, <2>3, Rejecting
  <1>3. CASE task[t].reply = "ok" /\ task[t].mode = SubmitOnly
    <2>1. Return(t, "Submitted")
      BY <1>3 DEF OnSend
    <2> QED
      BY <1>1, <2>1, Returning
  <1>4. CASE task[t].reply = "ok" /\ task[t].mode # SubmitOnly
    <2>1. Goto(t, "poll") /\ UNCHANGED status
      BY <1>4 DEF OnSend, Goto
    <2>2. PICK r : Suspends(t, r, "poll") /\ r.timer = 0
      BY <2>1, Going, SMTT(30) DEF Pcs, EarlyRpcs
    <2>3. task[t].mode.kind = "WaitForAcceptance" /\ task[t].mode.timeout \in Nat /\ task[t].waited = 0
      BY <1>1, <1>4, ModeFacts DEF LocalInv, Timed, WaitPcs
    <2>4. r.waited + r.timer <= r.mode.timeout
      BY <2>2, <2>3 DEF Suspends
    <2>5. submission[t] = "taken" /\ task[t].pc \in Rpcs \cup WaitPcs /\ "poll" \in WaitPcs
      BY <1>1, <1>4 DEF LocalInv, Sent, Rpcs, EarlyRpcs, WaitPcs
    <2> QED
      BY <1>1, <2>1, <2>2, <2>3, <2>4, <2>5, Awaiting
  <1> QED
    BY <1>2, <1>3, <1>4

-----------------------------------------------------------------------------
(* The wait.  Whatever it does next, it does before the deadline.            *)
LEMMA RemainingFacts ==
    ASSUME IInv, NEW t \in Tasks, task[t].pc \in WaitPcs
    PROVE  /\ task[t].waited \in Nat /\ task[t].timer \in Nat
           /\ task[t].mode.timeout \in Nat /\ task[t].mode.poll \in Nat
           /\ task[t].waited + task[t].timer <= task[t].mode.timeout
           /\ task[t].waited <= task[t].mode.timeout
           /\ Remaining(t) = task[t].mode.timeout - task[t].waited
           /\ task[t].mode.kind = "WaitForAcceptance" /\ submission[t] = "taken"
  <1>1. LocalInv(task[t], submission[t], status[t]) /\ task[t] \in Task
    BY DEF IInv, Local, LocalInv, Typed
  <1>2. task[t].waited \in Nat /\ task[t].timer \in Nat
    BY <1>1, WaitAssumption DEF Task
  <1>3. task[t].mode.timeout \in Nat /\ task[t].mode.poll \in Nat
    BY <1>1, ModeFacts
  <1>4. /\ task[t].waited + task[t].timer <= task[t].mode.timeout
        /\ task[t].mode.kind = "WaitForAcceptance" /\ submission[t] = "taken"
    BY <1>1, SMTT(30) DEF LocalInv, Timed, Sent
  <1> QED
    BY <1>2, <1>3, <1>4, SMTT(30) DEF Remaining

(* At the head of the loop and after a sleep, no timer runs.                 *)
LEMMA Looping ==
    ASSUME IInv, NEW t \in Tasks, NEW pc \in {"receipt", "poll"}, Goto(t, pc),
           task[t].pc \in {"poll", "nap"}, UNCHANGED <<chain, held, late>>
    PROVE  IInv' /\ (Deployed => Deployed')
  <1>1. PICK r : Suspends(t, r, pc) /\ r.timer = 0
    BY Going DEF Pcs, Rpcs, EarlyRpcs
  <1>2. r.waited + r.timer <= r.mode.timeout
    BY <1>1, RemainingFacts DEF Suspends, WaitPcs
  <1>3. pc \in WaitPcs /\ task[t].pc \in WaitPcs /\ UNCHANGED status
    BY DEF WaitPcs, Goto
  <1> QED
    BY <1>1, <1>2, <1>3, RemainingFacts, Awaiting

LEMMA PollIInv ==
    ASSUME IInv, NEW t \in Tasks, Poll(t)
    PROVE  IInv' /\ (Deployed => Deployed')
  <1>1. task[t].pc = "poll" /\ UNCHANGED <<chain, held, late>>
    BY DEF Poll
  <1>2. CASE Reject(t, "retryable")
    BY <1>1, <1>2, Rejecting
  <1>3. CASE Goto(t, "receipt")
    BY <1>1, <1>3, Looping
  <1> QED
    BY <1>2, <1>3 DEF Poll, map_kms_error

LEMMA WakeIInv ==
    ASSUME IInv, NEW t \in Tasks, Wake(t)
    PROVE  IInv' /\ (Deployed => Deployed')
  BY Looping DEF Wake

(* Sleeping is cut at the deadline; a verdict is about the transaction as it *)
(* is, because accepted results do not change.                               *)
LEMMA OnObservationIInv ==
    ASSUME IInv, NEW t \in Tasks, task[t].pc \in {"receipt", "status"}, task[t].reply # "none",
           OnObservation(t, classify(task[t].reply)), UNCHANGED <<chain, held, late>>
    PROVE  IInv' /\ (Deployed => Deployed')
  <1>1. /\ Told(task[t], submission[t], hash[t], status[t], tx, revised) /\ task[t] \in Task
        /\ task[t].pc \in WaitPcs /\ submission[t] = "taken"
    BY RemainingFacts, SMTT(30) DEF IInv, FunctionsOK, Local, WaitPcs
  <1>2. CASE classify(task[t].reply) = "Accepted"
    <2>1. Return(t, "Accepted") /\ task[t].reply = "succeeded"
      BY <1>2, SMTT(30) DEF OnObservation, classify
    <2> QED
      BY <1>1, <2>1, Returning DEF Told, Observing
  <1>3. CASE classify(task[t].reply) = "Reverted"
    <2>1. Reject(t, "final") /\ task[t].reply \in Reverts
      BY <1>3, SMTT(30) DEF OnObservation, map_kms_error, classify, Reverts
    <2>2. Reverted(hash[t], tx, revised)
      BY <1>1, <2>1, SMTT(30) DEF Told, Observing
    <2> QED
      BY <1>1, <2>1, <2>2, Rejecting
  <1>4. CASE classify(task[t].reply) \notin {"Accepted", "Reverted"}
    <2> DEFINE r == [task[t] EXCEPT !.pc = "nap", !.reply = "none", !.timer = NapFor(t)]
    <2>1. task' = [task EXCEPT ![t] = r] /\ UNCHANGED status
      BY <1>4, SMTT(30) DEF OnObservation, IInv, FunctionsOK
    <2>2. NapFor(t) \in Nat /\ task[t].waited + NapFor(t) <= task[t].mode.timeout
      BY <1>1, RemainingFacts DEF NapFor
    <2>3. r \in Task /\ r.pc = "nap" /\ r.reply = "none" /\ r.mode = task[t].mode
          /\ r.failure = task[t].failure /\ r.waited = task[t].waited /\ r.timer = NapFor(t)
      BY <1>1, <2>2, Zenon DEF Task, Pcs, Replies
    <2> HIDE DEF r
    <2>4. Suspends(t, r, "nap") /\ r.waited + r.timer <= r.mode.timeout /\ "nap" \in WaitPcs
      BY <2>1, <2>2, <2>3 DEF Suspends, WaitPcs
    <2> QED
      BY <1>1, <2>1, <2>4, RemainingFacts, Awaiting
  <1> QED
    BY <1>2, <1>3, <1>4, SMTT(30)

LEMMA OnReceiptIInv ==
    ASSUME IInv, NEW t \in Tasks, OnReceipt(t)
    PROVE  IInv' /\ (Deployed => Deployed')
  <1>1. /\ task[t] \in Task /\ task[t].pc = "receipt" /\ task[t].reply # "none"
        /\ task[t].pc \in WaitPcs /\ UNCHANGED <<chain, held, late>>
    BY DEF IInv, FunctionsOK, OnReceipt, WaitPcs
  <1>2. CASE task[t].reply \in {"notfound", "transport"}
    <2> DEFINE why == IF task[t].reply = "notfound" THEN "missing" ELSE "failed"
    <2> DEFINE r == [task[t] EXCEPT !.pc = "status", !.reply = "none", !.receipt = why]
    <2>1. task' = [task EXCEPT ![t] = r] /\ UNCHANGED status
      BY <1>2 DEF OnReceipt, IInv, FunctionsOK
    <2>2. r \in Task /\ r.pc = "status" /\ r.reply = "none" /\ r.mode = task[t].mode
          /\ r.failure = task[t].failure /\ r.waited = task[t].waited /\ r.timer = task[t].timer
      BY <1>1, ZenonT(30) DEF Task, Pcs, Replies, Rpcs
    <2> HIDE DEF r
    <2>3. Suspends(t, r, "status") /\ r.waited + r.timer <= r.mode.timeout /\ "status" \in WaitPcs
      BY <1>1, <2>1, <2>2, RemainingFacts DEF Suspends, WaitPcs
    <2> QED
      BY <1>1, <2>1, <2>3, RemainingFacts, Awaiting
  <1>3. CASE task[t].reply \notin {"notfound", "transport"}
    BY <1>1, <1>3, OnObservationIInv DEF OnReceipt
  <1> QED
    BY <1>2, <1>3

LEMMA OnStatusIInv ==
    ASSUME IInv, NEW t \in Tasks, OnStatus(t)
    PROVE  IInv' /\ (Deployed => Deployed')
  <1>1. task[t].pc = "status" /\ task[t].reply # "none" /\ UNCHANGED <<chain, held, late>>
    BY DEF OnStatus
  <1>2. CASE Reject(t, "retryable")
    BY <1>1, <1>2, Rejecting
  <1>3. CASE OnObservation(t, classify(task[t].reply))
    BY <1>1, <1>3, OnObservationIInv
  <1> QED
    BY <1>2, <1>3 DEF OnStatus, map_kms_error

LEMMA ExpireIInv ==
    ASSUME IInv, NEW t \in Tasks, Expire(t)
    PROVE  IInv' /\ (Deployed => Deployed')
  BY Rejecting DEF Expire, map_kms_error

-----------------------------------------------------------------------------
(* The environment.  An answer tells the truth at the moment it is given.    *)
Hears(t, r, a) ==
    /\ task' = [task EXCEPT ![t] = r] /\ r \in Task
    /\ r.pc = task[t].pc /\ r.reply = a /\ r.mode = task[t].mode
    /\ r.failure = task[t].failure /\ r.waited = task[t].waited /\ r.timer = task[t].timer

LEMMA Answered ==
    ASSUME IInv, NEW t \in Tasks, NEW a \in Replies,
           task' = [task EXCEPT ![t] = [@ EXCEPT !.reply = a]]
    PROVE  \E r : Hears(t, r, a)
  <1> DEFINE r == [task[t] EXCEPT !.reply = a]
  <1>1. task' = [task EXCEPT ![t] = r] /\ task[t] \in Task
    BY DEF IInv, FunctionsOK
  <1>2. r \in Task /\ r.pc = task[t].pc /\ r.reply = a /\ r.mode = task[t].mode
        /\ r.failure = task[t].failure /\ r.waited = task[t].waited /\ r.timer = task[t].timer
    BY <1>1 DEF Task
  <1> HIDE DEF r
  <1> QED
    BY <1>1, <1>2, Zenon DEF Hears

LEMMA Answering ==
    ASSUME IInv, NEW t \in Tasks, NEW a \in Replies \ {"none"},
           task[t].pc \in Rpcs \cup {"resolve"},
           task' = [task EXCEPT ![t] = [@ EXCEPT !.reply = a]],
           UNCHANGED <<status, chain, held, late>>,
           task[t].pc = "check" =>
               /\ a \in {"deployed", "notfound", "transport"}
               /\ a = "deployed" => Deployed
               /\ a = "notfound" => ~Deployed,
           task[t].pc = "resolve" => a \in {"ok", "refused", "transport"},
           task[t].pc = "estimate" => a \in EstimateReplies,
           task[t].pc = "send" => a = "transport",
           task[t].pc \in {"receipt", "status"} => a = tx[hash[t]] \/ a \in {"notfound", "transport"}
    PROVE  IInv' /\ (Deployed => Deployed')
  <1>1. /\ LocalInv(task[t], submission[t], status[t]) /\ SharedInv
        /\ Told(task[t], submission[t], hash[t], status[t], tx, revised)
        /\ hash[t] \in Hashes \cup {NoTx}
    BY DEF IInv, FunctionsOK, Local
  <1>2. PICK r : Hears(t, r, a)
    BY Answered, Zenon
  <1>3. task' = [task EXCEPT ![t] = r] /\ r \in Task /\ r.pc = task[t].pc /\ r.reply = a
        /\ r.mode = task[t].mode /\ r.failure = task[t].failure /\ r.waited = task[t].waited
        /\ r.timer = task[t].timer
    BY <1>2, Zenon DEF Hears
  <1>4. LocalInv(r, submission[t], status[t])
    <2>1. Timed(r) /\ Typed(r, submission[t], status[t]) /\ Recorded(r, status[t])
      BY <1>1, <1>3 DEF LocalInv, Typed, Timed, Recorded
    <2>2. Sent(r, submission[t]) /\ Replied(r) /\ Failed(r, submission[t])
      BY <1>1, <1>3 DEF LocalInv, Sent, Replied, Failed, Rpcs, EarlyRpcs, SendReplies, EstimateReplies
    <2> QED
      BY <2>1, <2>2 DEF LocalInv
  <1>5. Told(r, submission[t], hash[t], status[t], tx, revised)
    <2>1. Observing(r) => hash[t] \in Hashes
      BY <1>1, <1>3 DEF LocalInv, Sent, WaitPcs, Told, Observing
    <2>2. Observing(r) /\ r.reply \in {"succeeded"} \cup Reverts => r.reply = tx[hash[t]]
      BY <1>3 DEF Observing, Reverts
    <2> QED
      BY <1>1, <1>3, <2>1, <2>2 DEF Told, Succeeded, Reverted
  <1>6. t \in late => /\ r.pc \in {"check", "done", "dropped"}
                      /\ r.pc = "check" => r.reply # "notfound"
    BY <1>1, <1>3 DEF SharedInv
  <1>7. (r.pc = "check" /\ r.reply = "deployed") => Deployed
    BY <1>3
  <1> QED
    BY <1>3, <1>4, <1>5, <1>6, <1>7, Moving, Zenon

LEMMA ResolverReturnsIInv ==
    ASSUME IInv, NEW t \in Tasks, ResolverReturns(t)
    PROVE  IInv' /\ (Deployed => Deployed')
  <1>1. PICK a \in {"ok", "refused", "transport"} : task' = [task EXCEPT ![t] = [@ EXCEPT !.reply = a]]
    BY Zenon DEF ResolverReturns, Answer
  <1>2. task[t].pc = "resolve" /\ UNCHANGED <<status, chain, held, late>>
    BY DEF ResolverReturns
  <1> QED
    BY <1>1, <1>2, Answering, Zenon DEF Replies

LEMMA ServeIInv ==
    ASSUME IInv, NEW t \in Tasks, Serve(t)
    PROVE  IInv' /\ (Deployed => Deployed')
  <1>1. task[t].pc \in Rpcs \ {"send"} /\ UNCHANGED <<status, chain, held, late>>
    BY DEF Serve
  <1>2. PICK a \in Answers(t) \cup {"transport"} : task' = [task EXCEPT ![t] = [@ EXCEPT !.reply = a]]
    BY Zenon DEF Serve, Answer
  <1>3. CASE task[t].pc = "check"
    <2>1. Answers(t) = {IF Deployed THEN "deployed" ELSE "notfound"}
      BY <1>3 DEF Answers
    <2> QED
      BY <1>1, <1>2, <1>3, <2>1, Answering, Zenon DEF Replies
  <1>4. CASE task[t].pc = "estimate"
    <2>1. Answers(t) = {"ok", "refused", "degraded"}
      BY <1>4 DEF Answers
    <2> QED
      BY <1>1, <1>2, <1>4, <2>1, Answering, Zenon DEF Replies, EstimateReplies
  <1>5. CASE task[t].pc \in {"receipt", "status"}
    <2>1. hash[t] \in Hashes /\ tx[hash[t]] \in TxStates
      BY <1>5, RemainingFacts DEF IInv, FunctionsOK, Local, Told, WaitPcs
    <2>2. a \in {tx[hash[t]], "notfound", "transport"} /\ a # "unknown"
      BY <1>2, <1>5, SMTT(30) DEF Answers, Found
    <2>3. a \in Replies \ {"none"}
      BY <2>1, <2>2 DEF Replies, TxStates
    <2> QED
      BY <1>1, <1>2, <1>5, <2>2, <2>3, Answering, Zenon
  <1> QED
    BY <1>1, <1>3, <1>4, <1>5 DEF Rpcs, EarlyRpcs

LEMMA RequestTimesOutIInv ==
    ASSUME IInv, NEW t \in Tasks, RequestTimesOut(t)
    PROVE  IInv' /\ (Deployed => Deployed')
  <1>1. /\ task[t].pc \in EarlyRpcs /\ UNCHANGED <<status, chain, held, late>>
        /\ task' = [task EXCEPT ![t] = [@ EXCEPT !.reply = "transport"]]
    BY DEF RequestTimesOut, Answer
  <1> QED
    BY <1>1, Answering, Zenon DEF Replies, EstimateReplies, Rpcs, EarlyRpcs

(* The answer to a submission comes with what the node did with it; a        *)
(* handler that is no longer waiting for it sees nothing.                    *)
LEMMA Deciding ==
    ASSUME IInv, NEW t \in Tasks, NEW m \in {"taken", "refused"},
           NEW replies \in SUBSET (SendReplies \ {"none"}), Decide(t, m, replies),
           Forward,
           "ok" \in replies => m = "taken",
           "refused" \in replies \/ "duplicate" \in replies => m = "refused"
    PROVE  IInv' /\ (Deployed => Deployed')
  <1>1. /\ LocalInv(task[t], submission[t], status[t]) /\ SharedInv
        /\ Told(task[t], submission[t], hash[t], status[t], tx, revised)
        /\ hash[t] \in Hashes /\ submission[t] = "sent" /\ task[t] \in Task
    BY DEF IInv, FunctionsOK, Local, Told, Decide
  <1>2. /\ submission' = [submission EXCEPT ![t] = m] /\ hash' = [hash EXCEPT ![t] = hash[t]]
        /\ status' = [status EXCEPT ![t] = status[t]] /\ held' = held /\ late' = late
    BY DEF Decide, IInv, FunctionsOK
  <1>3. t \notin late /\ (status[t] = "Completed" => Deployed)
        /\ ((task[t].pc = "check" /\ task[t].reply = "deployed") => Deployed)
    BY <1>1 DEF SharedInv
  <1>4. task[t].failure # "final"
    BY <1>1 DEF LocalInv, Failed
  <1>5. CASE task[t].pc = "send" /\ task[t].reply = "none"
    <2>1. PICK a \in replies : task' = [task EXCEPT ![t] = [@ EXCEPT !.reply = a]]
      BY <1>5 DEF Decide, Answer
    <2>2. a \in Replies /\ a \in SendReplies
      BY DEF SendReplies, EstimateReplies, Replies
    <2>3. PICK r : Hears(t, r, a)
      BY <2>1, <2>2, Answered, ZenonT(30)
    <2>4. task' = [task EXCEPT ![t] = r] /\ r \in Task /\ r.pc = "send" /\ r.reply = a
          /\ r.mode = task[t].mode /\ r.failure = task[t].failure /\ r.waited = task[t].waited
      BY <1>5, <2>3 DEF Hears
    <2>5. LocalInv(r, m, status[t])
      <3>1. Timed(r) /\ Typed(r, m, status[t]) /\ Recorded(r, status[t])
        BY <1>1, <1>5, <2>4, SMTT(30) DEF LocalInv, Typed, Submissions, Timed, Recorded, WaitPcs
      <3>2. Sent(r, m) /\ Replied(r) /\ Failed(r, m)
        BY <1>1, <1>5, <2>2, <2>4, SMTT(30) DEF LocalInv, Sent, Replied, Failed, WaitPcs
      <3> QED
        BY <3>1, <3>2 DEF LocalInv
    <2>6. Told(r, m, hash[t], status[t], tx', revised')
      <3>1. Told(task[t], submission[t], hash[t], status[t], tx', revised')
        BY <1>1, StaysTold, SMTT(30)
      <3> QED
        BY <1>1, <1>4, <2>4, <3>1, SMTT(30) DEF Told, Observing
    <2> QED
      BY <1>1, <1>2, <1>3, <2>4, <2>5, <2>6, OneTask, Zenon
  <1>6. CASE ~(task[t].pc = "send" /\ task[t].reply = "none")
    <2>1. task' = [task EXCEPT ![t] = task[t]]
      BY <1>6 DEF Decide, IInv, FunctionsOK
    <2>2. LocalInv(task[t], m, status[t])
      <3>1. Typed(task[t], m, status[t]) /\ Failed(task[t], m)
        BY <1>1, SMTT(30) DEF LocalInv, Typed, Submissions, Failed
      <3>2. Sent(task[t], m)
        BY <1>1, SMTT(30) DEF LocalInv, Sent
      <3> QED
        BY <1>1, <3>1, <3>2 DEF LocalInv
    <2>3. Told(task[t], m, hash[t], status[t], tx', revised')
      <3>1. Told(task[t], submission[t], hash[t], status[t], tx', revised')
        BY <1>1, StaysTold
      <3> QED
        BY <1>1, <1>4, <3>1, SMTT(30) DEF Told
    <2> QED
      BY <1>1, <1>2, <1>3, <2>1, <2>2, <2>3, OneTask, Zenon
  <1> QED
    BY <1>5, <1>6

LEMMA RefuseIInv ==
    ASSUME IInv, NEW t \in Tasks, Refuse(t)
    PROVE  IInv' /\ (Deployed => Deployed')
  <1> DEFINE replies == {"refused", "degraded", "transport"}
                            \cup IF tx[hash[t]] = "unknown" THEN {} ELSE {"duplicate"}
  <1>1. Decide(t, "refused", replies) /\ UNCHANGED tx /\ UNCHANGED revised
    BY DEF Refuse, Decide
  <1>2. replies \in SUBSET (SendReplies \ {"none"}) /\ "ok" \notin replies
    BY DEF SendReplies, EstimateReplies
  <1>3. Forward
    BY <1>1, NetworkRests
  <1> HIDE DEF replies
  <1> QED
    BY <1>1, <1>2, <1>3, Deciding

LEMMA AdmitIInv ==
    ASSUME IInv, NEW t \in Tasks, Admit(t)
    PROVE  IInv' /\ (Deployed => Deployed')
  <1> DEFINE replies == {"ok", "degraded", "transport"}
  <1>1. /\ Decide(t, "taken", replies) /\ tx' = [tx EXCEPT ![hash[t]] = "received"]
        /\ tx[hash[t]] = "unknown" /\ UNCHANGED <<hash, revised>>
        /\ submission' = [submission EXCEPT ![t] = "taken"]
    BY DEF Admit, Decide
  <1>2. replies \in SUBSET (SendReplies \ {"none"})
    BY DEF SendReplies, EstimateReplies
  <1>3. submission'[t] = "taken"
    BY <1>1 DEF IInv, FunctionsOK
  <1>4. Forward
    BY <1>1, <1>3, Zenon DEF IInv, FunctionsOK, Forward, TxStates, Reverts
  <1>5. "refused" \notin replies /\ "duplicate" \notin replies
    OBVIOUS
  <1> HIDE DEF replies
  <1> QED
    BY <1>1, <1>2, <1>4, <1>5, Deciding

(* The sequencer moves a transaction of which it knows.                      *)
LEMMA SequenceIInv ==
    ASSUME IInv, NEW h \in Hashes, Sequence(h)
    PROVE  IInv' /\ (Deployed => Deployed')
  <1>1. UNCHANGED <<status, task, submission, hash, held, late>>
    BY DEF Sequence
  <1>2. PICK x \in TxStates :
            /\ tx[h] \in {"received", "pre_succeeded", "pre_reverted"}
            /\ tx' = [tx EXCEPT ![h] = x]
            /\ tx[h] \in Reverts => x \in Reverts \/ h \in revised'
            /\ revised \subseteq revised' /\ revised' \subseteq revised \cup {h}
    BY DEF Sequence, PreConfirmed, Confirmed, TxStates, Reverts
  <1>3. /\ tx' \in [Hashes -> TxStates] /\ revised' \subseteq Hashes
        /\ tx'[h] = x /\ \A g \in Hashes \ {h} : tx'[g] = tx[g]
    BY <1>2 DEF IInv, FunctionsOK
  <1>4. Forward
    BY <1>2, <1>3 DEF Forward
  <1>5. Deployed => Deployed'
    BY <1>4 DEF Deployed, Forward
  <1>6. FunctionsOK'
    BY <1>1, <1>3 DEF IInv, FunctionsOK
  <1>7. SharedInv'
    BY <1>1, <1>5 DEF IInv, SharedInv
  <1>8. KnownInv'
    BY <1>1, <1>2, <1>3, SMTT(30) DEF IInv, KnownInv
  <1>9. \A u \in Tasks : /\ LocalInv(task'[u], submission'[u], status'[u])
                         /\ Told(task'[u], submission'[u], hash'[u], status'[u], tx', revised')
    <2> TAKE u \in Tasks
    <2>1. LocalInv(task[u], submission[u], status[u])
          /\ Told(task[u], submission[u], hash[u], status[u], tx, revised)
      BY SMTT(30) DEF IInv, Local
    <2>2. Told(task[u], submission[u], hash[u], status[u], tx', revised')
      BY <1>4, <2>1, StaysTold, SMTT(30)
    <2> QED
      BY <1>1, <2>1, <2>2, SMTT(30)
  <1> QED
    BY <1>5, <1>6, <1>7, <1>8, <1>9, Gathered

(* Time passes only where nothing is due, so no wait passes its deadline.    *)
LEMMA TickIInv ==
    ASSUME IInv, Tick
    PROVE  IInv' /\ (Deployed => Deployed')
  <1> DEFINE w(t) == IF Waiting(t) THEN task[t].waited + 1 ELSE task[t].waited
             k(t) == IF task[t].timer > 0 THEN task[t].timer - 1 ELSE 0
             r(t) == [task[t] EXCEPT !.waited = w(t), !.timer = k(t)]
  <1>1. /\ task' = [t \in Tasks |-> r(t)] /\ UNCHANGED <<status, chain, late>>
        /\ \A t \in Tasks : ~Due(t)
    BY ZenonT(30) DEF Tick
  <1>2. ASSUME NEW t \in Tasks
        PROVE  /\ r(t) \in Task /\ r(t).pc = task[t].pc /\ r(t).reply = task[t].reply
               /\ r(t).failure = task[t].failure
               /\ LocalInv(r(t), submission[t], status[t])
               /\ Told(r(t), submission[t], hash[t], status[t], tx, revised)
    <2>1. LocalInv(task[t], submission[t], status[t]) /\ task[t] \in Task /\ ~Due(t)
          /\ Told(task[t], submission[t], hash[t], status[t], tx, revised)
      BY <1>1, ZenonT(30) DEF IInv, FunctionsOK, Local
    <2>2. task[t].waited \in 0..MaxWaitTimeout /\ task[t].timer \in Nat /\ MaxWaitTimeout \in Nat
      BY <2>1, WaitAssumption, SMTT(30) DEF Task
    <2>3. ASSUME Waiting(t)
          PROVE  /\ task[t].waited + 1 <= MaxWaitTimeout
                 /\ task[t].waited + 1 + (IF task[t].timer > 0 THEN task[t].timer - 1 ELSE 0)
                        <= task[t].mode.timeout
      <3>1. task[t].waited + task[t].timer <= task[t].mode.timeout /\ task[t].mode.timeout \in Nat
            /\ task[t].mode.timeout <= MaxWaitTimeout
        BY <2>1, <2>3, ModeFacts, SMTT(30) DEF LocalInv, Timed, Waiting, WaitPcs, validate_wait_mode, Rpcs
      <3>2. task[t].timer = 0 => task[t].waited < task[t].mode.timeout
        BY <2>1, <2>2, <2>3, <3>1, SMTT(30) DEF Due, Waiting, Remaining
      <3> QED
        BY <2>2, <3>1, <3>2, SMTT(30)
    <2>4. w(t) \in 0..MaxWaitTimeout /\ k(t) \in Nat
      BY <2>2, <2>3
    <2>5. /\ r(t) \in Task /\ r(t).pc = task[t].pc /\ r(t).reply = task[t].reply
          /\ r(t).failure = task[t].failure /\ r(t).mode = task[t].mode
          /\ r(t).waited = w(t) /\ r(t).timer = k(t)
      <3> HIDE DEF w, k
      <3> QED
        BY <2>1, <2>4, ZenonT(30) DEF Task
    <2> HIDE DEF r
    <2>6. Timed(r(t))
      BY <2>1, <2>2, <2>3, <2>5, Zenon DEF LocalInv, Timed, Waiting, WaitPcs
    <2>7. /\ Typed(r(t), submission[t], status[t]) /\ Recorded(r(t), status[t])
          /\ Sent(r(t), submission[t]) /\ Replied(r(t)) /\ Failed(r(t), submission[t])
      BY <2>1, <2>5, ZenonT(30) DEF LocalInv, Typed, Recorded, Sent, Replied, Failed
    <2>8. Told(r(t), submission[t], hash[t], status[t], tx, revised)
      BY <2>1, <2>5, Zenon DEF Told, Observing
    <2> QED
      BY <2>5, <2>6, <2>7, <2>8, SMTT(30) DEF LocalInv
  <1> HIDE DEF r, w, k
  <1>3. \A t \in Tasks : task'[t] = r(t)
    BY <1>1
  <1>4. FunctionsOK'
    <2>1. task' \in [Tasks -> Task]
      BY <1>1, <1>2
    <2>2. held' \in [Tasks -> 0..HeldCap]
      <3> DEFINE h(t) == IF task[t].pc \notin {"idle", "done", "dropped"} /\ held[t] < HeldCap
                         THEN held[t] + 1 ELSE held[t]
      <3>1. held' = [t \in Tasks |-> h(t)]
        BY Zenon DEF Tick
      <3>2. \A t \in Tasks : h(t) \in 0..HeldCap
        <4> TAKE t \in Tasks
        <4>1. held[t] \in 0..HeldCap /\ HeldCap \in Nat
          BY WaitAssumption DEF IInv, FunctionsOK
        <4>2. h(t) = held[t] \/ (held[t] < HeldCap /\ h(t) = held[t] + 1)
          OBVIOUS
        <4> HIDE DEF h
        <4> QED
          BY <4>1, <4>2
      <3> HIDE DEF h
      <3> QED
        BY <3>1, <3>2, SMTT(30)
    <2> QED
      BY <1>1, <2>1, <2>2, SMTT(30) DEF IInv, FunctionsOK, chain
  <1>5. Deployed' <=> Deployed
    BY <1>1, SMTT(30) DEF Deployed, chain
  <1>6. SharedInv'
    BY <1>1, <1>2, <1>3, <1>5 DEF IInv, SharedInv, chain
  <1>7. KnownInv'
    BY <1>1 DEF IInv, KnownInv, chain
  <1>8. submission' = submission /\ hash' = hash /\ tx' = tx /\ revised' = revised /\ status' = status
    BY <1>1, SMTT(30) DEF chain
  <1>9. \A t \in Tasks : /\ LocalInv(task'[t], submission'[t], status'[t])
                         /\ Told(task'[t], submission'[t], hash'[t], status'[t], tx', revised')
    BY <1>2, <1>3, <1>8, SMTT(30)
  <1> QED
    BY <1>4, <1>5, <1>6, <1>7, <1>9, Gathered, SMTT(30)

LEMMA InitIInv ==
    ASSUME Init
    PROVE  IInv
  <1>1. /\ Idle \in Task /\ Idle.pc = "idle" /\ Idle.reply = "none" /\ Idle.failure = "none"
        /\ Idle.waited = 0 /\ Idle.timer = 0
    BY WaitAssumption DEF Idle, Task, Pcs, Replies
  <1>2. FunctionsOK
    BY <1>1, WaitAssumption, SMTT(30) DEF Init, FunctionsOK, Statuses, Submissions, TxStates
  <1>3. LocalInv(Idle, "unsent", "none")
    BY <1>1 DEF LocalInv, Typed, Recorded, Sent, Replied, Failed, Timed, WaitPcs,
                Rpcs, EarlyRpcs, Statuses, Submissions
  <1>4. Told(Idle, "unsent", NoTx, "none", tx, revised)
    BY <1>1 DEF Told, Observing
  <1>5. \A t \in Tasks :
            task[t] = Idle /\ submission[t] = "unsent" /\ hash[t] = NoTx /\ status[t] = "none"
    BY Zenon DEF Init
  <1>6. SharedInv /\ KnownInv
    BY <1>1, <1>5 DEF Init, SharedInv, KnownInv
  <1> QED
    BY <1>2, <1>3, <1>4, <1>5, <1>6 DEF IInv, Local

(* Every step preserves the invariant, and no step undoes a deployment.      *)
LEMMA NextIInv ==
    ASSUME IInv, [Next]_vars
    PROVE  IInv' /\ (Deployed => Deployed')
  <1>1. CASE Tick
    BY <1>1, TickIInv
  <1>2. ASSUME NEW t \in Tasks, NEW m \in Modes, Begin(t, m)
        PROVE  IInv' /\ (Deployed => Deployed')
    BY <1>2, BeginIInv
  <1>3. ASSUME NEW t \in Tasks, Step(t)
        PROVE  IInv' /\ (Deployed => Deployed')
    BY <1>3, RunIInv, PrepareIInv, OnResolveIInv, OnCheckIInv, OnEstimateIInv, OnSendIInv,
       RequestTimesOutIInv, PollIInv, OnReceiptIInv, OnStatusIInv, ExpireIInv, WakeIInv DEF Step
  <1>4. ASSUME NEW t \in Tasks,
               Drop(t) \/ ResolverReturns(t) \/ Serve(t) \/ Refuse(t) \/ Admit(t)
        PROVE  IInv' /\ (Deployed => Deployed')
    BY <1>4, DropIInv, ResolverReturnsIInv, ServeIInv, RefuseIInv, AdmitIInv
  <1>5. ASSUME NEW h \in Hashes, Sequence(h)
        PROVE  IInv' /\ (Deployed => Deployed')
    BY <1>5, SequenceIInv
  <1>6. CASE UNCHANGED vars
    <2>1. /\ status' = status /\ task' = task /\ submission' = submission /\ hash' = hash
          /\ tx' = tx /\ revised' = revised /\ held' = held /\ late' = late
      BY <1>6 DEF vars
    <2>2. Deployed' <=> Deployed
      BY <2>1 DEF Deployed
    <2>3. FunctionsOK' /\ KnownInv'
      BY <2>1 DEF IInv, FunctionsOK, KnownInv
    <2>4. SharedInv'
      BY <2>1, <2>2, SMTT(30) DEF IInv, SharedInv
    <2>5. \A u \in Tasks : /\ LocalInv(task'[u], submission'[u], status'[u])
                           /\ Told(task'[u], submission'[u], hash'[u], status'[u], tx', revised')
      BY <2>1 DEF IInv, Local
    <2> QED
      BY <2>2, <2>3, <2>4, <2>5, Gathered
  <1> QED
    BY <1>1, <1>2, <1>3, <1>4, <1>5, <1>6 DEF Next

-----------------------------------------------------------------------------
(* The inductive invariant holds in every behaviour of the handlers, the     *)
(* node and the sequencer.                                                   *)
THEOREM IInvHolds == Spec => []IInv
  <1>1. Init => IInv
    BY InitIInv
  <1>2. IInv /\ [Next]_vars => IInv'
    BY NextIInv
  <1> QED
    BY <1>1, <1>2, PTL DEF Spec

(* The handlers, transactions and recorded statuses keep their types.        *)
THEOREM TypeCorrect == Spec => []TypeOK
  <1>1. IInv => TypeOK
    BY SMTT(30) DEF IInv, FunctionsOK, TypeOK, Statuses
  <1> QED
    BY <1>1, IInvHolds, PTL

(* deploy_account reports Accepted only for its own accepted and successful  *)
(* transaction, and Completed only for a deployed account, whatever the node *)
(* and the sequencer do.                                                     *)
THEOREM DeployedClaimsTrue == Spec => []DeployedClaimsAreTrue
  <1>1. IInv => DeployedClaimsAreTrue
    BY Zenon DEF IInv, SharedInv, Local, Told, Succeeded, DeployedClaimsAreTrue
  <1> QED
    BY <1>1, IInvHolds, PTL

(* A failure deploy_account marks as not retryable is never about a          *)
(* submission the node may yet take, nor about one it took unless the        *)
(* transaction was seen reverted: if it can still deploy the account, then   *)
(* through the equal submission of another request, or after the sequencer   *)
(* took the revert back.  Whatever results the sequencer revises.            *)
THEOREM FinalFailureFinal == Spec => []FinalFailureNeverLandsItself
  <1>1. ASSUME IInv, NEW t \in Tasks, task[t].failure = "final"
        PROVE  /\ submission[t] # "sent"
               /\ submission[t] = "taken" => tx[hash[t]] \in Reverts \/ hash[t] \in revised
               /\ CanLand(hash[t]) =>
                     \/ hash[t] \in revised
                     \/ \E u \in Tasks \ {t} : hash[u] = hash[t] /\ submission[u] = "taken"
    <2>1. /\ Failed(task[t], submission[t])
          /\ Told(task[t], submission[t], hash[t], status[t], tx, revised)
      BY <1>1, SMTT(30) DEF IInv, Local, LocalInv
    <2>2. submission[t] # "sent"
      BY <1>1, <2>1 DEF Failed
    <2>3. submission[t] = "taken" => Reverted(hash[t], tx, revised)
      BY <1>1, <2>1 DEF Told
    <2>4. ASSUME CanLand(hash[t]), hash[t] \notin revised
          PROVE  \E u \in Tasks \ {t} : hash[u] = hash[t] /\ submission[u] = "taken"
      <3>1. hash[t] \in Hashes /\ tx[hash[t]] # "unknown" /\ tx[hash[t]] \notin Reverts
        BY <2>4 DEF CanLand, Reverts
      <3>2. PICK u \in Tasks : submission[u] = "taken" /\ hash[u] = hash[t]
        BY <1>1, <3>1 DEF IInv, KnownInv
      <3>3. submission[t] # "taken"
        BY <2>3, <2>4, <3>1 DEF Reverted
      <3> QED
        BY <3>2, <3>3
    <2> QED
      BY <2>2, <2>3, <2>4, SMTT(30) DEF Reverted
  <1>2. IInv => FinalFailureNeverLandsItself
    BY <1>1, SMTT(30) DEF FinalFailureNeverLandsItself
  <1> QED
    BY <1>2, IInvHolds, PTL

(* wait_for_acceptance never outlasts its deadline, for any timeout and any  *)
(* poll interval validate_wait_mode admits.                                  *)
THEOREM DeadlineKept == Spec => []WaitEndsByDeadline
  <1>1. IInv => WaitEndsByDeadline
    BY DEF IInv, Local, LocalInv, Timed, Waiting, WaitPcs, WaitEndsByDeadline
  <1> QED
    BY <1>1, IInvHolds, PTL

(* A request that finds the account deployed when it asks never submits.     *)
THEOREM RetriesNeverResubmit == Spec => []RetryNeverResubmits
  <1>1. IInv => RetryNeverResubmits
    BY Zenon DEF IInv, FunctionsOK, SharedInv, RetryNeverResubmits
  <1> QED
    BY <1>1, IInvHolds, PTL

-----------------------------------------------------------------------------
(* deploy_account implements its promise.  A step that writes no status maps *)
(* to a stutter or to the account appearing; one that writes a final status  *)
(* leaves the chain alone, so what the invariant says of the written status  *)
(* held when it was written.                                                 *)
LEMMA Silent ==
    ASSUME UNCHANGED status, Deployed => Deployed'
    PROVE  [Promise!Next]_<<status, Deployed>>
  <1>1. CASE Deployed' = Deployed
    BY <1>1
  <1>2. CASE Deployed' # Deployed
    <2>1. ~Deployed /\ Deployed' = TRUE
      BY <1>2 DEF Deployed
    <2> QED
      BY <2>1, Zenon DEF Promise!Next, Promise!Land
  <1> QED
    BY <1>1, <1>2

Settled == {"Submitted", "Rejected", "Accepted", "Completed"}

(* The handler of t writes a final status.                                   *)
Settles(t) ==
    /\ UNCHANGED tx
    /\ \E s \in Settled : status' = [status EXCEPT ![t] = s]

LEMMA Settling ==
    ASSUME IInv, IInv', NEW t \in Tasks, Settles(t), status[t] = "Running"
    PROVE  [Promise!Next]_<<status, Deployed>>
  <1>1. PICK s \in Settled : status' = [status EXCEPT ![t] = s]
    BY Zenon DEF Settles
  <1>2. Deployed' = Deployed
    BY DEF Settles, Deployed
  <1>3. status'[t] = s
    BY <1>1 DEF IInv, FunctionsOK
  <1>4. s \in {"Accepted", "Completed"} => Deployed
    <2>1. s = "Accepted" => hash'[t] \in Hashes /\ tx'[hash'[t]] = "succeeded"
      BY <1>3, ZenonT(30) DEF IInv, Local, Told, Succeeded
    <2>2. s = "Completed" => Deployed'
      BY <1>3 DEF IInv, SharedInv
    <2> QED
      BY <1>2, <2>1, <2>2, SMTT(30) DEF Deployed
  <1>5. s \in {"Submitted", "Rejected"} \cup IF Deployed THEN {"Accepted", "Completed"} ELSE {}
    BY <1>4 DEF Settled
  <1>6. Promise!Settle(t)
    BY <1>1, <1>2, <1>5, Zenon DEF Promise!Settle
  <1> QED
    BY <1>6 DEF Promise!Next

(* A handler in progress writes no status, or a final one.                   *)
LEMMA Writes ==
    ASSUME NEW t \in Tasks, Step(t), ~Run(t)
    PROVE  UNCHANGED status \/ Settles(t)
  <1>1. ASSUME NEW f, Reject(t, f), UNCHANGED tx
        PROVE  Settles(t)
    BY <1>1 DEF Reject, Settles, Settled
  <1>2. ASSUME NEW s \in Settled, Return(t, s), UNCHANGED tx
        PROVE  Settles(t)
    BY <1>2, Zenon DEF Return, Settles
  <1>3. ASSUME NEW o \in {"Accepted", "Reverted", "Pending"}, OnObservation(t, o), UNCHANGED tx
        PROVE  UNCHANGED status \/ Settles(t)
    <2>1. CASE o = "Accepted"
      BY <1>2, <1>3, <2>1 DEF OnObservation, Settled
    <2>2. CASE o = "Reverted"
      BY <1>1, <1>3, <2>2 DEF OnObservation
    <2>3. CASE o = "Pending"
      BY <1>3, <2>3 DEF OnObservation
    <2> QED
      BY <2>1, <2>2, <2>3
  <1>4. \A a : classify(a) \in {"Accepted", "Reverted", "Pending"}
    BY DEF classify
  <1>5. CASE Prepare(t) \/ OnResolve(t)
    BY <1>1, <1>5 DEF Prepare, OnResolve, Goto, chain
  <1>6. CASE OnCheck(t)
    BY <1>1, <1>2, <1>6 DEF OnCheck, Goto, Settled, chain
  <1>7. CASE OnEstimate(t)
    BY <1>1, <1>7 DEF OnEstimate, Goto
  <1>8. CASE OnSend(t)
    BY <1>1, <1>2, <1>8 DEF OnSend, Goto, Settled, chain
  <1>9. CASE Poll(t) \/ Expire(t) \/ Wake(t) \/ RequestTimesOut(t)
    BY <1>1, <1>9 DEF Poll, Expire, Wake, RequestTimesOut, Goto, chain
  <1>10. CASE OnReceipt(t)
    BY <1>3, <1>4, <1>10, SMTT(30) DEF OnReceipt, chain
  <1>11. CASE OnStatus(t)
    BY <1>1, <1>3, <1>4, <1>11 DEF OnStatus, chain
  <1> QED
    BY <1>5, <1>6, <1>7, <1>8, <1>9, <1>10, <1>11 DEF Step

LEMMA StepKeepsPromise ==
    ASSUME IInv, IInv', [Next]_vars, Deployed => Deployed'
    PROVE  [Promise!Next]_<<status, Deployed>>
  <1>1. CASE UNCHANGED status
    BY <1>1, Silent
  <1>2. ASSUME NEW t \in Tasks, NEW m \in Modes, Begin(t, m)
        PROVE  [Promise!Next]_<<status, Deployed>>
    <2>1. status[t] = "none"
      BY <1>2 DEF Begin, IInv, Local, LocalInv, Recorded
    <2>2. status' = [status EXCEPT ![t] = "Queued"] /\ Deployed' = Deployed
      BY <1>2 DEF Begin, Deployed, chain
    <2>3. Promise!Queue(t)
      BY <2>1, <2>2 DEF Promise!Queue
    <2> QED
      BY <2>3 DEF Promise!Next
  <1>3. ASSUME NEW t \in Tasks, Run(t)
        PROVE  [Promise!Next]_<<status, Deployed>>
    <2>1. status[t] = "Queued"
      BY <1>3 DEF Run, IInv, Local, LocalInv, Recorded
    <2>2. status' = [status EXCEPT ![t] = "Running"] /\ Deployed' = Deployed
      BY <1>3 DEF Run, Deployed, chain
    <2>3. Promise!Start(t)
      BY <2>1, <2>2 DEF Promise!Start
    <2> QED
      BY <2>3 DEF Promise!Next
  <1>4. ASSUME NEW t \in Tasks, Step(t), ~Run(t)
        PROVE  [Promise!Next]_<<status, Deployed>>
    <2>1. task[t].pc \in {"prepare", "resolve", "poll", "nap"} \cup Rpcs
      BY <1>4, SMTT(30) DEF Step, Prepare, OnResolve, OnCheck, OnEstimate, OnSend, RequestTimesOut, Poll, OnReceipt,
                  OnStatus, Expire, Wake, Rpcs, EarlyRpcs
    <2>2. status[t] = "Running"
      BY <2>1, Zenon DEF IInv, Local, LocalInv, Recorded
    <2> QED
      BY <1>1, <1>4, <2>2, Writes, Settling
  <1>5. ASSUME NEW t \in Tasks,
               Drop(t) \/ ResolverReturns(t) \/ Serve(t) \/ Refuse(t) \/ Admit(t)
        PROVE  UNCHANGED status
    BY <1>5, SMTT(30) DEF Drop, ResolverReturns, Serve, Refuse, Admit, Decide
  <1>6. Tick \/ UNCHANGED vars \/ (\E h \in Hashes : Sequence(h)) => UNCHANGED status
    BY Zenon DEF Tick, vars, Sequence
  <1> QED
    BY <1>1, <1>2, <1>3, <1>4, <1>5, <1>6 DEF Next

(* deploy_account implements its promise: every operation is queued, runs    *)
(* and settles once, as Accepted or Completed only when the account is       *)
(* deployed.                                                                 *)
THEOREM DeployKeepsPromise == Spec => KeepsPromise
  <1>1. Init => Promise!Init
    BY DEF Init, Promise!Init, Deployed
  <1>2. IInv /\ IInv' /\ [Next]_vars => [Promise!Next]_<<status, Deployed>>
    BY NextIInv, StepKeepsPromise
  <1> QED
    BY <1>1, <1>2, IInvHolds, PTL DEF Spec, KeepsPromise, Promise!Spec
=============================================================================
