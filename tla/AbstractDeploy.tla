--------------------------- MODULE AbstractDeploy ---------------------------
(***************************************************************************)
(* What deploy_account promises its caller, whatever the network does:     *)
(* every operation is queued, then runs, then settles exactly once; and it *)
(* settles as Accepted or Completed only when the account really is        *)
(* deployed.  A refusal or a bare Submitted promises nothing about the     *)
(* chain.                                                                   *)
(***************************************************************************)
EXTENDS Naturals

CONSTANT Tasks

VARIABLES
    status,     \* per operation: the state last written to the store
    deployed    \* is the account deployed in the latest block

Init == status = [t \in Tasks |-> "none"] /\ deployed = FALSE

Queue(t) ==
    /\ status[t] = "none"
    /\ status' = [status EXCEPT ![t] = "Queued"]
    /\ UNCHANGED deployed

Start(t) ==
    /\ status[t] = "Queued"
    /\ status' = [status EXCEPT ![t] = "Running"]
    /\ UNCHANGED deployed

Settle(t) ==
    /\ status[t] = "Running"
    /\ \E s \in {"Submitted", "Rejected"} \cup IF deployed THEN {"Accepted", "Completed"} ELSE {} :
          status' = [status EXCEPT ![t] = s]
    /\ UNCHANGED deployed

(* An accepted block never loses the account again.                         *)
Land == ~deployed /\ deployed' = TRUE /\ UNCHANGED status

Next == Land \/ \E t \in Tasks : Queue(t) \/ Start(t) \/ Settle(t)

Spec == Init /\ [][Next]_<<status, deployed>>
=============================================================================
