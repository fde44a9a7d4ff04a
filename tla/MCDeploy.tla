------------------------------ MODULE MCDeploy ------------------------------
(* Instances of Deploy: two requests for one account.                       *)
EXTENDS Deploy, TLC

(* Several polls, a poll interval longer than the whole wait, and an interval *)
(* and a timeout just outside what validate_wait_mode admits.                 *)
MCModes ==
    {SubmitOnly, WaitForAcceptance(1, 2), WaitForAcceptance(2, 1), WaitForAcceptance(0, 1),
     WaitForAcceptance(1, 3)}

OneWait == {SubmitOnly, WaitForAcceptance(1, 2)}

(* The longest wait there is, with RPCs that are short beside it.            *)
FullWait == {WaitForAcceptance(2, MaxWaitTimeout)}

DeploySymmetry == Permutations(Tasks) \cup Permutations(Hashes)
=============================================================================
