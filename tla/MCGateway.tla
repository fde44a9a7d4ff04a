----------------------------- MODULE MCGateway -----------------------------
(* Instance of Gateway: one operation makes every request with every flaw,  *)
(* while a deployment races with it for a table with room for one.          *)
EXTENDS Gateway

CONSTANT o1

AllRequests == Request

Rivals == {[kind |-> "deploy", chain |-> "own", flaw |-> "none"]}

MCRequests == [i \in Ids |-> IF i = o1 THEN AllRequests ELSE Rivals]
=============================================================================
