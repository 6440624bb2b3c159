---------------------------- MODULE WorkerTokens ----------------------------
(***************************************************************************)
(* What POST /worker promises: a token admits one WebSocket or none.  It   *)
(* is issued once, and is then either redeemed or expired, for good.       *)
(***************************************************************************)
CONSTANT Tokens

VARIABLE status

Init == status = [t \in Tokens |-> "fresh"]

Issue(t) == /\ status[t] = "fresh"
            /\ status' = [status EXCEPT ![t] = "pending"]

Redeem(t) == /\ status[t] = "pending"
             /\ status' = [status EXCEPT ![t] = "redeemed"]

Expire(t) == /\ status[t] = "pending"
             /\ status' = [status EXCEPT ![t] = "expired"]

Next == \E t \in Tokens : Issue(t) \/ Redeem(t) \/ Expire(t)

Spec == Init /\ [][Next]_status
=============================================================================
