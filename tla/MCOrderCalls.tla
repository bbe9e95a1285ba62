---------------------------- MODULE MCOrderCalls ----------------------------
(* A placement that waits for its receipt, a hand-off with a wallet that is*)
(* not connected, and a claim that does not wait.                          *)
EXTENDS OrderCalls

MCIntent == {"place", "handOff", "claim"}
MCAction == [place |-> "placeOrder", handOff |-> "setSellOrderUpiWithFiat",
             claim |-> "claimUnstake"]
MCWait == {"place"}
MCHasAccount == {"place", "claim"}
MCSafeRetry == Code \ Ambiguous
=============================================================================
