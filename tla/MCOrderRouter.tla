-------------------------- MODULE MCOrderRouter --------------------------
(* An instance of OrderRouter for TLC.                                     *)
EXTENDS OrderRouter, TLC

\* Seven circles: two active, one bootstrap above the cap, one paused, one
\* active with score 0, and two that must be filtered out (another currency,
\* no available merchant).
MCCircle == 1..7
MCStatus == <<"active", "active", "bootstrap", "paused", "active", "active", "active">>
MCScore == <<40, 10, 30, 20, 0, 50, 50>>
MCMerchants == <<1, 2, 1, 3, 1, 1, 0>>
MCCurrency == <<"INR", "INR", "INR", "INR", "INR", "BRL", "INR">>
\* Of these the subgraph lists all, or lists with as many that are eligible
\* as there are attempts, with fewer, and with none.
MCLists == {MCCircle, {2, 3, 4}, {1, 3, 7}, {6, 7}}
=============================================================================
