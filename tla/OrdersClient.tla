----------------------------- MODULE OrdersClient -----------------------------
(***************************************************************************)
(* The screens of an application over one Orders client                    *)
(* (src/src/orders/client.ts): the SELL and PAY orders it carries to their *)
(* hand-off (SellOrders), the list of the user's orders and the form for   *)
(* the next one (OrderReads).  A screen that was not opened has done       *)
(* nothing.                                                                *)
(***************************************************************************)
EXTENDS SellOrders, OrderReads

VARIABLE screen   \* "sell", "list" or "form"

clientVars == <<screen, vars, readVars>>

ClientTypeOK == screen \in {"sell", "list", "form"} /\ TypeOK /\ ReadsTypeOK

ClientInit ==
  /\ screen \in {"sell", "list", "form"}
  /\ Init
  /\ screen # "sell" =>
       /\ ~setup.multicall /\ setup.policy = "unlimited" /\ \A f \in Fees : fee <= f
       /\ setup.account = CHOOSE a \in Accounts : TRUE
  /\ ReadsInit

ClientNext ==
  \/ screen = "sell" /\ Next /\ UNCHANGED <<screen, readVars>>
  \/ screen = "list" /\ ListNext /\ UNCHANGED <<screen, vars>>
  \/ screen = "form" /\ FormNext /\ UNCHANGED <<screen, vars>>

ClientSpec == ClientInit /\ [][ClientNext]_clientVars
=============================================================================
