----------------------------- MODULE SellOrders -----------------------------
(***************************************************************************)
(* SELL and PAY orders from placement to hand-off, the way                 *)
(* src/src/orders/README.md tells applications to use the SDK: placeOrder  *)
(* and its receipt, getOrder, approveUsdc(order.actualUsdcAmount), and,    *)
(* once a merchant has accepted, setSellOrderUpiWithFiat.                  *)
(*                                                                         *)
(* execute() is the one of OrderCalls with its preparation left out: a     *)
(* transaction is sent, mined in nonce order, and its wait may fail.  The  *)
(* Diamond and the USDC allowance are external, modelled from what the     *)
(* README, the ABIs and the actions' comments say of them.                 *)
(***************************************************************************)
EXTENDS Naturals, Sequences, FiniteSetsExt

CONSTANTS
  Slot,         \* the orders the application wants
  Foreign,      \* an order of another user, mined in the same transaction
  Usdc,         \* the order's USDC amount, at or below smallOrderThreshold
  Fees,         \* the values smallOrderFixedFeeSell takes over time
  Unlimited,    \* an approval of the largest amount
  Policies,     \* how applications approve: "documented", "oneAtATime", "unlimited"
  Accounts      \* how its placements get on chain: "alone"; "bundled" with other
                \* users' (a smart account whose address is the wallet's); "behind"
                \* (bundled, the wallet is the key of a smart account with another
                \* address, the signer and the subject of fraud-engine/types.ts)

ASSUME SellAssumption ==
  /\ Foreign \notin Slot /\ Usdc \in Nat \ {0} /\ Fees \subseteq Nat
  /\ \A f \in Fees : Usdc + f < Unlimited
  /\ Unlimited \in Nat /\ Policies \subseteq {"documented", "oneAtATime", "unlimited"}
  /\ Accounts \subseteq {"alone", "bundled", "behind"}
ASSUME NoneAssumption == "none" \notin Slot \cup {Foreign}   \* an orderId that is absent

VARIABLES
  setup,     \* fixed: the application's policy, its account, and whether its client
             \* has multicall
  step,      \* the application's progress with each order
  known,     \* meta.orderId of each placement
  view,      \* what getOrder has read so far: the order struct?, its actual amount
  pool,      \* transactions of the account, sent and not mined, in nonce order
  logs,      \* OrderPlaced events in each placement's receipt
  orders,    \* the Diamond: [status, actual] of each order
  fee,       \* smallOrderFixedFeeSell now
  allowance  \* USDC the Diamond may pull

vars == <<setup, step, known, view, pool, logs, orders, fee, allowance>>

Status == {"none", "placed", "accepted", "paid", "completed", "cancelled"}
Steps == {"new", "placing", "placed", "approving", "approved", "handing", "done", "stopped"}
Amount == 0..Unlimited
Order == [status: Status, actual: Amount]
Unread == Unlimited + 1   \* a part of getOrder that has not answered
Tx == [kind: {"place", "approve", "handOff"}, slot: Slot, amount: Amount]
Event == [user: {"account", "smart", "other"}, order: Slot \cup {Foreign}]

TypeOK ==
  /\ setup \in [policy: Policies, account: Accounts, multicall: BOOLEAN]
  /\ step \in [Slot -> Steps]
  /\ known \in [Slot -> Slot \cup {Foreign, "none"}]
  /\ view \in [Slot -> [order: BOOLEAN, actual: Amount \cup {Unread}]]
  /\ pool \in Seq(Tx)
  /\ logs \in [Slot -> Seq(Event)]
  /\ orders \in [Slot \cup {Foreign} -> Order]
  /\ fee \in Fees /\ allowance \in Amount

NoView == [order |-> FALSE, actual |-> Unread]

Init ==
  /\ setup \in [policy: Policies, account: Accounts, multicall: BOOLEAN]
  /\ step = [o \in Slot |-> "new"]
  /\ known = [o \in Slot |-> "none"]
  /\ view = [o \in Slot |-> NoView]
  /\ pool = <<>>
  /\ logs = [o \in Slot |-> <<>>]
  /\ orders = [o \in Slot \cup {Foreign} |-> [status |-> "none", actual |-> 0]]
  /\ fee \in Fees
  /\ allowance = 0

----------------------------------------------------------------------------
Go(o, s) == step' = [step EXCEPT ![o] = s]
Send(kind, o, amount) == pool' = Append(pool, [kind |-> kind, slot |-> o, amount |-> amount])
Busy(o) == step[o] \notin {"new", "done", "stopped"}

(* placeOrder.execute({ waitForReceipt: true, orderType: SELL or PAY }).   *)
Place(o) ==
  /\ step[o] = "new"
  /\ setup.policy = "oneAtATime" => \A p \in Slot : ~Busy(p)
  /\ Go(o, "placing") /\ Send("place", o, 0)
  /\ UNCHANGED <<known, view, logs, orders, fee, allowance>>

Owner == "account"   \* walletClient.account.address

(* Mutant: the first OrderPlaced event, whoever's.                         *)
MutEnrichFirst(events) == IF events = <<>> THEN "none" ELSE events[1].order

(* enrichWithOrderId: the first event of the wallet's account, else the    *)
(* first event of all.                                                     *)
enrichWithOrderId(events) ==
  LET mine == {i \in DOMAIN events : events[i].user = Owner}
  IN  IF events = <<>> THEN "none" ELSE events[IF mine = {} THEN 1 ELSE Min(mine)].order

PlacedReturns(o) ==
  /\ step[o] = "placing" /\ logs[o] # <<>>
  /\ known' = [known EXCEPT ![o] = enrichWithOrderId(logs[o])]
  /\ Go(o, "placed")
  /\ UNCHANGED <<view, pool, logs, orders, fee, allowance>>

(* Mutant: normalizeContractOrder takes the amount of the order struct.    *)
MutReadDetailsAmount(o) ==
  /\ step[o] = "placed" /\ view[o].actual = Unread
  /\ view' = [view EXCEPT ![o].actual = Usdc]
  /\ UNCHANGED <<step, known, pool, logs, orders, fee, allowance>>

(* getOrder: the order struct and its details, in one multicall or in two  *)
(* reads that may see different blocks.                                    *)
ReadDetails(o) ==
  /\ step[o] = "placed" /\ view[o].actual = Unread /\ ~setup.multicall
  /\ view' = [view EXCEPT ![o].actual = orders[known[o]].actual]
  /\ UNCHANGED <<step, known, pool, logs, orders, fee, allowance>>

ReadOrder(o) ==
  /\ step[o] = "placed" /\ ~view[o].order
  /\ view' = [view EXCEPT ![o] =
       [order |-> TRUE,
        actual |-> IF setup.multicall THEN orders[known[o]].actual ELSE @.actual]]
  /\ UNCHANGED <<step, known, pool, logs, orders, fee, allowance>>

(* approveUsdc.execute with the amount read; the README has applications   *)
(* check that it is not below the order's amount.                          *)
Approve(o) ==
  /\ step[o] = "placed" /\ view[o].order /\ view[o].actual # Unread
  /\ \/ /\ view[o].actual >= Usdc
        /\ Go(o, "approving")
        /\ Send("approve", o, IF setup.policy = "unlimited" THEN Unlimited ELSE view[o].actual)
     \/ view[o].actual < Usdc /\ Go(o, "stopped") /\ UNCHANGED pool
  /\ UNCHANGED <<known, view, logs, orders, fee, allowance>>

(* The approval returns its hash; nobody waits for its receipt.            *)
ApproveReturns(o) ==
  /\ step[o] = "approving"
  /\ Go(o, "approved")
  /\ UNCHANGED <<known, view, pool, logs, orders, fee, allowance>>

(* setSellOrderUpiWithFiat.execute, once the order reads as accepted.      *)
HandOff(o) ==
  /\ step[o] = "approved" /\ orders[known[o]].status = "accepted"
  /\ Go(o, "handing") /\ Send("handOff", o, 0)
  /\ UNCHANGED <<known, view, logs, orders, fee, allowance>>

HandOffReturns(o) ==
  /\ step[o] = "handing"
  /\ ~\E i \in 1..Len(pool) : pool[i].kind = "handOff" /\ pool[i].slot = o
  /\ Go(o, "done")
  /\ UNCHANGED <<known, view, pool, logs, orders, fee, allowance>>

(* A wait for a receipt, or a read, fails: the application leaves it there.*)
Stop(o) ==
  /\ Busy(o) /\ Go(o, "stopped")
  /\ UNCHANGED <<known, view, pool, logs, orders, fee, allowance>>

----------------------------------------------------------------------------
(* The address the Diamond takes the account by.                           *)
Sender == IF setup.account = "behind" THEN "smart" ELSE Owner
NewOrder == [status |-> "placed", actual |-> Usdc + fee]

(* The Diamond.  A placement freezes actualUsdtAmount with the fee of now, *)
(* or reverts.  In a bundle another user's placement comes before or after *)
(* it, and succeeds also where this one fails; a bundle has one operation  *)
(* of an account.                                                          *)
PlaceMined ==
  /\ pool # <<>> /\ Head(pool).kind = "place"
  /\ LET o == Head(pool).slot
         own == [user |-> Sender, order |-> o]
         other == [user |-> "other", order |-> Foreign]
         bundled == setup.account # "alone" /\ orders[Foreign].status = "none"
     IN  \/ /\ orders' = [orders EXCEPT ![o] = NewOrder]
            /\ logs' = [logs EXCEPT ![o] = <<own>>]
         \/ /\ bundled /\ orders' = [orders EXCEPT ![o] = NewOrder, ![Foreign] = NewOrder]
            /\ \E events \in {<<other, own>>, <<own, other>>} : logs' = [logs EXCEPT ![o] = events]
         \/ /\ bundled /\ orders' = [orders EXCEPT ![Foreign] = NewOrder]
            /\ logs' = [logs EXCEPT ![o] = <<other>>]
         \/ UNCHANGED <<orders, logs>>
  /\ pool' = Tail(pool)
  /\ UNCHANGED <<step, known, view, fee, allowance>>

(* ERC-20 approve sets the allowance; it does not add to it.               *)
ApproveMined ==
  /\ pool # <<>> /\ Head(pool).kind = "approve"
  /\ allowance' = Head(pool).amount
  /\ pool' = Tail(pool)
  /\ UNCHANGED <<step, known, view, logs, orders, fee>>

(* setSellOrderUpiWithFiat pulls actualUsdtAmount and marks the order paid;*)
(* it catches a failing pull and cancels.  On another order it reverts.    *)
HandOffMined ==
  /\ pool # <<>> /\ Head(pool).kind = "handOff"
  /\ LET o == known[Head(pool).slot]
         due == orders[o].actual
     IN  \/ /\ orders[o].status = "accepted" /\ o = Head(pool).slot /\ allowance >= due
            /\ orders' = [orders EXCEPT ![o].status = "paid"]
            /\ allowance' = IF allowance = Unlimited THEN allowance ELSE allowance - due
         \/ /\ orders[o].status = "accepted" /\ o = Head(pool).slot /\ allowance < due
            /\ orders' = [orders EXCEPT ![o] = [status |-> "cancelled", actual |-> 0]]
            /\ UNCHANGED allowance
         \/ /\ orders[o].status # "accepted" \/ o # Head(pool).slot
            /\ UNCHANGED <<orders, allowance>>
  /\ pool' = Tail(pool)
  /\ UNCHANGED <<step, known, view, logs, fee>>

(* A merchant accepts, and completes a paid order; an order that is not    *)
(* paid yet is cancelled by its user or by its expiry.                     *)
MerchantActs(o) ==
  /\ \/ orders[o].status = "placed" /\ orders' = [orders EXCEPT ![o].status = "accepted"]
     \/ orders[o].status = "paid" /\ orders' = [orders EXCEPT ![o].status = "completed"]
  /\ UNCHANGED <<step, known, view, pool, logs, fee, allowance>>

Cancelled(o) ==
  /\ orders[o].status \in {"placed", "accepted"}
  /\ orders' = [orders EXCEPT ![o] = [status |-> "cancelled", actual |-> 0]]
  /\ UNCHANGED <<step, known, view, pool, logs, fee, allowance>>

FeeChanges ==
  /\ fee' \in Fees \ {fee}
  /\ UNCHANGED <<step, known, view, pool, logs, orders, allowance>>

App(o) ==
  \/ Place(o) \/ PlacedReturns(o) \/ ReadDetails(o) \/ ReadOrder(o) \/ Approve(o)
  \/ ApproveReturns(o) \/ HandOff(o) \/ HandOffReturns(o) \/ Stop(o)

Next ==
  /\ \/ \E o \in Slot : App(o)
     \/ \E o \in Slot \cup {Foreign} : MerchantActs(o) \/ Cancelled(o)
     \/ PlaceMined \/ ApproveMined \/ HandOffMined \/ FeeChanges
  /\ UNCHANGED setup

Spec == Init /\ [][Next]_vars

----------------------------------------------------------------------------
(* No event of the receipt has the wallet's address, and a stranger's is   *)
(* the first.                                                              *)
Misleads(events) ==
  events # <<>> /\ events[1].user = "other" /\ \A i \in DOMAIN events : events[i].user # Owner

(* meta.orderId names the order this very placement created, wherever in   *)
(* the receipt it stands, and also for an account whose address is not the *)
(* wallet's; except where the receipt misleads.  place-order.ts:23-45.     *)
ReportedOrderIsOwn == \A o \in Slot : known[o] \in {"none", o} \/ Misleads(logs[o])

(* An order handed off by its own id, after its approval was sent, is not  *)
(* cancelled by the hand-off: "approving a short amount would trip the     *)
(* exact failure this is meant to avoid" (README.md:154-192).              *)
HandOffNeverCancels ==
  [][\A o \in Slot : HandOffMined /\ Head(pool).slot = o /\ known[o] = o /\ orders[o].status = "accepted"
       => orders'[o].status = "paid"]_vars
=============================================================================
