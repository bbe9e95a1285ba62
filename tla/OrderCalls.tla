----------------------------- MODULE OrderCalls -----------------------------
(***************************************************************************)
(* The write surface of the orders and stake clients: execute() of         *)
(* placeOrder, setSellOrderUpiWithFiat and the simple actions on orders and*)
(* on the stake, down to submitPreparedTx (src/src/orders/tx.ts, repeated  *)
(* in src/src/stake/tx.ts).  placeOrder asks for a circle and for the relay*)
(* identity at the same time; then the wallet is asked to send, and, when  *)
(* the caller wants it, the receipt is awaited.                            *)
(*                                                                         *)
(* An intent is one thing the application wants done; it may execute it    *)
(* again after an error whose code is in RetryOn, MaxTries times at most.  *)
(* The relay identity and the circle arrive or fail as RelayIdentity and   *)
(* CircleRouting describe.  Wallet and chain are external: a request the   *)
(* wallet was asked for may be broadcast long after the SDK saw it fail,   *)
(* and a receipt wait may fail while the transaction is still to be mined. *)
(***************************************************************************)
EXTENDS Naturals

CONSTANTS
  Intent,     \* what the application wants done
  Action,     \* the action of each intent
  Wait,       \* the intents executed with waitForReceipt
  HasAccount, \* the intents whose WalletClient carries an account
  RetryOn,    \* the error codes after which the application tries again
  MaxTries    \* bound on the tries of an intent

(* Actions that only validate, encode and submit; those on an unstake have *)
(* no parameters to validate.                                              *)
OrderAction == {"cancelOrder", "paidBuyOrder", "raiseDispute", "approveUsdc"}
StakeAction == {"stake", "topUp"}
UnstakeAction == {"requestUnstake", "cancelUnstake", "claimUnstake"}
Simple == OrderAction \cup StakeAction \cup UnstakeAction
IdentityCode == {"RELAY_IDENTITY_CORRUPT", "RELAY_IDENTITY_STORE_FAILED"}
(* The codes that leave open whether the transaction took, or will take,   *)
(* effect.                                                                 *)
Ambiguous == {"TX_SUBMISSION_FAILED", "RECEIPT_TIMEOUT"}
Code == IdentityCode \cup Ambiguous \cup
  {"VALIDATION_ERROR", "CIRCLE_SELECTION_FAILED", "ENCRYPTION_FAILED", "TX_REVERTED"}

ASSUME CallsAssumption ==
  /\ Action \in [Intent -> Simple \cup {"placeOrder", "setSellOrderUpiWithFiat"}]
  /\ Wait \subseteq Intent
  /\ HasAccount \subseteq Intent
  /\ RetryOn \subseteq Code
  /\ MaxTries \in Nat \ {0}

Call == Intent \X (1..MaxTries)
Stage == {"idle", "identity", "circle", "encrypting", "wallet", "receipt", "ok", "error"}

VARIABLES
  stage,   \* where each execute() is
  error,   \* the code it ended with
  circle,  \* placeOrder's selectCircle
  chain    \* the transaction: "absent", "asked" (the wallet has the request),
           \* "pending" (broadcast), "success" or "reverted" (mined)

vars == <<stage, error, circle, chain>>

TypeOK ==
  /\ stage \in [Call -> Stage]
  /\ error \in [Call -> Code \cup {"none"}]
  /\ circle \in [Call -> {"unasked", "asked", "selected", "failed"}]
  /\ chain \in [Call -> {"absent", "asked", "pending", "success", "reverted"}]

Init ==
  /\ stage = [c \in Call |-> "idle"]
  /\ error = [c \in Call |-> "none"]
  /\ circle = [c \in Call |-> "unasked"]
  /\ chain = [c \in Call |-> "absent"]

----------------------------------------------------------------------------
Go(c, s) == stage' = [stage EXCEPT ![c] = s] /\ UNCHANGED error

Fails(c, code) ==
  /\ stage' = [stage EXCEPT ![c] = "error"]
  /\ error' = [error EXCEPT ![c] = code]

(* submitPreparedTx: without an account nothing is sent, otherwise the     *)
(* wallet is asked.                                                        *)
Submit(c) ==
  \/ c[1] \in HasAccount /\ Go(c, "wallet") /\ chain' = [chain EXCEPT ![c] = "asked"]
  \/ c[1] \notin HasAccount /\ Fails(c, "TX_SUBMISSION_FAILED") /\ UNCHANGED chain

(* The application executes an intent, for the first time or again.        *)
MayTry(c) ==
  \A n \in 1..(c[2] - 1) :
    stage[<<c[1], n>>] = "error" /\ error[<<c[1], n>>] \in RetryOn

Execute(c) ==
  /\ stage[c] = "idle" /\ MayTry(c)
  /\ \/ /\ Action[c[1]] \notin UnstakeAction
        /\ Fails(c, "VALIDATION_ERROR") /\ UNCHANGED <<circle, chain>>
     \/ /\ Action[c[1]] = "placeOrder"
        /\ Go(c, "identity") /\ circle' = [circle EXCEPT ![c] = "asked"]
        /\ UNCHANGED chain
     \/ /\ Action[c[1]] = "setSellOrderUpiWithFiat"
        /\ Go(c, "identity") /\ UNCHANGED <<circle, chain>>
     \/ Action[c[1]] \in Simple /\ Submit(c) /\ UNCHANGED circle

(* The relay identity fails: the call fails with it at once, also while the*)
(* circle is still being selected and also when that has failed before.    *)
IdentityFails(c) ==
  /\ stage[c] = "identity"
  /\ \E code \in IdentityCode : Fails(c, code)
  /\ UNCHANGED <<circle, chain>>

(* The relay identity resolves: encrypt with it, or go on to the circle.   *)
IdentityResolved(c) ==
  /\ stage[c] = "identity"
  /\ \/ /\ Action[c[1]] = "setSellOrderUpiWithFiat"
        /\ Go(c, "encrypting") /\ UNCHANGED chain
     \/ /\ Action[c[1]] = "placeOrder"
        /\ \/ circle[c] = "asked" /\ Go(c, "circle") /\ UNCHANGED chain
           \/ circle[c] = "failed" /\ Fails(c, "CIRCLE_SELECTION_FAILED") /\ UNCHANGED chain
           \/ circle[c] = "selected" /\ Submit(c)
  /\ UNCHANGED circle

(* Mutant: a circle that arrives after the identity wakes nobody.          *)
MutCircleSettlesUnheard(c) ==
  /\ circle[c] = "asked"
  /\ \E answer \in {"selected", "failed"} : circle' = [circle EXCEPT ![c] = answer]
  /\ UNCHANGED <<stage, error, chain>>

(* selectCircle settles; only a call that already has its identity waits   *)
(* for it.                                                                 *)
CircleSettles(c) ==
  /\ circle[c] = "asked"
  /\ \E answer \in {"selected", "failed"} :
       /\ circle' = [circle EXCEPT ![c] = answer]
       /\ \/ stage[c] # "circle" /\ UNCHANGED <<stage, error, chain>>
          \/ stage[c] = "circle" /\ answer = "selected" /\ Submit(c)
          \/ /\ stage[c] = "circle" /\ answer = "failed"
             /\ Fails(c, "CIRCLE_SELECTION_FAILED") /\ UNCHANGED chain

EncryptionSettles(c) ==
  /\ stage[c] = "encrypting"
  /\ Submit(c) \/ (Fails(c, "ENCRYPTION_FAILED") /\ UNCHANGED chain)
  /\ UNCHANGED circle

(* sendTransaction resolves with the hash of a broadcast transaction.      *)
WalletAnswers(c) ==
  /\ stage[c] = "wallet" /\ chain[c] \notin {"absent", "asked"}
  /\ Go(c, IF c[1] \in Wait THEN "receipt" ELSE "ok")
  /\ UNCHANGED <<circle, chain>>

(* sendTransaction rejects: the user declined, or the answer got lost.     *)
WalletRejects(c) ==
  /\ stage[c] = "wallet"
  /\ Fails(c, "TX_SUBMISSION_FAILED")
  /\ UNCHANGED <<circle, chain>>

ReceiptArrives(c) ==
  /\ stage[c] = "receipt"
  /\ \/ chain[c] = "success" /\ Go(c, "ok")
     \/ chain[c] = "reverted" /\ Fails(c, "TX_REVERTED")
  /\ UNCHANGED <<circle, chain>>

(* Mutant: a failed wait is reported as a failed transaction.              *)
MutReceiptFailsReverted(c) ==
  /\ stage[c] = "receipt"
  /\ Fails(c, "TX_REVERTED")
  /\ UNCHANGED <<circle, chain>>

(* waitForTransactionReceipt rejects: time is up, the node is unreachable. *)
ReceiptFails(c) ==
  /\ stage[c] = "receipt"
  /\ Fails(c, "RECEIPT_TIMEOUT")
  /\ UNCHANGED <<circle, chain>>

(* The wallet broadcasts, also after the SDK's promise has rejected.       *)
Broadcast(c) ==
  /\ chain[c] = "asked"
  /\ chain' = [chain EXCEPT ![c] = "pending"]
  /\ UNCHANGED <<stage, error, circle>>

Mined(c) ==
  /\ chain[c] = "pending"
  /\ \E status \in {"success", "reverted"} : chain' = [chain EXCEPT ![c] = status]
  /\ UNCHANGED <<stage, error, circle>>

Identity(c) == IdentityFails(c) \/ IdentityResolved(c)
Receipt(c) == ReceiptArrives(c) \/ ReceiptFails(c)

CallStep(c) ==
  \/ Execute(c) \/ Identity(c) \/ CircleSettles(c) \/ EncryptionSettles(c)
  \/ WalletAnswers(c) \/ WalletRejects(c) \/ Receipt(c) \/ Broadcast(c) \/ Mined(c)

Next == \E c \in Call : CallStep(c)

(* The application may be done, so a final state is no deadlock (the .cfg).*)
Spec == Init /\ [][Next]_vars

(* Identity resolution and circle selection settle (see their modules), so *)
(* do encryption and viem's receipt wait, which has a timeout.  Nothing    *)
(* makes the user answer the wallet, the wallet broadcast, or a transaction*)
(* be mined.                                                               *)
Fair(c) ==
  /\ WF_vars(Identity(c)) /\ WF_vars(CircleSettles(c))
  /\ WF_vars(EncryptionSettles(c)) /\ WF_vars(Receipt(c))
FairSpec == Spec /\ \A c \in Call : Fair(c)

----------------------------------------------------------------------------
(* An error code is honest: unless it is one of the two ambiguous ones, the*)
(* transaction has not taken effect and never will, so it is safe to try   *)
(* again.  orders/tx.ts:7-11, errors.ts.                                   *)
HonestErrors ==
  \A c \in Call : stage[c] = "error" /\ error[c] \notin Ambiguous =>
    chain[c] = IF error[c] = "TX_REVERTED" THEN "reverted" ELSE "absent"

(* An application that tries again only after an unambiguous error never   *)
(* has one intent take effect twice (two orders for one form).             *)
Landed(c) == chain[c] = "success"
OneEffect ==
  \A c, d \in Call : c[1] = d[1] /\ Landed(c) /\ Landed(d) => c = d

(* A success that was waited for is on the chain; any success was broadcast. *)
SuccessIsReal ==
  \A c \in Call : stage[c] = "ok" =>
    chain[c] = "success" \/ (c[1] \notin Wait /\ chain[c] \in {"pending", "reverted"})

(* The wallet is asked for a placement only with a selected circle: no     *)
(* order is sent that routing did not validate.  place-order.ts:101-125.   *)
OnlyRoutedIsSent ==
  \A c \in Call : Action[c[1]] = "placeOrder" /\ chain[c] # "absent" => circle[c] = "selected"

(* A try begins only after every earlier one of its intent has ended in an *)
(* error to try again on, and has stayed ended.                            *)
TriesInOrder == \A c \in Call : stage[c] # "idle" => MayTry(c)

(* Preparation ends: a call reaches the wallet or fails.                   *)
Preparing(c) == stage[c] \in {"identity", "circle", "encrypting"}
PreparationEnds == \A c \in Call : Preparing(c) ~> ~Preparing(c)
=============================================================================
