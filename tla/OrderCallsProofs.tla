-------------------------- MODULE OrderCallsProofs --------------------------
(***************************************************************************)
(* The safety of OrderCalls for any set of intents, any number of tries and*)
(* any set of codes to try again on.                                       *)
(*                                                                         *)
(* The inductive invariant says of each call how its stage bounds what its *)
(* transaction and its circle can be (Coherent), and that tries come one   *)
(* after the other (TriesInOrder).                                         *)
(***************************************************************************)
EXTENDS OrderCalls, TLAPS

Mined3 == {"pending", "success", "reverted"}

Coherent(c) ==
  /\ stage[c] \in {"idle", "identity", "circle", "encrypting"} => chain[c] = "absent"
  /\ stage[c] = "encrypting" => Action[c[1]] = "setSellOrderUpiWithFiat"
  /\ stage[c] = "receipt" => c[1] \in Wait /\ chain[c] \in Mined3
  /\ stage[c] = "ok" =>
       chain[c] = "success" \/ (c[1] \notin Wait /\ chain[c] \in {"pending", "reverted"})
  /\ stage[c] = "error" /\ error[c] \notin Ambiguous =>
       chain[c] = IF error[c] = "TX_REVERTED" THEN "reverted" ELSE "absent"
  /\ Action[c[1]] = "placeOrder" /\ chain[c] # "absent" => circle[c] = "selected"

IInv == TypeOK /\ (\A c \in Call : Coherent(c)) /\ TriesInOrder

USE CallsAssumption

(* The initial state satisfies the invariant: no call has begun.           *)
LEMMA InitInvariant == Init => IInv
  BY SMTT(30) DEF Init, IInv, TypeOK, Coherent, TriesInOrder, Call, Stage

(* Every step of a call keeps the types.                                   *)
LEMMA StepTypes == ASSUME TypeOK, NEW c \in Call, CallStep(c) PROVE TypeOK'
<1>1. CASE Execute(c)
  BY <1>1, SMTT(30) DEF Execute, TypeOK, Go, Fails, Submit, Stage, Code, Ambiguous, IdentityCode
<1>2. CASE Identity(c)
  BY <1>2, SMTT(30) DEF Identity, IdentityFails, IdentityResolved, TypeOK, Go, Fails, Submit,
     Stage, Code, Ambiguous, IdentityCode
<1>3. CASE CircleSettles(c)
  BY <1>3, SMTT(30) DEF CircleSettles, TypeOK, Go, Fails, Submit, Stage, Code, Ambiguous
<1>4. CASE EncryptionSettles(c)
  BY <1>4, SMTT(30) DEF EncryptionSettles, TypeOK, Go, Fails, Submit, Stage, Code, Ambiguous
<1>5. CASE WalletAnswers(c) \/ WalletRejects(c)
  BY <1>5, SMTT(30) DEF WalletAnswers, WalletRejects, TypeOK, Go, Fails, Stage, Code, Ambiguous
<1>6. CASE Receipt(c)
  BY <1>6, SMTT(30) DEF Receipt, ReceiptArrives, ReceiptFails, TypeOK, Go, Fails, Stage, Code,
     Ambiguous
<1>7. CASE Broadcast(c) \/ Mined(c)
  BY <1>7, SMTT(30) DEF Broadcast, Mined, TypeOK
<1> QED BY <1>1, <1>2, <1>3, <1>4, <1>5, <1>6, <1>7 DEF CallStep

(* A step of one call leaves everything of the others as it was.           *)
LEMMA OthersUntouched ==
  ASSUME TypeOK, NEW c \in Call, NEW d \in Call, d # c, CallStep(c)
  PROVE  stage'[d] = stage[d] /\ error'[d] = error[d]
           /\ circle'[d] = circle[d] /\ chain'[d] = chain[d]
<1>1. CASE Execute(c)
  BY <1>1, SMTT(30) DEF Execute, TypeOK, Go, Fails, Submit
<1>2. CASE Identity(c)
  BY <1>2, SMTT(30) DEF Identity, IdentityFails, IdentityResolved, TypeOK, Go, Fails, Submit
<1>3. CASE CircleSettles(c)
  BY <1>3, SMTT(30) DEF CircleSettles, TypeOK, Go, Fails, Submit
<1>4. CASE EncryptionSettles(c)
  BY <1>4, SMTT(30) DEF EncryptionSettles, TypeOK, Go, Fails, Submit
<1>5. CASE WalletAnswers(c) \/ WalletRejects(c)
  BY <1>5, SMTT(30) DEF WalletAnswers, WalletRejects, TypeOK, Go, Fails
<1>6. CASE Receipt(c)
  BY <1>6, SMTT(30) DEF Receipt, ReceiptArrives, ReceiptFails, TypeOK, Go, Fails
<1>7. CASE Broadcast(c) \/ Mined(c)
  BY <1>7, SMTT(30) DEF Broadcast, Mined, TypeOK
<1> QED BY <1>1, <1>2, <1>3, <1>4, <1>5, <1>6, <1>7 DEF CallStep

(* A step of a call keeps its own stage, transaction and circle coherent.  *)
LEMMA StepCoherent ==
  ASSUME TypeOK, NEW c \in Call, Coherent(c), CallStep(c) PROVE Coherent(c)'
<1>1. CASE Execute(c)
  BY <1>1, SMTT(30) DEF Execute, TypeOK, Coherent, Go, Fails, Submit, Ambiguous, Simple,
    OrderAction, StakeAction, UnstakeAction
<1>2. CASE Identity(c)
  BY <1>2, SMTT(30) DEF Identity, IdentityFails, IdentityResolved, TypeOK, Coherent, Go, Fails,
     Submit, Ambiguous, IdentityCode
<1>3. CASE CircleSettles(c)
  BY <1>3, SMTT(30) DEF CircleSettles, TypeOK, Coherent, Go, Fails, Submit, Ambiguous
<1>4. CASE EncryptionSettles(c)
  BY <1>4, SMTT(30) DEF EncryptionSettles, TypeOK, Coherent, Go, Fails, Submit, Ambiguous
<1>5. CASE WalletAnswers(c) \/ WalletRejects(c)
  BY <1>5, SMTT(30) DEF WalletAnswers, WalletRejects, TypeOK, Coherent, Go, Fails, Ambiguous, Mined3
<1>6. CASE Receipt(c)
  BY <1>6, SMTT(30) DEF Receipt, ReceiptArrives, ReceiptFails, TypeOK, Coherent, Go, Fails,
     Ambiguous, Mined3
<1>7. CASE Broadcast(c) \/ Mined(c)
  BY <1>7, SMTT(30) DEF Broadcast, Mined, TypeOK, Coherent, Ambiguous, Mined3
<1> QED BY <1>1, <1>2, <1>3, <1>4, <1>5, <1>6, <1>7 DEF CallStep

(* A call that has begun does not become idle, one that failed stays as it *)
(* is, and one that begins was allowed to.                                 *)
LEMMA StagesMoveOn ==
  ASSUME TypeOK, NEW c \in Call, CallStep(c)
  PROVE  /\ stage[c] = "error" => stage'[c] = "error" /\ error'[c] = error[c]
         /\ stage[c] = "idle" /\ stage'[c] # "idle" => MayTry(c)
<1>1. CASE Execute(c)
  BY <1>1 DEF Execute
<1>2. CASE Identity(c)
  BY <1>2, SMTT(30) DEF Identity, IdentityFails, IdentityResolved
<1>3. CASE CircleSettles(c)
  BY <1>3, SMTT(30) DEF CircleSettles, Submit, Go, Fails, TypeOK
<1>4. CASE EncryptionSettles(c)
  BY <1>4, SMTT(30) DEF EncryptionSettles
<1>5. CASE WalletAnswers(c) \/ WalletRejects(c)
  BY <1>5, SMTT(30) DEF WalletAnswers, WalletRejects
<1>6. CASE Receipt(c)
  BY <1>6, SMTT(30) DEF Receipt, ReceiptArrives, ReceiptFails
<1>7. CASE Broadcast(c) \/ Mined(c)
  BY <1>7, SMTT(30) DEF Broadcast, Mined
<1> QED BY <1>1, <1>2, <1>3, <1>4, <1>5, <1>6, <1>7 DEF CallStep

(* Hence tries stay in order.                                              *)
LEMMA StepTriesInOrder ==
  ASSUME TypeOK, TriesInOrder, NEW c \in Call, CallStep(c) PROVE TriesInOrder'
<1> SUFFICES ASSUME NEW d \in Call, stage'[d] # "idle", NEW n \in 1..(d[2] - 1)
             PROVE  stage'[<<d[1], n>>] = "error" /\ error'[<<d[1], n>>] \in RetryOn
  BY DEF TriesInOrder, MayTry
<1> DEFINE e == <<d[1], n>>
<1>1. e \in Call
  BY DEF Call
<1>2. MayTry(d)
  <2>1. CASE d = c
    BY <2>1, StagesMoveOn DEF TriesInOrder
  <2>2. CASE d # c
    BY <2>2, OthersUntouched DEF TriesInOrder
  <2> QED BY <2>1, <2>2
<1>3. stage[e] = "error" /\ error[e] \in RetryOn
  BY <1>2 DEF MayTry
<1>4. stage'[e] = "error" /\ error'[e] = error[e]
  <2>1. CASE e = c
    BY <2>1, <1>3, StagesMoveOn
  <2>2. CASE e # c
    BY <2>2, <1>1, <1>3, OthersUntouched
  <2> QED BY <2>1, <2>2
<1> QED BY <1>3, <1>4

LEMMA InvariantStep == IInv /\ [Next]_vars => IInv'
<1> SUFFICES ASSUME IInv, [Next]_vars PROVE IInv'
  OBVIOUS
<1>1. CASE UNCHANGED vars
  BY <1>1 DEF vars, IInv, TypeOK, Coherent, TriesInOrder, MayTry
<1>2. CASE Next
  <2> PICK c \in Call : CallStep(c)
    BY <1>2 DEF Next
  <2>1. TypeOK'
    BY StepTypes DEF IInv
  <2>2. ASSUME NEW d \in Call PROVE Coherent(d)'
    <3>1. CASE d = c
      BY <3>1, StepCoherent DEF IInv
    <3>2. CASE d # c
      BY <3>2, OthersUntouched DEF IInv, Coherent
    <3> QED BY <3>1, <3>2
  <2>3. TriesInOrder'
    BY StepTriesInOrder DEF IInv
  <2> QED BY <2>1, <2>2, <2>3 DEF IInv
<1> QED BY <1>1, <1>2

THEOREM Invariance == Spec => []IInv
  BY InitInvariant, InvariantStep, PTL DEF Spec

(* Type correctness of execute() and its transactions.                     *)
THEOREM TypeCorrect == Spec => []TypeOK
<1>1. IInv => TypeOK
  BY DEF IInv
<1> QED BY <1>1, Invariance, PTL

(* A call that failed with an unambiguous code has no transaction that took*)
(* or will take effect (orders/tx.ts).                                     *)
THEOREM ErrorsAreHonest == Spec => []HonestErrors
<1>1. IInv => HonestErrors
  BY DEF IInv, Coherent, HonestErrors
<1> QED BY <1>1, Invariance, PTL

(* A success that was waited for is mined, any success was broadcast.      *)
THEOREM SuccessesAreReal == Spec => []SuccessIsReal
<1>1. IInv => SuccessIsReal
  BY DEF IInv, Coherent, SuccessIsReal
<1> QED BY <1>1, Invariance, PTL

(* No placement reaches the wallet without a selected circle.              *)
THEOREM SentIsRouted == Spec => []OnlyRoutedIsSent
<1>1. IInv => OnlyRoutedIsSent
  BY DEF IInv, Coherent, OnlyRoutedIsSent
<1> QED BY <1>1, Invariance, PTL

(* Trying again on unambiguous errors only, no intent takes effect twice,  *)
(* however often it is tried.                                              *)
THEOREM EffectAtMostOnce ==
  ASSUME RetryOn \cap Ambiguous = {} PROVE Spec => []OneEffect
<1>1. IInv => OneEffect
  <2> SUFFICES ASSUME IInv, NEW c \in Call, NEW d \in Call, c[1] = d[1],
                      Landed(c), Landed(d), c # d
               PROVE  FALSE
    BY DEF OneEffect
  <2>1. c[2] \in Nat /\ d[2] \in Nat /\ c = <<c[1], c[2]>> /\ d = <<d[1], d[2]>>
    BY DEF Call
  <2>2. ASSUME NEW e \in Call, NEW f \in Call, e[1] = f[1], e[2] < f[2],
               e = <<e[1], e[2]>>, Landed(e), Landed(f)
        PROVE  FALSE
    <3>1. stage[f] # "idle"
      BY <2>2 DEF IInv, Coherent, Landed
    <3>2. e[2] \in 1..(f[2] - 1)
      BY <2>2 DEF Call
    <3>3. stage[e] = "error" /\ error[e] \in RetryOn
      BY <3>1, <3>2, <2>2 DEF IInv, TriesInOrder, MayTry
    <3> QED BY <3>3, <2>2 DEF IInv, Coherent, Landed
  <2>3. c[2] # d[2]
    BY <2>1
  <2>4. c[2] < d[2] \/ d[2] < c[2]
    BY <2>1, <2>3
  <2> QED BY <2>1, <2>2, <2>4
<1> QED BY <1>1, Invariance, PTL

----------------------------------------------------------------------------
(* A call that waits for its circle waits for one that was asked for.      *)
Asked(c) == stage[c] = "circle" => circle[c] = "asked"

LEMMA StepAsked ==
  ASSUME TypeOK, NEW c \in Call, Asked(c), CallStep(c) PROVE Asked(c)'
<1>1. CASE Execute(c)
  BY <1>1, SMTT(30) DEF Execute, TypeOK, Asked, Go, Fails, Submit
<1>2. CASE Identity(c)
  BY <1>2, SMTT(30) DEF Identity, IdentityFails, IdentityResolved, TypeOK, Asked, Go, Fails, Submit
<1>3. CASE CircleSettles(c)
  BY <1>3, SMTT(30) DEF CircleSettles, TypeOK, Asked, Go, Fails, Submit
<1>4. CASE EncryptionSettles(c)
  BY <1>4, SMTT(30) DEF EncryptionSettles, TypeOK, Asked, Go, Fails, Submit
<1>5. CASE WalletAnswers(c) \/ WalletRejects(c) \/ Receipt(c)
  BY <1>5, SMTT(30) DEF WalletAnswers, WalletRejects, Receipt, ReceiptArrives, ReceiptFails, TypeOK,
     Asked, Go, Fails
<1>6. CASE Broadcast(c) \/ Mined(c)
  BY <1>6, SMTT(30) DEF Broadcast, Mined, TypeOK, Asked
<1> QED BY <1>1, <1>2, <1>3, <1>4, <1>5, <1>6 DEF CallStep

LEMMA CirclesAreAsked == ASSUME NEW c \in Call PROVE Spec => []Asked(c)
<1>1. Init => Asked(c)
  BY DEF Init, Asked
<1>2. TypeOK /\ Asked(c) /\ [Next]_vars => Asked(c)'
  <2> SUFFICES ASSUME TypeOK, Asked(c), [Next]_vars PROVE Asked(c)'
    OBVIOUS
  <2>1. ASSUME NEW d \in Call, CallStep(d) PROVE Asked(c)'
    BY <2>1, StepAsked, OthersUntouched DEF Asked
  <2> QED BY <2>1 DEF Next, vars, Asked
<1> QED BY <1>1, <1>2, TypeCorrect, PTL DEF Spec

(* A step of anyone leaves a preparing call at its stage or takes it to a  *)
(* later one.                                                              *)
At(c, s) == stage[c] = s
Onward(c) ==
  /\ At(c, "identity") => At(c, "identity")' \/ At(c, "circle")' \/ At(c, "encrypting")' \/ ~Preparing(c)'
  /\ At(c, "circle") => At(c, "circle")' \/ ~Preparing(c)'
  /\ At(c, "encrypting") => At(c, "encrypting")' \/ ~Preparing(c)'

LEMMA StepGoesOn ==
  ASSUME TypeOK, NEW c \in Call, CallStep(c) PROVE Onward(c)
<1>1. CASE Execute(c)
  BY <1>1 DEF Execute, Onward, At
<1>2. CASE Identity(c)
  BY <1>2, SMTT(30) DEF Identity, IdentityFails, IdentityResolved, TypeOK, Onward, At, Preparing, Go, Fails, Submit
<1>3. CASE CircleSettles(c)
  BY <1>3, SMTT(30) DEF CircleSettles, TypeOK, Onward, At, Preparing, Go, Fails, Submit
<1>4. CASE EncryptionSettles(c)
  BY <1>4, SMTT(30) DEF EncryptionSettles, TypeOK, Onward, At, Preparing, Go, Fails, Submit
<1>5. CASE WalletAnswers(c) \/ WalletRejects(c) \/ Receipt(c)
  BY <1>5, SMTT(30) DEF WalletAnswers, WalletRejects, Receipt, ReceiptArrives, ReceiptFails, Onward, At
<1>6. CASE Broadcast(c) \/ Mined(c)
  BY <1>6, SMTT(30) DEF Broadcast, Mined, Onward, At
<1> QED BY <1>1, <1>2, <1>3, <1>4, <1>5, <1>6 DEF CallStep

(* What a preparing call waits for can happen: an identity may resolve or  *)
(* fail, a circle asked for settles one way or the other, and so does an   *)
(* encryption.                                                             *)
CanGoOn(c) ==
  /\ stage[c] = "identity" => ENABLED <<Identity(c)>>_vars
  /\ circle[c] = "asked" => ENABLED <<CircleSettles(c)>>_vars
  /\ stage[c] = "encrypting" => ENABLED <<EncryptionSettles(c)>>_vars
CallsCanGoOn == \A c \in Call : CanGoOn(c)

LEMMA CallPrepares ==
  ASSUME NEW c \in Call
  PROVE  FairSpec /\ []CallsCanGoOn => (Preparing(c) ~> ~Preparing(c))
<1>1. FairSpec => Spec /\ Fair(c)
  BY DEF FairSpec
<1>2. CallsCanGoOn => CanGoOn(c)
  BY DEF CallsCanGoOn
<1>3. TypeOK /\ [Next]_vars => Onward(c)
  <2> SUFFICES ASSUME TypeOK, [Next]_vars PROVE Onward(c)
    OBVIOUS
  <2>1. ASSUME NEW d \in Call, CallStep(d) PROVE Onward(c)
    <3>1. CASE d = c
      BY <2>1, <3>1, StepGoesOn
    <3>2. CASE d # c
      BY <2>1, <3>2, OthersUntouched DEF Onward, At
    <3> QED BY <3>1, <3>2
  <2> QED BY <2>1 DEF Next, vars, Onward, At
<1>4. Preparing(c) <=> At(c, "identity") \/ At(c, "circle") \/ At(c, "encrypting")
  BY DEF Preparing, At
<1>5. TypeOK /\ At(c, "identity") /\ Identity(c) => ~At(c, "identity")'
  BY SMTT(30) DEF Identity, IdentityFails, IdentityResolved, TypeOK, At, Go, Fails, Submit
<1>6. TypeOK /\ At(c, "circle") /\ CircleSettles(c) => ~At(c, "circle")'
  BY SMTT(30) DEF CircleSettles, TypeOK, At, Go, Fails, Submit
<1>7. TypeOK /\ At(c, "encrypting") /\ EncryptionSettles(c) => ~At(c, "encrypting")'
  BY SMTT(30) DEF EncryptionSettles, TypeOK, At, Go, Fails, Submit
<1>8. /\ At(c, "identity") => stage[c] = "identity"
      /\ At(c, "circle") /\ Asked(c) => circle[c] = "asked"
      /\ At(c, "encrypting") => stage[c] = "encrypting"
  BY DEF At, Asked
<1> QED BY <1>1, <1>2, <1>3, <1>4, <1>5, <1>6, <1>7, <1>8, TypeCorrect, CirclesAreAsked, PTL
        DEF Spec, Fair, CanGoOn, Onward

(* Every preparation ends (PreparationEnds), whichever of identity and     *)
(* circle comes first: the circle that arrives before the identity is kept,*)
(* and the one awaited has not settled yet.                                *)
THEOREM PreparationsEnd == FairSpec /\ []CallsCanGoOn => PreparationEnds
<1>1. ASSUME NEW c \in Call PROVE FairSpec /\ []CallsCanGoOn => (Preparing(c) ~> ~Preparing(c))
  BY CallPrepares
<1> QED BY <1>1 DEF PreparationEnds
=============================================================================
