----------------------------- MODULE FraudEngine -----------------------------
(***************************************************************************)
(* createFraudEngine (src/src/fraud-engine/client.ts): processBuyOrder     *)
(* checks, places through the page's callback and links the backend's      *)
(* activity log to the order; checkBuyOrder leaves the last two steps to   *)
(* the page.  Calls overlap, answers get lost after the backend decided,   *)
(* and a callback may throw after its order went on chain.  The backend,   *)
(* the wallet and the callback are external.                               *)
(***************************************************************************)
CONSTANTS
  Buy,     \* the buy orders being made, each by one call
  Manual   \* those made by checkBuyOrder and linkOrder

ASSUME FraudAssumption == Manual \subseteq Buy /\ "null" \notin Buy

VARIABLES
  configured,  \* did the engine's configuration validate?
  stage,       \* each call: "idle", "gathering", "checking", "placing" or "done"
  told,        \* what its caller was told, or "nothing"
  activityLogId, \* the closure's activity log: the call it is of, or "null"
  verdict,     \* the backend: the decision it logged for each call, or "none"
  unheard,     \* history: the check failed on the way, decided or not
  ordered,     \* the chain: whose order is on it
  linking,     \* link requests on their way: [log, order]
  linked       \* the links the backend has recorded

fraudVars == <<configured, stage, told, activityLogId, verdict, unheard, ordered, linking, linked>>
backend == <<verdict, linked>>

CheckError == {"SIGNING_ERROR", "ENCRYPTION_ERROR", "API_ERROR", "NETWORK_ERROR"}
Told == CheckError \cup {"nothing", "VALIDATION_ERROR", "rejected", "approved", "placed", "PLACE_ORDER_ERROR"}
Link == [log : Buy, order : Buy]

FraudTypeOK ==
  /\ configured \in BOOLEAN
  /\ stage \in [Buy -> {"idle", "gathering", "checking", "placing", "done"}]
  /\ told \in [Buy -> Told]
  /\ activityLogId \in [Buy -> Buy \cup {"null"}]
  /\ verdict \in [Buy -> {"none", "approved", "rejected"}]
  /\ unheard \subseteq Buy /\ ordered \subseteq Buy
  /\ linking \subseteq Link /\ linked \subseteq Link

FraudInit ==
  /\ configured \in BOOLEAN
  /\ stage = [b \in Buy |-> "idle"] /\ told = [b \in Buy |-> "nothing"]
  /\ activityLogId = [b \in Buy |-> "null"]
  /\ verdict = [b \in Buy |-> "none"]
  /\ unheard = {} /\ ordered = {} /\ linking = {} /\ linked = {}

----------------------------------------------------------------------------
Moves(b, s) == stage' = [stage EXCEPT ![b] = s]
Returns(b, r) == Moves(b, "done") /\ told' = [told EXCEPT ![b] = r]

Begin(b) ==
  /\ stage[b] = "idle"
  /\ IF configured THEN Moves(b, "gathering") /\ UNCHANGED told ELSE Returns(b, "VALIDATION_ERROR")
  /\ UNCHANGED <<configured, activityLogId, backend, unheard, ordered, linking>>

(* SEON, device details, the signature and the encryption of the payload;  *)
(* only the last two can fail.                                             *)
Gathered(b) ==
  /\ stage[b] = "gathering" /\ Moves(b, "checking")
  /\ UNCHANGED <<configured, told, activityLogId, backend, unheard, ordered, linking>>

(* Mutant: a failed check is made again.                                   *)
MutCheckRetries(b, e) ==
  /\ stage[b] = IF e \in {"SIGNING_ERROR", "ENCRYPTION_ERROR"} THEN "gathering" ELSE "checking"
  /\ Moves(b, "gathering")
  /\ UNCHANGED <<configured, told, activityLogId, backend, unheard, ordered, linking>>

(* The check throws: processBuyOrder goes on without a log (fail-open),    *)
(* checkBuyOrder returns the error.                                        *)
CheckFails(b, e) ==
  /\ stage[b] = IF e \in {"SIGNING_ERROR", "ENCRYPTION_ERROR"} THEN "gathering" ELSE "checking"
  /\ unheard' = unheard \cup {b}
  /\ IF b \in Manual THEN Returns(b, e) ELSE Moves(b, "placing") /\ UNCHANGED told
  /\ UNCHANGED <<configured, activityLogId, backend, ordered, linking>>

BackendDecides(b) ==
  /\ stage[b] = "checking" /\ verdict[b] = "none"
  /\ \E v \in {"approved", "rejected"} : verdict' = [verdict EXCEPT ![b] = v]
  /\ UNCHANGED <<configured, stage, told, activityLogId, unheard, ordered, linking, linked>>

(* Mutant: every answer of the backend is taken for an approval.           *)
MutAnsweredAlways(b) ==
  /\ stage[b] = "checking" /\ verdict[b] # "none"
  /\ IF b \in Manual THEN Returns(b, verdict[b]) ELSE Moves(b, "placing") /\ UNCHANGED told
  /\ activityLogId' = [activityLogId EXCEPT ![b] = b]
  /\ UNCHANGED <<configured, backend, unheard, ordered, linking>>

(* The backend's answer arrives.                                           *)
Answered(b) ==
  /\ stage[b] = "checking" /\ verdict[b] # "none"
  /\ IF b \in Manual \/ verdict[b] = "rejected"
     THEN Returns(b, verdict[b]) ELSE Moves(b, "placing") /\ UNCHANGED told
  /\ activityLogId' = [activityLogId EXCEPT ![b] = IF verdict[b] = "approved" \/ b \in Manual THEN b ELSE @]
  /\ UNCHANGED <<configured, backend, unheard, ordered, linking>>

(* Mutant: the activity log is kept in the engine, not in the call.        *)
MutPlacesLatestLog(b) ==
  /\ stage[b] = "placing" /\ Returns(b, "placed")
  /\ ordered' = ordered \cup {b}
  /\ \E c \in Buy : activityLogId[c] # "null" /\ linking' = linking \cup {[log |-> activityLogId[c], order |-> b]}
  /\ UNCHANGED <<configured, activityLogId, backend, unheard>>

(* The callback returns its order; the link is sent, and not awaited.      *)
Places(b) ==
  /\ stage[b] = "placing" /\ Returns(b, "placed")
  /\ ordered' = ordered \cup {b}
  /\ linking' = IF activityLogId[b] = "null" THEN linking
                ELSE linking \cup {[log |-> activityLogId[b], order |-> b]}
  /\ UNCHANGED <<configured, activityLogId, backend, unheard>>

(* The callback throws, with its order on chain or without.                *)
PlacingFails(b) ==
  /\ stage[b] = "placing" /\ Returns(b, "PLACE_ORDER_ERROR")
  /\ ordered' \in {ordered, ordered \cup {b}}
  /\ UNCHANGED <<configured, activityLogId, backend, unheard, linking>>

(* The page of checkBuyOrder places an approved order, and links it.       *)
PagePlaces(b) ==
  /\ b \in Manual /\ told[b] = "approved" /\ b \notin ordered
  /\ ordered' = ordered \cup {b}
  /\ UNCHANGED <<configured, stage, told, activityLogId, backend, unheard, linking>>

LinkOrder(b) ==
  /\ b \in Manual /\ b \in ordered
  /\ linking' = linking \cup {[log |-> activityLogId[b], order |-> b]}
  /\ UNCHANGED <<configured, stage, told, activityLogId, backend, unheard, ordered>>

(* The request is recorded, or lost, or its answer is lost.                *)
LinkEnds(l) ==
  /\ linking' = linking \ {l}
  /\ linked' \in {linked, linked \cup {l}}
  /\ UNCHANGED <<configured, stage, told, activityLogId, verdict, unheard, ordered>>

Checks(b) == Gathered(b) \/ Answered(b) \/ \E e \in CheckError : CheckFails(b, e)
Callback(b) == Places(b) \/ PlacingFails(b)

FraudNext ==
  \/ \E b \in Buy : Begin(b) \/ Checks(b) \/ BackendDecides(b) \/ Callback(b) \/ PagePlaces(b) \/ LinkOrder(b)
  \/ \E l \in linking : LinkEnds(l)

FraudSpec == FraudInit /\ [][FraudNext]_fraudVars

----------------------------------------------------------------------------
(* "blocks placement if the backend rejects it": an order the backend      *)
(* rejected goes on chain only if the check failed before it was heard.    *)
(* client.ts:228-238.                                                      *)
RejectionStops == \A b \in Buy : verdict[b] = "rejected" /\ b \in ordered => b \in unheard

(* A link joins the log and the order of one call, an order that is on     *)
(* chain and whose check was approved, also with calls in parallel.        *)
(* client.ts:202-203, 252-253.                                             *)
LinksOwnOrder ==
  \A l \in linked \cup linking : l.log = l.order /\ l.order \in ordered /\ verdict[l.log] = "approved"

(* A caller told "placed" by an approved call can count on a link having   *)
(* been sent, and its order being there.  client.ts:252-262.               *)
PlacedIsTraced ==
  [][\A b \in Buy : told[b] = "nothing" /\ told'[b] = "placed" =>
       b \in ordered' /\ (verdict[b] = "approved" /\ b \notin unheard =>
                            \E l \in linking' : l.order = b)]_fraudVars

(* A call that began is over, whatever becomes of its link.                *)
CallSettles == \A b \in Buy : stage[b] # "idle" ~> stage[b] = "done"
=============================================================================
