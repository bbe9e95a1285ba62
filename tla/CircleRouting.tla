--------------------------- MODULE CircleRouting ---------------------------
(***************************************************************************)
(* Circle selection (src/src/orders/internal/routing): the circles of the  *)
(* order's currency come from the subgraph (how, says SubgraphQuery; the   *)
(* two meet in OrderRouter), one is drawn epsilon-greedily, the router     *)
(* asks the chain whether the circle has an assignable merchant, and on a  *)
(* refusal removes the circle from the pool and draws again, a bounded     *)
(* number of times.  What the chain answers is the environment's choice    *)
(* and may change between two reads.                                       *)
(***************************************************************************)
EXTENDS Integers, FiniteSets

CONSTANTS
  Circle,        \* ids of circles
  Lists,         \* what the subgraph may answer: sets of circles
  StatusOf,      \* StatusOf[c]: metrics.circleStatus
  ScoreOf,       \* ScoreOf[c]: metrics.circleScore
  MerchantsOf,   \* MerchantsOf[c]: scoreState.availableMerchantsCount
  CurrencyOf,    \* CurrencyOf[c]
  Wanted,        \* the order's currency
  MaxAttempts,   \* MAX_VALIDATION_ATTEMPTS (3 in the code)
  NoCircle       \* "nothing selected"

ASSUME CircleAssumption ==
  /\ Circle \subseteq Nat /\ IsFiniteSet(Circle) /\ NoCircle \notin Circle
  /\ Lists \subseteq SUBSET Circle
  /\ StatusOf \in [Circle -> {"active", "bootstrap", "paused"}]
  /\ ScoreOf \in [Circle -> Nat]
  /\ MerchantsOf \in [Circle -> Nat]
ASSUME AttemptsAssumption == MaxAttempts \in Nat \ {0}

VARIABLES
  phase,         \* where the promise chain stands
  circles,       \* the subgraph's answer
  remaining,     \* `remaining`: circles not yet refused
  attemptsLeft,  \* argument of `attempt`
  selected,      \* circle being validated
  verdict,       \* verdict[c]: what the chain said about c, if it was asked
  outcome        \* the Result: a circle, or an error code

vars == <<phase, circles, remaining, attemptsLeft, selected, verdict, outcome>>

Pending == "pending"
Failures == {"SUBGRAPH_ERROR", "VALIDATION_ERROR", "NO_ELIGIBLE_CIRCLES"}

TypeOK ==
  /\ phase \in {"fetching", "choosing", "checking", "done"}
  /\ circles \subseteq Circle /\ remaining \subseteq Circle
  /\ attemptsLeft \in 0..MaxAttempts
  /\ selected \in Circle \cup {NoCircle}
  /\ verdict \in [Circle -> {"unasked", "yes", "no", "error"}]
  /\ outcome \in [circle: Circle \cup {NoCircle}, code: Failures \cup {"ok", Pending}]

Init ==
  /\ phase = "fetching"
  /\ circles = {} /\ remaining = {}
  /\ attemptsLeft = MaxAttempts
  /\ selected = NoCircle
  /\ verdict = [c \in Circle |-> "unasked"]
  /\ outcome = [circle |-> NoCircle, code |-> Pending]

----------------------------------------------------------------------------
(* Drawing a circle.  Math.random() is a percentage 0..99; scores carry a  *)
(* factor 10 so that RECOVERY_SCALE = 0.3 is an integer.                   *)

BootstrapReserve == 10
Epsilon == 25
BootstrapMaxWeight == 25

baseScore(c) ==
  CASE StatusOf[c] = "paused" -> 3 * ScoreOf[c]
    [] StatusOf[c] = "bootstrap" ->
         10 * (IF ScoreOf[c] < BootstrapMaxWeight THEN ScoreOf[c] ELSE BootstrapMaxWeight)
    [] OTHER -> 10 * ScoreOf[c]

circleWeight(c) == baseScore(c) * MerchantsOf[c]

filterEligibleCircles(list) == {c \in list : CurrencyOf[c] = Wanted /\ MerchantsOf[c] > 0}

(* What weightedRandomChoice may return: with no weight at all, anything;  *)
(* otherwise a circle of positive weight, or the first one (a draw of 0).  *)
weightedRandomChoice(pool) ==
  IF \A c \in pool : circleWeight(c) = 0 THEN pool
  ELSE {c \in pool : circleWeight(c) > 0 \/ \A d \in pool : c <= d}

WithStatus(pool, s) == {c \in pool : StatusOf[c] = s}

(* Which of the three branches of selectCircle a draw r takes.             *)
Branch(pool, r) ==
  IF r < BootstrapReserve /\ WithStatus(pool, "bootstrap") # {} THEN "reserve"
  ELSE IF r < BootstrapReserve + Epsilon THEN "explore" ELSE "exploit"

selectCircle(pool, r) ==
  CASE Branch(pool, r) = "reserve" -> weightedRandomChoice(WithStatus(pool, "bootstrap"))
    [] Branch(pool, r) = "explore" -> weightedRandomChoice(pool)
    [] OTHER -> IF WithStatus(pool, "active") = {} THEN weightedRandomChoice(pool)
                ELSE weightedRandomChoice(WithStatus(pool, "active"))

----------------------------------------------------------------------------
Finish(circle, code) ==
  /\ phase' = "done"
  /\ outcome' = [circle |-> circle, code |-> code]

(* The subgraph query fails for good, or its answer fails the schema.      *)
FetchFails(code) ==
  /\ phase = "fetching"
  /\ Finish(NoCircle, code)
  /\ UNCHANGED <<circles, remaining, attemptsLeft, selected, verdict>>

FetchReturns ==
  /\ phase = "fetching"
  /\ phase' = "choosing"
  /\ circles' \in Lists
  /\ remaining' = filterEligibleCircles(circles')
  /\ UNCHANGED <<attemptsLeft, selected, verdict, outcome>>

(* Mutants of Exhausted: the last attempt is never made; `&&` for `||`.    *)
MutExhaustedEarly ==
  /\ phase = "choosing"
  /\ attemptsLeft <= 1 \/ remaining = {}
  /\ Finish(NoCircle, "NO_ELIGIBLE_CIRCLES")
  /\ UNCHANGED <<circles, remaining, attemptsLeft, selected, verdict>>
MutExhaustedBoth ==
  /\ phase = "choosing"
  /\ attemptsLeft = 0 /\ remaining = {}
  /\ Finish(NoCircle, "NO_ELIGIBLE_CIRCLES")
  /\ UNCHANGED <<circles, remaining, attemptsLeft, selected, verdict>>

(* `attemptsLeft <= 0 || remaining.length === 0`                           *)
Exhausted ==
  /\ phase = "choosing"
  /\ attemptsLeft = 0 \/ remaining = {}
  /\ Finish(NoCircle, "NO_ELIGIBLE_CIRCLES")
  /\ UNCHANGED <<circles, remaining, attemptsLeft, selected, verdict>>

Select ==
  /\ phase = "choosing"
  /\ attemptsLeft > 0 /\ remaining # {}
  /\ \E r \in 0..99 : \E c \in selectCircle(remaining, r) : selected' = c
  /\ phase' = "checking"
  /\ UNCHANGED <<circles, remaining, attemptsLeft, verdict, outcome>>

(* Mutant of Accepted: a failed read counts as eligible.                   *)
MutAcceptedOnError ==
  /\ phase = "checking"
  /\ \E v \in {"yes", "error"} : verdict' = [verdict EXCEPT ![selected] = v]
  /\ Finish(selected, "ok")
  /\ UNCHANGED <<circles, remaining, attemptsLeft, selected>>

(* The chain lists an assignable merchant: the circle is the answer.       *)
Accepted ==
  /\ phase = "checking"
  /\ verdict' = [verdict EXCEPT ![selected] = "yes"]
  /\ Finish(selected, "ok")
  /\ UNCHANGED <<circles, remaining, attemptsLeft, selected>>

(* Mutant of Refused: the refused circle stays in the pool.                *)
MutRefusedStays ==
  /\ phase = "checking"
  /\ \E v \in {"no", "error"} : verdict' = [verdict EXCEPT ![selected] = v]
  /\ attemptsLeft' = attemptsLeft - 1
  /\ phase' = "choosing"
  /\ selected' = NoCircle
  /\ UNCHANGED <<circles, remaining, outcome>>

(* No merchant, or the read failed (`orElse(() => okAsync(false))`).       *)
Refused ==
  /\ phase = "checking"
  /\ \E v \in {"no", "error"} : verdict' = [verdict EXCEPT ![selected] = v]
  /\ remaining' = remaining \ {selected}
  /\ attemptsLeft' = attemptsLeft - 1
  /\ phase' = "choosing"
  /\ selected' = NoCircle
  /\ UNCHANGED <<circles, outcome>>

Choosing == Exhausted \/ Select \/ Accepted \/ Refused

Next ==
  \/ FetchReturns \/ Choosing
  \/ \E code \in {"SUBGRAPH_ERROR", "VALIDATION_ERROR"} : FetchFails(code)

Spec == Init /\ [][Next]_vars

----------------------------------------------------------------------------
Asked == {c \in Circle : verdict[c] # "unasked"}

(* A selection that gives up was really refused: every circle it asked     *)
(* about was refused, and it stopped only because the eligible circles or  *)
(* the attempts ran out.  routing.ts:138-149, 177-188.                     *)
GivesUpOnlyWhenRefused ==
  outcome.code = "NO_ELIGIBLE_CIRCLES" =>
    /\ \A c \in Asked : verdict[c] \in {"no", "error"}
    /\ Asked = filterEligibleCircles(circles) \/ Cardinality(Asked) = MaxAttempts

(* A selected circle is of the order's currency, had an available merchant *)
(* in the subgraph, and is the one and only circle the chain accepted; it  *)
(* cost at most MaxAttempts contract reads.  routing.ts:151-188.           *)
AnswerIsAccepted ==
  /\ Cardinality(Asked) <= MaxAttempts
  /\ outcome.code = "ok" =>
       /\ outcome.circle \in filterEligibleCircles(circles)
       /\ {c \in Circle : verdict[c] = "yes"} = {outcome.circle}

(* No circle is asked about twice in a selection: a refused circle never   *)
(* comes back through a later draw.  routing.ts:186.                       *)
NeverAskedTwice ==
  [][\A c \in Circle : verdict[c] # "unasked" => verdict'[c] = verdict[c]]_vars

(* Every selection ends, whatever the chain answers.                       *)
SelectionEnds == <>(phase = "done")
=============================================================================
