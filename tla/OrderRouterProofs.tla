-------------------------- MODULE OrderRouterProofs --------------------------
(***************************************************************************)
(* The order router and its two halves.  The selection of a circle, for    *)
(* every finite set of circles, every score and number of attempts; the    *)
(* query of the subgraph, for every timeout and backoff: its types, the    *)
(* bound on its duration, that it rides out short outages and that a       *)
(* refusal is final; and that the router implements both, so that what is  *)
(* proved of each half holds of the router.                                *)
(***************************************************************************)
EXTENDS OrderRouter, FiniteSetTheorems, TLAPS

(* While a selection runs, the eligible circles are split into those asked *)
(* (and refused) and those remaining, and each refusal cost one attempt;   *)
(* the circle being checked is still among the remaining ones.             *)
Running ==
  phase \in {"choosing", "checking"} =>
    /\ remaining \cap Asked = {} /\ remaining \cup Asked = filterEligibleCircles(circles)
    /\ Cardinality(Asked) = MaxAttempts - attemptsLeft
    /\ \A c \in Asked : verdict[c] \in {"no", "error"}
    /\ outcome.code = Pending
Checking == phase = "checking" => selected \in remaining /\ attemptsLeft > 0
Starting == phase = "fetching" => Asked = {} /\ attemptsLeft = MaxAttempts /\ outcome.code = Pending
IInv == /\ TypeOK /\ Running /\ Checking /\ Starting
        /\ GivesUpOnlyWhenRefused /\ AnswerIsAccepted

----------------------------------------------------------------------------
(* Whatever circles a draw may return belong to the pool it was drawn from.*)
LEMMA DrawFromPool ==
  ASSUME NEW pool \in SUBSET Circle, NEW r \in 0..99
  PROVE  selectCircle(pool, r) \subseteq pool
<1>1. \A p \in SUBSET pool : weightedRandomChoice(p) \subseteq pool
  BY DEF weightedRandomChoice
<1>2. WithStatus(pool, "bootstrap") \subseteq pool /\ WithStatus(pool, "active") \subseteq pool
  BY DEF WithStatus
<1>3. QED
  BY <1>1, <1>2 DEF selectCircle

(* Asking about one more circle counts one more.                           *)
LEMMA AskOneMore ==
  ASSUME NEW c \in Circle \ Asked, NEW v \in {"yes", "no", "error"}, TypeOK,
         verdict' = [verdict EXCEPT ![c] = v]
  PROVE  /\ Asked' = Asked \cup {c} /\ Cardinality(Asked') = Cardinality(Asked) + 1
         /\ Cardinality(Asked) \in Nat
         /\ \A d \in Circle : d # c => verdict'[d] = verdict[d]
         /\ verdict'[c] = v
<1>1. IsFiniteSet(Asked)
  BY CircleAssumption, FS_Subset DEF Asked
<1>2. Asked' = Asked \cup {c}
  BY DEF Asked, TypeOK
<1>3. Cardinality(Asked) \in Nat /\ Cardinality(Asked \cup {c}) = Cardinality(Asked) + 1
  BY <1>1, FS_AddElement, FS_CardinalityType
<1>4. verdict'[c] = v /\ \A d \in Circle : d # c => verdict'[d] = verdict[d]
  BY DEF TypeOK
<1>5. QED
  BY <1>2, <1>3, <1>4

LEMMA InitIInv == Init => IInv
<1> SUFFICES ASSUME Init PROVE IInv
  OBVIOUS
<1>1. Asked = {} /\ Cardinality(Asked) = 0
  BY FS_EmptySet DEF Init, Asked
<1>2. QED
  BY <1>1, CircleAssumption, AttemptsAssumption
  DEF Init, IInv, TypeOK, Running, Checking, Starting, GivesUpOnlyWhenRefused,
      AnswerIsAccepted, Pending, Failures

LEMMA StepIInv == IInv /\ [Next]_vars => IInv'
<1> SUFFICES ASSUME IInv, [Next]_vars PROVE IInv'
  OBVIOUS
<1> USE CircleAssumption, AttemptsAssumption
    DEF IInv, TypeOK, Running, Checking, Starting, GivesUpOnlyWhenRefused,
        AnswerIsAccepted, Pending, Failures
<1>1. ASSUME NEW code \in {"SUBGRAPH_ERROR", "VALIDATION_ERROR"}, FetchFails(code) PROVE IInv'
  BY <1>1 DEF FetchFails, Finish, Asked
<1>2. CASE FetchReturns
  <2>1. Asked' = Asked /\ Asked = {} /\ Cardinality(Asked) = 0
    BY <1>2, FS_EmptySet DEF FetchReturns, Asked
  <2>2. filterEligibleCircles(circles') \subseteq circles' /\ circles' \subseteq Circle
    BY <1>2, CircleAssumption DEF FetchReturns, filterEligibleCircles
  <2>3. remaining' = filterEligibleCircles(circles') /\ remaining' \subseteq Circle /\ phase' = "choosing"
        /\ UNCHANGED <<attemptsLeft, selected, verdict, outcome>>
    BY <1>2, <2>2 DEF FetchReturns
  <2>4. Running'
    BY <1>2, <2>1, <2>3 DEF FetchReturns, filterEligibleCircles
  <2>5. QED
    BY <1>2, <2>1, <2>2, <2>3, <2>4 DEF FetchReturns
<1>3. CASE Exhausted
  <2>1. Asked' = Asked /\ (Asked = filterEligibleCircles(circles) \/ Cardinality(Asked) = MaxAttempts)
    <3>1. Asked' = Asked
      BY <1>3 DEF Exhausted, Asked
    <3>2. CASE attemptsLeft = 0
      BY <1>3, <3>1, <3>2 DEF Exhausted
    <3>3. CASE remaining = {}
      <4>1. remaining \cup Asked = filterEligibleCircles(circles)
        BY <1>3 DEF Exhausted
      <4>2. QED
        BY <3>1, <3>3, <4>1
    <3>4. QED
      BY <1>3, <3>2, <3>3 DEF Exhausted
  <2>2. {c \in Circle : verdict'[c] = "yes"} = {c \in Circle : verdict[c] = "yes"}
    BY <1>3 DEF Exhausted
  <2>3. QED
    BY <1>3, <2>1, <2>2 DEF Exhausted, Finish
<1>4. CASE Select
  <2>1. selected' \in remaining
    BY <1>4, DrawFromPool DEF Select
  <2>2. Asked' = Asked
    BY <1>4 DEF Select, Asked
  <2>3. QED
    BY <1>4, <2>1, <2>2 DEF Select
<1>5. CASE Accepted
  <2>1. selected \in Circle \ Asked
    BY <1>5 DEF Accepted
  <2>2. verdict' = [verdict EXCEPT ![selected] = "yes"]
    BY <1>5 DEF Accepted
  <2>3. /\ Asked' = Asked \cup {selected} /\ Cardinality(Asked') = Cardinality(Asked) + 1
        /\ \A d \in Circle : d # selected => verdict'[d] = verdict[d]
        /\ verdict'[selected] = "yes"
    BY <2>1, <2>2, AskOneMore
  <2>4. {c \in Circle : verdict'[c] = "yes"} = {selected}
    BY <1>5, <2>1, <2>3 DEF Accepted, Asked
  <2>5. QED
    BY <1>5, <2>1, <2>3, <2>4 DEF Accepted, Finish
<1>6. CASE Refused
  <2>1. selected \in Circle \ Asked
    BY <1>6 DEF Refused
  <2>2. PICK v \in {"no", "error"} : verdict' = [verdict EXCEPT ![selected] = v]
    BY <1>6 DEF Refused
  <2>3. /\ Asked' = Asked \cup {selected} /\ Cardinality(Asked') = Cardinality(Asked) + 1
        /\ \A d \in Circle : d # selected => verdict'[d] = verdict[d]
        /\ verdict'[selected] = v
    BY <2>1, <2>2, AskOneMore
  <2>4. QED
    BY <1>6, <2>1, <2>2, <2>3 DEF Refused, Asked
<1>7. CASE UNCHANGED vars
  BY <1>7 DEF vars, Asked
<1>8. QED
  BY <1>1, <1>2, <1>3, <1>4, <1>5, <1>6, <1>7 DEF Next, Choosing

----------------------------------------------------------------------------
(* Type correctness.                                                       *)
THEOREM TypeCorrect == Spec => []TypeOK
  BY InitIInv, StepIInv, PTL DEF Spec, IInv

(* For every pool and number of attempts, a selection reports that there is*)
(* no eligible circle only after all of them, or MaxAttempts, were refused *)
(* (routing.ts:138-149).                                                   *)
THEOREM RefusalIsJustified == Spec => []GivesUpOnlyWhenRefused
<1>1. IInv => GivesUpOnlyWhenRefused
  BY DEF IInv
<1>2. QED
  BY <1>1, InitIInv, StepIInv, PTL DEF Spec

(* For every pool, a selected circle is eligible, is the only one the chain*)
(* accepted, and at most MaxAttempts were asked (routing.ts:151-188).      *)
THEOREM SelectionIsAccepted == Spec => []AnswerIsAccepted
<1>1. IInv => AnswerIsAccepted
  BY DEF IInv
<1>2. QED
  BY <1>1, InitIInv, StepIInv, PTL DEF Spec

(* No circle is asked about twice (routing.ts:186).                        *)
THEOREM AskedAtMostOnce == Spec => NeverAskedTwice
<1> DEFINE Kept == \A c \in Circle : verdict[c] # "unasked" => verdict'[c] = verdict[c]
<1>1. IInv /\ [Next]_vars => [Kept]_vars
  <2> SUFFICES ASSUME IInv, Next, NEW c \in Circle, c \in Asked PROVE verdict'[c] = verdict[c]
    BY DEF Asked
  <2>1. CASE Accepted \/ Refused
    <3>1. c # selected
      BY <2>1 DEF Accepted, Refused, IInv, Running, Checking
    <3>2. QED
      BY <2>1, <3>1 DEF Accepted, Refused, IInv, TypeOK
  <2>2. CASE FetchReturns \/ Exhausted \/ Select
    BY <2>2 DEF FetchReturns, Exhausted, Select
  <2>3. ASSUME NEW code, FetchFails(code) PROVE verdict' = verdict
    BY <2>3 DEF FetchFails
  <2>4. QED
    BY <2>1, <2>2, <2>3 DEF Next, Choosing
<1>2. QED
  BY <1>1, InitIInv, StepIInv, PTL DEF Spec, NeverAskedTwice

----------------------------------------------------------------------------
(* The query.                                                              *)

(* The pauses, and the timeouts, that can lie before attempt k begins.     *)
Pauses(k) ==
  IF k = 0 THEN 0 ELSE IF k = 1 THEN BACKOFF ELSE IF k = 2 THEN 3 * BACKOFF ELSE 6 * BACKOFF
Timeouts(k) ==
  IF k = 0 THEN 0 ELSE IF k = 1 THEN Timeout ELSE IF k = 2 THEN 2 * Timeout ELSE 3 * Timeout

(* When the attempt in flight began, or the pause: its earliest and latest.*)
Clock ==
  /\ query = "fetching" =>
       /\ spent <= Timeout
       /\ Pauses(attempt) + spent <= elapsed
       /\ elapsed <= Timeouts(attempt) + Pauses(attempt) + spent
  /\ query = "sleeping" =>
       /\ attempt < MAX_RETRIES /\ spent <= Pause
       /\ Pauses(attempt) + spent <= elapsed
       /\ elapsed <= Timeouts(attempt) + Timeout + Pauses(attempt) + spent
  /\ query = "done" => elapsed <= 4 * Timeout + 6 * BACKOFF

(* What is known of the subgraph once only the last attempt is left.       *)
DownLate == ~up \/ upSince >= 6 * BACKOFF
Outage ==
  /\ steady => up
  /\ query = "fetching" /\ attempt = MAX_RETRIES /\ ~steady => DownLate
  /\ query = "done" /\ result # "data" /\ failure \in Transient => DownLate /\ elapsed >= 6 * BACKOFF

QueryInv == QueryTypeOK /\ Clock /\ Outage /\ RefusalIsFinal

----------------------------------------------------------------------------
(* Pause() as a multiple of the backoff, one attempt at a time.            *)
LEMMA PauseLength ==
  ASSUME QueryTypeOK
  PROVE  /\ Pause \in Nat
         /\ attempt = 0 => Pause = BACKOFF
         /\ attempt = 1 => Pause = 2 * BACKOFF
         /\ attempt = 2 => Pause = 3 * BACKOFF
<1>1. attempt \in {0, 1, 2, 3} BY SMT DEF QueryTypeOK, MAX_RETRIES
<1>2. CASE attempt = 0 BY <1>2, SMT, SubgraphAssumption DEF Pause
<1>3. CASE attempt = 1 BY <1>3, SMT, SubgraphAssumption DEF Pause
<1>4. CASE attempt = 2 BY <1>4, SMT, SubgraphAssumption DEF Pause
<1>5. CASE attempt = 3 BY <1>5, SMT, SubgraphAssumption DEF Pause
<1> QED BY <1>1, <1>2, <1>3, <1>4, <1>5

LEMMA CodeType == \A f \in Failure : CodeOf(f) \in Code
BY DEF Failure, CodeOf, Code

LEMMA InitInv == QueryInit => QueryInv
BY SubgraphAssumption, SMT
   DEF QueryInit, QueryInv, QueryTypeOK, Clock, Outage, RefusalIsFinal, Transient, Pauses, Timeouts, MAX_RETRIES, Failure, Code

(* Every way out of an attempt that did not bring data.                    *)
LEMMA CatchInv ==
  ASSUME QueryInv, NEW f \in Failure, Catch(f), f \in Transient => ~steady
  PROVE  QueryInv'
<1> USE SubgraphAssumption DEF QueryInv, Catch, subgraph
<1>1. QueryTypeOK'
  BY CodeType, SMT DEF QueryTypeOK, MAX_RETRIES
<1>2. Clock'
  <2>1. CASE attempt = MAX_RETRIES \/ f \notin Transient
    BY <2>1, SMT DEF QueryTypeOK, Clock, Pauses, Timeouts, MAX_RETRIES
  <2>2. CASE ~(attempt = MAX_RETRIES \/ f \notin Transient)
    <3>1. Pause' \in Nat BY <1>1, PauseLength, SMT, <2>2 DEF QueryTypeOK, Pause
    <3> QED BY <2>2, <3>1, SMT DEF QueryTypeOK, Clock, Pauses, Timeouts, MAX_RETRIES
  <2> QED BY <2>1, <2>2
<1>3. Outage'
  BY SMT DEF QueryTypeOK, Clock, Outage, DownLate, Pauses, Timeouts, MAX_RETRIES
<1>4. RefusalIsFinal'
  BY SMT DEF RefusalIsFinal, Transient, QueryTypeOK
<1> QED BY <1>1, <1>2, <1>3, <1>4

(* One step per action keeps the invariant.                                *)
LEMMA NextInv == QueryInv /\ [QueryNext]_queryVars => QueryInv'
<1> SUFFICES ASSUME QueryInv, [QueryNext]_queryVars PROVE QueryInv'
  OBVIOUS
<1> USE SubgraphAssumption DEF QueryInv
<1>1. ASSUME NEW r \in Reply, Answer(r) PROVE QueryInv'
  <2>1. CASE r = "data"
    <3>1. QueryTypeOK' BY <1>1, <2>1, SMT DEF Answer, QueryTypeOK, subgraph
    <3>2. Clock' /\ Outage'
      BY <1>1, <2>1, SMT DEF Answer, QueryTypeOK, Clock, Outage, DownLate, Pauses, Timeouts, MAX_RETRIES, subgraph
    <3>3. RefusalIsFinal' BY <1>1, <2>1 DEF Answer, RefusalIsFinal
    <3> QED BY <3>1, <3>2, <3>3
  <2>2. CASE r # "data"
    BY <1>1, <2>2, CatchInv DEF Answer, Failure, Transient
  <2> QED BY <2>1, <2>2
<1>2. ASSUME NEW f \in {"HTTP_5xx", "no_connection"}, Breaks(f) PROVE QueryInv'
  BY <1>2, CatchInv DEF Breaks, Failure
<1>3. CASE TimesOut
  BY <1>3, CatchInv DEF TimesOut, Failure
<1>4. CASE Retry
  <2>1. QueryTypeOK' BY <1>4, SMT DEF Retry, QueryTypeOK, Clock, MAX_RETRIES, subgraph
  <2>2. Clock' /\ Outage'
    BY <1>4, PauseLength, SMT DEF Retry, QueryTypeOK, Clock, Outage, DownLate, Pauses, Timeouts, MAX_RETRIES, subgraph
  <2>3. RefusalIsFinal' BY <1>4, SMT DEF Retry, RefusalIsFinal
  <2> QED BY <2>1, <2>2, <2>3
<1>5. CASE Tick
  <2>1. QueryTypeOK' BY <1>5, SMT DEF Tick, QueryTypeOK, subgraph
  <2>2. Pause' = Pause BY <1>5 DEF Tick, Pause
  <2>3. Clock' /\ Outage'
    BY <1>5, <2>2, PauseLength, SMT DEF Tick, QueryTypeOK, Clock, Outage, DownLate, Pauses, Timeouts, MAX_RETRIES, subgraph
  <2>4. RefusalIsFinal' BY <1>5 DEF Tick, RefusalIsFinal
  <2> QED BY <2>1, <2>3, <2>4
<1>6. CASE GoesDown
  <2>1. QueryTypeOK' /\ RefusalIsFinal' BY <1>6 DEF GoesDown, QueryTypeOK, RefusalIsFinal
  <2>2. Pause' = Pause BY <1>6 DEF GoesDown, Pause
  <2>3. Clock' /\ Outage' BY <1>6, <2>2, SMT DEF GoesDown, Clock, Outage, DownLate
  <2> QED BY <2>1, <2>3
<1>7. CASE ComesBack
  <2>1. QueryTypeOK' /\ RefusalIsFinal' BY <1>7 DEF ComesBack, QueryTypeOK, RefusalIsFinal
  <2>2. Pause' = Pause BY <1>7 DEF ComesBack, Pause
  <2>3. Clock' BY <1>7, <2>2, SMT DEF ComesBack, Clock
  <2>4. Outage' BY <1>7, SMT DEF ComesBack, QueryTypeOK, Clock, Outage, DownLate, Pauses, MAX_RETRIES
  <2> QED BY <2>1, <2>3, <2>4
<1>8. CASE UNCHANGED queryVars
  <2>1. Pause' = Pause BY <1>8 DEF queryVars, Pause
  <2> QED BY <1>8, <2>1, SMT DEF queryVars, QueryTypeOK, Clock, Outage, DownLate, RefusalIsFinal
<1> QED BY <1>1, <1>2, <1>3, <1>4, <1>5, <1>6, <1>7, <1>8 DEF QueryNext, Answers

LEMMA Invariance == QuerySpec => []QueryInv
BY InitInv, NextInv, PTL DEF QuerySpec

(* The variables keep their types, so no attempt beyond the fourth begins. *)
THEOREM QueryTypeCorrect == QuerySpec => []QueryTypeOK
BY Invariance, PTL DEF QueryInv

(* A query is over after four timeouts and six backoffs.                   *)
THEOREM QueryInTime == QuerySpec => []InTime
<1>1. QueryInv => InTime
  BY SubgraphAssumption, PauseLength, SMT
     DEF QueryInv, InTime, QueryTypeOK, Clock, Pauses, Timeouts, MAX_RETRIES
<1> QED BY <1>1, Invariance, PTL

(* An outage of less than the three pauses is never reported.              *)
THEOREM OutageRiddenOut == QuerySpec => []RidesOutOutage
<1>1. QueryInv => RidesOutOutage
  BY DEF QueryInv, RidesOutOutage, Outage, DownLate, Transient
<1> QED BY <1>1, Invariance, PTL

(* A refusal ends the query and is reported with its own code.             *)
THEOREM RefusalFinal == QuerySpec => []RefusalIsFinal
BY Invariance, PTL DEF QueryInv

----------------------------------------------------------------------------
(* The router.                                                             *)

(* Every step of the router is a step of the selection, or none of it      *)
(* (client.ts:37-52).                                                      *)
THEOREM ImplementsSelection == RouterSpec => Spec
<1>1. RouterInit => Init
  BY DEF RouterInit
<1>2. [RouterNext]_routerVars => [Next]_vars
  <2>1. Querying => UNCHANGED vars
    BY DEF Querying
  <2>2. Fetched => Next
    BY DEF Fetched, Next
  <2>3. Choosing => Next
    BY DEF Next
  <2>4. UNCHANGED routerVars => UNCHANGED vars
    BY DEF routerVars
  <2> QED BY <2>1, <2>2, <2>3, <2>4 DEF RouterNext
<1> QED BY <1>1, <1>2, PTL DEF RouterSpec, Spec

(* Every step of the router is a step of the query, or none of it.         *)
THEOREM ImplementsQuery == RouterSpec => QuerySpec
<1>1. RouterInit => QueryInit
  BY DEF RouterInit
<1>2. [RouterNext]_routerVars => [QueryNext]_queryVars
  <2>1. Querying => QueryNext
    BY DEF Querying
  <2>2. Fetched => UNCHANGED queryVars
    BY DEF Fetched
  <2>3. UNCHANGED routerVars => UNCHANGED queryVars
    BY DEF routerVars
  <2> QED BY <2>1, <2>2, <2>3 DEF RouterNext
<1> QED BY <1>1, <1>2, PTL DEF RouterSpec, QuerySpec

(* The router keeps the types of both halves: no fifth attempt at the      *)
(* query, no more than MaxAttempts circles asked about.                    *)
THEOREM RouterTypeCorrect == RouterSpec => []RouterTypeOK
<1>1. TypeOK /\ QueryTypeOK => RouterTypeOK
  BY DEF RouterTypeOK
<1> QED BY <1>1, ImplementsSelection, TypeCorrect, ImplementsQuery, QueryTypeCorrect, PTL

(* The router gives up on an order only when enough circles were refused,  *)
(* answers with the one accepted circle, and never asks about one twice.   *)
THEOREM RouterChoosesWell ==
  RouterSpec => []GivesUpOnlyWhenRefused /\ []AnswerIsAccepted /\ NeverAskedTwice
BY ImplementsSelection, RefusalIsJustified, SelectionIsAccepted, AskedAtMostOnce, PTL

(* The router waits a bounded time for the subgraph, rides out its short   *)
(* outages, and repeats nothing the subgraph refused.                      *)
THEOREM RouterWaitsWell == RouterSpec => []InTime /\ []RidesOutOutage /\ []RefusalIsFinal
BY ImplementsQuery, QueryInTime, OutageRiddenOut, RefusalFinal, PTL
=============================================================================
