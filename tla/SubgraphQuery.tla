---------------------------- MODULE SubgraphQuery ----------------------------
(***************************************************************************)
(* querySubgraph (src/src/lib/subgraph.ts): up to four attempts, each cut  *)
(* off by an AbortController timer that covers the request and its body,   *)
(* with a growing pause between them, over a subgraph that goes down and   *)
(* comes back.  Time is a count of ticks; a timer fires on its tick.       *)
(***************************************************************************)
EXTENDS Integers

CONSTANTS
  Timeout,   \* timeoutMs of the caller, 10 000 ms by default
  BACKOFF,   \* BACKOFF_MS, 500 ms
  Reply      \* what the subgraph can say to this query when it is up

MAX_RETRIES == 3
Failure == {"HTTP_5xx", "no_connection", "timed_out", "HTTP_4xx", "GRAPHQL_ERROR", "NO_DATA", "not_JSON"}

ASSUME SubgraphAssumption ==
  /\ Timeout \in Nat \ {0} /\ BACKOFF \in Nat \ {0}
  /\ Reply \subseteq {"data", "HTTP_4xx", "GRAPHQL_ERROR", "NO_DATA", "not_JSON"}

VARIABLES
  query,    \* "fetching", "sleeping" or "done"
  attempt,  \* the loop's counter
  spent,    \* ticks in this phase
  elapsed,  \* ticks since the query began
  failure,  \* the error the loop caught last, or "none"
  result,   \* "pending", "data", or the SubgraphErrorCode reported
  up,       \* is the subgraph up?
  upSince,  \* since when (`elapsed` of the moment), while it is
  steady    \* has it been up all through the request in flight?

queryVars == <<query, attempt, spent, elapsed, failure, result, up, upSince, steady>>
subgraph == <<up, upSince>>

Code == {"HTTP_ERROR", "GRAPHQL_ERROR", "NO_DATA", "TRANSPORT_ERROR"}

QueryTypeOK ==
  /\ query \in {"fetching", "sleeping", "done"}
  /\ attempt \in 0..MAX_RETRIES /\ spent \in Nat /\ elapsed \in Nat /\ upSince \in Nat
  /\ failure \in Failure \cup {"none"}
  /\ result \in Code \cup {"pending", "data"}
  /\ up \in BOOLEAN /\ steady \in BOOLEAN

QueryInit ==
  /\ query = "fetching" /\ attempt = 0 /\ spent = 0 /\ elapsed = 0
  /\ failure = "none" /\ result = "pending"
  /\ up \in BOOLEAN /\ upSince = 0 /\ steady = up

----------------------------------------------------------------------------
Transient == {"HTTP_5xx", "no_connection", "timed_out"}

CodeOf(f) ==
  CASE f \in {"HTTP_4xx", "HTTP_5xx"} -> "HTTP_ERROR"
    [] f = "GRAPHQL_ERROR"            -> "GRAPHQL_ERROR"
    [] f = "NO_DATA"                  -> "NO_DATA"
    [] OTHER                          -> "TRANSPORT_ERROR"

(* Mutant: the pause does not grow.                                        *)
MutPauseConstant == BACKOFF

Pause == BACKOFF * (attempt + 1)

(* The catch of the loop: the last attempt and permanent errors are thrown.*)
Catch(f) ==
  /\ query = "fetching"
  /\ failure' = f /\ spent' = 0
  /\ IF attempt = MAX_RETRIES \/ f \notin Transient
     THEN query' = "done" /\ result' = CodeOf(f)
     ELSE query' = "sleeping" /\ UNCHANGED result
  /\ UNCHANGED <<attempt, elapsed, subgraph, steady>>

(* The subgraph's answer, in time.                                         *)
Answer(r) ==
  IF r = "data"
  THEN /\ query = "fetching"
       /\ query' = "done" /\ result' = "data"
       /\ UNCHANGED <<attempt, spent, elapsed, failure, subgraph, steady>>
  ELSE Catch(r)

(* Only a subgraph that was down during the request fails it this way.     *)
Breaks(f) == ~steady /\ Catch(f)

(* The timer aborts the request, or the reading of its body.               *)
TimesOut == ~steady /\ spent = Timeout /\ Catch("timed_out")

Retry ==
  /\ query = "sleeping" /\ spent = Pause
  /\ query' = "fetching" /\ attempt' = attempt + 1 /\ spent' = 0 /\ steady' = up
  /\ UNCHANGED <<elapsed, failure, result, subgraph>>

(* Mutant: the clock of a request stands still, as if it had no timer.     *)
MutTickNoTimer ==
  /\ query = "sleeping" /\ spent < Pause
  /\ spent' = spent + 1 /\ elapsed' = elapsed + 1
  /\ UNCHANGED <<query, attempt, failure, result, subgraph, steady>>

Tick ==
  /\ query # "done"
  /\ spent < IF query = "fetching" THEN Timeout ELSE Pause
  /\ spent' = spent + 1 /\ elapsed' = elapsed + 1
  /\ UNCHANGED <<query, attempt, failure, result, subgraph, steady>>

GoesDown ==
  /\ up /\ up' = FALSE /\ steady' = FALSE
  /\ UNCHANGED <<query, attempt, spent, elapsed, failure, result, upSince>>

ComesBack ==
  /\ ~up /\ up' = TRUE /\ upSince' = elapsed
  /\ UNCHANGED <<query, attempt, spent, elapsed, failure, result, steady>>

Answers == \E r \in Reply : Answer(r)

QueryNext ==
  \/ Answers \/ TimesOut \/ Retry \/ Tick \/ GoesDown \/ ComesBack
  \/ \E f \in {"HTTP_5xx", "no_connection"} : Breaks(f)

QuerySpec == QueryInit /\ [][QueryNext]_queryVars

----------------------------------------------------------------------------
(* The query is over after four timeouts and the three pauses, whatever the*)
(* subgraph does.  subgraph.ts:55, 96, 106.                                *)
InTime == elapsed <= 4 * Timeout + 6 * BACKOFF

(* An outage that is over before the last attempt can begin is never       *)
(* reported: the pauses keep one attempt for after it.  subgraph.ts:101-107.*)
RidesOutOutage ==
  query = "done" /\ failure \in {"HTTP_5xx", "no_connection", "timed_out"} /\ result # "data"
    => ~up \/ upSince >= 6 * BACKOFF

(* A query that the subgraph refuses for good is not asked again, and its  *)
(* caller is told the code of that refusal.  subgraph.ts:32-41, 105, 113.  *)
RefusalIsFinal ==
  failure \in {"HTTP_4xx", "GRAPHQL_ERROR", "NO_DATA", "not_JSON"} =>
    query = "done" /\ result = CodeOf(failure)
=============================================================================
