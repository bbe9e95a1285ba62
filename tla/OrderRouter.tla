----------------------------- MODULE OrderRouter -----------------------------
(***************************************************************************)
(* createOrderRouter().selectCircle                                        *)
(* (src/src/orders/internal/routing/client.ts): the query of SubgraphQuery,*)
(* over a subgraph that may go down, fetches the circles that CircleRouting*)
(* then chooses from.  The two share nothing but the answer.               *)
(***************************************************************************)
EXTENDS CircleRouting, SubgraphQuery

routerVars == <<vars, queryVars>>

RouterInit == Init /\ QueryInit

(* The query runs; nothing has been chosen yet.                            *)
Querying == phase = "fetching" /\ query # "done" /\ QueryNext /\ UNCHANGED vars

(* Its answer, or its error, reaches the routing: mapErr and validate.     *)
Fetched ==
  /\ query = "done"
  /\ IF result = "data" THEN FetchReturns \/ FetchFails("VALIDATION_ERROR")
     ELSE FetchFails("SUBGRAPH_ERROR")
  /\ UNCHANGED queryVars

RouterNext == Querying \/ Fetched \/ (Choosing /\ UNCHANGED queryVars)

RouterSpec == RouterInit /\ [][RouterNext]_routerVars

(* Time passes and timers fire; a subgraph that is up answers in time; the *)
(* callbacks of settled promises run and the contract reads settle.        *)
RouterFairSpec ==
  /\ RouterSpec
  /\ WF_routerVars(Tick /\ UNCHANGED vars)
  /\ WF_routerVars(TimesOut /\ UNCHANGED vars)
  /\ WF_routerVars(Retry /\ UNCHANGED vars)
  /\ WF_routerVars(steady /\ Answers /\ UNCHANGED vars)
  /\ WF_routerVars(Fetched)
  /\ WF_routerVars(Choosing /\ UNCHANGED queryVars)

RouterTypeOK == TypeOK /\ QueryTypeOK
=============================================================================
