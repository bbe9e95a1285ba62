---------------------------- MODULE IdentityCell ----------------------------
(***************************************************************************)
(* What relay-identity resolution promises its callers, without flights,   *)
(* awaits or damage: each persisted entry is a cell that is filled at most *)
(* once (a non-durable one may be forgotten), and every caller that gets   *)
(* an answer gets the content of the cell at that moment.                  *)
(* resolve.ts:63-70 ("can never overwrite a freshly-minted identity").     *)
(***************************************************************************)
CONSTANTS Call, Key, Identity, None, CellOf, GivenTo, Durable

VARIABLES
  cell,    \* cell[k]: the one identity of entry k, or None
  answer   \* answer[c]: the identity call c obtained, or None

cellVars == <<cell, answer>>

CInit ==
  /\ cell = [k \in Key |-> None]
  /\ answer = [c \in Call |-> None]

Fill(k) ==
  /\ cell[k] = None
  /\ \E id \in Identity : cell' = [cell EXCEPT ![k] = id]
  /\ UNCHANGED answer

(* Some calls on entry k, sharing one resolution, learn the cell's content.*)
Answer(k) ==
  /\ cell[k] # None
  /\ answer' \in [Call -> Identity \cup {None}]
  /\ \A c \in Call :
       answer'[c] # answer[c] =>
         /\ CellOf[c] = k /\ GivenTo[c] = None
         /\ answer[c] = None /\ answer'[c] = cell[k]
  /\ UNCHANGED cell

AnswerGiven(c) ==
  /\ GivenTo[c] # None
  /\ answer' = [answer EXCEPT ![c] = GivenTo[c]]
  /\ UNCHANGED cell

Forget(k) ==
  /\ k \notin Durable
  /\ cell' = [cell EXCEPT ![k] = None]
  /\ UNCHANGED answer

CNext ==
  \/ \E k \in Key : Fill(k) \/ Answer(k) \/ Forget(k)
  \/ \E c \in Call : AnswerGiven(c)

CSpec == CInit /\ [][CNext]_cellVars
=============================================================================
