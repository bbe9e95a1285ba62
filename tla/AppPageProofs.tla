--------------------------- MODULE AppPageProofs ---------------------------
(***************************************************************************)
(* The safety of the placement limits on screen, of the orders watched, of *)
(* the fraud engine and of the device's fingerprint, for any wallets, any  *)
(* number of requests, events, subscriptions, buy orders and runs of the   *)
(* hook's effect.                                                          *)
(*                                                                         *)
(* ShowsOwnCounts is not inductive: it needs that there is one newest      *)
(* request, that it is the rendered user's, with the same exceptions, and  *)
(* no older than what it will replace; and that the timers are those of the*)
(* rendered user but between a render and its effects.  LinksOwnOrder and RejectionStops need what the activity log of*)
(* a call, its stage and what its page was told say about the backend.     *)
(* OnceInOrder needs that there is one watcher of a kind, and that it is   *)
(* beyond the events of the kind; OnlyInGap that all watchers are of the   *)
(* subscription the effect last made.                                      *)
(* ShowsNewestRun needs that all runs but the newest are cancelled.        *)
(*                                                                         *)
(* What comes to an end, at the end: the stages a call, an event due or the*)
(* newest run goes through, each left by the step the fairness is for.     *)
(* That such a step is ENABLED where its guard holds is out of the provers'*)
(* reach: the theorems take it as a hypothesis, ...CanGoOn.                *)
(***************************************************************************)
EXTENDS AppPage, FiniteSetTheorems, TLAPS

USE HookAssumption, FraudAssumption, FingerprintAssumption
      DEF HookAssumption, FraudAssumption, FingerprintAssumption

----------------------------------------------------------------------------
(* The placement limits                                                    *)

(* The newest request is the only one, the user's when the last refresh()  *)
(* was, and brings no older counts.                                        *)
NewestIsOwn ==
  \A r \in requests : r.newest =>
    /\ AskedForAnother \/ r.user = user
    /\ \A s \in requests : s.newest => s = r
    /\ limits # NoLimits => r.age <= limits.age

HookInv ==
  /\ HookTypeOK /\ NewestIsOwn /\ ShowsOwnCounts
  /\ timer # "off" => life = "mounted" /\ armed # NoWallet
  /\ effects # "all" => armed = user
  /\ life # "mounted" => effects = "none"
  /\ life = "unborn" => limits = NoLimits /\ requests = {}

(* The counts of the same user, unless the day turns, get no older.        *)
NoOlder == limits # NoLimits /\ limits' # NoLimits /\ limits'.user = limits.user /\ firstSecond = firstSecond'
             => limits'.age <= limits.age

LEMMA HookStarts == HookInit => HookInv
<1> SUFFICES ASSUME HookInit PROVE HookInv
  OBVIOUS
<1>1. HookTypeOK
  <2>1. moves \in 0..MaxMoves /\ requests \subseteq Request
    BY DEF HookInit
  <2>2. isLoading \in BOOLEAN /\ error \in BOOLEAN /\ firstSecond \in BOOLEAN
        /\ overtaken \in BOOLEAN /\ crossed \in BOOLEAN
    BY DEF HookInit
  <2> QED BY <2>1, <2>2 DEF HookInit, HookTypeOK, Timer
<1>2. NewestIsOwn
  BY DEF HookInit, NewestIsOwn
<1>3. ShowsOwnCounts
  BY DEF HookInit, ShowsOwnCounts
<1> QED BY <1>1, <1>2, <1>3 DEF HookInit, HookInv

(* refresh() supersedes every request by one of the user it is for.        *)
LEMMA RefreshKeeps ==
  ASSUME HookInv, NEW u \in Wallet \cup {NoWallet}, Refresh(u)
  PROVE  /\ requests' \subseteq Request /\ limits' \in Counts \cup {NoLimits}
         /\ isLoading' \in BOOLEAN /\ error' \in BOOLEAN
         /\ \A r \in requests' : r.newest =>
              /\ r.user = u /\ r.age = 0 /\ \A s \in requests' : s.newest => s = r
         /\ IF u = NoWallet THEN limits' = NoLimits /\ ~isLoading' /\ ~error' /\ \A r \in requests' : ~r.newest
            ELSE isLoading' /\ limits' = limits
<1>1. Superseded \subseteq Request /\ \A r \in Superseded : ~r.newest
  BY DEF HookInv, HookTypeOK, Superseded, Request
<1>2. CASE u = NoWallet
  BY <1>1, <1>2 DEF Refresh, HookInv, HookTypeOK
<1>3. CASE u # NoWallet
  <2>1. [user |-> u, age |-> 0, newest |-> TRUE] \in Request
    BY <1>3 DEF Request
  <2>2. /\ requests' = Superseded \cup {[user |-> u, age |-> 0, newest |-> TRUE]}
        /\ isLoading' = TRUE /\ limits' = limits /\ error' = error
    BY <1>3 DEF Refresh
  <2>3. \A r \in requests' : r.newest => r = [user |-> u, age |-> 0, newest |-> TRUE]
    BY <1>1, <2>2
  <2>4. requests' \subseteq Request /\ limits' \in Counts \cup {NoLimits} /\ error' \in BOOLEAN
    BY <1>1, <2>1, <2>2 DEF HookInv, HookTypeOK
  <2>5. \A r \in requests' : r.newest =>
          r.user = u /\ r.age = 0 /\ \A s \in requests' : s.newest => s = r
    <3> SUFFICES ASSUME NEW r \in requests', r.newest
                 PROVE  r.user = u /\ r.age = 0 /\ \A s \in requests' : s.newest => s = r
      OBVIOUS
    <3>1. r = [user |-> u, age |-> 0, newest |-> TRUE]
      BY <2>3
    <3>2. r.user = u /\ r.age = 0
      BY <3>1
    <3> QED BY <2>3, <3>1, <3>2
  <2>6. isLoading' /\ isLoading' \in BOOLEAN
    BY <2>2
  <2> QED BY <1>3, <2>2, <2>4, <2>5, <2>6
<1> QED BY <1>2, <1>3

(* A refresh, whatever called it.  One that sets the timers again is the    *)
(* rendered user's.                                                        *)
LEMMA RefreshStepKeeps ==
  ASSUME HookInv, NEW u \in Wallet \cup {NoWallet}, Refresh(u), user' = user, life' = "mounted",
         u = user' \/ AskedForAnother',
         effects' \in {"none", "midnight", "all"}, effects' # "all" => armed' = user',
         armed' \in Wallet \cup {NoWallet}, handed' = handed, stray' \in BOOLEAN,
         timer' \in Timer, timer' # "off" => armed' # NoWallet,
         firstSecond' \in BOOLEAN, moves' \in 0..MaxMoves,
         pollMs' \in BOOLEAN, overtaken' \in BOOLEAN, crossed' \in BOOLEAN
  PROVE  HookInv' /\ NoOlder
<1>1. HookTypeOK'
  BY RefreshKeeps DEF HookInv, HookTypeOK
<1>2. NewestIsOwn'
  <2>1. limits' # NoLimits => limits'.age \in Nat
    BY RefreshKeeps DEF Counts
  <2> QED BY <2>1, RefreshKeeps DEF NewestIsOwn
<1>3. ShowsOwnCounts'
  BY RefreshKeeps DEF ShowsOwnCounts, OwnOnScreen
<1>4. NoOlder
  <2>1. limits' # NoLimits => limits' = limits /\ limits.age \in Nat
    BY RefreshKeeps DEF HookInv, HookTypeOK, Counts
  <2> QED BY <2>1 DEF NoOlder
<1> QED BY <1>1, <1>2, <1>3, <1>4 DEF HookInv

(* An answer, or a failure, of the newest request or of an older one.      *)
LEMMA SettleKeeps == ASSUME HookInv, NEW r \in requests, Answer(r) \/ Fail(r) PROVE HookInv' /\ NoOlder
<1> USE DEF HookInv
<1>1. r \in Request /\ requests' = requests \ {r} /\ life' = life /\ user' = user /\ firstSecond' = firstSecond
  BY DEF HookTypeOK, Answer, Fail
<1>2. CASE Answer(r) /\ life = "mounted" /\ r.newest
  <2>1. limits' = [user |-> r.user, age |-> r.age] /\ error' = FALSE /\ isLoading' = FALSE
    BY <1>2 DEF Answer
  <2>2. limits' \in Counts /\ limits' # NoLimits /\ limits'.user = r.user /\ limits'.age = r.age
    BY <1>1, <2>1 DEF Request, Counts
  <2>3. /\ effects' \in {"none", "midnight", "all"} /\ (effects' = "all" <=> effects = "all")
        /\ UNCHANGED <<timer, moves, armed, handed, stray, pollMs, overtaken, crossed>>
    BY <1>2 DEF Answer, MidnightDue, HookTypeOK, history
  <2>4. HookTypeOK'
    <3>1. error' \in BOOLEAN /\ isLoading' \in BOOLEAN
      BY <2>1
    <3> QED BY <1>1, <2>2, <2>3, <3>1 DEF HookTypeOK
  <2>5. (AskedForAnother' \/ r.user = user) /\ r.user \in Wallet /\ \A s \in requests' : ~s.newest
    BY <1>1, <1>2, <2>3 DEF NewestIsOwn, Request, AskedForAnother
  <2>6. limits # NoLimits => r.age <= limits.age
    BY <1>2 DEF NewestIsOwn
  <2>7. NewestIsOwn'
    BY <2>5 DEF NewestIsOwn
  <2>8. ShowsOwnCounts'
    BY <1>1, <2>2, <2>5 DEF ShowsOwnCounts, OwnOnScreen
  <2>9. NoOlder
    BY <2>2, <2>6 DEF NoOlder
  <2> QED BY <1>1, <1>2, <2>3, <2>4, <2>7, <2>8, <2>9
<1>3. CASE Fail(r) /\ life = "mounted" /\ r.newest
  <2>1. error' = TRUE /\ isLoading' = FALSE /\ limits' = limits /\ timer' = timer
    BY <1>3 DEF Fail
  <2>2. HookTypeOK'
    <3>1. error' \in BOOLEAN /\ isLoading' \in BOOLEAN
      BY <2>1
    <3> QED BY <1>1, <1>3, <2>1, <3>1 DEF HookTypeOK, Fail, closures, history
  <2>3. /\ (AskedForAnother' \/ r.user = user) /\ r.user \in Wallet /\ \A s \in requests' : ~s.newest
        /\ UNCHANGED <<effects, armed>>
    BY <1>1, <1>3 DEF NewestIsOwn, Request, AskedForAnother, Fail, closures
  <2>4. NewestIsOwn'
    BY <2>3 DEF NewestIsOwn
  <2>5. ShowsOwnCounts'
    BY <1>1, <2>1, <2>3 DEF ShowsOwnCounts, OwnOnScreen
  <2>6. NoOlder
    BY <2>1 DEF NoOlder, HookTypeOK, Counts
  <2> QED BY <1>1, <1>3, <2>1, <2>2, <2>3, <2>4, <2>5, <2>6
<1>4. CASE ~(life = "mounted" /\ r.newest)
  <2>1. UNCHANGED <<limits, error, isLoading, timer, moves, effects, armed, handed, stray, pollMs, overtaken, crossed>>
    BY <1>4 DEF Answer, Fail, closures, history
  <2>2. HookTypeOK'
    BY <1>1, <2>1 DEF HookTypeOK
  <2>3. NewestIsOwn'
    BY <1>1, <2>1 DEF NewestIsOwn, AskedForAnother
  <2>4. ShowsOwnCounts'
    BY <1>1, <2>1 DEF ShowsOwnCounts, OwnOnScreen, AskedForAnother
  <2>5. NoOlder
    BY <2>1 DEF NoOlder, HookTypeOK, Counts
  <2> QED BY <1>1, <2>1, <2>2, <2>3, <2>4, <2>5
<1> QED BY <1>2, <1>3, <1>4

(* The clock, and a page that goes away.                                   *)
LEMMA ClockKeeps ==
  ASSUME HookInv, Midnight \/ SecondPasses \/ UnmountHook \/ UNCHANGED hookVars PROVE HookInv' /\ NoOlder
<1> USE DEF HookInv
<1>1. CASE Midnight
  <2> DEFINE Aged(x) == [x EXCEPT !.age = Older(@)]
  <2>1. /\ requests' = {Aged(r) : r \in requests} /\ limits' = IF limits = NoLimits THEN limits ELSE Aged(limits)
        /\ firstSecond = FALSE /\ firstSecond' = TRUE
        /\ UNCHANGED <<life, user, isLoading, error, moves, effects, armed, handed, stray, pollMs, overtaken>>
    BY <1>1 DEF Midnight, HookTypeOK, closures
  <2>2. \A x, y \in 0..MaxAge : Older(x) \in 0..MaxAge /\ (x <= y => Older(x) <= Older(y))
    BY DEF Older
  <2>3. \A r \in Request : Aged(r) \in Request /\ Aged(r).user = r.user /\ Aged(r).newest = r.newest
                           /\ Aged(r).age = Older(r.age)
    BY <2>2 DEF Request
  <2>4. limits # NoLimits => limits' \in Counts /\ limits' # NoLimits /\ limits'.user = limits.user
                             /\ limits'.age = Older(limits.age)
    BY <2>1, <2>2 DEF HookTypeOK, Counts
  <2>5. limits = NoLimits => limits' = NoLimits
    BY <2>1
  <2>6. HookTypeOK'
    <3>1. requests' \subseteq Request
      BY <2>1, <2>3 DEF HookTypeOK
    <3>2. crossed' \in BOOLEAN /\ firstSecond' \in BOOLEAN
      BY <1>1 DEF Midnight, HookTypeOK
    <3>3. timer' \in Timer
      BY <1>1 DEF Midnight, HookTypeOK, Timer
    <3>4. limits' \in Counts \cup {NoLimits}
      BY <2>4, <2>5
    <3> QED BY <2>1, <3>1, <3>2, <3>3, <3>4 DEF HookTypeOK
  <2>7. NewestIsOwn'
    <3> SUFFICES ASSUME NEW x \in requests', x.newest
                 PROVE  /\ (AskedForAnother' \/ x.user = user') /\ \A y \in requests' : y.newest => y = x
                        /\ limits' # NoLimits => x.age <= limits'.age
      BY DEF NewestIsOwn
    <3>1. PICK r \in requests : x = Aged(r)
      BY <2>1
    <3>2. r \in Request /\ r.newest /\ (AskedForAnother \/ r.user = user) /\ \A s \in requests : s.newest => s = r
      BY <2>3, <3>1 DEF HookTypeOK, NewestIsOwn
    <3>3. ASSUME NEW y \in requests', y.newest PROVE y = x
      <4>1. PICK s \in requests : y = Aged(s)
        BY <2>1
      <4>2. s = r
        BY <2>3, <3>2, <3>3, <4>1 DEF HookTypeOK
      <4> QED BY <3>1, <4>1, <4>2
    <3>4. limits # NoLimits => r.age <= limits.age /\ r.age \in 0..MaxAge /\ limits.age \in 0..MaxAge
      BY <3>2 DEF HookTypeOK, NewestIsOwn, Request, Counts
    <3>5. limits' # NoLimits => x.age <= limits'.age
      BY <2>2, <2>3, <2>4, <2>5, <3>1, <3>2, <3>4
    <3> QED BY <2>1, <2>3, <3>1, <3>2, <3>3, <3>5 DEF AskedForAnother
  <2>8. ShowsOwnCounts'
    BY <2>1, <2>4, <2>5 DEF ShowsOwnCounts, OwnOnScreen, AskedForAnother
  <2>9. NoOlder
    BY <2>1 DEF NoOlder
  <2>10. timer' # "off" => timer # "off"
    BY <1>1 DEF Midnight
  <2> QED BY <2>1, <2>5, <2>6, <2>7, <2>8, <2>9, <2>10
<1>2. CASE SecondPasses
  <2>1. /\ UNCHANGED <<life, user, limits, isLoading, error, requests, moves, effects, armed, handed, stray>>
        /\ UNCHANGED <<pollMs, overtaken, crossed>> /\ firstSecond' \in BOOLEAN /\ firstSecond # firstSecond'
        /\ timer' \in Timer /\ (timer' # "off" => timer # "off")
    BY <1>2 DEF SecondPasses, HookTypeOK, Timer, closures, history
  <2>2. HookTypeOK'
    BY <2>1 DEF HookTypeOK
  <2>3. NewestIsOwn' /\ ShowsOwnCounts'
    BY <2>1 DEF NewestIsOwn, ShowsOwnCounts, OwnOnScreen, AskedForAnother
  <2>4. NoOlder
    BY <2>1 DEF NoOlder
  <2> QED BY <2>1, <2>2, <2>3, <2>4
<1>3. CASE UnmountHook \/ UNCHANGED hookVars
  <2>1. /\ UNCHANGED <<user, limits, isLoading, error, requests, firstSecond, moves, effects, armed, handed, stray>>
        /\ UNCHANGED <<pollMs, overtaken, crossed>>
        /\ (life' = life /\ timer' = timer) \/ (life' = "unmounted" /\ timer' = "off" /\ effects = "none")
    BY <1>3 DEF UnmountHook, hookVars, closures, history
  <2>2. HookTypeOK'
    BY <2>1 DEF HookTypeOK, Timer
  <2>3. NewestIsOwn' /\ ShowsOwnCounts'
    BY <2>1 DEF NewestIsOwn, ShowsOwnCounts, OwnOnScreen, AskedForAnother
  <2>4. NoOlder
    BY <2>1 DEF NoOlder, HookTypeOK, Counts
  <2> QED BY <2>1, <2>2, <2>3, <2>4
<1> QED BY <1>1, <1>2, <1>3

(* A render with other inputs, and the effect that only sets the midnight  *)
(* timer again, leave the requests and the screen alone.                   *)
LEMMA RenderKeeps ==
  ASSUME HookInv, ShownEffect \/ \E v \in Wallet \cup {NoWallet} : InputsChange(v)
  PROVE  HookInv' /\ NoOlder
<1>1. UNCHANGED <<life, limits, isLoading, error, requests, firstSecond, armed, stray, pollMs, overtaken, crossed>>
  BY DEF InputsChange, ShownEffect, history
<1>2. /\ user' \in Wallet \cup {NoWallet} /\ handed' \subseteq Wallet \cup {NoWallet}
      /\ moves' \in 0..MaxMoves /\ timer' \in Timer /\ effects' \in {"none", "midnight", "all"}
  BY DEF InputsChange, ShownEffect, MidnightEffect, Move, HookInv, HookTypeOK, Timer
<1>3. /\ effects # "all" /\ armed = user /\ life = "mounted" /\ (effects' # "all" => user' = user)
      /\ (user' = user \/ AskedForAnother') /\ (AskedForAnother => AskedForAnother')
      /\ (timer' # "off" => armed # NoWallet)
  BY DEF InputsChange, ShownEffect, MidnightEffect, HookInv, AskedForAnother
<1>4. HookTypeOK'
  BY <1>1, <1>2 DEF HookInv, HookTypeOK
<1>5. NewestIsOwn' /\ ShowsOwnCounts'
  BY <1>1, <1>3 DEF HookInv, NewestIsOwn, ShowsOwnCounts, OwnOnScreen
<1>6. NoOlder
  BY <1>1 DEF NoOlder, HookInv, HookTypeOK, Counts
<1> QED BY <1>1, <1>3, <1>4, <1>5, <1>6 DEF HookInv

(* Every step of the hook keeps its invariant, and its counts young.       *)
LEMMA HookStepKeeps == HookInv /\ [HookNext]_hookVars => HookInv' /\ NoOlder
<1> SUFFICES ASSUME HookInv, [HookNext]_hookVars PROVE HookInv' /\ NoOlder
  OBVIOUS
<1> USE DEF HookInv
<1>1. CASE InputsEffects
  BY <1>1, RefreshStepKeeps DEF InputsEffects, MidnightEffect, Timer, HookTypeOK, history
<1>2. CASE Mount
  BY <1>2, RefreshStepKeeps DEF Mount, MidnightEffect, Timer, HookTypeOK, closures, history
<1>3. ASSUME NEW v \in Wallet \cup {NoWallet}, RefreshCalled(v) PROVE HookInv' /\ NoOlder
  <2>1. /\ Refresh(v) /\ user' = user /\ life' = "mounted" /\ stray' = (v # user)
        /\ UNCHANGED <<timer, firstSecond, armed, handed, pollMs, overtaken, crossed>> /\ moves' \in 0..MaxMoves
    BY <1>3 DEF RefreshCalled, Move, HookTypeOK, history
  <2>2. effects' \in {"none", "midnight", "all"} /\ (effects' = "all" <=> effects = "all")
    BY <1>3 DEF RefreshCalled, MidnightDue, HookTypeOK
  <2>3. v = user' \/ AskedForAnother'
    BY <2>1 DEF AskedForAnother
  <2> QED BY <2>1, <2>2, <2>3, RefreshStepKeeps DEF HookTypeOK
<1>4. CASE Interval \/ MidnightTimer
  <2>1. /\ Refresh(armed) /\ user' = user /\ life' = "mounted" /\ stray' = FALSE /\ timer' \in {timer, "off"}
        /\ UNCHANGED <<firstSecond, moves, effects, armed, handed, pollMs>>
        /\ overtaken' \in BOOLEAN /\ crossed' = crossed
    BY <1>4 DEF Interval, MidnightTimer, HookTypeOK, history
  <2>2. armed = user' \/ AskedForAnother'
    BY <2>1 DEF AskedForAnother
  <2> QED BY <2>1, <2>2, RefreshStepKeeps DEF HookTypeOK, Timer
<1> QED BY <1>1, <1>2, <1>3, <1>4, SettleKeeps, ClockKeeps, RenderKeeps DEF HookNext, Settle

----------------------------------------------------------------------------
(* The fraud engine                                                        *)

(* What a call's log, its stage and what its page was told say of the      *)
(* backend's decision.                                                     *)
LogIsOwn == \A b \in Buy : activityLogId[b] \in {"null", b} /\ (activityLogId[b] = b => verdict[b] # "none")
PlacingIsAllowed == \A b \in Buy : stage[b] = "placing" =>
  /\ b \notin Manual
  /\ (verdict[b] = "approved" /\ activityLogId[b] = b) \/ (b \in unheard /\ activityLogId[b] = "null")
ToldIsTrue == \A b \in Buy : told[b] = "approved" => verdict[b] = "approved" /\ activityLogId[b] = b
LogIsLate == \A b \in Buy : stage[b] \in {"idle", "gathering", "checking"} =>
  activityLogId[b] = "null" /\ told[b] = "nothing" /\ b \notin ordered /\ (stage[b] # "checking" => verdict[b] = "none")
OrderIsAllowed == \A b \in ordered : verdict[b] = "approved" \/ (b \in unheard /\ b \notin Manual)
ManualOrderWasTold == \A b \in Manual \cap ordered : told[b] = "approved"

FraudInv ==
  /\ FraudTypeOK /\ LogIsOwn /\ PlacingIsAllowed /\ ToldIsTrue /\ LogIsLate
  /\ OrderIsAllowed /\ ManualOrderWasTold /\ LinksOwnOrder

LEMMA FraudStarts == FraudInit => FraudInv
<1> SUFFICES ASSUME FraudInit PROVE FraudInv
  OBVIOUS
<1>1. FraudTypeOK
  <2>1. stage \in [Buy -> {"idle", "gathering", "checking", "placing", "done"}] /\ told \in [Buy -> Told]
    BY DEF FraudInit, Told
  <2>2. activityLogId \in [Buy -> Buy \cup {"null"}] /\ verdict \in [Buy -> {"none", "approved", "rejected"}]
    BY DEF FraudInit
  <2>3. /\ unheard \subseteq Buy /\ ordered \subseteq Buy /\ linking \subseteq Link /\ linked \subseteq Link
        /\ configured \in BOOLEAN
    BY DEF FraudInit
  <2> QED BY <2>1, <2>2, <2>3 DEF FraudTypeOK
<1>2. LogIsOwn /\ PlacingIsAllowed /\ ToldIsTrue /\ LogIsLate
  BY DEF FraudInit, LogIsOwn, PlacingIsAllowed, ToldIsTrue, LogIsLate
<1>3. OrderIsAllowed /\ ManualOrderWasTold /\ LinksOwnOrder
  BY DEF FraudInit, OrderIsAllowed, ManualOrderWasTold, LinksOwnOrder
<1> QED BY <1>1, <1>2, <1>3 DEF FraudInv

(* Every step of the fraud engine keeps its invariant.                     *)
LEMMA FraudStepKeeps == FraudInv /\ [FraudNext]_fraudVars => FraudInv'
<1> SUFFICES ASSUME FraudInv, [FraudNext]_fraudVars PROVE FraudInv'
  OBVIOUS
<1> USE DEF FraudInv, FraudTypeOK, LogIsOwn, PlacingIsAllowed, ToldIsTrue, LogIsLate, OrderIsAllowed,
            ManualOrderWasTold, LinksOwnOrder, backend, Moves, Returns, Told, CheckError, Link
<1>1. ASSUME NEW b \in Buy, Begin(b) PROVE FraudInv'
  BY <1>1 DEF Begin
<1>2. ASSUME NEW b \in Buy, Gathered(b) PROVE FraudInv'
  BY <1>2 DEF Gathered
<1>3. ASSUME NEW b \in Buy, NEW e \in CheckError, CheckFails(b, e) PROVE FraudInv'
  BY <1>3 DEF CheckFails
<1>4. ASSUME NEW b \in Buy, BackendDecides(b) PROVE FraudInv'
  BY <1>4 DEF BackendDecides
<1>5. ASSUME NEW b \in Buy, Answered(b) PROVE FraudInv'
  <2>1. /\ stage[b] = "checking" /\ UNCHANGED <<configured, verdict, linked, unheard, ordered, linking>>
        /\ activityLogId' = [activityLogId EXCEPT ![b] = IF verdict[b] = "approved" \/ b \in Manual THEN b ELSE @]
    BY <1>5 DEF Answered
  <2>2. verdict[b] = "approved" \/ verdict[b] = "rejected"
    BY <1>5 DEF Answered
  <2>3. \/ /\ b \in Manual \/ verdict[b] = "rejected"
           /\ stage' = [stage EXCEPT ![b] = "done"] /\ told' = [told EXCEPT ![b] = verdict[b]]
        \/ /\ b \notin Manual /\ verdict[b] # "rejected"
           /\ stage' = [stage EXCEPT ![b] = "placing"] /\ told' = told
    BY <1>5 DEF Answered
  <2>4. FraudTypeOK'
    <3>1. stage' \in [Buy -> {"idle", "gathering", "checking", "placing", "done"}]
      BY <2>3
    <3>2. told' \in [Buy -> Told]
      BY <2>2, <2>3
    <3>3. activityLogId' \in [Buy -> Buy \cup {"null"}]
      BY <2>1
    <3> QED BY <2>1, <3>1, <3>2, <3>3
  <2>5. LogIsOwn' /\ PlacingIsAllowed'
    BY <2>1, <2>2, <2>3
  <2>6. ToldIsTrue' /\ LogIsLate'
    BY <2>1, <2>2, <2>3
  <2>7. OrderIsAllowed' /\ ManualOrderWasTold' /\ LinksOwnOrder'
    BY <2>1, <2>2, <2>3
  <2> QED BY <2>4, <2>5, <2>6, <2>7
<1>6. ASSUME NEW b \in Buy, Places(b) PROVE FraudInv'
  BY <1>6 DEF Places
<1>7. ASSUME NEW b \in Buy, PlacingFails(b) PROVE FraudInv'
  BY <1>7 DEF PlacingFails
<1>8. ASSUME NEW b \in Buy, PagePlaces(b) PROVE FraudInv'
  BY <1>8 DEF PagePlaces
<1>9. ASSUME NEW b \in Buy, LinkOrder(b) PROVE FraudInv'
  BY <1>9 DEF LinkOrder
<1>10. ASSUME NEW l \in linking, LinkEnds(l) PROVE FraudInv'
  BY <1>10 DEF LinkEnds
<1>11. CASE UNCHANGED fraudVars
  BY <1>11 DEF fraudVars
<1> QED BY <1>1, <1>2, <1>3, <1>4, <1>5, <1>6, <1>7, <1>8, <1>9, <1>10, <1>11 DEF FraudNext, Checks, Callback

(* A caller that is told "placed" has its order on chain, and its link on  *)
(* the way when the check approved it.                                     *)
LEMMA PlacedLeavesTrace ==
  ASSUME FraudInv, [FraudNext]_fraudVars, NEW b \in Buy, told[b] = "nothing", told'[b] = "placed"
  PROVE  b \in ordered' /\ (verdict[b] = "approved" /\ b \notin unheard => \E l \in linking' : l.order = b)
<1> DEFINE Trace == b \in ordered' /\ (verdict[b] = "approved" /\ b \notin unheard => \E l \in linking' : l.order = b)
<1> USE DEF FraudInv, FraudTypeOK
<1>1. ASSUME NEW c \in Buy, Places(c) PROVE Trace
  <2>1. c = b /\ stage[b] = "placing"
    BY <1>1 DEF Places, Moves, Returns
  <2>2. b \in ordered'
    BY <1>1, <2>1 DEF Places
  <2>3. ASSUME b \notin unheard PROVE \E l \in linking' : l.order = b
    <3>1. activityLogId[b] = b /\ b # "null"
      BY <2>1, <2>3 DEF PlacingIsAllowed
    <3>2. [log |-> b, order |-> b] \in linking'
      BY <1>1, <2>1, <3>1 DEF Places
    <3> QED BY <3>2
  <2> QED BY <2>2, <2>3
<1>2. ASSUME NEW c \in Buy, Begin(c) \/ Gathered(c) \/ BackendDecides(c) \/ Answered(c)
                            \/ PlacingFails(c) \/ PagePlaces(c) \/ LinkOrder(c)
      PROVE  Trace
  BY <1>2 DEF Begin, Gathered, BackendDecides, Answered, PlacingFails, PagePlaces, LinkOrder, Moves, Returns
<1>3. ASSUME NEW c \in Buy, NEW e \in CheckError, CheckFails(c, e) PROVE Trace
  BY <1>3 DEF CheckFails, Moves, Returns, CheckError
<1>4. ASSUME NEW l \in linking, LinkEnds(l) PROVE Trace
  BY <1>4 DEF LinkEnds
<1>5. CASE UNCHANGED fraudVars
  BY <1>5 DEF fraudVars
<1> QED BY <1>1, <1>2, <1>3, <1>4, <1>5 DEF FraudNext, Checks, Callback

----------------------------------------------------------------------------
(* The device's fingerprint                                                *)

Stages == {"idle", "loading", "asking", "getting", "sending", "done"}
Outcomes == Id \cup LogError \cup {"null", "error", "logged"}

OthersAreOver ==
  /\ \A r \in Run : r < run => r \in cancelled
  /\ \A r \in Run : r > run => reading[r] = "idle"
  /\ IF enabled THEN run \in Run /\ run \notin cancelled ELSE run = 0 \/ run \in cancelled

DeviceInv == DeviceTypeOK /\ OthersAreOver /\ ShowsNewestRun

(* What a reader does when it comes from stage to stage: only a run that is*)
(* not cancelled touches what the hook returns, and only at its end.       *)
Returned(v) == [data |-> IF v = "error" THEN "null" ELSE v, error |-> v = "error", isLoading |-> FALSE]
Reaches(r, s, t) ==
  /\ s \in Stages /\ t \in Outcomes
  /\ reading' = [reading EXCEPT ![r] = s] /\ outcome' = [outcome EXCEPT ![r] = t]
  /\ r \in Run => reading[r] \notin {"idle", "done"}
  /\ \/ shown' = shown /\ (r \in Run /\ s = "done" => r \in cancelled)
     \/ r \in Run /\ r \notin cancelled /\ s = "done" /\ t \in Id \cup {"null", "error"} /\ shown' = Returned(t)
  /\ UNCHANGED <<valid, enabled, run, cancelled>>

LEMMA DeviceStarts == DeviceInit => DeviceInv
<1> SUFFICES ASSUME DeviceInit PROVE DeviceInv
  OBVIOUS
<1>1. DeviceTypeOK
  <2>1. /\ reading \in [Reader -> {"idle", "loading", "asking", "getting", "sending", "done"}]
        /\ outcome \in [Reader -> Id \cup LogError \cup {"null", "error", "logged"}]
    BY DEF DeviceInit
  <2>2. shown \in [data : Id \cup {"null"}, error : BOOLEAN, isLoading : BOOLEAN]
    BY DEF DeviceInit
  <2>3. run \in 0..MaxRuns /\ cancelled \subseteq 1..run /\ cachedResult \in Id \cup {"null"}
    BY DEF DeviceInit
  <2>4. valid \in BOOLEAN /\ enabled \in BOOLEAN /\ agent \in BOOLEAN
    BY DEF DeviceInit
  <2> QED BY <2>1, <2>2, <2>3, <2>4, Zenon DEF DeviceTypeOK
<1> QED BY <1>1 DEF DeviceInit, DeviceInv, OthersAreOver, ShowsNewestRun, Run, Reader

LEMMA ReachingKeeps ==
  ASSUME DeviceInv, NEW r \in Reader, NEW s, NEW t, Reaches(r, s, t),
         agent' \in BOOLEAN, cachedResult' \in Id \cup {"null"}
  PROVE  DeviceInv'
<1> USE DEF Reaches, DeviceInv
<1>1. /\ reading' \in [Reader -> Stages] /\ outcome' \in [Reader -> Outcomes]
      /\ \A q \in Reader : q # r => reading'[q] = reading[q] /\ outcome'[q] = outcome[q]
      /\ reading'[r] = s /\ outcome'[r] = t
  BY DEF DeviceTypeOK, Stages, Outcomes
<1>2. shown' \in [data : Id \cup {"null"}, error : BOOLEAN, isLoading : BOOLEAN]
  <2>1. CASE shown' = shown
    BY <2>1 DEF DeviceTypeOK
  <2>2. CASE t \in Id \cup {"null", "error"} /\ shown' = Returned(t)
    <3>1. CASE t = "error"
      <4>1. Returned(t) = [data |-> "null", error |-> TRUE, isLoading |-> FALSE]
        BY <3>1 DEF Returned
      <4> QED BY <2>2, <4>1
    <3>2. CASE t # "error"
      <4>1. Returned(t) = [data |-> t, error |-> FALSE, isLoading |-> FALSE] /\ t \in Id \cup {"null"}
        BY <2>2, <3>2 DEF Returned
      <4> QED BY <2>2, <4>1
    <3> QED BY <3>1, <3>2
  <2> QED BY <2>1, <2>2
<1>3. DeviceTypeOK'
  BY <1>1, <1>2 DEF DeviceTypeOK, Stages, Outcomes
<1>4. OthersAreOver'
  <2>1. r \in Run => ~(r > run)
    BY DEF OthersAreOver
  <2> QED BY <1>1, <2>1 DEF OthersAreOver, Reader
<1>5. ShowsNewestRun'
  <2> SUFFICES ASSUME enabled, ~shown'.isLoading
               PROVE  /\ reading'[run] = "done"
                      /\ IF outcome'[run] = "error" THEN shown'.error /\ shown'.data = "null"
                         ELSE ~shown'.error /\ shown'.data = outcome'[run]
    BY DEF ShowsNewestRun
  <2>1. run \in Run /\ run \in Reader /\ run \notin cancelled
    BY DEF OthersAreOver, Reader
  <2>2. CASE r = run
    <3>1. shown' = Returned(t) /\ s = "done"
      BY <2>1, <2>2 DEF ShowsNewestRun
    <3> QED BY <1>1, <2>2, <3>1 DEF Returned
  <2>3. CASE r # run
    <3>1. shown' = shown
      <4>1. r \in Run => r < run \/ r > run
        BY <2>1, <2>3 DEF Run, DeviceTypeOK
      <4> QED BY <4>1 DEF OthersAreOver
    <3> QED BY <1>1, <2>1, <2>3, <3>1 DEF ShowsNewestRun
  <2> QED BY <2>2, <2>3
<1> QED BY <1>3, <1>4, <1>5

(* getFingerprint's answer brings its reader on.                           *)
LEMMA AnswerReaches ==
  ASSUME DeviceInv, NEW r \in Reader, NEW v \in Id \cup {"null"}, Answers(r, v),
         reading[r] \notin {"idle", "done"}, UNCHANGED <<valid, enabled, run, cancelled>>
  PROVE  \E s, t : Reaches(r, s, t)
<1>1. CASE r \in Run
  <2>1. Settles(r, v)
    BY <1>1, Zenon DEF Answers
  <2>2. Reaches(r, "done", v)
    BY <1>1, <2>1 DEF Settles, Reads, Reaches, Returned, Stages, Outcomes
  <2> QED BY <2>2
<1>2. CASE r \notin Run /\ r \in Log /\ v = "null"
  <2>1. Ends(r, "null")
    BY <1>2, Zenon DEF Answers
  <2>2. Reaches(r, "done", "null")
    BY <1>2, <2>1 DEF Ends, Reads, Reaches, Stages, Outcomes
  <2> QED BY <2>2
<1>3. CASE r \notin Run /\ ~(r \in Log /\ v = "null")
  <2>1. Reads(r, "sending") /\ UNCHANGED <<shown, outcome>>
    BY <1>3, Zenon DEF Answers
  <2>2. outcome' = [outcome EXCEPT ![r] = outcome[r]] /\ outcome[r] \in Outcomes
    BY <2>1 DEF DeviceInv, DeviceTypeOK, Reader, Outcomes
  <2>3. Reaches(r, "sending", outcome[r])
    BY <1>3, <2>1, <2>2 DEF Reads, Reaches, Stages
  <2> QED BY <2>3
<1> QED BY <1>1, <1>2, <1>3

(* Every step of the page's readers brings one from stage to stage, and    *)
(* none of them loses the agent.                                           *)
Reached(r) ==
  /\ \E s, t : Reaches(r, s, t)
  /\ agent' \in BOOLEAN /\ (agent => agent') /\ cachedResult' \in Id \cup {"null"}

LEMMA ReaderReaches ==
  ASSUME DeviceInv, NEW r \in Reader, Progress(r) \/ \E id \in Id : Gets(r, id) PROVE Reached(r)
<1> USE DEF DeviceInv, Reached
<1>0. outcome[r] \in Outcomes /\ outcome = [outcome EXCEPT ![r] = outcome[r]]
  BY DEF DeviceTypeOK, Outcomes
<1>1. CASE Asks(r)
  <2>1. agent' \in BOOLEAN /\ (agent => agent') /\ cachedResult' \in Id \cup {"null"} /\ UNCHANGED <<valid, enabled, run, cancelled>>
    BY <1>1 DEF Asks, DeviceTypeOK
  <2>2. CASE cachedResult # "null"
    <3>1. \E s, t : Reaches(r, s, t)
      BY <1>1, <2>1, <2>2, AnswerReaches DEF Asks, DeviceTypeOK
    <3> QED BY <2>1, <3>1
  <2>3. CASE cachedResult = "null"
    <3>1. Reaches(r, IF agent THEN "getting" ELSE "loading", outcome[r])
      BY <1>0, <1>1, <2>3 DEF Asks, Reads, Reaches, Stages
    <3> QED BY <2>1, <3>1
  <2> QED BY <2>2, <2>3
<1>2. CASE Loaded(r)
  <2>1. \E s \in {"asking", "getting", "done"} : Reads(r, s) /\ (r \in Run => s # "done")
    BY <1>2, Zenon DEF Loaded
  <2>2. PICK s \in {"asking", "getting", "done"} : Reads(r, s) /\ (r \in Run => s # "done")
    BY <2>1
  <2>3. Reaches(r, s, outcome[r])
    BY <1>0, <1>2, <2>2 DEF Loaded, Reads, Reaches, Stages
  <2> QED BY <1>2, <2>3 DEF Loaded, DeviceTypeOK
<1>3. CASE LoadFails(r)
  <2>1. agent' \in BOOLEAN /\ (agent => agent') /\ cachedResult' \in Id \cup {"null"} /\ UNCHANGED <<valid, enabled, run, cancelled>>
    BY <1>3 DEF LoadFails, DeviceTypeOK
  <2>2. CASE r \in Run
    <3>1. Settles(r, "error")
      BY <1>3, <2>2, Zenon DEF LoadFails
    <3>2. Reaches(r, "done", "error")
      BY <1>3, <2>1, <2>2, <3>1 DEF LoadFails, Settles, Reads, Reaches, Returned, Stages, Outcomes
    <3> QED BY <2>1, <3>2
  <2>3. CASE r \notin Run /\ r \in Log
    <3>1. Answers(r, "null") /\ reading[r] = "loading"
      BY <1>3, <2>3, Zenon DEF LoadFails
    <3>2. \E s, t : Reaches(r, s, t)
      BY <2>1, <2>3, <3>1, AnswerReaches
    <3> QED BY <2>1, <3>2
  <2>4. CASE r \notin Run /\ r \notin Log
    <3>1. Ends(r, "error")
      BY <1>3, <2>4, Zenon DEF LoadFails
    <3>2. Reaches(r, "done", "error")
      BY <2>1, <2>4, <3>1 DEF Ends, Reads, Reaches, Stages, Outcomes
    <3> QED BY <2>1, <3>2
  <2> QED BY <2>2, <2>3, <2>4
<1>4. CASE GetFails(r)
  <2>1. agent' \in BOOLEAN /\ (agent => agent') /\ cachedResult' \in Id \cup {"null"} /\ UNCHANGED <<valid, enabled, run, cancelled>>
    BY <1>4 DEF GetFails, DeviceTypeOK
  <2>2. \E s, t : Reaches(r, s, t)
    BY <1>4, <2>1, AnswerReaches DEF GetFails
  <2> QED BY <2>1, <2>2
<1>5. ASSUME NEW id \in Id, Gets(r, id) PROVE Reached(r)
  <2>1. agent' \in BOOLEAN /\ (agent => agent') /\ cachedResult' \in Id \cup {"null"} /\ UNCHANGED <<valid, enabled, run, cancelled>>
    BY <1>5 DEF Gets, DeviceTypeOK
  <2>2. \E s, t : Reaches(r, s, t)
    BY <1>5, <2>1, AnswerReaches DEF Gets
  <2> QED BY <2>1, <2>2
<1> QED BY <1>1, <1>2, <1>3, <1>4, <1>5 DEF Progress

LEMMA OthersReach ==
  ASSUME DeviceInv
  PROVE  /\ \A l \in Log : BeginLog(l) \/ LogEnds(l) => Reached(l)
         /\ \A p \in Preload : init(p) => Reached(p)
<1> USE DEF DeviceInv, Reached
<1>1. ASSUME NEW l \in Log, BeginLog(l) \/ LogEnds(l) PROVE Reached(l)
  <2>1. l \in Reader /\ l \notin Run
    BY DEF Reader
  <2>2. outcome[l] \in Outcomes /\ outcome = [outcome EXCEPT ![l] = outcome[l]]
    BY <2>1 DEF DeviceTypeOK, Outcomes
  <2>3. \E s \in {"asking", "done"}, t \in Outcomes : Reaches(l, s, t)
    <3>1. CASE BeginLog(l) /\ valid
      <4>1. Reaches(l, "asking", outcome[l])
        BY <2>1, <2>2, <3>1 DEF BeginLog, Reads, Reaches, Stages
      <4> QED BY <2>2, <4>1
    <3>2. CASE BeginLog(l) /\ ~valid
      <4>1. Reaches(l, "done", "VALIDATION_ERROR")
        BY <2>1, <3>2 DEF BeginLog, Ends, Reads, Reaches, Stages, Outcomes, LogError
      <4> QED BY <4>1 DEF Outcomes, LogError
    <3>3. CASE LogEnds(l)
      <4>1. PICK e \in (LogError \ {"VALIDATION_ERROR"}) \cup {"logged"} : Ends(l, e)
        BY <3>3 DEF LogEnds
      <4>2. Reaches(l, "done", e)
        BY <2>1, <3>3, <4>1 DEF LogEnds, Ends, Reads, Reaches, Stages, Outcomes
      <4> QED BY <4>1, <4>2 DEF Outcomes
    <3> QED BY <1>1, <3>1, <3>2, <3>3
  <2>4. agent' \in BOOLEAN /\ (agent => agent') /\ cachedResult' \in Id \cup {"null"}
    BY <1>1 DEF BeginLog, LogEnds, DeviceTypeOK
  <2> QED BY <2>1, <2>3, <2>4
<1>2. ASSUME NEW p \in Preload, init(p) PROVE Reached(p)
  <2>1. p \in Reader /\ p \notin Run
    BY DEF Reader
  <2>2. outcome[p] \in Outcomes /\ outcome = [outcome EXCEPT ![p] = outcome[p]]
    BY <2>1 DEF DeviceTypeOK, Outcomes
  <2>3. Reaches(p, IF agent THEN "done" ELSE "loading", outcome[p])
    BY <1>2, <2>1, <2>2 DEF init, Reads, Reaches, Stages
  <2> QED BY <1>2, <2>1, <2>3 DEF init, DeviceTypeOK
<1> QED BY <1>1, <1>2

LEMMA DeviceStepKeeps == DeviceInv /\ [DeviceNext]_deviceVars => DeviceInv'
<1> SUFFICES ASSUME DeviceInv, [DeviceNext]_deviceVars PROVE DeviceInv'
  OBVIOUS
<1> USE DEF DeviceInv
<1>1. CASE Enable
  <2>1. run + 1 \in Run /\ run + 1 \in Reader /\ run \in Nat
    BY <1>1 DEF Enable, DeviceTypeOK, Run, Reader
  <2>2. shown'.isLoading
    BY <1>1 DEF Enable, DeviceTypeOK
  <2>3. shown' \in [data : Id \cup {"null"}, error : BOOLEAN, isLoading : BOOLEAN]
    BY <1>1 DEF Enable, DeviceTypeOK
  <2>4. reading' = [reading EXCEPT ![run + 1] = reading'[run + 1]] /\ reading'[run + 1] \in {"asking", "loading"}
    BY <1>1, <2>1 DEF Enable, Reads, DeviceTypeOK
  <2>5. DeviceTypeOK'
    BY <1>1, <2>1, <2>3, <2>4 DEF Enable, DeviceTypeOK, Run
  <2>6. OthersAreOver'
    <3>1. \A r \in Run : r < run + 1 => r \in cancelled
      BY <1>1, <2>1 DEF Enable, OthersAreOver, Run
    <3>2. \A r \in Run : r > run + 1 => reading'[r] = "idle"
      BY <2>1, <2>4 DEF OthersAreOver, Run, Reader, DeviceTypeOK
    <3>3. run + 1 \notin cancelled
      BY <2>1 DEF DeviceTypeOK
    <3> QED BY <1>1, <2>1, <3>1, <3>2, <3>3 DEF Enable, OthersAreOver
  <2> QED BY <2>2, <2>5, <2>6 DEF ShowsNewestRun
<1>2. CASE Disable
  <2>1. run \in 1..run /\ run \in Run
    BY <1>2 DEF Disable, OthersAreOver, Run
  <2> QED BY <1>2, <2>1 DEF Disable, DeviceTypeOK, OthersAreOver, ShowsNewestRun
<1>3. ASSUME NEW r \in Reader, Reached(r) PROVE DeviceInv'
  BY <1>3, ReachingKeeps DEF Reached
<1>4. ASSUME NEW l \in Log, BeginLog(l) \/ LogEnds(l) PROVE DeviceInv'
  BY <1>3, <1>4, OthersReach DEF Reader
<1>5. ASSUME NEW p \in Preload, init(p) PROVE DeviceInv'
  BY <1>3, <1>5, OthersReach DEF Reader
<1>6. ASSUME NEW r \in Reader, Progress(r) \/ \E id \in Id : Gets(r, id) PROVE DeviceInv'
  BY <1>3, <1>6, ReaderReaches
<1>7. CASE UNCHANGED deviceVars
  BY <1>7 DEF deviceVars, DeviceTypeOK, OthersAreOver, ShowsNewestRun
<1> QED BY <1>1, <1>2, <1>4, <1>5, <1>6, <1>7 DEF DeviceNext

----------------------------------------------------------------------------
(* The orders watched                                                      *)

USE WatchAssumption DEF WatchAssumption

(* A watcher of each kind at most, none before a page that is gone, all of *)
(* the subscription the effect last made, and each beyond the events of its*)
(* kind the page was first.                                                 *)
WatchersOfDeps ==
  /\ \A v, w \in watchers : v.kind = w.kind => v = w
  /\ \A w \in watchers : mounted /\ w.user = deps[2]
WatchersAhead ==
  \A w \in watchers :
    /\ w.from <= Len(log)
    /\ w.from # -1 => \A i \in DOMAIN got : log[got[i].at].kind = w.kind => got[i].at <= w.from
GotIsMined == \A i \in DOMAIN got : got[i].at <= Len(log)

WatchInv == WatchTypeOK /\ WatchersOfDeps /\ WatchersAhead /\ GotIsMined /\ OnceInOrder /\ OnlyInGap

Brought == [at : 1..MaxLog, to : Watched, gap : BOOLEAN]

LEMMA WatchStarts == WatchInit => WatchInv
<1> SUFFICES ASSUME WatchInit PROVE WatchInv
  OBVIOUS
<1>1. WatchTypeOK
  BY DEF WatchInit, WatchTypeOK
<1> QED BY <1>1 DEF WatchInit, WatchInv, WatchersOfDeps, WatchersAhead, GotIsMined, OnceInOrder, OnlyInGap

(* The events told have their place in the chain.                          *)
LEMMA Items == ASSUME NEW S, NEW s \in Seq(S) PROVE DOMAIN s = 1..Len(s) /\ Len(s) \in Nat /\ \A i \in DOMAIN s : s[i] \in S
  OBVIOUS

LEMMA GotPlaces ==
  ASSUME WatchInv
  PROVE  DOMAIN got = 1..Len(got) /\ Len(got) \in Nat /\ \A i \in DOMAIN got : got[i].at \in 1..MaxLog /\ got[i].at \in 1..Len(log)
<1>1. got \in Seq(Brought) /\ Len(log) \in Nat
  BY DEF WatchInv, WatchTypeOK, Brought
<1>2. DOMAIN got = 1..Len(got) /\ Len(got) \in Nat /\ \A i \in DOMAIN got : got[i] \in Brought
  BY <1>1, Items
<1>3. \A i \in DOMAIN got : got[i].at \in 1..MaxLog
  BY <1>2 DEF Brought
<1> QED BY <1>1, <1>2, <1>3 DEF WatchInv, GotIsMined

(* A watcher that has polled is at the head of the chain; the others stay. *)
LEMMA WatcherMoves ==
  ASSUME WatchInv, NEW w \in watchers, watchers' = (watchers \ {w}) \cup {[w EXCEPT !.from = Len(log)]},
         UNCHANGED <<log, mounted, deps>>
  PROVE  /\ watchers' \subseteq Watcher /\ WatchersOfDeps'
         /\ \A v \in watchers' : \/ v \in watchers /\ v.kind # w.kind
                                 \/ v.kind = w.kind /\ v.from = Len(log)
<1>1. w \in Watcher /\ Len(log) \in -1..MaxLog
  BY DEF WatchInv, WatchTypeOK
<1>2. PICK v \in Watcher : v = [w EXCEPT !.from = Len(log)] /\ v.kind = w.kind /\ v.user = w.user /\ v.from = Len(log)
  <2>1. [w EXCEPT !.from = Len(log)] = [kind |-> w.kind, user |-> w.user, from |-> Len(log)]
    BY <1>1 DEF Watcher
  <2>2. [w EXCEPT !.from = Len(log)] \in Watcher
    BY <1>1, <2>1 DEF Watcher
  <2> QED BY <2>1, <2>2
<1>3. watchers' = (watchers \ {w}) \cup {v}
  BY <1>2
<1>4. \A u \in watchers : u.kind = w.kind => u = w
  BY DEF WatchInv, WatchersOfDeps
<1>5. watchers' \subseteq Watcher
  BY <1>2, <1>3 DEF WatchInv, WatchTypeOK
<1>6. \A u, x \in watchers' : u.kind = x.kind => u = x
  BY <1>2, <1>3, <1>4 DEF WatchInv, WatchersOfDeps
<1>7. \A u \in watchers' : mounted /\ u.user = deps[2]
  BY <1>2, <1>3 DEF WatchInv, WatchersOfDeps
<1> QED BY <1>2, <1>3, <1>4, <1>5, <1>6, <1>7 DEF WatchersOfDeps

(* What a poll adds: places after the watcher's last poll, of its kind and *)
(* for its user, in the chain's order.                                     *)
LEMMA PollBrings ==
  ASSUME WatchInv, NEW w \in watchers, Poll(w)
  PROVE  \E n \in Nat : \E batch \in [1..n -> Batch(w)] :
           /\ \A i, j \in 1..n : i < j => batch[i] < batch[j]
           /\ got' = got \o [i \in 1..n |-> [at |-> batch[i], to |-> rendered, gap |-> Dirty]]
<1>1. PICK batch \in InOrder(Batch(w)), n \in 0..Cardinality(Batch(w)) :
        got' = got \o [i \in 1..n |-> [at |-> batch[i], to |-> rendered, gap |-> Dirty]]
  BY DEF Poll
<1>2. Cardinality(Batch(w)) \in Nat
  <2>1. w.from + 1 \in Int /\ Len(log) \in Int
    BY DEF WatchInv, WatchTypeOK, Watcher
  <2>2. IsFiniteSet(w.from + 1 .. Len(log))
    BY <2>1, FS_Interval
  <2>3. Batch(w) \subseteq w.from + 1 .. Len(log)
    BY DEF Batch
  <2> QED BY <2>2, <2>3, FS_Subset, FS_CardinalityType
<1>3. batch \in [1..Cardinality(Batch(w)) -> Batch(w)] /\ \A i, j \in DOMAIN batch : i < j => batch[i] < batch[j]
  BY DEF InOrder
<1>4. \A i \in 1..n : i \in 1..Cardinality(Batch(w))
  BY <1>2
<1>5. PICK first \in [1..n -> Batch(w)] : \A i \in 1..n : first[i] = batch[i]
  <2>1. [i \in 1..n |-> batch[i]] \in [1..n -> Batch(w)]
    BY <1>3, <1>4
  <2> QED BY <2>1
<1>6. n \in Nat /\ \A i, j \in 1..n : i < j => first[i] < first[j]
  BY <1>2, <1>3, <1>4, <1>5
<1>7. [i \in 1..n |-> [at |-> first[i], to |-> rendered, gap |-> Dirty]]
        = [i \in 1..n |-> [at |-> batch[i], to |-> rendered, gap |-> Dirty]]
  BY <1>5
<1> QED BY <1>1, <1>5, <1>6, <1>7

(* Two sequences, one after the other.                                     *)
LEMMA Joined ==
  ASSUME NEW S, NEW s \in Seq(S), NEW t \in Seq(S)
  PROVE  /\ s \o t \in Seq(S) /\ Len(s) \in Nat /\ Len(t) \in Nat /\ Len(s \o t) = Len(s) + Len(t)
         /\ \A i \in 1..Len(s) : (s \o t)[i] = s[i]
         /\ \A i \in 1..Len(t) : (s \o t)[Len(s) + i] = t[i]
  OBVIOUS

(* A poll tells only of its kind, after what was told of it.               *)
LEMMA PollKeeps == ASSUME WatchInv, NEW w \in watchers, Poll(w) PROVE WatchInv'
<1>0. PICK n \in Nat : \E batch \in [1..n -> Batch(w)] :
        /\ \A i, j \in 1..n : i < j => batch[i] < batch[j]
        /\ got' = got \o [i \in 1..n |-> [at |-> batch[i], to |-> rendered, gap |-> Dirty]]
  BY PollBrings
<1>1. PICK batch \in [1..n -> Batch(w)] :
        /\ \A i, j \in 1..n : i < j => batch[i] < batch[j]
        /\ got' = got \o [i \in 1..n |-> [at |-> batch[i], to |-> rendered, gap |-> Dirty]]
  BY <1>0
<1> DEFINE more == [i \in 1..n |-> [at |-> batch[i], to |-> rendered, gap |-> Dirty]]
<1>2. /\ log \in Seq(Event) /\ Len(log) \in 0..MaxLog /\ w \in Watcher
      /\ got \in Seq(Brought) /\ Len(got) \in Nat /\ rendered \in Watched
  BY DEF WatchInv, WatchTypeOK, Brought
<1>3. \A i \in 1..n : /\ batch[i] \in 1..Len(log) /\ batch[i] \in 1..MaxLog /\ batch[i] > w.from
                      /\ log[batch[i]].kind = w.kind /\ Passes(w.user, log[batch[i]])
  <2>1. \A b \in Batch(w) : /\ b \in 1..Len(log) /\ b \in 1..MaxLog /\ b > w.from
                            /\ log[b].kind = w.kind /\ Passes(w.user, log[b])
    BY <1>2 DEF Batch, Watcher, Poll
  <2> QED BY <2>1
<1>4. more \in Seq(Brought) /\ Len(more) = n
  BY <1>2, <1>3 DEF Brought, Dirty
<1>5. /\ got' \in Seq(Brought) /\ Len(got') = Len(got) + n
      /\ \A i \in 1..Len(got) : got'[i] = got[i]
      /\ \A i \in 1..n : got'[Len(got) + i] = [at |-> batch[i], to |-> rendered, gap |-> Dirty]
  <2>1. got' = got \o more
    BY <1>1
  <2> HIDE DEF more
  <2>2. PICK m : m = more
    OBVIOUS
  <2>3. m \in Seq(Brought) /\ Len(m) = n /\ got' = got \o m
    BY <1>4, <2>1, <2>2
  <2>4. got \o m \in Seq(Brought) /\ Len(got \o m) = Len(got) + n
    BY <1>2, <2>3, Joined
  <2>5. \A i \in 1..Len(got) : (got \o m)[i] = got[i]
    BY <1>2, <2>3, Joined
  <2>6. \A i \in 1..n : (got \o m)[Len(got) + i] = m[i]
    BY <1>2, <2>3, Joined
  <2>7. \A i \in 1..n : m[i] = [at |-> batch[i], to |-> rendered, gap |-> Dirty]
    BY <2>2 DEF more
  <2> QED BY <2>3, <2>4, <2>5, <2>6, <2>7
<1>6. \A i \in 1..Len(got') : i \in 1..Len(got) \/ \E k \in 1..n : i = Len(got) + k
  <2>1. ASSUME NEW i \in 1..Len(got'), i \notin 1..Len(got) PROVE i - Len(got) \in 1..n /\ i = Len(got) + (i - Len(got))
    BY <1>1, <1>2, <1>5, <2>1
  <2> QED BY <2>1
<1> HIDE DEF more
<1>7. watchers' = (watchers \ {w}) \cup {[w EXCEPT !.from = Len(log)]} /\ UNCHANGED <<log, instance, rendered, deps, mounted>>
  BY DEF Poll
<1>8. /\ watchers' \subseteq Watcher /\ WatchersOfDeps'
      /\ \A v \in watchers' : \/ v \in watchers /\ v.kind # w.kind
                              \/ v.kind = w.kind /\ v.from = Len(log)
  BY <1>7, WatcherMoves
<1>9. WatchTypeOK'
  <2>1. due' \subseteq 1..MaxLog
    BY DEF Poll, WatchInv, WatchTypeOK
  <2> QED BY <1>5, <1>7, <1>8, <2>1 DEF WatchInv, WatchTypeOK, Brought
<1>10. \A i \in DOMAIN got' : \/ i \in 1..Len(got) /\ got'[i] = got[i]
                             \/ \E k \in 1..n : i = Len(got) + k /\ got'[i] = [at |-> batch[k], to |-> rendered, gap |-> Dirty]
  <2>1. DOMAIN got' = 1..Len(got')
    BY <1>5
  <2>2. \A i \in 1..Len(got) : got'[i] = got[i]
    BY <1>5
  <2>3. \A k \in 1..n : got'[Len(got) + k] = [at |-> batch[k], to |-> rendered, gap |-> Dirty]
    BY <1>5
  <2>4. ASSUME NEW i \in 1..Len(got'), i \notin 1..Len(got)
        PROVE  \E k \in 1..n : i = Len(got) + k /\ got'[i] = [at |-> batch[k], to |-> rendered, gap |-> Dirty]
    <3>1. PICK k \in 1..n : i = Len(got) + k
      BY <1>6, <2>4
    <3>2. got'[Len(got) + k] = [at |-> batch[k], to |-> rendered, gap |-> Dirty]
      BY <2>3
    <3> QED BY <3>1, <3>2
  <2> QED BY <2>1, <2>2, <2>4
<1>11. DOMAIN got = 1..Len(got)
  BY <1>2
<1>12. GotIsMined'
  BY <1>2, <1>3, <1>7, <1>10, <1>11 DEF GotIsMined, WatchInv
<1>13. WatchersAhead'
  <2>1. \A i \in DOMAIN got' : got'[i].at <= Len(log)
    BY <1>2, <1>3, <1>10, GotPlaces
  <2>2. \A i \in DOMAIN got' : log[got'[i].at].kind # w.kind => i \in DOMAIN got /\ got'[i] = got[i]
    BY <1>3, <1>10, <1>11
  <2>3. ASSUME NEW v \in watchers', v \in watchers, v.kind # w.kind
        PROVE  /\ v.from <= Len(log)
               /\ v.from # -1 => \A i \in DOMAIN got' : log[got'[i].at].kind = v.kind => got'[i].at <= v.from
    BY <2>2, <2>3 DEF WatchersAhead, WatchInv
  <2>4. \A v \in watchers' : \/ v \in watchers /\ v.kind # w.kind
                            \/ v.from = Len(log)
    BY <1>8
  <2> QED BY <1>2, <1>7, <2>1, <2>3, <2>4 DEF WatchersAhead
<1>14. OnceInOrder'
  <2> SUFFICES ASSUME NEW i \in DOMAIN got', NEW j \in DOMAIN got', i < j,
                      log[got'[i].at].kind = log[got'[j].at].kind
               PROVE  got'[i].at < got'[j].at
    BY <1>7 DEF OnceInOrder
  <2>1. CASE i \in 1..Len(got) /\ j \in 1..Len(got)
    BY <1>5, <1>11, <2>1 DEF OnceInOrder, WatchInv
  <2>2. CASE \E k \in 1..n : j = Len(got) + k /\ got'[j] = [at |-> batch[k], to |-> rendered, gap |-> Dirty]
    <3>1. PICK k \in 1..n : j = Len(got) + k /\ got'[j].at = batch[k]
      BY <2>2
    <3>2. CASE i \in 1..Len(got)
      <4>1. got[i].at <= w.from
        BY <1>3, <1>5, <1>11, <3>1, <3>2 DEF WatchersAhead, WatchInv, Poll
      <4>2. got[i].at \in Nat /\ w.from \in Int /\ batch[k] \in Nat /\ batch[k] > w.from
        BY <1>2, <1>3, <1>11, <3>2, GotPlaces DEF Watcher
      <4> QED BY <1>5, <3>1, <3>2, <4>1, <4>2
    <3>3. CASE i \notin 1..Len(got)
      <4>1. PICK l \in 1..n : i = Len(got) + l /\ got'[i].at = batch[l]
        BY <1>10, <3>3
      <4>2. l < k
        BY <1>2, <3>1, <4>1
      <4> QED BY <1>1, <3>1, <4>1, <4>2
    <3> QED BY <3>2, <3>3
  <2>3. CASE i \notin 1..Len(got) /\ j \in 1..Len(got)
    BY <1>2, <1>10, <2>3
  <2> QED BY <1>10, <2>1, <2>2, <2>3
<1>15. OnlyInGap'
  <2> SUFFICES ASSUME NEW i \in DOMAIN got'
               PROVE  got'[i].gap \/ got'[i].to \in {Anyone, log[got'[i].at].user}
    BY <1>7 DEF OnlyInGap
  <2>1. CASE i \in 1..Len(got)
    BY <1>5, <1>11, <2>1 DEF OnlyInGap, WatchInv
  <2>2. CASE i \notin 1..Len(got)
    <3>1. PICK k \in 1..n : got'[i] = [at |-> batch[k], to |-> rendered, gap |-> Dirty]
      BY <1>10, <2>2
    <3>2. CASE ~Dirty
      <4>1. deps = <<instance, rendered>> /\ w.user = deps[2]
        BY <3>2 DEF Dirty, WatchersOfDeps, WatchInv
      <4>2. w.user = rendered
        BY <4>1
      <4> QED BY <1>3, <3>1, <4>2 DEF Passes
    <3> QED BY <3>1, <3>2
  <2> QED BY <2>1, <2>2
<1> QED BY <1>8, <1>9, <1>12, <1>13, <1>14, <1>15 DEF WatchInv

LEMMA WatchStepKeeps == WatchInv /\ [WatchNext]_watchVars => WatchInv'
<1> SUFFICES ASSUME WatchInv, [WatchNext]_watchVars PROVE WatchInv'
  OBVIOUS
<1> USE DEF WatchInv
<1>1. CASE Effect
  <2>1. PICK failed \in SUBSET Kind : watchers' = Subscription(rendered, Kind \ failed)
    BY <1>1 DEF Effect
  <2>2. \A w \in watchers' : w \in Watcher /\ w.from = -1 /\ w.user = rendered
    BY <2>1 DEF Subscription, Watcher, WatchTypeOK
  <2>3. \A v, w \in watchers' : v.kind = w.kind => v = w
    BY <2>1 DEF Subscription
  <2>4. deps' = <<instance, rendered>> /\ deps'[2] = rendered /\ mounted /\ UNCHANGED <<log, instance, rendered, mounted, got, due>>
    BY <1>1 DEF Effect, Dirty
  <2>5. WatchTypeOK'
    BY <2>2, <2>4 DEF WatchTypeOK
  <2>6. WatchersOfDeps'
    BY <2>2, <2>3, <2>4 DEF WatchersOfDeps
  <2>7. WatchersAhead'
    BY <2>2, <2>4 DEF WatchersAhead, WatchTypeOK
  <2> QED BY <2>4, <2>5, <2>6, <2>7 DEF GotIsMined, OnceInOrder, OnlyInGap
<1>2. CASE Unmount
  <2>1. WatchTypeOK'
    BY <1>2 DEF Unmount, WatchTypeOK
  <2> QED BY <1>2, <2>1 DEF Unmount, WatchersOfDeps, WatchersAhead, GotIsMined, OnceInOrder, OnlyInGap
<1>3. ASSUME NEW u \in Watched, Render(u) PROVE WatchInv'
  <2>1. instance' \in 0..MaxOrders
    BY <1>3 DEF Render, OrdersOfRender, WatchTypeOK
  <2>2. WatchTypeOK'
    BY <1>3, <2>1 DEF Render, WatchTypeOK
  <2> QED BY <1>3, <2>2 DEF Render, WatchersOfDeps, WatchersAhead, GotIsMined, OnceInOrder, OnlyInGap
<1>4. ASSUME NEW e \in Event, Mine(e) PROVE WatchInv'
  <2>1. /\ log' \in Seq(Event) /\ Len(log) \in Nat /\ Len(log') = Len(log) + 1 /\ Len(log') <= MaxLog
        /\ \A i \in 1..Len(log) : log'[i] = log[i]
    BY <1>4 DEF Mine, WatchTypeOK
  <2>2. \A i \in DOMAIN got : got[i].at \in 1..Len(log)
    BY GotPlaces
  <2>3. due' \subseteq 1..MaxLog
    <3>1. due' \subseteq due \cup {Len(log) + 1}
      BY <1>4 DEF Mine
    <3>2. Len(log) + 1 \in 1..MaxLog /\ due \subseteq 1..MaxLog
      BY <2>1 DEF WatchTypeOK
    <3> QED BY <3>1, <3>2
  <2>4. WatchTypeOK'
    <3>1. UNCHANGED <<instance, rendered, deps, mounted, watchers, got>>
      BY <1>4 DEF Mine
    <3> QED BY <2>1, <2>3, <3>1 DEF WatchTypeOK
  <2>5. WatchersOfDeps' /\ GotIsMined'
    BY <1>4, <2>1, <2>2 DEF Mine, WatchersOfDeps, GotIsMined
  <2>6. WatchersAhead'
    <3>1. \A w \in watchers : w.from \in Int
      BY DEF WatchTypeOK, Watcher
    <3>2. watchers' = watchers /\ got' = got
      BY <1>4 DEF Mine
    <3> QED BY <2>1, <2>2, <3>1, <3>2 DEF WatchersAhead
  <2>7. OnceInOrder' /\ OnlyInGap'
    <3>1. got' = got
      BY <1>4 DEF Mine
    <3> QED BY <2>1, <2>2, <3>1 DEF OnceInOrder, OnlyInGap
  <2> QED BY <2>4, <2>5, <2>6, <2>7
<1>5. ASSUME NEW w \in watchers, Open(w) PROVE WatchInv'
  <2>1. /\ watchers' = (watchers \ {w}) \cup {[w EXCEPT !.from = Len(log)]}
        /\ UNCHANGED <<log, instance, rendered, deps, mounted, got, due>>
    BY <1>5 DEF Open
  <2>2. /\ watchers' \subseteq Watcher /\ WatchersOfDeps'
        /\ \A v \in watchers' : \/ v \in watchers /\ v.kind # w.kind
                                \/ v.kind = w.kind /\ v.from = Len(log)
    BY <2>1, WatcherMoves
  <2>3. WatchTypeOK'
    BY <2>1, <2>2 DEF WatchTypeOK
  <2>4. WatchersAhead'
    <3>1. /\ log' = log /\ got' = got /\ Len(log) \in Nat
          /\ \A v \in watchers' : v \in watchers \/ v.from = Len(log)
      BY <2>1, <2>2 DEF WatchTypeOK
    <3> QED BY ONLY <3>1, WatchersAhead, GotIsMined, SMTT(60) DEF WatchersAhead, GotIsMined
  <2> QED BY <2>1, <2>2, <2>3, <2>4 DEF GotIsMined, OnceInOrder, OnlyInGap
<1>6. CASE UNCHANGED watchVars
  BY <1>6 DEF watchVars, WatchTypeOK, WatchersOfDeps, WatchersAhead, GotIsMined, OnceInOrder, OnlyInGap, Dirty
<1> QED BY <1>1, <1>2, <1>3, <1>4, <1>5, <1>6, PollKeeps DEF WatchNext

----------------------------------------------------------------------------
(* The page                                                                *)

(* A step of the page is a step of the feature its user is at.             *)
LEMMA AppStepIsOwn ==
  [AppNext]_appVars =>
    [HookNext]_hookVars /\ [WatchNext]_watchVars /\ [FraudNext]_fraudVars /\ [DeviceNext]_deviceVars
  BY DEF AppNext, AtLimits, AtWatch, AtFraud, AtDevice, appVars

LEMMA AppIsSafe == AppSpec => [](HookInv /\ WatchInv /\ FraudInv /\ DeviceInv)
<1>1. AppInit => HookInv /\ WatchInv /\ FraudInv /\ DeviceInv
  BY HookStarts, WatchStarts, FraudStarts, DeviceStarts DEF AppInit
<1>2. HookInv /\ WatchInv /\ FraudInv /\ DeviceInv /\ [AppNext]_appVars =>
        (HookInv /\ WatchInv /\ FraudInv /\ DeviceInv)'
  BY AppStepIsOwn, HookStepKeeps, WatchStepKeeps, FraudStepKeeps, DeviceStepKeeps
<1> QED BY <1>1, <1>2, PTL DEF AppSpec

FeatureOK == feature \in {"limits", "watch", "fraud", "device"}

(* Every variable of the four features keeps its type.                     *)
THEOREM AppIsTyped == AppSpec => []AppTypeOK
<1>1. AppInit => FeatureOK
  BY DEF AppInit, FeatureOK
<1>2. FeatureOK /\ [AppNext]_appVars => FeatureOK'
  BY DEF AppNext, AtLimits, AtWatch, AtFraud, AtDevice, appVars, FeatureOK
<1>3. HookInv /\ WatchInv /\ FraudInv /\ DeviceInv /\ FeatureOK => AppTypeOK
  BY DEF AppTypeOK, HookInv, WatchInv, FraudInv, DeviceInv, FeatureOK
<1> QED BY <1>1, <1>2, <1>3, AppIsSafe, PTL DEF AppSpec

(* Counts on screen are the connected user's whenever nothing loads and no *)
(* error shows, however many wallets, renders and requests there are; but  *)
(* between a render for another user and its effects, and after a refresh()*)
(* kept from another user's render.                                        *)
(* use-placement-limits.ts:38-39, 50-63, 78-80.                            *)
THEOREM CountsAreOwn == AppSpec => []ShowsOwnCounts
  BY AppIsSafe, PTL DEF HookInv

(* No answer replaces a user's counts by older ones.                       *)
(* use-placement-limits.ts:38, 63.                                         *)
THEOREM CountsGetNoOlder == AppSpec => NeverOlder
<1>1. HookInv /\ [AppNext]_appVars =>
        [limits # NoLimits /\ limits' # NoLimits /\ limits'.user = limits.user
           /\ firstSecond = firstSecond' => limits'.age <= limits.age]_hookVars
  BY AppStepIsOwn, HookStepKeeps DEF NoOlder
<1> QED BY <1>1, AppIsSafe, PTL DEF AppSpec, NeverOlder

(* No event reaches the page twice, and those of one kind come in the      *)
(* chain's order, however often the hook subscribes again.                 *)
(* use-watch-orders.ts:24-31, watch-events.ts:133-141.                     *)
THEOREM EventsOnceInOrder == AppSpec => []OnceInOrder
  BY AppIsSafe, PTL DEF WatchInv

(* Another user's event reaches the page only between a render and the     *)
(* effect that follows it.  use-watch-orders.ts:8-9, 21, 24-31.            *)
THEOREM StrangersOnlyInGap == AppSpec => []OnlyInGap
  BY AppIsSafe, PTL DEF WatchInv

(* An enabled hook that is not loading shows what its newest run found,    *)
(* however many runs, logs and loads are on their way.                     *)
(* use-fingerprint.ts:22, 29-43.                                           *)
THEOREM NewestRunIsShown == AppSpec => []ShowsNewestRun
  BY AppIsSafe, PTL DEF DeviceInv

(* An order the backend rejected is on chain only if its check failed      *)
(* before the rejection was heard, with any number of calls.               *)
(* fraud-engine/client.ts:228-238.                                         *)
THEOREM RejectionsStop == AppSpec => []RejectionStops
<1>1. FraudInv => RejectionStops
  BY DEF FraudInv, OrderIsAllowed, RejectionStops
<1> QED BY <1>1, AppIsSafe, PTL

(* Every link joins an approved check with the order of the same call, with*)
(* any number of calls in parallel.  fraud-engine/client.ts:202-203.       *)
THEOREM LinksAreOwn == AppSpec => []LinksOwnOrder
  BY AppIsSafe, PTL DEF FraudInv

(* A caller told "placed" has its order on chain and, when approved, its   *)
(* link sent.  fraud-engine/client.ts:252-262.                             *)
THEOREM PlacedOrdersAreTraced == AppSpec => PlacedIsTraced
<1>1. FraudInv /\ [AppNext]_appVars =>
        [\A b \in Buy : told[b] = "nothing" /\ told'[b] = "placed" =>
           b \in ordered' /\ (verdict[b] = "approved" /\ b \notin unheard =>
                                \E l \in linking' : l.order = b)]_fraudVars
  BY AppStepIsOwn, PlacedLeavesTrace
<1> QED BY <1>1, AppIsSafe, PTL DEF AppSpec, PlacedIsTraced

----------------------------------------------------------------------------
(* What comes to an end                                                    *)

(* A feature its user is not at has no call and no spinner.                *)
Unstarted ==
  /\ feature # "fraud" => \A b \in Buy : stage[b] = "idle"
  /\ feature # "device" => ~enabled
  /\ feature # "watch" => due = {}

LEMMA OthersAreUnstarted == AppSpec => []Unstarted
<1>1. AppInit => Unstarted
  BY DEF AppInit, FraudInit, DeviceInit, WatchInit, Unstarted
<1>2. Unstarted /\ [AppNext]_appVars => Unstarted'
  BY DEF Unstarted, AppNext, AtLimits, AtWatch, AtFraud, AtDevice, appVars, fraudVars, deviceVars, watchVars
<1> QED BY <1>1, <1>2, PTL DEF AppSpec

(* A call of the fraud engine goes from stage to stage, whoever else steps.*)
CallAt(b, s) == stage[b] = s
CallGoesOn(b) ==
  /\ CallAt(b, "gathering") =>
       CallAt(b, "gathering")' \/ CallAt(b, "checking")' \/ CallAt(b, "placing")' \/ CallAt(b, "done")'
  /\ CallAt(b, "checking") => CallAt(b, "checking")' \/ CallAt(b, "placing")' \/ CallAt(b, "done")'
  /\ CallAt(b, "placing") => CallAt(b, "placing")' \/ CallAt(b, "done")'

LEMMA FraudGoesOn ==
  ASSUME FraudTypeOK, [FraudNext]_fraudVars, NEW b \in Buy PROVE CallGoesOn(b)
<1> USE DEF FraudTypeOK, CallGoesOn, CallAt, Moves, Returns
<1>1. ASSUME NEW c \in Buy, Begin(c) \/ Gathered(c) PROVE CallGoesOn(b)
  BY <1>1 DEF Begin, Gathered
<1>2. ASSUME NEW c \in Buy, NEW e \in CheckError, CheckFails(c, e) PROVE CallGoesOn(b)
  BY <1>2 DEF CheckFails
<1>3. ASSUME NEW c \in Buy, Answered(c) PROVE CallGoesOn(b)
  BY <1>3 DEF Answered
<1>4. ASSUME NEW c \in Buy, Places(c) \/ PlacingFails(c) PROVE CallGoesOn(b)
  BY <1>4 DEF Places, PlacingFails
<1>5. ASSUME NEW c \in Buy, BackendDecides(c) \/ PagePlaces(c) \/ LinkOrder(c) PROVE CallGoesOn(b)
  BY <1>5 DEF BackendDecides, PagePlaces, LinkOrder
<1>6. ASSUME NEW l \in linking, LinkEnds(l) PROVE CallGoesOn(b)
  BY <1>6 DEF LinkEnds
<1>7. CASE UNCHANGED fraudVars
  BY <1>7 DEF fraudVars
<1> QED BY <1>1, <1>2, <1>3, <1>4, <1>5, <1>6, <1>7 DEF FraudNext, Checks, Callback

(* Its own step takes it from where it was.                                *)
LEMMA CallLeaves ==
  ASSUME FraudTypeOK, NEW b \in Buy
  PROVE  /\ Checks(b) /\ CallAt(b, "gathering") => ~CallAt(b, "gathering")'
         /\ Checks(b) /\ CallAt(b, "checking") => ~CallAt(b, "checking")'
         /\ Callback(b) /\ CallAt(b, "placing") => ~CallAt(b, "placing")'
<1> USE DEF FraudTypeOK, CallAt, Moves, Returns
<1>1. Gathered(b) \/ Answered(b) \/ Callback(b) => \A s \in {"gathering", "checking", "placing"} : CallAt(b, s) => ~CallAt(b, s)'
  BY DEF Gathered, Answered, Callback, Places, PlacingFails
<1>2. ASSUME NEW e \in CheckError, CheckFails(b, e)
      PROVE  ~CallAt(b, "gathering")' /\ ~CallAt(b, "checking")'
  BY <1>2 DEF CheckFails
<1> QED BY <1>1, <1>2 DEF Checks

(* A call has a step to take: what it gathers can be had or not, a check's *)
(* request can fail, and the page's callback returns or throws.            *)
CallCanGoOn(b) ==
  /\ feature = "fraud" /\ stage[b] \in {"gathering", "checking"} => ENABLED <<AtFraud(Checks(b))>>_appVars
  /\ feature = "fraud" /\ stage[b] = "placing" => ENABLED <<AtFraud(Callback(b))>>_appVars
CallsCanGoOn == \A b \in Buy : CallCanGoOn(b)

LEMMA CallEnds ==
  ASSUME NEW b \in Buy
  PROVE  AppFairSpec /\ []CallsCanGoOn => (stage[b] # "idle" ~> stage[b] = "done")
<1>1. AppFairSpec => AppSpec /\ CallFair(b)
  BY DEF AppFairSpec
<1>2. CallsCanGoOn /\ Unstarted =>
        /\ CallAt(b, "gathering") \/ CallAt(b, "checking") => ENABLED <<AtFraud(Checks(b))>>_appVars
        /\ CallAt(b, "placing") => ENABLED <<AtFraud(Callback(b))>>_appVars
  <2>1. CallsCanGoOn => CallCanGoOn(b)
    BY DEF CallsCanGoOn
  <2>2. Unstarted /\ stage[b] # "idle" => feature = "fraud"
    BY DEF Unstarted
  <2> QED BY <2>1, <2>2 DEF CallCanGoOn, CallAt
<1>3. FraudInv /\ [AppNext]_appVars => CallGoesOn(b)
  BY AppStepIsOwn, FraudGoesOn DEF FraudInv
<1>4. /\ FraudInv /\ AtFraud(Checks(b)) /\ CallAt(b, "gathering") => ~CallAt(b, "gathering")'
      /\ FraudInv /\ AtFraud(Checks(b)) /\ CallAt(b, "checking") => ~CallAt(b, "checking")'
      /\ FraudInv /\ AtFraud(Callback(b)) /\ CallAt(b, "placing") => ~CallAt(b, "placing")'
  BY CallLeaves DEF FraudInv, AtFraud
<1>5. FraudInv /\ stage[b] # "idle" =>
        CallAt(b, "gathering") \/ CallAt(b, "checking") \/ CallAt(b, "placing") \/ CallAt(b, "done")
  BY DEF FraudInv, FraudTypeOK, CallAt
<1>6. CallAt(b, "done") => stage[b] = "done"
  BY DEF CallAt
<1> QED BY <1>1, <1>2, <1>3, <1>4, <1>5, <1>6, AppIsSafe, OthersAreUnstarted, PTL DEF AppSpec, CallFair, CallGoesOn

(* Every call that began is over (CallSettles), whatever becomes of the    *)
(* backend's decision and of the link.  fraud-engine/client.ts:196-262.    *)
THEOREM CallsSettle == AppFairSpec /\ []CallsCanGoOn => CallSettles
<1>1. ASSUME NEW b \in Buy PROVE AppFairSpec /\ []CallsCanGoOn => (stage[b] # "idle" ~> stage[b] = "done")
  BY CallEnds
<1> QED BY <1>1 DEF CallSettles

(* The newest run of an enabled hook is loading the agent, about to ask,   *)
(* with the agent there, or reading it, for as long as the spinner turns.  *)
Spinning == enabled /\ shown.isLoading
NewestIsReading ==
  enabled => /\ reading[run] \in {"loading", "asking", "getting", "done"}
             /\ shown.isLoading => reading[run] # "done"
             /\ reading[run] = "asking" => agent

(* The others do not touch it.                                             *)
LEMMA OthersLeaveNewest ==
  ASSUME DeviceInv, enabled, NEW r \in Reader, r # run, Reached(r)
  PROVE  reading'[run] = reading[run] /\ shown' = shown /\ enabled' = enabled /\ run' = run /\ (agent => agent')
<1>1. PICK s, t : Reaches(r, s, t)
  BY DEF Reached
<1>2. run \in Run /\ run \in Reader /\ reading \in [Reader -> Stages]
  BY DEF DeviceInv, DeviceTypeOK, OthersAreOver, Reader, Stages
<1>3. reading'[run] = reading[run] /\ enabled' = enabled /\ run' = run
  BY <1>1, <1>2 DEF Reaches
<1>4. r \in Run => r \in cancelled
  <2>1. r \in Run => reading[r] # "idle"
    BY <1>1 DEF Reaches
  <2>2. r \in Run => r < run \/ r > run
    BY <1>2 DEF Run, DeviceInv, DeviceTypeOK
  <2> QED BY <2>1, <2>2 DEF DeviceInv, OthersAreOver
<1>5. shown' = shown
  BY <1>1, <1>4 DEF Reaches
<1> QED BY <1>3, <1>5 DEF Reached

(* Its end stops the spinner.                                              *)
LEMMA NewestSettles ==
  ASSUME DeviceInv, enabled, NEW v, Settles(run, v)
  PROVE  reading'[run] = "done" /\ shown'.isLoading = FALSE
<1>1. run \in Reader /\ run \notin cancelled /\ reading \in [Reader -> Stages]
  BY DEF DeviceInv, DeviceTypeOK, OthersAreOver, Reader, Stages
<1>2. reading'[run] = "done"
  BY <1>1 DEF Settles, Reads
<1>3. shown' = [data |-> IF v = "error" THEN "null" ELSE v, error |-> v = "error", isLoading |-> FALSE]
  BY <1>1 DEF Settles
<1> QED BY <1>2, <1>3

LEMMA NewestMoves ==
  ASSUME DeviceInv, enabled, NewestIsReading, Progress(run) \/ \E id \in Id : Gets(run, id)
  PROVE  /\ UNCHANGED <<enabled, run>> /\ (agent => agent')
         /\ \/ reading[run] = "loading" /\ reading'[run] = "asking" /\ agent' /\ shown' = shown
            \/ reading[run] = "asking" /\ reading'[run] = "getting" /\ shown' = shown
            \/ reading'[run] = "done" /\ shown'.isLoading = FALSE
<1>1. run \in Run /\ run \in Reader /\ reading \in [Reader -> Stages]
  BY DEF DeviceInv, DeviceTypeOK, OthersAreOver, Reader, Stages
<1>2. \A v : Answers(run, v) => Settles(run, v)
  BY <1>1, Zenon DEF Answers
<1>3. CASE Asks(run)
  <2>1. UNCHANGED <<enabled, run, agent>> /\ reading[run] = "asking" /\ agent
    BY <1>3 DEF Asks, NewestIsReading
  <2>2. CASE cachedResult # "null"
    <3>1. Answers(run, cachedResult)
      BY <1>3, <2>2 DEF Asks
    <3>2. Settles(run, cachedResult)
      BY ONLY <1>2, <3>1, Zenon
    <3>3. reading'[run] = "done" /\ shown'.isLoading = FALSE
      BY <3>2, NewestSettles
    <3> QED BY <2>1, <3>3
  <2>3. CASE cachedResult = "null"
    <3>1. reading'[run] = "getting" /\ shown' = shown
      BY <1>1, <1>3, <2>1, <2>3 DEF Asks, Reads
    <3> QED BY <2>1, <3>1
  <2> QED BY <2>2, <2>3
<1>4. CASE Loaded(run)
  <2>1. Reads(run, "asking")
    BY <1>1, <1>4, Zenon DEF Loaded
  <2>2. reading'[run] = "asking"
    BY <1>1, <2>1 DEF Reads
  <2> QED BY <1>4, <2>2 DEF Loaded
<1>5. CASE LoadFails(run)
  <2>1. Settles(run, "error")
    BY <1>1, <1>5, Zenon DEF LoadFails
  <2> QED BY <1>5, <2>1, NewestSettles DEF LoadFails
<1>6. CASE GetFails(run)
  BY <1>2, <1>6, NewestSettles DEF GetFails
<1>7. ASSUME NEW id \in Id, Gets(run, id)
      PROVE  UNCHANGED <<enabled, run>> /\ (agent => agent') /\ reading'[run] = "done" /\ shown'.isLoading = FALSE
  BY <1>2, <1>7, NewestSettles DEF Gets
<1> QED BY <1>3, <1>4, <1>5, <1>6, <1>7 DEF Progress

(* Enabling the hook starts a run, disabling it stops the spinner.         *)
LEMMA EnableReads ==
  ASSUME DeviceInv, Enable
  PROVE  reading'[run'] = (IF agent THEN "asking" ELSE "loading") /\ agent' = agent /\ ~enabled
<1>1. run + 1 \in Reader /\ run' = run + 1 /\ reading \in [Reader -> Stages]
  BY DEF Enable, DeviceInv, DeviceTypeOK, Reader, Run, Stages
<1>2. reading'[run + 1] = IF agent THEN "asking" ELSE "loading"
  BY <1>1 DEF Enable, Reads
<1> QED BY <1>1, <1>2 DEF Enable

(* What any step does to an enabled hook.                                  *)
NewestStep ==
  \/ Enable
  \/ ~enabled'
  \/ enabled /\ (Progress(run) \/ \E id \in Id : Gets(run, id))
  \/ enabled /\ reading'[run] = reading[run] /\ shown' = shown /\ enabled' = enabled /\ run' = run /\ (agent => agent')

LEMMA EveryNewestStep == ASSUME DeviceInv, [DeviceNext]_deviceVars PROVE NewestStep
<1>1. CASE Enable \/ Disable
  BY <1>1 DEF Disable, NewestStep
<1>2. ASSUME NEW r \in Reader, Reached(r), r # run PROVE NewestStep
  <2>1. enabled' = enabled
    BY <1>2 DEF Reached, Reaches
  <2> QED BY <1>2, <2>1, OthersLeaveNewest DEF NewestStep, DeviceInv, DeviceTypeOK
<1>3. CASE ~enabled \/ run \in Run
  <2>1. ASSUME NEW l \in Log, BeginLog(l) \/ LogEnds(l) PROVE NewestStep
    <3>1. l \in Reader /\ l \notin Run /\ Reached(l)
      BY <2>1, OthersReach DEF Reader
    <3>2. CASE enabled
      BY <1>2, <1>3, <3>1, <3>2
    <3>3. CASE ~enabled
      BY <2>1, <3>3 DEF BeginLog, LogEnds, NewestStep
    <3> QED BY <3>2, <3>3
  <2>2. ASSUME NEW p \in Preload, init(p) PROVE NewestStep
    <3>1. p \in Reader /\ p \notin Run /\ Reached(p)
      BY <2>2, OthersReach DEF Reader
    <3>2. CASE enabled
      BY <1>2, <1>3, <3>1, <3>2
    <3>3. CASE ~enabled
      BY <2>2, <3>3 DEF init, NewestStep
    <3> QED BY <3>2, <3>3
  <2>3. ASSUME NEW r \in Reader, Progress(r) \/ \E id \in Id : Gets(r, id) PROVE NewestStep
    <3>1. Reached(r)
      BY <2>3, ReaderReaches
    <3>2. enabled' = enabled
      BY <3>1 DEF Reached, Reaches
    <3> QED BY <1>2, <2>3, <3>1, <3>2 DEF NewestStep, DeviceInv, DeviceTypeOK
  <2>4. CASE UNCHANGED deviceVars
    BY <2>4 DEF deviceVars, NewestStep, DeviceInv, DeviceTypeOK
  <2> QED BY <1>1, <2>1, <2>2, <2>3, <2>4 DEF DeviceNext
<1> QED BY <1>3 DEF DeviceInv, OthersAreOver

LEMMA NewestKeepsReading == ASSUME DeviceInv, NewestIsReading, [DeviceNext]_deviceVars PROVE NewestIsReading'
<1>1. NewestStep
  BY EveryNewestStep
<1>2. CASE Enable
  BY <1>2, EnableReads DEF NewestIsReading
<1>3. CASE enabled /\ (Progress(run) \/ \E id \in Id : Gets(run, id))
  BY <1>3, NewestMoves DEF NewestIsReading
<1> QED BY <1>1, <1>2, <1>3 DEF NewestStep, NewestIsReading

(* From stage to stage, until the spinner stops.                           *)
NewestAt(s) == Spinning /\ reading[run] = s
NewestGoes ==
  /\ NewestAt("loading") => NewestAt("loading")' \/ NewestAt("asking")' \/ ~Spinning'
  /\ NewestAt("asking") => NewestAt("asking")' \/ NewestAt("getting")' \/ ~Spinning'
  /\ NewestAt("getting") => NewestAt("getting")' \/ ~Spinning'

LEMMA DeviceGoesOn == ASSUME DeviceInv, NewestIsReading, [DeviceNext]_deviceVars PROVE NewestGoes
<1> USE DEF NewestGoes, NewestAt, Spinning
<1>1. NewestStep
  BY EveryNewestStep
<1>2. CASE Enable
  BY <1>2 DEF Enable
<1>3. CASE enabled /\ (Progress(run) \/ \E id \in Id : Gets(run, id))
  BY <1>3, NewestMoves
<1> QED BY <1>1, <1>2, <1>3 DEF NewestStep

LEMMA NewestLeaves ==
  ASSUME DeviceInv, NewestIsReading, NewestGoesOn, NEW s \in {"loading", "asking", "getting"}, NewestAt(s)
  PROVE  ~NewestAt(s)'
<1>1. enabled /\ Progress(run)
  BY DEF NewestAt, Spinning, NewestGoesOn
<1> QED BY <1>1, NewestMoves DEF NewestAt, Spinning

(* The newest run has a step to take: a load comes back or throws, asking  *)
(* waits for nothing, and a read's timer fires.                            *)
DeviceCanGoOn ==
  feature = "device" /\ run # 0 /\ reading[run] \in {"loading", "asking", "getting"} =>
    ENABLED <<AtDevice(NewestGoesOn)>>_appVars

(* The fingerprint's spinner stops (the half of SpinnersStop that is the   *)
(* device's) however many runs, logs and loads there are, although nothing *)
(* bounds agent.get().  fraud-engine/fingerprint.ts:24-29.                 *)
THEOREM DeviceSpinnerStops == AppFairSpec /\ []DeviceCanGoOn => DeviceLoadingEnds
<1>1. AppFairSpec => AppSpec /\ DeviceFair
  BY DEF AppFairSpec
<1>2. AppInit => NewestIsReading
  BY DEF AppInit, DeviceInit, NewestIsReading
<1>3. DeviceInv /\ NewestIsReading /\ [AppNext]_appVars => NewestIsReading' /\ NewestGoes
  BY AppStepIsOwn, NewestKeepsReading, DeviceGoesOn
<1>4. /\ DeviceInv /\ NewestIsReading /\ AtDevice(NewestGoesOn) /\ NewestAt("loading") => ~NewestAt("loading")'
      /\ DeviceInv /\ NewestIsReading /\ AtDevice(NewestGoesOn) /\ NewestAt("asking") => ~NewestAt("asking")'
      /\ DeviceInv /\ NewestIsReading /\ AtDevice(NewestGoesOn) /\ NewestAt("getting") => ~NewestAt("getting")'
  BY NewestLeaves DEF AtDevice
<1>5. DeviceInv /\ NewestIsReading /\ Spinning => NewestAt("loading") \/ NewestAt("asking") \/ NewestAt("getting")
  BY DEF NewestIsReading, Spinning, NewestAt
<1>6. DeviceInv /\ Unstarted /\ DeviceCanGoOn =>
        (NewestAt("loading") \/ NewestAt("asking") \/ NewestAt("getting") => ENABLED <<AtDevice(NewestGoesOn)>>_appVars)
  <2>1. DeviceInv /\ enabled => run # 0
    BY DEF DeviceInv, OthersAreOver, Run
  <2>2. Unstarted /\ enabled => feature = "device"
    BY DEF Unstarted
  <2> QED BY <2>1, <2>2 DEF DeviceCanGoOn, NewestAt, Spinning
<1>7. Spinning <=> enabled /\ shown.isLoading
  BY DEF Spinning
<1> QED BY <1>1, <1>2, <1>3, <1>4, <1>5, <1>6, <1>7, AppIsSafe, OthersAreUnstarted, PTL
        DEF AppSpec, DeviceFair, NewestGoes, DeviceLoadingEnds

(* What an open subscription has to bring and has not brought yet waits for*)
(* a watcher that will ask for it; a page whose store is the same object at*)
(* each render has no new subscription for the same user.                  *)
Waits(i) == \E w \in watchers : w.kind = log[i].kind /\ w.from # -1 /\ w.from < i /\ Passes(w.user, log[i])
DueIsWatched ==
  /\ due # {} => mounted /\ ~Dirty
  /\ \A i \in due : i \in 1..Len(log) /\ (i \in Got \/ Waits(i))

(* A poll brings its batch, except what an onEvent that throws gives up.   *)
LEMMA PollServes ==
  ASSUME WatchInv, NEW w \in watchers, Poll(w)
  PROVE  Got \subseteq Got' /\ due' \subseteq due /\ \A i \in Batch(w) : i \in Got' \/ i \notin due'
<1>1. PICK batch \in InOrder(Batch(w)), n \in 0..Cardinality(Batch(w)) :
        /\ got' = got \o [i \in 1..n |-> [at |-> batch[i], to |-> rendered, gap |-> Dirty]]
        /\ due' = due \ {batch[i] : i \in n + 1 .. Cardinality(Batch(w))}
  BY DEF Poll
<1>2. IsFiniteSet(Batch(w)) /\ Cardinality(Batch(w)) \in Nat
  <2>1. w.from + 1 \in Int /\ Len(log) \in Int
    BY DEF WatchInv, WatchTypeOK, Watcher
  <2>2. IsFiniteSet(w.from + 1 .. Len(log))
    BY <2>1, FS_Interval
  <2>3. Batch(w) \subseteq w.from + 1 .. Len(log)
    BY DEF Batch
  <2> QED BY <2>2, <2>3, FS_Subset, FS_CardinalityType
<1> DEFINE c == Cardinality(Batch(w))
<1>3. batch \in [1..c -> Batch(w)] /\ \A i, j \in 1..c : i < j => batch[i] < batch[j]
  BY DEF InOrder
<1>4. \A i \in 1..c : batch[i] \in 1..Len(log) /\ batch[i] \in 1..MaxLog
  <2>1. \A b \in Batch(w) : b \in 1..Len(log) /\ b \in 1..MaxLog
    <3>1. w \in Watcher /\ w.from # -1 /\ Len(log) \in Nat /\ Len(log) <= MaxLog
      BY DEF Poll, WatchInv, WatchTypeOK
    <3>2. w.from \in Int /\ w.from >= 0
      BY <3>1 DEF Watcher
    <3>3. \A b \in Batch(w) : b \in w.from + 1 .. Len(log)
      BY DEF Batch
    <3> QED BY <3>1, <3>2, <3>3, WatchAssumption
  <2> QED BY <1>3, <2>1
<1>5. \A b \in Batch(w) : \E i \in 1..c : batch[i] = b
  <2>1. \A i, j \in 1..c : batch[i] = batch[j] => i = j
    BY <1>2, <1>3, <1>4
  <2>2. batch \in Injection(1..c, Batch(w))
    BY <1>3, <2>1 DEF Injection, IsInjective
  <2>3. Cardinality(1..c) = c
    BY <1>2, FS_Interval
  <2>4. batch \in Surjection(1..c, Batch(w))
    BY <1>2, <2>2, <2>3, FS_Injection
  <2> QED BY <2>4 DEF Surjection
<1>6. /\ \A i \in 1..Len(got) : i \in DOMAIN got' /\ got'[i] = got[i]
      /\ \A i \in 1..n : Len(got) + i \in DOMAIN got' /\ got'[Len(got) + i].at = batch[i]
  <2> DEFINE more == [i \in 1..n |-> [at |-> batch[i], to |-> rendered, gap |-> Dirty]]
  <2>1. n \in Nat /\ \A i \in 1..n : i \in 1..c
    BY <1>2
  <2>2. got \in Seq(Brought) /\ rendered \in Watched
    BY DEF WatchInv, WatchTypeOK, Brought
  <2>3. more \in Seq(Brought) /\ Len(more) = n /\ \A i \in 1..n : more[i].at = batch[i]
    BY <1>4, <2>1, <2>2 DEF Brought, Dirty
  <2>4. got' = got \o more
    BY <1>1
  <2> HIDE DEF more
  <2>5. PICK m : m = more
    OBVIOUS
  <2>6. m \in Seq(Brought) /\ Len(m) = n /\ got' = got \o m
    BY <2>3, <2>4, <2>5
  <2>7. got \o m \in Seq(Brought) /\ Len(got) \in Nat /\ Len(got \o m) = Len(got) + n
    BY <2>2, <2>6, Joined
  <2>8. \A i \in 1..Len(got) : (got \o m)[i] = got[i]
    BY <2>2, <2>6, Joined
  <2>9. \A i \in 1..n : (got \o m)[Len(got) + i] = m[i]
    BY <2>2, <2>6, Joined
  <2>10. got' \in Seq(Brought) /\ Len(got') = Len(got) + n
    BY <2>6, <2>7
  <2>11. DOMAIN got' = 1..(Len(got) + n)
    BY <2>10, Items
  <2>12. \A i \in 1..Len(got) : i \in DOMAIN got'
    BY <2>1, <2>7, <2>11
  <2>13. \A i \in 1..n : Len(got) + i \in DOMAIN got'
    BY <2>1, <2>7, <2>11
  <2> QED BY <2>3, <2>5, <2>6, <2>8, <2>9, <2>12, <2>13
<1>7. Got \subseteq Got'
  <2>1. DOMAIN got = 1..Len(got)
    BY GotPlaces
  <2> QED BY <1>6, <2>1 DEF Got
<1>8. ASSUME NEW b \in Batch(w), b \in due' PROVE b \in Got'
  <2>1. PICK i \in 1..c : batch[i] = b
    BY <1>5
  <2>2. i \notin n + 1 .. c
    BY <1>1, <1>8, <2>1
  <2>3. i \in 1..n
    BY <1>2, <2>1, <2>2
  <2> QED BY <1>6, <2>1, <2>3 DEF Got
<1> QED BY <1>1, <1>7, <1>8

LEMMA DueStaysWatched ==
  ASSUME ~InlineStore, WatchInv, DueIsWatched, [WatchNext]_watchVars
  PROVE  DueIsWatched'
<1> USE DEF DueIsWatched
<1>1. CASE Effect \/ Unmount
  BY <1>1 DEF Effect, Unmount
<1>2. ASSUME NEW u \in Watched, Render(u) PROVE DueIsWatched'
  <2>1. CASE u = rendered
    BY <1>2, <2>1 DEF Render, OrdersOfRender, Dirty, Got, Waits
  <2>2. CASE u # rendered
    BY <1>2, <2>2 DEF Render
  <2> QED BY <2>1, <2>2
<1>3. ASSUME NEW e \in Event, Mine(e) PROVE DueIsWatched'
  <2>1. /\ Len(log) \in Nat /\ Len(log') = Len(log) + 1 /\ log'[Len(log) + 1] = e
        /\ \A i \in 1..Len(log) : log'[i] = log[i]
    BY <1>3 DEF Mine, WatchInv, WatchTypeOK
  <2>2. UNCHANGED <<instance, rendered, deps, mounted, watchers, got>>
    BY <1>3 DEF Mine
  <2>3. Got' = Got /\ (Dirty' <=> Dirty)
    BY <2>2 DEF Got, Dirty
  <2>4. \A i \in due : i \in 1..Len(log') /\ (i \in Got' \/ Waits(i)')
    BY <2>1, <2>2, <2>3 DEF Waits
  <2>5. CASE due' = due
    BY <2>2, <2>3, <2>4, <2>5
  <2>6. CASE due' # due
    <3>1. ~Dirty /\ due' = due \cup {Len(log) + 1}
      BY <1>3, <2>6 DEF Mine
    <3>2. PICK w \in watchers : w.from # -1 /\ w.kind = e.kind /\ rendered \in {Anyone, e.user}
      BY <1>3, <2>6 DEF Mine
    <3>3. mounted /\ w.user = deps[2] /\ w.from <= Len(log) /\ w.from \in Int
      BY DEF WatchInv, WatchersOfDeps, WatchersAhead, WatchTypeOK, Watcher
    <3>4. w.user = rendered
      BY <3>1, <3>3 DEF Dirty
    <3>5. PICK i : i = Len(log) + 1
      OBVIOUS
    <3>6. i \in 1..Len(log') /\ Waits(i)'
      BY <2>1, <2>2, <3>2, <3>3, <3>4, <3>5 DEF Waits, Passes
    <3> QED BY <2>2, <2>3, <2>4, <3>1, <3>3, <3>5, <3>6
  <2> QED BY <2>5, <2>6
<1>4. ASSUME NEW w \in watchers, Open(w) PROVE DueIsWatched'
  <2>1. \A v \in watchers : v.from # -1 => v \in watchers'
    BY <1>4 DEF Open
  <2>2. UNCHANGED <<log, instance, rendered, deps, mounted, got, due>>
    BY <1>4 DEF Open
  <2> QED BY <2>1, <2>2 DEF Got, Dirty, Waits
<1>5. ASSUME NEW w \in watchers, Poll(w) PROVE DueIsWatched'
  <2>1. UNCHANGED <<log, instance, rendered, deps, mounted>>
    BY <1>5 DEF Poll
  <2>2. \A v \in watchers : v.kind # w.kind => v \in watchers'
    BY <1>5 DEF Poll
  <2>3. Got \subseteq Got' /\ due' \subseteq due /\ \A i \in Batch(w) : i \in Got' \/ i \notin due'
    BY <1>5, PollServes
  <2>4. ASSUME NEW i \in due', i \notin Got' PROVE Waits(i)'
    <3>1. PICK v \in watchers : v.kind = log[i].kind /\ v.from # -1 /\ v.from < i /\ Passes(v.user, log[i])
      BY <2>3, <2>4 DEF Waits
    <3>2. v.kind # w.kind
      <4>1. SUFFICES ASSUME v = w PROVE FALSE
        BY DEF WatchInv, WatchersOfDeps
      <4>2. i \in w.from + 1 .. Len(log)
        BY <2>3, <3>1, <4>1 DEF WatchInv, WatchTypeOK, Watcher
      <4>3. i \in Batch(w)
        BY <3>1, <4>1, <4>2 DEF Batch
      <4> QED BY <2>3, <2>4, <4>3
    <3> QED BY <2>1, <2>2, <3>1, <3>2 DEF Waits
  <2> QED BY <2>1, <2>3, <2>4 DEF Dirty
<1>6. CASE UNCHANGED watchVars
  BY <1>6 DEF watchVars, Got, Dirty, Waits
<1> QED BY <1>1, <1>2, <1>3, <1>4, <1>5, <1>6 DEF WatchNext

(* An event that is due, not brought yet, and of kind k.                   *)
Pending(i, k) == i \in due /\ i \notin Got /\ log[i].kind = k
Served(i) == i \in Got \/ i \notin due

LEMMA PendingGoesOn ==
  ASSUME WatchInv, DueIsWatched, [WatchNext]_watchVars, NEW i, NEW k
  PROVE  Pending(i, k) => Pending(i, k)' \/ Served(i)'
<1> SUFFICES ASSUME Pending(i, k), ~Served(i)' PROVE log'[i].kind = k
  BY DEF Pending, Served
<1>1. i \in 1..Len(log) /\ log[i].kind = k
  BY DEF Pending, DueIsWatched
<1>2. CASE UNCHANGED log
  BY <1>1, <1>2
<1>3. ASSUME NEW e \in Event, Mine(e) PROVE log'[i] = log[i]
  BY <1>1, <1>3 DEF Mine, WatchInv, WatchTypeOK
<1> QED BY <1>1, <1>2, <1>3 DEF WatchNext, Effect, Unmount, Render, Open, Poll, watchVars

(* The watcher it waits for brings it, if anything of its kind is heard.   *)
LEMMA HearingServes ==
  ASSUME WatchInv, DueIsWatched, NEW i, NEW k, Pending(i, k), Hears(k)
  PROVE  Served(i)'
<1>1. PICK v \in watchers : v.kind = k /\ v.from # -1 /\ v.from < i /\ Passes(v.user, log[i])
  BY DEF Pending, DueIsWatched, Waits
<1>2. PICK w \in watchers : w.kind = k /\ (Open(w) \/ Poll(w))
  BY DEF Hears
<1>3. w = v
  BY <1>1, <1>2 DEF WatchInv, WatchersOfDeps
<1>4. Poll(w)
  BY <1>1, <1>2, <1>3 DEF Open
<1>5. i \in w.from + 1 .. Len(log) /\ log[i].kind = k
  BY <1>1, <1>3 DEF Pending, DueIsWatched, WatchInv, WatchTypeOK, Watcher
<1>6. i \in Batch(w)
  BY <1>1, <1>2, <1>3, <1>5 DEF Batch
<1> QED BY <1>4, <1>6, PollServes DEF Served

(* A watcher that is behind the chain has a poll to take.                  *)
WatcherCanPoll(k) ==
  feature = "watch" /\ (\E w \in watchers : w.kind = k /\ w.from # -1 /\ w.from < Len(log)) =>
    ENABLED <<AtWatch(Hears(k))>>_appVars
WatchersCanPoll == \A k \in Kind : WatcherCanPoll(k)

Serves(i, k) == Pending(i, k) ~> Served(i)
WatchServes(i, k) == AppFairSpec /\ []WatchersCanPoll => Serves(i, k) /\ []DueIsWatched

LEMMA EventServed == ASSUME ~InlineStore, NEW i, NEW k \in Kind PROVE WatchServes(i, k)
<1>1. AppFairSpec => AppSpec /\ WatcherFair(k)
  BY DEF AppFairSpec
<1>2. AppInit => DueIsWatched
  BY DEF AppInit, WatchInit, DueIsWatched
<1>3. WatchInv /\ DueIsWatched /\ [AppNext]_appVars =>
        DueIsWatched' /\ (Pending(i, k) => Pending(i, k)' \/ Served(i)')
  BY AppStepIsOwn, DueStaysWatched, PendingGoesOn
<1>4. WatchInv /\ DueIsWatched /\ AtWatch(Hears(k)) /\ Pending(i, k) => Served(i)'
  BY HearingServes DEF AtWatch
<1>5. WatchInv /\ DueIsWatched /\ Unstarted /\ WatchersCanPoll /\ Pending(i, k) =>
        ENABLED <<AtWatch(Hears(k))>>_appVars
  <2>1. WatchersCanPoll => WatcherCanPoll(k)
    BY DEF WatchersCanPoll
  <2>2. Unstarted /\ Pending(i, k) => feature = "watch"
    BY DEF Unstarted, Pending
  <2>3. WatchInv /\ DueIsWatched /\ Pending(i, k) =>
          \E w \in watchers : w.kind = k /\ w.from # -1 /\ w.from < Len(log)
    BY DEF WatchInv, WatchTypeOK, Watcher, DueIsWatched, Pending, Waits
  <2> QED BY <2>1, <2>2, <2>3 DEF WatcherCanPoll
<1> QED BY <1>1, <1>2, <1>3, <1>4, <1>5, AppIsSafe, OthersAreUnstarted, PTL DEF AppSpec, WatcherFair, WatchServes, Serves

(* Every event an open subscription has to bring is brought, or given up by*)
(* an onEvent that threw or a page that moved on (EveryEventArrives), for  *)
(* the five kinds of watch-events.ts:64-128 and a page whose store is not  *)
(* made in the JSX: with one that is, watch_inline_store shows the loss.   *)
(* use-watch-orders.ts:11-31.                                              *)
THEOREM EventsArrive ==
  ASSUME ~InlineStore,
         NEW k1, NEW k2, NEW k3, NEW k4, NEW k5, Kind = {k1, k2, k3, k4, k5}
  PROVE  AppFairSpec /\ []WatchersCanPoll => EveryEventArrives
<1>1. ASSUME NEW i \in 1..MaxLog
      PROVE  AppFairSpec /\ []WatchersCanPoll => (i \in due ~> (i \in Got \/ i \notin due))
  <2>1. k1 \in Kind /\ k2 \in Kind /\ k3 \in Kind /\ k4 \in Kind /\ k5 \in Kind
    OBVIOUS
  <2>2. WatchServes(i, k1) /\ WatchServes(i, k2) /\ WatchServes(i, k3) /\ WatchServes(i, k4) /\ WatchServes(i, k5)
    BY <2>1, EventServed
  <2>3. WatchInv /\ DueIsWatched /\ i \in due =>
          Served(i) \/ Pending(i, k1) \/ Pending(i, k2) \/ Pending(i, k3) \/ Pending(i, k4) \/ Pending(i, k5)
    <3>1. log \in Seq(Event) /\ i \in 1..Len(log) => log[i] \in Event
      OBVIOUS
    <3>2. WatchInv /\ DueIsWatched /\ i \in due => log[i].kind \in Kind
      BY <3>1 DEF WatchInv, WatchTypeOK, DueIsWatched, Event
    <3> QED BY <3>2 DEF Served, Pending
  <2>4. Served(i) <=> i \in Got \/ i \notin due
    BY DEF Served
  <2>5. AppFairSpec => AppSpec
    BY DEF AppFairSpec
  <2> QED BY <2>2, <2>3, <2>4, <2>5, AppIsSafe, PTL DEF WatchServes, Serves
<1> QED BY <1>1 DEF EveryEventArrives
=============================================================================
