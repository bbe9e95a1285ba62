------------------------ MODULE PlacementLimitsHook ------------------------
(***************************************************************************)
(* usePlacementLimits (src/src/react/use-placement-limits.ts): a React     *)
(* hook that shows how many orders the connected user may still place      *)
(* today.  It refetches when the user changes, on an optional interval,    *)
(* and one second after the UTC midnight at which the shown counts expire. *)
(* Answers arrive in any order; the newest request is the only one whose   *)
(* answer counts (`requestId !== requestIdRef.current`), so a request      *)
(* carries a flag telling whether it is still the newest.                  *)
(*                                                                         *)
(* Time is relative to the current UTC day: data is `age` days old, up to  *)
(* MaxAge, and the clock is either in the first second of the day or past  *)
(* it.  A render and its effects are two steps: React runs the effects some *)
(* time after the commit, but before the next render and the unmount.      *)
(***************************************************************************)
EXTENDS Naturals

CONSTANTS
  Wallet,          \* wallet addresses
  NoWallet,        \* userAddress undefined
  NoLimits,      \* limits = null
  MaxAge,        \* data older than this many days is not told apart
  MaxMoves       \* bound: what the page does on its own (inputs, refresh())

ASSUME HookAssumption ==
  /\ NoWallet \notin Wallet /\ NoLimits \notin [user: Wallet, age: Nat]
  /\ MaxAge \in Nat \ {0} /\ MaxMoves \in Nat

VARIABLES
  life,       \* "unborn", "mounted" or "unmounted"
  user,       \* the hook's userAddress
  limits,     \* the shown counts: whose and how old, or NoLimits
  isLoading,
  error,      \* is an error shown?
  requests,   \* requests whose promise has not settled
  timer,      \* the midnight timer
  firstSecond,\* is the clock within a second after midnight?
  moves,      \* moves left (bound)
  effects,    \* of the last render, still to run: "none", "midnight" or "all"
  armed,      \* the userAddress of the refresh the timers were given
  handed,     \* those of the refresh callbacks the page has been handed
  stray,      \* history: the last refresh() was one the page kept from a render
              \* for another user
  pollMs,     \* is an interval configured?
  overtaken,  \* history: the interval has once outrun a request
  crossed     \* history: a request, or counts whose effect was still to run, has
              \* once been caught by midnight

closures == <<effects, armed, handed, stray>>
hookVars == <<life, user, limits, isLoading, error, requests, timer, firstSecond, moves,
          closures, pollMs, overtaken, crossed>>
history == <<pollMs, overtaken, crossed>>

Counts == [user: Wallet, age: 0..MaxAge]
Request == [user: Wallet, age: 0..MaxAge, newest: BOOLEAN]
(* "tonight": set for one second past the coming midnight; "elapsing": that*)
(* midnight has passed, the second has not; "due": the callback may run.   *)
Timer == {"off", "tonight", "elapsing", "due"}

HookTypeOK ==
  /\ life \in {"unborn", "mounted", "unmounted"}
  /\ user \in Wallet \cup {NoWallet}
  /\ limits \in Counts \cup {NoLimits}
  /\ isLoading \in BOOLEAN /\ error \in BOOLEAN /\ firstSecond \in BOOLEAN
  /\ requests \subseteq Request
  /\ timer \in Timer
  /\ moves \in 0..MaxMoves
  /\ effects \in {"none", "midnight", "all"}
  /\ armed \in Wallet \cup {NoWallet} /\ handed \subseteq Wallet \cup {NoWallet}
  /\ stray \in BOOLEAN
  /\ pollMs \in BOOLEAN /\ overtaken \in BOOLEAN /\ crossed \in BOOLEAN

(* The hook's first render: useState and useRef initial values.  All its   *)
(* effects are Mount's.                                                    *)
HookInit ==
  /\ life = "unborn"
  /\ user \in Wallet \cup {NoWallet}
  /\ limits = NoLimits /\ isLoading = FALSE /\ error = FALSE
  /\ requests = {}
  /\ timer = "off"
  /\ firstSecond = FALSE
  /\ moves = MaxMoves
  /\ effects = "none" /\ armed = user /\ handed = {user} /\ stray = FALSE
  /\ pollMs \in BOOLEAN /\ overtaken = FALSE /\ crossed = FALSE

----------------------------------------------------------------------------
Superseded == {[r EXCEPT !.newest = FALSE] : r \in requests}

(* Mutant: the effect does not depend on `limits`, so an answer arms nothing. *)
MutMidnightEffectOff(shown, u) == timer' = "off"

(* The midnight effect, run when limits, userAddress or refresh changed: the *)
(* timer is set only if the counts' own midnight is still to come.         *)
MidnightEffect(shown, u) ==
  timer' = IF shown # NoLimits /\ u # NoWallet /\ shown.age = 0 THEN "tonight" ELSE "off"

(* Mutant: without a wallet the request in flight is not superseded.       *)
MutRefreshKeepsRequest(u) ==
  IF u = NoWallet
  THEN /\ UNCHANGED requests
       /\ limits' = NoLimits /\ isLoading' = FALSE /\ error' = FALSE
  ELSE /\ requests' = Superseded \cup {[user |-> u, age |-> 0, newest |-> TRUE]}
       /\ isLoading' = TRUE
       /\ UNCHANGED <<limits, error>>

(* refresh() of a render whose userAddress is u.                           *)
Refresh(u) ==
  IF u = NoWallet
  THEN /\ requests' = Superseded
       /\ limits' = NoLimits /\ isLoading' = FALSE /\ error' = FALSE
  ELSE /\ requests' = Superseded \cup {[user |-> u, age |-> 0, newest |-> TRUE]}
       /\ isLoading' = TRUE
       /\ UNCHANGED <<limits, error>>

Mount ==
  /\ life = "unborn"
  /\ life' = "mounted"
  /\ Refresh(user)
  /\ MidnightEffect(NoLimits, user)
  /\ UNCHANGED <<user, firstSecond, moves, closures, history>>

Move == moves > 0 /\ moves' = moves - 1

(* A render with another userAddress, or with a new `orders` client (v may *)
(* equal user): `refresh` is a new callback, which the page is handed, and *)
(* all three effects are due.  Until they run the hook returns what it had.*)
InputsChange(v) ==
  /\ life = "mounted" /\ effects = "none" /\ Move
  /\ user' = v /\ handed' = handed \cup {v} /\ effects' = "all"
  /\ UNCHANGED <<life, limits, isLoading, error, requests, timer, firstSecond, armed, stray, history>>

(* Mutant: the first of the three effects is missing.                      *)
MutInputsEffects ==
  /\ effects = "all" /\ effects' = "none"
  /\ armed' = user
  /\ MidnightEffect(limits, user)
  /\ UNCHANGED <<life, user, limits, isLoading, error, requests, firstSecond, moves, handed, stray, history>>

(* Its effects: refresh, and the timers are set again with the new refresh.*)
InputsEffects ==
  /\ effects = "all" /\ effects' = "none"
  /\ Refresh(user) /\ armed' = user /\ stray' = FALSE
  /\ MidnightEffect(limits', user)
  /\ UNCHANGED <<life, user, firstSecond, moves, handed, history>>

(* The effect of a render with other `limits` only.                        *)
ShownEffect ==
  /\ effects = "midnight" /\ effects' = "none"
  /\ MidnightEffect(limits, user)
  /\ UNCHANGED <<life, user, limits, isLoading, error, requests, firstSecond, moves, armed, handed,
                 stray, history>>

(* setLimits renders again; nothing less than all that was due becomes due.*)
MidnightDue == effects' = IF effects = "none" THEN "midnight" ELSE effects

(* The page calls a refresh() it was handed (after a placement landed): the*)
(* last render's or, from a handler that awaited something, an older one's.*)
RefreshCalled(v) ==
  /\ life = "mounted" /\ v \in handed /\ Move
  /\ Refresh(v)
  /\ stray' = (v # user)
  /\ IF limits' = limits THEN UNCHANGED effects ELSE MidnightDue
  /\ UNCHANGED <<life, user, timer, firstSecond, armed, handed, history>>

(* setInterval(refresh, pollMs).                                           *)
Interval ==
  /\ life = "mounted" /\ pollMs /\ armed # NoWallet
  /\ Refresh(armed) /\ stray' = FALSE
  /\ overtaken' = (overtaken \/ \E r \in requests : r.newest)
  /\ UNCHANGED <<life, user, timer, firstSecond, moves, effects, armed, handed, pollMs, crossed>>

MidnightTimer ==
  /\ timer = "due"
  /\ Refresh(armed) /\ stray' = FALSE
  /\ timer' = "off"
  /\ UNCHANGED <<life, user, firstSecond, moves, effects, armed, handed, history>>

(* Mutant: no request id, any answer is taken.                             *)
MutAnswerAny(r) ==
  /\ r \in requests
  /\ requests' = requests \ {r}
  /\ IF life = "mounted"
     THEN /\ limits' = [user |-> r.user, age |-> r.age]
          /\ error' = FALSE /\ isLoading' = FALSE
          /\ MidnightDue
     ELSE UNCHANGED <<limits, error, isLoading, effects>>
  /\ UNCHANGED <<life, user, timer, firstSecond, moves, armed, handed, stray, history>>

(* A request succeeds.  Its counts are of the day it was sent.             *)
Answer(r) ==
  /\ r \in requests
  /\ requests' = requests \ {r}
  /\ IF life = "mounted" /\ r.newest
     THEN /\ limits' = [user |-> r.user, age |-> r.age]
          /\ error' = FALSE /\ isLoading' = FALSE
          /\ MidnightDue
     ELSE UNCHANGED <<limits, error, isLoading, effects>>
  /\ UNCHANGED <<life, user, timer, firstSecond, moves, armed, handed, stray, history>>

(* Mutant: the error path leaves the spinner on.                           *)
MutFailKeepsLoading(r) ==
  /\ r \in requests
  /\ requests' = requests \ {r}
  /\ IF life = "mounted" /\ r.newest THEN error' = TRUE ELSE UNCHANGED error
  /\ UNCHANGED <<life, user, limits, isLoading, timer, firstSecond, moves, closures, history>>

(* A request fails: the last good value stays on screen.                   *)
Fail(r) ==
  /\ r \in requests
  /\ requests' = requests \ {r}
  /\ IF life = "mounted" /\ r.newest
     THEN error' = TRUE /\ isLoading' = FALSE
     ELSE UNCHANGED <<error, isLoading>>
  /\ UNCHANGED <<life, user, limits, timer, firstSecond, moves, closures, history>>

UnmountHook ==
  /\ life = "mounted" /\ effects = "none"
  /\ life' = "unmounted"
  /\ timer' = "off"
  /\ UNCHANGED <<user, limits, isLoading, error, requests, firstSecond, moves, closures, history>>

Older(age) == IF age < MaxAge THEN age + 1 ELSE MaxAge

Midnight ==
  /\ ~firstSecond
  /\ firstSecond' = TRUE
  /\ crossed' = (crossed \/ requests # {} \/ effects = "midnight")
  /\ limits' = IF limits = NoLimits THEN limits ELSE [limits EXCEPT !.age = Older(@)]
  /\ requests' = {[r EXCEPT !.age = Older(@)] : r \in requests}
  /\ timer' = IF timer = "tonight" THEN "elapsing" ELSE timer
  /\ UNCHANGED <<life, user, isLoading, error, moves, closures, pollMs, overtaken>>

SecondPasses ==
  /\ firstSecond
  /\ firstSecond' = FALSE
  /\ timer' = IF timer = "elapsing" THEN "due" ELSE timer
  /\ UNCHANGED <<life, user, limits, isLoading, error, requests, moves, closures, history>>

Settle == \E r \in requests : Answer(r) \/ Fail(r)
NewestRequestSettles == \E r \in requests : r.newest /\ (Answer(r) \/ Fail(r))

HookNext ==
  \/ Mount \/ UnmountHook \/ InputsEffects \/ ShownEffect \/ Interval \/ MidnightTimer
  \/ \E v \in Wallet \cup {NoWallet} : InputsChange(v) \/ RefreshCalled(v)
  \/ Settle \/ Midnight \/ SecondPasses

HookSpec == HookInit /\ [][HookNext]_hookVars

(* Time passes, effects run, timers fire, the newest request settles       *)
(* (querySubgraph bounds it); nobody must connect, switch, refresh or      *)
(* unmount.                                                                *)
HookFairSpec ==
  /\ HookSpec
  /\ WF_hookVars(Midnight) /\ WF_hookVars(SecondPasses)
  /\ WF_hookVars(InputsEffects) /\ WF_hookVars(ShownEffect)
  /\ WF_hookVars(MidnightTimer) /\ WF_hookVars(Interval)
  /\ WF_hookVars(NewestRequestSettles)

----------------------------------------------------------------------------
(* When nothing is loading and no error is shown, the counts on screen are *)
(* those of the connected user, and with no wallet nothing is shown at all:*)
(* an answer to an older request never shows through.  Except between the  *)
(* render for another user and its effects, when the previous user's still *)
(* are, and after a refresh() kept from another user's render.             *)
(* lines 38-39, 50-63, 78-80.                                              *)
AskedForAnother == (effects = "all" /\ armed # user) \/ stray
OwnOnScreen ==
  IF user = NoWallet THEN limits = NoLimits /\ ~isLoading /\ ~error
  ELSE ~isLoading /\ ~error => limits # NoLimits /\ limits.user = user
ShowsOwnCounts == life = "mounted" => AskedForAnother \/ OwnOnScreen

(* An answer never replaces a user's counts by older ones.  lines 38, 63.  *)
NeverOlder ==
  [][limits # NoLimits /\ limits' # NoLimits /\ limits'.user = limits.user
       /\ firstSecond = firstSecond' => limits'.age <= limits.age]_hookVars

(* The spinner stops, unless the polling interval outruns the requests: then*)
(* each is superseded before it settles.  lines 59-76, 84.                 *)
LoadingEnds == isLoading ~> (~isLoading \/ life = "unmounted" \/ overtaken)

(* Counts of a past day do not stay on screen, with polling or without: they*)
(* are replaced, or an error is shown, unless a request was in flight at   *)
(* midnight or its counts just shown.  lines 22-25, 88-97.                 *)
Stale == life = "mounted" /\ user # NoWallet /\ limits # NoLimits /\ limits.age > 0 /\ ~error
YesterdayGoes == Stale ~> (~Stale \/ crossed \/ overtaken)

(* What use-placement-limits.ts:24-25 says without that exception.         *)
StaleIsReplaced == Stale ~> ~Stale
=============================================================================
