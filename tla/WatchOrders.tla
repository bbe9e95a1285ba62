----------------------------- MODULE WatchOrders -----------------------------
(***************************************************************************)
(* useWatchOrders (src/src/react/use-watch-orders.ts) over watchEvents     *)
(* (src/src/orders/watch-events.ts) over SdkProvider's memoised Orders     *)
(* (src/src/react/sdk-provider.tsx): five watchers, one per lifecycle      *)
(* event, each with its own place in the chain; a hook that subscribes     *)
(* again when the user or the Orders object changes; and a provider that   *)
(* makes a new Orders when one of its dependencies is a new object.        *)
(* React runs effects after the commit, and before the next render.        *)
(***************************************************************************)
EXTENDS Integers, Sequences, FiniteSets

CONSTANTS
  Kind,        \* the lifecycle events watched: "placed", "accepted", ...
  User,        \* the owners of orders
  Watched,     \* what the component passes as `user`: users, or Anyone
  Anyone,      \* no `user`: every order
  InlineStore, \* does the page make its relayIdentityStore in the JSX?
  MaxLog,      \* bound: events on the chain
  MaxOrders    \* bound: Orders objects the provider makes after the first

ASSUME WatchAssumption ==
  /\ Watched \subseteq User \cup {Anyone} /\ InlineStore \in BOOLEAN
  /\ MaxLog \in Nat /\ MaxOrders \in Nat

VARIABLES
  log,       \* the chain's events, one per block: [kind, user]
  instance,  \* which Orders object the provider hands out
  rendered,  \* the user of the last render, whose callbacks the refs hold
  deps,      \* the effect's dependencies when it last ran; <<>>: not yet, or unmounted
  mounted,
  watchers,  \* the live watchers: [kind, user, from], from = -1 before their first poll
  got,       \* calls of onEvent, in order: [at, to, gap], gap when the page has
             \* rendered for another subscription than the one that brings it
  due        \* history: events an open subscription of this user has to bring

watchVars == <<log, instance, rendered, deps, mounted, watchers, got, due>>

Event == [kind : Kind, user : User]
Watcher == [kind : Kind, user : Watched, from : -1..MaxLog]

WatchTypeOK ==
  /\ log \in Seq(Event) /\ Len(log) <= MaxLog
  /\ instance \in 0..MaxOrders /\ rendered \in Watched /\ mounted \in BOOLEAN
  /\ deps \in {<<>>} \cup ((0..MaxOrders) \X Watched)
  /\ watchers \subseteq Watcher
  /\ got \in Seq([at : 1..MaxLog, to : Watched, gap : BOOLEAN])
  /\ due \subseteq 1..MaxLog

WatchInit ==
  /\ log = <<>> /\ instance = 0 /\ rendered \in Watched /\ deps = <<>> /\ mounted = TRUE
  /\ watchers = {} /\ got = <<>> /\ due = {}

----------------------------------------------------------------------------
(* Mutant: userFromLog reads args.user of every event.                     *)
MutPassesTopLevel(u, e) ==
  u = Anyone \/ (e.kind \notin {"accepted", "cancelled"} /\ e.user = u)

(* Mutant: no filter.                                                      *)
MutPassesAll(u, e) == TRUE

(* The filter of onLogs: userFromLog finds the owner in each kind of event.*)
Passes(u, e) == u = Anyone \/ e.user = u

(* The effect has dependencies it has not run with.                        *)
Dirty == mounted /\ deps # <<instance, rendered>>

(* useMemo: relayIdentityStore is a dependency, so a new one is a new Orders.*)
OrdersOfRender == IF InlineStore THEN instance + 1 ELSE instance

(* The page renders again, perhaps for another user; the callbacks' refs   *)
(* take the new callbacks at once.                                         *)
Render(u) ==
  /\ mounted /\ ~Dirty /\ instance < MaxOrders
  /\ rendered' = u /\ instance' = OrdersOfRender
  /\ due' = IF u = rendered THEN due ELSE {}
  /\ UNCHANGED <<log, deps, mounted, watchers, got>>

(* One watcher of each kind, with the user of the last render.             *)
Subscription(u, kinds) == [kind : kinds, user : {u}, from : {-1}]

(* Mutant: the effect returns no clean-up.                                 *)
MutEffectLeaks ==
  /\ Dirty
  /\ deps' = <<instance, rendered>>
  /\ \E failed \in SUBSET Kind : watchers' = watchers \cup Subscription(rendered, Kind \ failed)
  /\ UNCHANGED <<log, instance, rendered, mounted, got, due>>

(* Clean-up of the old subscription, then the new one.  A kind whose       *)
(* watchContractEvent throws goes to onError, the others are watched.      *)
Effect ==
  /\ Dirty
  /\ deps' = <<instance, rendered>>
  /\ \E failed \in SUBSET Kind : watchers' = Subscription(rendered, Kind \ failed)
  /\ UNCHANGED <<log, instance, rendered, mounted, got, due>>

Unmount ==
  /\ mounted /\ mounted' = FALSE
  /\ deps' = <<>> /\ watchers' = {} /\ due' = {}
  /\ UNCHANGED <<log, instance, rendered, got>>

(* A watcher starts at the block of its first poll, and then asks for all  *)
(* that came since the last one.                                           *)
Open(w) ==
  /\ w.from = -1
  /\ watchers' = (watchers \ {w}) \cup {[w EXCEPT !.from = Len(log)]}
  /\ UNCHANGED <<log, instance, rendered, deps, mounted, got, due>>

(* What a poll of w brings: the events since its last one that pass.       *)
Batch(w) == {i \in w.from + 1 .. Len(log) : log[i].kind = w.kind /\ Passes(w.user, log[i])}

(* A set of places, in the chain's order.                                  *)
InOrder(S) == {s \in [1..Cardinality(S) -> S] : \A i, j \in DOMAIN s : i < j => s[i] < s[j]}

(* The batch goes to onEvent one by one; when it throws the rest is lost.  *)
Poll(w) ==
  /\ w.from # -1 /\ w.from < Len(log)
  /\ \E batch \in InOrder(Batch(w)), n \in 0..Cardinality(Batch(w)) :
       /\ n = 0 => Batch(w) = {}
       /\ got' = got \o [i \in 1..n |-> [at |-> batch[i], to |-> rendered, gap |-> Dirty]]
       /\ due' = due \ {batch[i] : i \in n + 1 .. Cardinality(Batch(w))}
  /\ watchers' = (watchers \ {w}) \cup {[w EXCEPT !.from = Len(log)]}
  /\ UNCHANGED <<log, instance, rendered, deps, mounted>>

(* The Diamond emits an event.                                             *)
Mine(e) ==
  /\ Len(log) < MaxLog /\ log' = Append(log, e)
  /\ due' = IF ~Dirty /\ \E w \in watchers : w.from # -1 /\ w.kind = e.kind /\ rendered \in {Anyone, e.user}
            THEN due \cup {Len(log) + 1} ELSE due
  /\ UNCHANGED <<instance, rendered, deps, mounted, watchers, got>>

Hears(k) == \E w \in watchers : w.kind = k /\ (Open(w) \/ Poll(w))

WatchNext ==
  \/ Effect \/ Unmount
  \/ \E u \in Watched : Render(u)
  \/ \E e \in Event : Mine(e)
  \/ \E w \in watchers : Open(w) \/ Poll(w)

WatchSpec == WatchInit /\ [][WatchNext]_watchVars

(* React runs effects, and every watcher polls.  Nobody must render.       *)
WatchFairSpec == WatchSpec /\ WF_watchVars(Effect) /\ \A k \in Kind : WF_watchVars(Hears(k))

----------------------------------------------------------------------------
Got == {got[i].at : i \in DOMAIN got}

(* However often the hook subscribes again, no event reaches the page      *)
(* twice, and those of one kind come in the chain's order.                 *)
(* use-watch-orders.ts:24-31, watch-events.ts:133-141.                     *)
OnceInOrder ==
  \A i, j \in DOMAIN got : i < j /\ log[got[i].at].kind = log[got[j].at].kind => got[i].at < got[j].at

(* The callbacks of a page that shows one user get another's event only    *)
(* between the render that changed the user and the effect that changes    *)
(* the subscription, never after it.  use-watch-orders.ts:8-9, 21, 24-31.  *)
OnlyInGap ==
  \A i \in DOMAIN got : got[i].gap \/ got[i].to \in {Anyone, log[got[i].at].user}

(* An event of the shown user mined after the subscription opened arrives, *)
(* whatever the page renders meanwhile, unless its own onEvent threw on an *)
(* earlier one of the batch.  use-watch-orders.ts:11-13.                   *)
EveryEventArrives == \A i \in 1..MaxLog : i \in due ~> (i \in Got \/ i \notin due)
=============================================================================
