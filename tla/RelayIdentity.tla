--------------------------- MODULE RelayIdentity ---------------------------
(***************************************************************************)
(* resolveRelayIdentity (src/src/orders/relay-identity/resolve.ts): where  *)
(* the key pair comes from that the SDK publishes on chain with every      *)
(* order and that alone can decrypt the merchant's reply.                  *)
(*                                                                         *)
(* A call either uses the identity given in the client's configuration or  *)
(* resolves one from a RelayIdentityStore: read the entry; if there is     *)
(* none, generate a key pair, persist it, return it.  Calls on the same    *)
(* store OBJECT share one in-flight resolution (the WeakMap `pending`).    *)
(* Store objects are handles: several may be opened over one persisted     *)
(* entry (createLocalStorageRelayStore() twice, two tabs, two clients).    *)
(* Every `await` of the code is a point where other calls interleave, so   *)
(* each stretch between two awaits is one action.                          *)
(***************************************************************************)
CONSTANTS
  Call,       \* the calls of resolveRelayIdentity, each made at most once
  Store,      \* RelayIdentityStore objects
  Key,        \* persisted entries (a localStorage key, an in-memory cell)
  Identity,   \* key pairs
  None,       \* "no identity"
  StoreOf,    \* StoreOf[c]: input.store of call c
  GivenTo,    \* GivenTo[c]: input.relayIdentity of call c, or None
  KeyOf,      \* KeyOf[s]: the entry store object s reads and writes
  Durable,    \* the entries that survive a restart (localStorage does)
  Damages     \* what may become of a stored entry outside the SDK's control

Forms == {"absent", "valid", "unreadable", "blank"}

ASSUME HandleAssumption ==
  /\ StoreOf \in [Call -> Store]
  /\ KeyOf \in [Store -> Key]
  /\ GivenTo \in [Call -> Identity \cup {None}]
ASSUME ValueAssumption ==
  /\ None \notin Identity
  /\ Durable \subseteq Key
  /\ Damages \subseteq {"unreadable", "blank"}

VARIABLES
  entry,   \* entry[k]: the persisted payload, its form and whose identity it is
  flight,  \* flight[s]: the resolution in `pending` for store object s
  call,    \* call[c]: progress and outcome of each call
  minted   \* identities createRelayIdentity has generated so far

vars == <<entry, flight, call, minted>>

Codes == {"ok", "CORRUPT", "STORE_FAILED"}
Absent == [form |-> "absent", id |-> None]
Idle == [at |-> "idle", id |-> None, code |-> "ok"]
Pending(at) == [at |-> at, id |-> None, code |-> "ok"]   \* a call without a result

Payload == [form: Forms, id: Identity \cup {None}]
Flight == [at: {"idle", "reading", "writing", "settling"},
           id: Identity \cup {None}, code: Codes]
Progress == [at: {"new", "waiting", "done", "lost"},
             id: Identity \cup {None}, code: Codes]

TypeOK ==
  /\ entry \in [Key -> Payload]
  /\ flight \in [Store -> Flight]
  /\ call \in [Call -> Progress]
  /\ minted \subseteq Identity

Init ==
  /\ entry = [k \in Key |-> Absent]
  /\ flight = [s \in Store |-> Idle]
  /\ call = [c \in Call |-> Pending("new")]
  /\ minted = {GivenTo[c] : c \in Call} \ {None}

----------------------------------------------------------------------------
Done(c, id, code) == [call EXCEPT ![c] = [at |-> "done", id |-> id, code |-> code]]

(* resolveFromStore returns: the result the `finally` callback will pass on. *)
Return(s, id, code) ==
  flight' = [flight EXCEPT ![s] = [at |-> "settling", id |-> id, code |-> code]]

(* `if (input.relayIdentity) return okAsync(...)`: the store is not touched. *)
ResolveGiven(c) ==
  /\ call[c].at = "new"
  /\ GivenTo[c] # None
  /\ call' = Done(c, GivenTo[c], "ok")
  /\ UNCHANGED <<entry, flight, minted>>

(* Join the pending resolution of the same store object, or start one.     *)
Resolve(c) ==
  LET s == StoreOf[c] IN
  /\ call[c].at = "new"
  /\ GivenTo[c] = None
  /\ call' = [call EXCEPT ![c] = Pending("waiting")]
  /\ flight' = IF flight[s].at = "idle"
               THEN [flight EXCEPT ![s].at = "reading"]
               ELSE flight
  /\ UNCHANGED <<entry, minted>>

(* store.get() returned an identity that passes ZodRelayIdentitySchema.    *)
Found(s) ==
  /\ flight[s].at = "reading"
  /\ entry[KeyOf[s]].form = "valid"
  /\ Return(s, entry[KeyOf[s]].id, "ok")
  /\ UNCHANGED <<entry, call, minted>>

(* store.get() threw RelayIdentityCorruptError, or the value fails the schema. *)
FoundCorrupt(s) ==
  /\ flight[s].at = "reading"
  /\ entry[KeyOf[s]].form = "unreadable"
  /\ Return(s, None, "CORRUPT")
  /\ UNCHANGED <<entry, call, minted>>

(* store.get() returned null (no entry, or a payload `!raw` / JSON.parse   *)
(* turns into null): generate a key pair and call store.set.               *)
Mint(s) ==
  /\ flight[s].at = "reading"
  /\ entry[KeyOf[s]].form \in {"absent", "blank"}
  /\ \E id \in Identity \ minted :
       /\ flight' = [flight EXCEPT ![s] = [at |-> "writing", id |-> id, code |-> "ok"]]
       /\ minted' = minted \cup {id}
  /\ UNCHANGED <<entry, call>>

(* Mutant of GetThrows: an unreadable store falls back to an unsaved key   *)
(* pair.                                                                   *)
MutGetThrowsFallsBack(s) ==
  /\ flight[s].at = "reading"
  /\ \E id \in Identity \ minted :
       /\ Return(s, id, "ok")
       /\ minted' = minted \cup {id}
  /\ UNCHANGED <<entry, call>>

(* store.get() threw anything else.                                        *)
GetThrows(s) ==
  /\ flight[s].at = "reading"
  /\ Return(s, None, "STORE_FAILED")
  /\ UNCHANGED <<entry, call, minted>>

Written(s) == [entry EXCEPT ![KeyOf[s]] = [form |-> "valid", id |-> flight[s].id]]

(* store.set(fresh) took effect and returned.                              *)
SetReturns(s) ==
  /\ flight[s].at = "writing"
  /\ entry' = Written(s)
  /\ Return(s, flight[s].id, "ok")
  /\ UNCHANGED <<call, minted>>

(* Mutant of SetThrows: persisting is best effort, its failure is swallowed. *)
MutSetThrowsSwallowed(s) ==
  /\ flight[s].at = "writing"
  /\ entry' \in {entry, Written(s)}
  /\ Return(s, flight[s].id, "ok")
  /\ UNCHANGED <<call, minted>>

(* store.set(fresh) threw, before or after taking effect.                  *)
SetThrows(s) ==
  /\ flight[s].at = "writing"
  /\ entry' \in {entry, Written(s)}
  /\ Return(s, None, "STORE_FAILED")
  /\ UNCHANGED <<call, minted>>

(* Mutant of Settle: only one of the calls that share the promise is answered. *)
MutSettleOne(s) ==
  /\ flight[s].at = "settling"
  /\ \E c \in Call :
       /\ call[c].at = "waiting" /\ StoreOf[c] = s
       /\ call' = Done(c, flight[s].id, flight[s].code)
  /\ flight' = [flight EXCEPT ![s] = Idle]
  /\ UNCHANGED <<entry, minted>>

(* The `finally` callback drops the pending entry; every call that shares  *)
(* the promise then gets the same Result.                                  *)
Settle(s) ==
  /\ flight[s].at = "settling"
  /\ call' = [c \in Call |->
                IF call[c].at = "waiting" /\ StoreOf[c] = s
                THEN [at |-> "done", id |-> flight[s].id, code |-> flight[s].code]
                ELSE call[c]]
  /\ flight' = [flight EXCEPT ![s] = Idle]
  /\ UNCHANGED <<entry, minted>>

(* The page or process holding store object s dies: `pending` is module    *)
(* state, an in-memory entry is a closure variable; a durable entry stays, *)
(* and a set() in progress may or may not have reached it.                 *)
Restart(s) ==
  /\ entry' \in (IF KeyOf[s] \in Durable
                 THEN {entry} \cup (IF flight[s].at = "writing" THEN {Written(s)} ELSE {})
                 ELSE {[entry EXCEPT ![KeyOf[s]] = Absent]})
  /\ flight' = [flight EXCEPT ![s] = Idle]
  /\ call' = [c \in Call |->
                IF call[c].at = "waiting" /\ StoreOf[c] = s
                THEN Pending("lost") ELSE call[c]]
  /\ UNCHANGED minted

(* Environment: a stored payload is truncated, edited or blanked.  Its id  *)
(* field keeps on naming the identity that was lost with it.               *)
Damage(k) ==
  /\ entry[k].form = "valid"
  /\ \E f \in Damages : entry' = [entry EXCEPT ![k].form = f]
  /\ UNCHANGED <<flight, call, minted>>

ResolveStep(s) ==
  \/ Found(s) \/ FoundCorrupt(s) \/ Mint(s) \/ GetThrows(s)
  \/ SetReturns(s) \/ SetThrows(s) \/ Settle(s)

Next ==
  \/ \E c \in Call : ResolveGiven(c) \/ Resolve(c)
  \/ \E s \in Store : ResolveStep(s) \/ Restart(s)
  \/ \E k \in Key : Damage(k)

Spec == Init /\ [][Next]_vars

(* A store's promises settle and the JavaScript event loop runs their      *)
(* callbacks; nobody is obliged to call, to restart or to damage anything. *)
Fair(s) == WF_vars(ResolveStep(s))
FairSpec == Spec /\ \A s \in Store : Fair(s)

----------------------------------------------------------------------------
Resolved(c) == call[c].at = "done" /\ GivenTo[c] = None /\ call[c].code = "ok"

(* Every identity a caller ever obtained from a durable store is still the *)
(* one persisted there (damaged or not): an order published with it can be *)
(* decrypted in any later session.  resolve.ts:63-70.                      *)
ResolvedIsPersisted ==
  \A c \in Call :
    LET k == KeyOf[StoreOf[c]] IN
    Resolved(c) /\ k \in Durable => entry[k].id = call[c].id

(* An identity is only ever written over an entry that held none: neither  *)
(* a racing generate-and-persist nor a corrupt entry is overwritten.       *)
NeverOverwritten ==
  [][\A k \in Key :
       entry'[k].id \notin {entry[k].id, None} => entry[k].id = None]_vars

(* A resolution is made of one read and at most one write: every call that *)
(* waits gets an answer, or dies with its process.                         *)
EveryCallSettles ==
  \A c \in Call : (call[c].at = "waiting") ~> (call[c].at \in {"done", "lost"})

(* What resolution promises (IdentityCell): the entry is the cell, a call  *)
(* that is done shows its identity.                                        *)
Cell == INSTANCE IdentityCell WITH
  CellOf <- [c \in Call |-> KeyOf[StoreOf[c]]],
  cell <- [k \in Key |-> entry[k].id],
  answer <- [c \in Call |-> call[c].id]

(* Resolution through `pending` implements the fill-once cell: every answer*)
(* is the content of the entry at that time, and no step refills an entry  *)
(* that holds an identity (resolve.ts:63-70).                              *)
ImplementsCell == Cell!CSpec
=============================================================================
