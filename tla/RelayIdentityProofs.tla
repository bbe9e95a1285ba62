------------------------ MODULE RelayIdentityProofs ------------------------
(* Proofs about RelayIdentity for every set of calls, stores and entries.  *)
EXTENDS RelayIdentity, TLAPS

(* The two conditions under which the code's comment (resolve.ts:63-70) is *)
(* true: the `pending` map is keyed by store object, so an entry must be   *)
(* reached through one object only; and `!raw` / a JSON null reads as "no  *)
(* entry", so a payload must not be blanked.                               *)
OneObjectPerEntry == \A s, t \in Store : KeyOf[s] = KeyOf[t] => s = t
NeverBlanked == "blank" \notin Damages

(* The strengthening that makes ResolvedIsPersisted inductive: an entry is *)
(* still empty while its only flight is about to write, and the identity a *)
(* flight is about to hand out is the one the entry holds.                 *)
EntryShape ==
  \A k \in Key : /\ entry[k].form = "absent" <=> entry[k].id = None
                 /\ entry[k].form # "blank"
FlightShape ==
  \A s \in Store :
    /\ flight[s].at = "writing" => entry[KeyOf[s]].id = None /\ flight[s].id # None
    /\ flight[s].at = "settling" /\ flight[s].code = "ok" =>
         flight[s].id # None /\ entry[KeyOf[s]].id = flight[s].id
    /\ flight[s].at = "settling" /\ flight[s].code # "ok" => flight[s].id = None
AnswerShape ==
  \A c \in Call : /\ call[c].at = "done" => (call[c].code = "ok" <=> call[c].id # None)
                  /\ call[c].at # "done" => call[c].id = None
                  /\ call[c].at = "waiting" => GivenTo[c] = None
IInv == TypeOK /\ EntryShape /\ FlightShape /\ AnswerShape /\ ResolvedIsPersisted

----------------------------------------------------------------------------
(* Type correctness: needs nothing but the assumptions on the constants.   *)
THEOREM TypeCorrect == Spec => []TypeOK
<1> USE HandleAssumption, ValueAssumption DEF TypeOK, Codes, Forms, Payload, Flight, Progress
<1>1. Init => TypeOK
  BY DEF Init, Absent, Idle, Pending
<1>2. TypeOK /\ [Next]_vars => TypeOK'
  <2> SUFFICES ASSUME TypeOK, [Next]_vars PROVE TypeOK'
    OBVIOUS
  <2>1. ASSUME NEW c \in Call, ResolveGiven(c) PROVE TypeOK'
    BY <2>1, SMTT(30) DEF ResolveGiven, Done
  <2>2. ASSUME NEW c \in Call, Resolve(c) PROVE TypeOK'
    <3>2. [flight[StoreOf[c]] EXCEPT !.at = "reading"] \in Flight
      OBVIOUS
    <3>3. call' \in [Call -> Progress]
      BY <2>2 DEF Resolve, Pending
    <3>4. flight' \in [Store -> Flight]
      BY <2>2, <3>2 DEF Resolve
    <3>5. QED
      BY <2>2, <3>3, <3>4 DEF Resolve
  <2>3. ASSUME NEW s \in Store, Found(s) PROVE TypeOK'
    BY <2>3, SMTT(30) DEF Found, Return
  <2>4. ASSUME NEW s \in Store, FoundCorrupt(s) PROVE TypeOK'
    BY <2>4, SMTT(30) DEF FoundCorrupt, Return
  <2>5. ASSUME NEW s \in Store, Mint(s) PROVE TypeOK'
    BY <2>5, SMTT(30) DEF Mint
  <2>6. ASSUME NEW s \in Store, GetThrows(s) PROVE TypeOK'
    BY <2>6, SMTT(30) DEF GetThrows, Return
  <2>7. ASSUME NEW s \in Store, SetReturns(s) PROVE TypeOK'
    BY <2>7, SMTT(30) DEF SetReturns, Return, Written
  <2>8. ASSUME NEW s \in Store, SetThrows(s) PROVE TypeOK'
    BY <2>8, SMTT(30) DEF SetThrows, Return, Written
  <2>9. ASSUME NEW s \in Store, Settle(s) PROVE TypeOK'
    BY <2>9, SMTT(30) DEF Settle, Idle
  <2>10. ASSUME NEW s \in Store, Restart(s) PROVE TypeOK'
    <3>2. call' \in [Call -> Progress]
      BY <2>10 DEF Restart, Pending
    <3>3. entry' \in [Key -> Payload]
      BY <2>10, SMTT(30) DEF Restart, Written, Absent
    <3>4. QED
      BY <2>10, <3>2, <3>3 DEF Restart, Idle
  <2>11. ASSUME NEW k \in Key, Damage(k) PROVE TypeOK'
    <3>1. \A f \in Damages : [entry[k] EXCEPT !.form = f] \in Payload
      OBVIOUS
    <3>2. QED
      BY <2>11, <3>1 DEF Damage
  <2>12. CASE UNCHANGED vars
    BY <2>12 DEF vars
  <2>13. QED
    BY <2>1, <2>2, <2>3, <2>4, <2>5, <2>6, <2>7, <2>8, <2>9, <2>10, <2>11, <2>12
    DEF Next, ResolveStep
<1>3. QED
  BY <1>1, <1>2, PTL DEF Spec

----------------------------------------------------------------------------
LEMMA InitIInv == Init => IInv
  BY HandleAssumption, ValueAssumption
  DEF Init, IInv, TypeOK, Payload, Flight, Progress, Codes, Forms, Absent, Idle,
      Pending, EntryShape, FlightShape, AnswerShape, ResolvedIsPersisted, Resolved

(* Every step keeps IInv.  Type correctness of the next state is taken from*)
(* TypeCorrect, so only the other conjuncts are shown here, action by action. *)
LEMMA StepIInv ==
  ASSUME OneObjectPerEntry, NeverBlanked, IInv, TypeOK', [Next]_vars
  PROVE  IInv'
<1> USE HandleAssumption, ValueAssumption
    DEF IInv, EntryShape, FlightShape, AnswerShape, ResolvedIsPersisted, Resolved,
        TypeOK, Payload, Flight, Progress, Codes, Forms
<1>1. ASSUME NEW c \in Call, ResolveGiven(c) PROVE IInv'
  BY <1>1, SMTT(30) DEF ResolveGiven, Done
<1>2. ASSUME NEW c \in Call, Resolve(c) PROVE IInv'
  BY <1>2, SMTT(30) DEF Resolve, Pending
<1>3. ASSUME NEW s \in Store, Found(s) PROVE IInv'
  BY <1>3, SMTT(30) DEF Found, Return
<1>4. ASSUME NEW s \in Store, FoundCorrupt(s) PROVE IInv'
  BY <1>4, SMTT(30) DEF FoundCorrupt, Return
<1>5. ASSUME NEW s \in Store, Mint(s) PROVE IInv'
  BY <1>5, SMTT(30) DEF Mint
<1>6. ASSUME NEW s \in Store, GetThrows(s) PROVE IInv'
  BY <1>6, SMTT(30) DEF GetThrows, Return
<1>7. ASSUME NEW s \in Store, SetReturns(s) PROVE IInv'
  BY <1>7, SMTT(30) DEF SetReturns, Return, Written, OneObjectPerEntry
<1>8. ASSUME NEW s \in Store, SetThrows(s) PROVE IInv'
  <2>1. CASE entry' = entry
    BY <1>8, <2>1, SMTT(30) DEF SetThrows, Return
  <2>2. CASE entry' = Written(s)
    BY <1>8, <2>2, SMTT(30) DEF SetThrows, Return, Written, OneObjectPerEntry
  <2>3. QED
    BY <1>8, <2>1, <2>2 DEF SetThrows
<1>9. ASSUME NEW s \in Store, Settle(s) PROVE IInv'
  BY <1>9, SMTT(30) DEF Settle, Idle
<1>10. ASSUME NEW s \in Store, Restart(s) PROVE IInv'
  <2> DEFINE k == KeyOf[s]
  <2>1. \A t \in Store : t # s => KeyOf[t] # k
    BY DEF OneObjectPerEntry
  <2>2. \A j \in Key : j # k => entry'[j] = entry[j]
    BY <1>10 DEF Restart, Written
  <2>3. k \in Durable => entry'[k] = entry[k] \/ (/\ flight[s].at = "writing"
                                                  /\ entry'[k].form = "valid"
                                                  /\ entry'[k].id = flight[s].id)
    BY <1>10 DEF Restart, Written
  <2>4. k \notin Durable => entry'[k] = Absent
    BY <1>10 DEF Restart
  <2>5. flight' = [flight EXCEPT ![s] = Idle]
    BY <1>10 DEF Restart
  <2>6. \A c \in Call : call'[c] = call[c] \/ call'[c] = Pending("lost")
    BY <1>10 DEF Restart
  <2>7. EntryShape'
    BY <2>2, <2>3, <2>4 DEF Absent
  <2>8. FlightShape'
    BY <2>1, <2>2, <2>5 DEF Idle
  <2>9. AnswerShape'
    BY <2>6 DEF Pending
  <2>10. ResolvedIsPersisted'
    <3> SUFFICES ASSUME NEW c \in Call, Resolved(c)', KeyOf[StoreOf[c]] \in Durable
                 PROVE  entry'[KeyOf[StoreOf[c]]].id = call'[c].id
      OBVIOUS
    <3>1. call'[c] = call[c]
      BY <2>6 DEF Pending
    <3>2. entry[KeyOf[StoreOf[c]]].id = call[c].id /\ call[c].id # None
      BY <3>1
    <3>3. CASE KeyOf[StoreOf[c]] = k
      BY <2>3, <3>1, <3>2, <3>3
    <3>4. CASE KeyOf[StoreOf[c]] # k
      BY <2>2, <3>1, <3>2, <3>4
    <3>5. QED
      BY <3>3, <3>4
  <2>11. QED
    BY <2>7, <2>8, <2>9, <2>10
<1>11. ASSUME NEW k \in Key, Damage(k) PROVE IInv'
  <2>1. PICK f \in Damages : entry' = [entry EXCEPT ![k].form = f]
    BY <1>11 DEF Damage
  <2>2. f \in Forms \ {"blank", "absent"}
    BY DEF NeverBlanked
  <2>3. \A j \in Key : entry'[j].id = entry[j].id
    BY <2>1
  <2>4. entry[k].form = "valid" /\ entry'[k].form = f
    BY <1>11, <2>1 DEF Damage
  <2>5. \A j \in Key : j # k => entry'[j] = entry[j]
    BY <2>1
  <2>6. EntryShape'
    <3> SUFFICES ASSUME NEW j \in Key
                 PROVE  /\ entry'[j].form = "absent" <=> entry'[j].id = None
                        /\ entry'[j].form # "blank"
      OBVIOUS
    <3>1. CASE j = k
      BY <2>2, <2>3, <2>4, <3>1
    <3>2. CASE j # k
      BY <2>5, <3>2
    <3>3. QED
      BY <3>1, <3>2
  <2>7. flight' = flight /\ call' = call
    BY <1>11 DEF Damage
  <2>8. FlightShape' /\ AnswerShape'
    BY <2>3, <2>7
  <2>9. ResolvedIsPersisted'
    BY <2>3, <2>7
  <2>10. QED
    BY <2>6, <2>8, <2>9
<1>12. CASE UNCHANGED vars
  BY <1>12 DEF vars
<1>13. QED
  BY <1>1, <1>2, <1>3, <1>4, <1>5, <1>6, <1>7, <1>8, <1>9, <1>10, <1>11, <1>12
  DEF Next, ResolveStep

(* With one store object per entry and no blanked payloads, whatever fails,*)
(* restarts or is damaged, an identity handed out by a durable store is the*)
(* one persisted there (resolve.ts:63-70).                                 *)
THEOREM HandedOutIsPersisted ==
  ASSUME OneObjectPerEntry, NeverBlanked
  PROVE  Spec => []ResolvedIsPersisted
<1>1. IInv /\ TypeOK' /\ [Next]_vars => IInv'
  BY StepIInv
<1>2. IInv => ResolvedIsPersisted
  BY DEF IInv
<1>3. QED
  BY <1>1, <1>2, InitIInv, TypeCorrect, PTL DEF Spec

(* Under the same conditions no step puts a new identity over an old one:  *)
(* no race between a read and a write, and no regeneration over a corrupt  *)
(* entry (orders/README.md, "The SDK never silently regenerates").         *)
THEOREM IdentityNeverOverwritten ==
  ASSUME OneObjectPerEntry, NeverBlanked
  PROVE  Spec => NeverOverwritten
<1> DEFINE Kept == \A k \in Key : entry'[k].id \notin {entry[k].id, None} => entry[k].id = None
<1>1. IInv /\ TypeOK' /\ [Next]_vars => IInv'
  BY StepIInv
<1>2. IInv /\ [Next]_vars => [Kept]_vars
  <2> SUFFICES ASSUME IInv, Next, NEW k \in Key,
                      entry'[k].id \notin {entry[k].id, None}
               PROVE  entry[k].id = None
    OBVIOUS
  <2> USE HandleAssumption, ValueAssumption DEF IInv, TypeOK, Payload, Flight
  <2>1. \E s \in Store : SetReturns(s) \/ SetThrows(s) \/ Restart(s)
    <3>1. ASSUME NEW j \in Key, Damage(j) PROVE FALSE
      BY <3>1 DEF Damage
    <3>2. entry' # entry
      OBVIOUS
    <3>3. QED
      BY <3>1, <3>2 DEF Next, ResolveStep, ResolveGiven, Resolve, Found, FoundCorrupt,
                        Mint, GetThrows, Settle
  <2>2. PICK s \in Store : SetReturns(s) \/ SetThrows(s) \/ Restart(s)
    BY <2>1
  <2>3. k = KeyOf[s] /\ flight[s].at = "writing"
    BY <2>2 DEF SetReturns, SetThrows, Restart, Written, Absent
  <2>4. QED
    BY <2>3 DEF FlightShape
<1>3. QED
  BY <1>1, <1>2, InitIInv, TypeCorrect, PTL DEF Spec, NeverOverwritten

----------------------------------------------------------------------------
LEMMA InitRefines == Init => Cell!CInit
  BY DEF Init, Absent, Pending, Cell!CInit

LEMMA StepRefines ==
  ASSUME OneObjectPerEntry, NeverBlanked, IInv, IInv', [Next]_vars
  PROVE  [Cell!CNext]_Cell!cellVars
<1> USE HandleAssumption, ValueAssumption
    DEF IInv, TypeOK, Payload, Flight, Progress, Codes, Forms, Cell!cellVars, Cell!CNext
<1> DEFINE Cells == [k \in Key |-> entry[k].id]
           Answers == [c \in Call |-> call[c].id]
<1>1. ASSUME NEW c \in Call, ResolveGiven(c) PROVE Cell!AnswerGiven(c)
  <2>1. call' = [call EXCEPT ![c] = [at |-> "done", id |-> GivenTo[c], code |-> "ok"]]
    BY <1>1, SMTT(30) DEF ResolveGiven, Done
  <2>2. \A d \in Call : call'[d].id = IF d = c THEN GivenTo[c] ELSE call[d].id
    BY <2>1
  <2>3. Answers' = [Answers EXCEPT ![c] = GivenTo[c]]
    BY <2>2
  <2>4. Cells' = Cells /\ GivenTo[c] # None
    BY <1>1 DEF ResolveGiven
  <2>5. QED
    BY <2>3, <2>4 DEF Cell!AnswerGiven
<1>2. ASSUME NEW c \in Call, Resolve(c) PROVE UNCHANGED <<Cells, Answers>>
  BY <1>2, SMTT(30) DEF Resolve, Pending, AnswerShape
<1>3. ASSUME NEW s \in Store,
             Found(s) \/ FoundCorrupt(s) \/ Mint(s) \/ GetThrows(s)
      PROVE  UNCHANGED <<Cells, Answers>>
  BY <1>3 DEF Found, FoundCorrupt, Mint, GetThrows
<1>4. ASSUME NEW s \in Store, SetReturns(s) \/ SetThrows(s)
      PROVE  Cell!Fill(KeyOf[s]) \/ UNCHANGED <<Cells, Answers>>
  BY <1>4, SMTT(30) DEF SetReturns, SetThrows, Written, FlightShape, Cell!Fill
<1>5. ASSUME NEW s \in Store, Settle(s)
      PROVE  Cell!Answer(KeyOf[s]) \/ UNCHANGED <<Cells, Answers>>
  <2>1. CASE flight[s].code # "ok"
    BY <1>5, <2>1, SMTT(30) DEF Settle, FlightShape, AnswerShape
  <2>2. CASE flight[s].code = "ok"
    <3>1. Cells[KeyOf[s]] = flight[s].id /\ flight[s].id # None
      BY <1>5, <2>2, SMTT(30) DEF Settle, FlightShape
    <3>2. Answers' \in [Call -> Identity \cup {None}] /\ Cells' = Cells
      BY <1>5 DEF Settle
    <3>3. ASSUME NEW c \in Call, Answers'[c] # Answers[c]
          PROVE  /\ KeyOf[StoreOf[c]] = KeyOf[s] /\ GivenTo[c] = None
                 /\ Answers[c] = None /\ Answers'[c] = flight[s].id
      BY <1>5, <3>3 DEF Settle, AnswerShape
    <3>4. QED
      BY <3>1, <3>2, <3>3 DEF Cell!Answer
  <2>3. QED
    BY <2>1, <2>2
<1>6. ASSUME NEW s \in Store, Restart(s)
      PROVE  \/ UNCHANGED <<Cells, Answers>>
             \/ Cell!Fill(KeyOf[s]) \/ Cell!Forget(KeyOf[s])
  <2> DEFINE k == KeyOf[s]
  <2>1. Answers' = Answers
    BY <1>6 DEF Restart, Pending, AnswerShape
  <2>2. CASE k \in Durable /\ entry' = entry
    BY <2>1, <2>2
  <2>3. CASE k \in Durable /\ flight[s].at = "writing" /\ entry' = Written(s)
    <3>1. Cells[k] = None /\ flight[s].id \in Identity
      BY <2>3 DEF FlightShape
    <3>2. Cells' = [Cells EXCEPT ![k] = flight[s].id]
      BY <2>3 DEF Written
    <3>3. QED
      BY <2>1, <3>1, <3>2 DEF Cell!Fill
  <2>4. CASE k \notin Durable /\ entry' = [entry EXCEPT ![k] = Absent]
    <3>1. Cells' = [Cells EXCEPT ![k] = None]
      BY <2>4 DEF Absent
    <3>2. QED
      BY <2>1, <2>4, <3>1 DEF Cell!Forget
  <2>5. QED
    BY <1>6, <2>2, <2>3, <2>4 DEF Restart
<1>7. ASSUME NEW k \in Key, Damage(k) PROVE UNCHANGED <<Cells, Answers>>
  BY <1>7 DEF Damage
<1>8. CASE UNCHANGED vars
  BY <1>8 DEF vars
<1>9. QED
  BY <1>1, <1>2, <1>3, <1>4, <1>5, <1>6, <1>7, <1>8 DEF Next, ResolveStep

(* Under the same conditions the detailed resolution implements the cell   *)
(* that is filled once: every answer any caller ever gets from the store   *)
(* is the cell's content (resolve.ts:63-70).                               *)
THEOREM ResolutionImplementsCell ==
  ASSUME OneObjectPerEntry, NeverBlanked
  PROVE  Spec => ImplementsCell
<1>1. IInv /\ TypeOK' /\ [Next]_vars => IInv'
  BY StepIInv
<1>2. IInv /\ IInv' /\ [Next]_vars => [Cell!CNext]_Cell!cellVars
  BY StepRefines
<1>3. QED
  BY <1>1, <1>2, InitIInv, InitRefines, TypeCorrect, PTL DEF Spec, ImplementsCell, Cell!CSpec

----------------------------------------------------------------------------
(* Every waiting call has its store's flight to wait for.                  *)
Awaited == \A c \in Call : call[c].at = "waiting" => flight[StoreOf[c]].at # "idle"

THEOREM CallsAreAwaited == Spec => []Awaited
<1> USE HandleAssumption DEF Awaited, TypeOK, Flight, Progress
<1>1. Init => Awaited
  BY DEF Init, Pending
<1>2. TypeOK /\ Awaited /\ [Next]_vars => Awaited'
  <2> SUFFICES ASSUME TypeOK, Awaited, [Next]_vars PROVE Awaited'
    OBVIOUS
  <2>1. ASSUME NEW c \in Call, ResolveGiven(c) PROVE Awaited'
    BY <2>1 DEF ResolveGiven, Done
  <2>2. ASSUME NEW c \in Call, Resolve(c) PROVE Awaited'
    BY <2>2 DEF Resolve, Pending
  <2>3. ASSUME NEW s \in Store, Found(s) \/ FoundCorrupt(s) \/ GetThrows(s) PROVE Awaited'
    BY <2>3 DEF Found, FoundCorrupt, GetThrows, Return
  <2>4. ASSUME NEW s \in Store, Mint(s) \/ SetReturns(s) \/ SetThrows(s) PROVE Awaited'
    BY <2>4 DEF Mint, SetReturns, SetThrows, Return
  <2>5. ASSUME NEW s \in Store, Settle(s) \/ Restart(s) PROVE Awaited'
    BY <2>5 DEF Settle, Restart, Pending, Idle
  <2>6. ASSUME NEW k \in Key, Damage(k) PROVE Awaited'
    BY <2>6 DEF Damage
  <2>7. CASE UNCHANGED vars
    BY <2>7 DEF vars
  <2> QED BY <2>1, <2>2, <2>3, <2>4, <2>5, <2>6, <2>7 DEF Next, ResolveStep
<1> QED BY <1>1, <1>2, TypeCorrect, PTL DEF Spec

(* A call waiting for a flight at one of its three stages.                 *)
WaitingAt(c, stage) == call[c].at = "waiting" /\ flight[StoreOf[c]].at = stage
Settled(c) == call[c].at \in {"done", "lost"}

(* A step of anyone takes the flight to a later stage or leaves it.        *)
Onward(c) ==
  /\ WaitingAt(c, "reading") =>
       WaitingAt(c, "reading")' \/ WaitingAt(c, "writing")' \/ WaitingAt(c, "settling")' \/ Settled(c)'
  /\ WaitingAt(c, "writing") => WaitingAt(c, "writing")' \/ WaitingAt(c, "settling")' \/ Settled(c)'
  /\ WaitingAt(c, "settling") => WaitingAt(c, "settling")' \/ Settled(c)'

LEMMA StepGoesOn ==
  ASSUME TypeOK, [Next]_vars, NEW c \in Call
  PROVE  Onward(c)
<1> USE HandleAssumption DEF Onward, WaitingAt, Settled, TypeOK, Flight, Progress
<1>1. ASSUME NEW d \in Call, ResolveGiven(d) PROVE Onward(c)
  BY <1>1 DEF ResolveGiven, Done
<1>2. ASSUME NEW d \in Call, Resolve(d) PROVE Onward(c)
  BY <1>2 DEF Resolve, Pending
<1>3. ASSUME NEW s \in Store, Found(s) \/ FoundCorrupt(s) \/ GetThrows(s) PROVE Onward(c)
  <2>1. UNCHANGED call /\ \E id, code : Return(s, id, code)
    BY <1>3 DEF Found, FoundCorrupt, GetThrows
  <2> QED BY <2>1 DEF Return
<1>4. ASSUME NEW s \in Store, Mint(s) \/ SetReturns(s) \/ SetThrows(s) PROVE Onward(c)
  BY <1>4 DEF Mint, SetReturns, SetThrows, Return
<1>5. ASSUME NEW s \in Store, Settle(s) \/ Restart(s) PROVE Onward(c)
  BY <1>5 DEF Settle, Restart, Pending, Idle
<1>6. ASSUME NEW k \in Key, Damage(k) PROVE Onward(c)
  BY <1>6 DEF Damage
<1>7. CASE UNCHANGED vars
  BY <1>7 DEF vars
<1> QED BY <1>1, <1>2, <1>3, <1>4, <1>5, <1>6, <1>7 DEF Next, ResolveStep

(* A step of the flight itself leaves the stage it was at.                 *)
Leaves(c) ==
  \A stage \in {"reading", "writing", "settling"} : WaitingAt(c, stage) => ~WaitingAt(c, stage)'

LEMMA FlightGoesOn ==
  ASSUME TypeOK, NEW c \in Call, ResolveStep(StoreOf[c])
  PROVE  Leaves(c)
<1> USE HandleAssumption DEF Leaves, WaitingAt, TypeOK, Flight, Progress
<1> DEFINE s == StoreOf[c]
<1>1. CASE Found(s) \/ FoundCorrupt(s) \/ GetThrows(s)
  BY <1>1 DEF Found, FoundCorrupt, GetThrows, Return
<1>2. CASE Mint(s) \/ SetReturns(s) \/ SetThrows(s)
  BY <1>2 DEF Mint, SetReturns, SetThrows, Return
<1>3. CASE Settle(s)
  BY <1>3 DEF Settle, Idle
<1> QED BY <1>1, <1>2, <1>3 DEF ResolveStep

(* A flight that has begun can go on, whatever the entry holds: what was   *)
(* read is found, found damaged or absent, what is written succeeds or     *)
(* fails, and the last callback has nothing to wait for.                   *)
CanGoOn(s) == flight[s].at # "idle" => ENABLED <<ResolveStep(s)>>_vars
FlightsCanGoOn == \A s \in Store : CanGoOn(s)

LEMMA CallSettles ==
  ASSUME NEW c \in Call
  PROVE  FairSpec /\ []FlightsCanGoOn => (call[c].at = "waiting" ~> call[c].at \in {"done", "lost"})
<1> DEFINE s == StoreOf[c]
<1>1. s \in Store
  BY HandleAssumption
<1>2. FairSpec => Spec /\ Fair(s)
  BY <1>1 DEF FairSpec
<1>3. FlightsCanGoOn => CanGoOn(s)
  BY <1>1 DEF FlightsCanGoOn
<1>4. TypeOK /\ [Next]_vars => Onward(c)
  BY StepGoesOn
<1>5. /\ TypeOK /\ ResolveStep(s) /\ WaitingAt(c, "reading") => ~WaitingAt(c, "reading")'
      /\ TypeOK /\ ResolveStep(s) /\ WaitingAt(c, "writing") => ~WaitingAt(c, "writing")'
      /\ TypeOK /\ ResolveStep(s) /\ WaitingAt(c, "settling") => ~WaitingAt(c, "settling")'
  BY FlightGoesOn DEF Leaves
<1>6. TypeOK /\ Awaited /\ call[c].at = "waiting" =>
        WaitingAt(c, "reading") \/ WaitingAt(c, "writing") \/ WaitingAt(c, "settling")
  BY <1>1 DEF TypeOK, Flight, Awaited, WaitingAt
<1>7. /\ WaitingAt(c, "reading") => flight[s].at # "idle"
      /\ WaitingAt(c, "writing") => flight[s].at # "idle"
      /\ WaitingAt(c, "settling") => flight[s].at # "idle"
  BY DEF WaitingAt
<1>8. Settled(c) => call[c].at \in {"done", "lost"}
  BY DEF Settled
<1> QED BY <1>2, <1>3, <1>4, <1>5, <1>6, <1>7, <1>8, TypeCorrect, CallsAreAwaited, PTL
        DEF Spec, Fair, CanGoOn, Onward

(* Every call that waits is answered, or dies with its process             *)
(* (EveryCallSettles): the flight it waits for is shared, and each stage is*)
(* left for a later one.                                                   *)
THEOREM CallsSettle == FairSpec /\ []FlightsCanGoOn => EveryCallSettles
<1>1. ASSUME NEW c \in Call
      PROVE  FairSpec /\ []FlightsCanGoOn => (call[c].at = "waiting" ~> call[c].at \in {"done", "lost"})
  BY CallSettles
<1> QED BY <1>1 DEF EveryCallSettles
=============================================================================
