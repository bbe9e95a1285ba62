------------------------- MODULE OrdersClientProofs -------------------------
(***************************************************************************)
(* The safety of the Orders client for any number of orders, any fees and  *)
(* caps and any lag of the subgraph: a placement is told its own order, a  *)
(* hand-off never cancels its order unless the application follows the     *)
(* documented recipe for two at once, and the limits shown speak for the   *)
(* contract.                                                               *)
(***************************************************************************)
EXTENDS OrdersClient, FiniteSetTheorems, WellFoundedInduction, TLAPS

USE SellAssumption, ReadsAssumption DEF SellAssumption, ReadsAssumption

----------------------------------------------------------------------------
(* Limits                                                                  *)

(* A set of numbers up to n has a largest one.                             *)
LEMMA LargestExists ==
  ASSUME NEW n \in Nat, NEW S \in SUBSET (1..n), S # {} PROVE Max(S) \in S /\ \A i \in S : Max(S) >= i
<1> DEFINE T == {n - i : i \in S}
<1> DEFINE R == {ss \in Nat \X Nat : ss[1] < ss[2]}
<1>1. \A i \in S : i \in Nat /\ n - i \in Nat
  OBVIOUS
<1>2. T \subseteq Nat /\ T # {}
  BY <1>1
<1>3. IsWellFoundedOn(R, Nat)
  BY NatLessThanWellFounded DEF OpToRel
<1> HIDE DEF R
<1>4. \E x \in T : \A y \in T : <<y, x>> \notin R
  <2> HIDE DEF T
  <2> QED BY <1>2, <1>3, WFMin
<1>5. PICK x \in T : \A y \in T : <<y, x>> \notin R
  BY <1>4
<1>6. \A y \in T : ~(y < x)
  BY <1>2, <1>5 DEF R
<1>7. PICK m \in S : x = n - m
  OBVIOUS
<1>8. ASSUME NEW i \in S PROVE m >= i
  <2>1. ~(n - i < n - m)
    BY <1>6, <1>7
  <2> QED BY <1>1, <2>1
<1> QED BY <1>8 DEF Max

(* A quota is what was counted, then, over the entries it was read from.   *)
Configured(n, b) == CapsSet(n, b) # {}
Counts(n, b, d) ==
  Count(UsedOn(n, b, d), IF Configured(n, b) THEN CapOf(n, b) ELSE 0, Configured(n, b), b = "sellPay")

QuotaInv ==
  /\ ledger \in Seq(Entry) /\ indexed \in 0..Len(ledger) /\ day \in 0..MaxDay
  /\ quota = NoQuota \/ /\ quota.from \in 0..Len(ledger) /\ quota.day \in 0..MaxDay
                        /\ \A b \in Bucket : quota.counts[b] = Counts(quota.from, b, quota.day)

(* Caps are numbers, and so are the counts of orders; the orders of a day  *)
(* only get more.                                                          *)
LEMMA CapIsNumber ==
  ASSUME ledger \in Seq(Entry), NEW n \in 0..Len(ledger), NEW b \in Bucket PROVE CapOf(n, b) \in Nat
<1>1. CASE CapsSet(n, b) = {}
  BY <1>1 DEF CapOf
<1>2. CASE CapsSet(n, b) # {}
  <2>1. CapsSet(n, b) \in SUBSET (1..n) /\ n \in Nat
    BY DEF CapsSet
  <2>2. Max(CapsSet(n, b)) \in CapsSet(n, b)
    BY <1>2, <2>1, LargestExists
  <2>3. PICK i \in 1..Len(ledger) : i = Max(CapsSet(n, b)) /\ ledger[i].what = "cap"
    <3>1. \A i \in CapsSet(n, b) : i \in 1..Len(ledger) /\ ledger[i].what = "cap"
      BY DEF CapsSet
    <3> QED BY <2>2, <3>1
  <2>4. ledger[i] \in Entry
    BY <2>3
  <2>5. ledger[i].to \in Cap
    BY <2>3, <2>4 DEF Entry
  <2> QED BY <1>2, <2>3, <2>5 DEF CapOf
<1> QED BY <1>1, <1>2

LEMMA UsedIsNumber ==
  ASSUME NEW n \in Nat, NEW m \in Nat, n <= m, NEW b \in Bucket, NEW d
  PROVE  UsedOn(n, b, d) \in Nat /\ UsedOn(m, b, d) \in Nat /\ UsedOn(n, b, d) <= UsedOn(m, b, d)
<1> DEFINE Orders(k) == {i \in Own(k) : ledger[i].bucket = b /\ ledger[i].day = d}
<1>1. IsFiniteSet(1..m)
  BY FS_Interval
<1>2. Orders(m) \subseteq 1..m /\ Orders(n) \subseteq Orders(m)
  BY DEF Own
<1>3. IsFiniteSet(Orders(m)) /\ IsFiniteSet(Orders(n)) /\ Cardinality(Orders(n)) <= Cardinality(Orders(m))
  BY <1>1, <1>2, FS_Subset
<1> QED BY <1>3, FS_CardinalityType DEF UsedOn

(* What the first entries say does not change.                             *)
LEMMA PrefixStays ==
  ASSUME ledger \in Seq(Entry), NEW e \in Entry, ledger' = Append(ledger, e),
         NEW n \in 0..Len(ledger), NEW b \in Bucket, NEW d
  PROVE  Counts(n, b, d)' = Counts(n, b, d)
<1>1. \A i \in 1..n : ledger'[i] = ledger[i]
  OBVIOUS
<1>2. CapsSet(n, b)' = CapsSet(n, b)
  BY <1>1 DEF CapsSet
<1>3. UsedOn(n, b, d)' = UsedOn(n, b, d)
  <2>1. Own(n)' = Own(n) /\ Own(n) \subseteq 1..n
    BY <1>1 DEF Own
  <2>2. {i \in Own(n)' : ledger'[i].bucket = b /\ ledger'[i].day = d}
          = {i \in Own(n) : ledger[i].bucket = b /\ ledger[i].day = d}
    BY <1>1, <2>1
  <2> QED BY <2>2 DEF UsedOn
<1>4. CapsSet(n, b) # {} => CapOf(n, b)' = CapOf(n, b)
  <2> SUFFICES ASSUME CapsSet(n, b) # {} PROVE CapOf(n, b)' = CapOf(n, b)
    OBVIOUS
  <2>1. CapsSet(n, b) \in SUBSET (1..n) /\ n \in Nat
    BY DEF CapsSet
  <2>2. Max(CapsSet(n, b)) \in 1..n
    BY <2>1, LargestExists
  <2> QED BY <1>1, <1>2, <2>2 DEF CapOf
<1> QED BY <1>2, <1>3, <1>4 DEF Counts, Configured

LEMMA LedgerStays ==
  ASSUME QuotaInv, ledger' = ledger, quota' = quota, indexed' \in 0..Len(ledger), day' \in 0..MaxDay PROVE QuotaInv'
<1>1. ASSUME NEW b \in Bucket PROVE Counts(quota.from, b, quota.day)' = Counts(quota.from, b, quota.day)
  <2>1. CapsSet(quota.from, b)' = CapsSet(quota.from, b)
    BY DEF CapsSet
  <2>2. CapOf(quota.from, b)' = CapOf(quota.from, b)
    BY <2>1 DEF CapOf
  <2>3. UsedOn(quota.from, b, quota.day)' = UsedOn(quota.from, b, quota.day)
    BY DEF UsedOn, Own
  <2> QED BY <2>1, <2>2, <2>3 DEF Counts, Configured
<1> QED BY <1>1 DEF QuotaInv

LEMMA QuotaStarts == ReadsInit => QuotaInv
  BY DEF ReadsInit, QuotaInv

(* Every step of the chain, and of the client's readings, keeps that.      *)
LEMMA QuotaStepKeeps == QuotaInv /\ [ListNext \/ FormNext]_readVars => QuotaInv'
<1> SUFFICES ASSUME QuotaInv, [ListNext \/ FormNext]_readVars PROVE QuotaInv'
  OBVIOUS
<1>1. ASSUME NEW e \in Entry, Goes(e) PROVE QuotaInv'
  <2>1. /\ ledger' = Append(ledger, e) /\ ledger' \in Seq(Entry) /\ Len(ledger') = Len(ledger) + 1
        /\ indexed' \in 0..Len(ledger') /\ day' \in 0..MaxDay /\ quota' = quota
    BY <1>1 DEF Goes, QuotaInv
  <2>2. ASSUME quota # NoQuota, NEW b \in Bucket
        PROVE  quota.counts[b] = Counts(quota.from, b, quota.day)'
    <3>1. PICK n \in 0..Len(ledger), d \in 0..MaxDay : n = quota.from /\ d = quota.day
      BY <2>2 DEF QuotaInv
    <3>2. Counts(n, b, d)' = Counts(n, b, d)
      BY <2>1, PrefixStays DEF QuotaInv
    <3>3. quota.counts[b] = Counts(n, b, d)
      BY <2>2, <3>1 DEF QuotaInv
    <3> QED BY <2>1, <3>1, <3>2, <3>3
  <2> QED BY <2>1, <2>2 DEF QuotaInv
<1>2. CASE Indexes
  BY <1>2, LedgerStays DEF Indexes, QuotaInv
<1>3. CASE DayTurns
  BY <1>3, LedgerStays DEF DayTurns, QuotaInv
<1>4. CASE ReadPage
  BY <1>4, LedgerStays DEF ReadPage, QuotaInv
<1>5. ASSUME NEW d \in 0..MaxDay, ReadQuota(d) PROVE QuotaInv'
  <2>1. ledger' = ledger /\ indexed' = indexed /\ day' = day /\ quota'.from = indexed /\ quota'.day = d
    BY <1>5 DEF ReadQuota
  <2>2. \A b \in Bucket : quota'.counts[b] = Counts(indexed, b, d)
    BY <1>5 DEF ReadQuota, Counts, Configured
  <2>3. \A b \in Bucket : Counts(indexed, b, d)' = Counts(indexed, b, d)
    BY <2>1 DEF Counts, Count, Configured, UsedOn, Own, CapsSet, CapOf
  <2> QED BY <2>1, <2>2, <2>3 DEF QuotaInv
<1>6. CASE UNCHANGED readVars
  BY <1>6, LedgerStays DEF readVars, QuotaInv
<1>7. CASE ChainNext
  <2>1. \A b \in Bucket : [what |-> "mine", bucket |-> b, day |-> day, to |-> 0] \in Entry
    BY DEF QuotaInv, Entry
  <2>2. \A w \in {"unknown", "other"} : [what |-> w, bucket |-> "sellPay", day |-> day, to |-> 0] \in Entry
    BY DEF QuotaInv, Entry, Bucket
  <2>3. \A b \in Bucket, t \in Cap : [what |-> "cap", bucket |-> b, day |-> 0, to |-> t] \in Entry
    BY DEF Entry
  <2> QED BY <1>1, <1>2, <1>3, <1>7, <2>1, <2>2, <2>3 DEF ChainNext
<1> QED BY <1>4, <1>5, <1>6, <1>7 DEF ListNext, FormNext

(* Counted limits that are of today speak for the contract.                *)
LEMMA QuotaSpeaks == QuotaInv => QuotaSpeaksForContract
<1> SUFFICES ASSUME QuotaInv, quota # NoQuota, quota.day = day, NEW b \in Bucket
             PROVE  LET c == quota.counts[b] IN
                    /\ quota.from = Len(ledger) /\ c.state # "unknown" =>
                         (Accepts(b) <=> c.state = "unlimited" \/ c.remaining > 0)
                    /\ c.state = "enforced" /\ c.remaining = 0 /\ CapOf(Len(ledger), b) = c.limit => ~Accepts(b)
  BY DEF QuotaSpeaksForContract
<1> DEFINE c == quota.counts[b]  n == quota.from  m == Len(ledger)
           used == UsedOn(n, b, day)  cap == CapOf(n, b)
<1>1. n \in 0..m /\ m \in Nat /\ n \in Nat /\ n <= m
  BY DEF QuotaInv
<1>2. c = Count(used, IF Configured(n, b) THEN cap ELSE 0, Configured(n, b), b = "sellPay")
  BY DEF QuotaInv, Counts
<1>3. cap \in Nat /\ CapOf(m, b) \in Nat
  BY <1>1, CapIsNumber DEF QuotaInv
<1>4. used \in Nat /\ UsedOn(m, b, day) \in Nat /\ used <= UsedOn(m, b, day)
  BY <1>1, UsedIsNumber
<1>5. Accepts(b) <=> (b = "sellPay" /\ CapOf(m, b) = 0) \/ UsedOn(m, b, day) < CapOf(m, b)
  BY DEF Accepts
<1> HIDE DEF c, n, m, used, cap
<1>6. c.state # "unknown" => Configured(n, b)
  BY <1>2 DEF Count
<1>7. ASSUME Configured(n, b)
      PROVE  /\ c.state = "unlimited" <=> cap = 0 /\ b = "sellPay"
             /\ c.state # "unlimited" => /\ c.state = "enforced" /\ c.limit = cap
                                         /\ c.remaining = IF used < cap THEN cap - used ELSE 0
  BY <1>2, <1>7 DEF Count
<1>8. ASSUME n = m, Configured(n, b) PROVE Accepts(b) <=> c.state = "unlimited" \/ c.remaining > 0
  <2>1. cap = CapOf(m, b) /\ used = UsedOn(m, b, day)
    BY <1>8 DEF cap, used
  <2> QED BY <1>3, <1>4, <1>5, <1>7, <1>8, <2>1
<1>9. ASSUME c.state = "enforced", c.remaining = 0, CapOf(m, b) = c.limit PROVE ~Accepts(b)
  BY <1>3, <1>4, <1>5, <1>6, <1>7, <1>9
<1> QED BY <1>6, <1>8, <1>9 DEF c, n, m

----------------------------------------------------------------------------
(* SELL and PAY orders                                                     *)

(* A receipt holds the placement's event, under the address the Diamond has *)
(* for the account, another user's, or both; and an order is known only    *)
(* from it.                                                                *)
Placed(o) == [user |-> Sender, order |-> o]
Other == [user |-> "other", order |-> Foreign]
Receipts(o) == {<<>>, <<Placed(o)>>, <<Other, Placed(o)>>, <<Placed(o), Other>>, <<Other>>}
LogsAreReceipts == \A o \in Slot : logs[o] \in Receipts(o)
NothingYet == \A o \in Slot : step[o] \in {"new", "placing"} => known[o] = "none" /\ view[o].actual = Unread
GoneOnKnows == \A o \in Slot : step[o] \in {"placed", "approving", "approved", "handing"} => known[o] \in {o, Foreign}
HandedKnows == \A i \in 1..Len(pool) : pool[i].kind = "handOff" => known[pool[i].slot] \in {pool[i].slot, Foreign}

SellInv == TypeOK /\ LogsAreReceipts /\ NothingYet /\ GoneOnKnows /\ HandedKnows

(* The order a receipt names is the placement's own, or the receipt misleads*)
(* and it is the stranger's.                                               *)
LEMMA EnrichedIsOwn ==
  ASSUME NEW o \in Slot, NEW events \in Receipts(o), events # <<>>
  PROVE  \/ enrichWithOrderId(events) = o
         \/ enrichWithOrderId(events) = Foreign /\ Misleads(events)
<1> DEFINE mine == {i \in DOMAIN events : events[i].user = Owner}
<1>0. Placed(o).order = o /\ Other.order = Foreign /\ Other.user = "other" /\ Placed(o).user \in {"account", "smart"}
      /\ Owner = "account"
  BY DEF Placed, Other, Sender, Owner
<1> HIDE DEF Placed, Other
<1>1. ASSUME NEW e, events = <<e>> PROVE enrichWithOrderId(events) = e.order
  <2>1. DOMAIN events = {1} /\ events[1] = e
    BY <1>1
  <2>2. CASE mine = {}
    BY <1>1, <2>1, <2>2 DEF enrichWithOrderId
  <2>3. CASE mine # {}
    <3>1. mine = {1}
      BY <2>1, <2>3
    <3>2. Min(mine) = 1
      BY <3>1 DEF Min
    <3> QED BY <1>1, <2>1, <2>3, <3>2 DEF enrichWithOrderId
  <2> QED BY <2>2, <2>3
<1>2. CASE events = <<Placed(o)>>
  BY <1>0, <1>1, <1>2
<1>3. CASE events = <<Other>>
  <2>1. Misleads(events)
    BY <1>0, <1>3 DEF Misleads
  <2> QED BY <1>0, <1>1, <1>3, <2>1
<1>4. CASE events = <<Other, Placed(o)>>
  <2>1. DOMAIN events = {1, 2} /\ events[1] = Other /\ events[2] = Placed(o) /\ events # <<>>
    BY <1>4
  <2>2. CASE Placed(o).user = Owner
    <3>1. mine = {2}
      BY <1>0, <2>1, <2>2
    <3>2. Min(mine) = 2
      BY <3>1 DEF Min
    <3> QED BY <1>0, <2>1, <3>1, <3>2 DEF enrichWithOrderId
  <2>3. CASE Placed(o).user # Owner
    <3>1. mine = {}
      BY <1>0, <2>1, <2>3
    <3>2. Misleads(events)
      BY <1>0, <2>1, <2>3 DEF Misleads
    <3> QED BY <1>0, <2>1, <3>1, <3>2 DEF enrichWithOrderId
  <2> QED BY <2>2, <2>3
<1>5. CASE events = <<Placed(o), Other>>
  <2>1. DOMAIN events = {1, 2} /\ events[1] = Placed(o) /\ events[2] = Other /\ events # <<>>
    BY <1>5
  <2>2. mine = {} \/ mine = {1}
    BY <1>0, <2>1
  <2>3. mine # {} => Min(mine) = 1
    BY <2>2 DEF Min
  <2> QED BY <1>0, <2>1, <2>3 DEF enrichWithOrderId
<1> QED BY <1>2, <1>3, <1>4, <1>5 DEF Receipts

LEMMA SellStarts == Init => SellInv
<1> SUFFICES ASSUME Init PROVE SellInv
  OBVIOUS
<1>1. TypeOK
  BY DEF Init, TypeOK, Steps, Status, Order, Amount, NoView, Unread
<1> QED BY <1>1 DEF Init, SellInv, NoView, LogsAreReceipts, Receipts, NothingYet, GoneOnKnows, HandedKnows

(* What the application does.                                              *)
LEMMA AppKeeps == ASSUME SellInv, NEW o \in Slot, App(o), UNCHANGED setup PROVE SellInv'
<1> USE DEF SellInv, Go, Send
<1> DEFINE Rest == NothingYet /\ GoneOnKnows /\ HandedKnows
<1>0. LogsAreReceipts'
  <2>1. logs' = logs /\ \A p \in Slot : Receipts(p)' = Receipts(p)
    BY DEF App, Place, PlacedReturns, ReadDetails, ReadOrder, Approve, ApproveReturns, HandOff, HandOffReturns, Stop,
           Receipts, Placed, Sender
  <2> QED BY <2>1 DEF LogsAreReceipts
<1>1. CASE Place(o)
  <2>1. [kind |-> "place", slot |-> o, amount |-> 0] \in Tx
    BY DEF Tx, Amount
  <2>2. TypeOK'
    BY <1>1, <2>1 DEF Place, TypeOK, Steps
  <2>3. Rest'
    BY <1>1 DEF Place, TypeOK, NothingYet, GoneOnKnows, HandedKnows, Tx
  <2> QED BY <1>0, <2>2, <2>3
<1>2. CASE PlacedReturns(o)
  <2>1. /\ \E id \in {o, Foreign} : known' = [known EXCEPT ![o] = id]
        /\ step' = [step EXCEPT ![o] = "placed"]
        /\ UNCHANGED <<setup, view, pool, logs, orders, fee, allowance>>
    BY <1>2, EnrichedIsOwn DEF PlacedReturns, LogsAreReceipts
  <2>2. TypeOK'
    BY <2>1 DEF TypeOK, Steps
  <2>3. Rest'
    BY <2>1 DEF TypeOK, NothingYet, GoneOnKnows, HandedKnows, Tx
  <2> QED BY <1>0, <2>2, <2>3
<1>3. CASE ReadDetails(o) \/ ReadOrder(o)
  <2>1. known[o] \in {o, Foreign} /\ orders[known[o]] \in Order /\ step[o] = "placed"
    BY <1>3 DEF ReadDetails, ReadOrder, GoneOnKnows, TypeOK
  <2>2. view' \in [Slot -> [order: BOOLEAN, actual: Amount \cup {Unread}]]
        /\ \A p \in Slot : p # o => view'[p] = view[p]
    <3> DEFINE View == [order: BOOLEAN, actual: Amount \cup {Unread}]
               asked == orders[known[o]].actual
    <3>1. view[o] \in View /\ asked \in Amount
      BY <2>1 DEF TypeOK, Order
    <3>2. \E s \in BOOLEAN, n \in Amount \cup {Unread} :
            view' = [view EXCEPT ![o] = [order |-> s, actual |-> n]]
      <4>1. CASE ReadDetails(o)
        <5> DEFINE read == [view[o] EXCEPT !.actual = asked]
        <5>1. view' = [view EXCEPT ![o] = read]
          BY <2>1, <4>1 DEF ReadDetails
        <5>2. read = [order |-> view[o].order, actual |-> asked]
          BY <3>1
        <5> HIDE DEF read, asked
        <5> QED BY <3>1, <5>1, <5>2
      <4>2. CASE ReadOrder(o)
        <5>1. view' = [view EXCEPT ![o] = [order |-> TRUE,
                         actual |-> IF setup.multicall THEN asked ELSE view[o].actual]]
          BY <2>1, <4>2 DEF ReadOrder
        <5> HIDE DEF asked
        <5> QED BY <3>1, <5>1
      <4> QED BY <1>3, <4>1, <4>2
    <3> QED BY <3>2 DEF TypeOK
  <2>3. UNCHANGED <<setup, step, known, pool, logs, orders, fee, allowance>>
    BY <1>3 DEF ReadDetails, ReadOrder
  <2>4. TypeOK'
    BY <2>2, <2>3 DEF TypeOK
  <2>5. Rest'
    BY <2>1, <2>2, <2>3 DEF NothingYet, GoneOnKnows, HandedKnows
  <2> QED BY <1>0, <2>4, <2>5
<1>4. CASE Approve(o)
  <2>1. view[o].actual \in Amount
    BY <1>4 DEF Approve, TypeOK
  <2>2. UNCHANGED <<setup, known, view, logs, orders, fee, allowance>>
    BY <1>4 DEF Approve
  <2>3. \/ step' = [step EXCEPT ![o] = "stopped"] /\ pool' = pool
        \/ \E n \in Amount : /\ step' = [step EXCEPT ![o] = "approving"]
                             /\ pool' = Append(pool, [kind |-> "approve", slot |-> o, amount |-> n])
    BY <1>4, <2>1 DEF Approve, Amount
  <2>4. \A n \in Amount : [kind |-> "approve", slot |-> o, amount |-> n] \in Tx
    BY DEF Tx
  <2>5. known[o] \in {o, Foreign}
    BY <1>4 DEF Approve, GoneOnKnows
  <2>6. CASE step' = [step EXCEPT ![o] = "stopped"] /\ pool' = pool
    <3>1. TypeOK'
      BY <2>2, <2>6 DEF TypeOK, Steps
    <3> QED BY <1>0, <2>2, <2>6, <3>1 DEF TypeOK, NothingYet, GoneOnKnows, HandedKnows
  <2>7. ASSUME NEW n \in Amount, step' = [step EXCEPT ![o] = "approving"],
               pool' = Append(pool, [kind |-> "approve", slot |-> o, amount |-> n])
        PROVE  SellInv'
    <3>1. TypeOK'
      BY <2>2, <2>4, <2>7 DEF TypeOK, Steps
    <3>2. HandedKnows'
      BY <2>2, <2>7 DEF TypeOK, HandedKnows
    <3> QED BY <1>0, <2>2, <2>5, <2>7, <3>1, <3>2 DEF TypeOK, NothingYet, GoneOnKnows
  <2> QED BY <2>3, <2>6, <2>7
<1>5. CASE ApproveReturns(o) \/ HandOffReturns(o) \/ Stop(o)
  <2>1. UNCHANGED <<setup, known, view, pool, logs, orders, fee, allowance>>
    BY <1>5 DEF ApproveReturns, HandOffReturns, Stop
  <2>2. /\ \E t \in {"approved", "done", "stopped"} : step' = [step EXCEPT ![o] = t]
        /\ step'[o] = "approved" => known[o] \in {o, Foreign}
    BY <1>5 DEF ApproveReturns, HandOffReturns, Stop, TypeOK, GoneOnKnows
  <2>3. TypeOK'
    BY <2>1, <2>2 DEF TypeOK, Steps
  <2>4. Rest'
    BY <2>1, <2>2 DEF TypeOK, NothingYet, GoneOnKnows, HandedKnows
  <2> QED BY <1>0, <2>3, <2>4
<1>6. CASE HandOff(o)
  <2>1. [kind |-> "handOff", slot |-> o, amount |-> 0] \in Tx
    BY DEF Tx, Amount
  <2>2. TypeOK'
    BY <1>6, <2>1 DEF HandOff, TypeOK, Steps
  <2>3. known[o] \in {o, Foreign}
    BY <1>6 DEF HandOff, GoneOnKnows
  <2>4. Rest'
    BY <1>6, <2>3 DEF HandOff, TypeOK, NothingYet, GoneOnKnows, HandedKnows, Tx
  <2> QED BY <1>0, <2>2, <2>4
<1> QED BY <1>0, <1>1, <1>2, <1>3, <1>4, <1>5, <1>6 DEF App

(* A transaction is mined.                                                 *)
LEMMA PoolMoves ==
  ASSUME SellInv, pool # <<>>, pool' = Tail(pool), known' = known
  PROVE  /\ pool' \in Seq(Tx) /\ HandedKnows' /\ Head(pool) \in Tx
         /\ Head(pool).kind = "handOff" => known[Head(pool).slot] \in {Head(pool).slot, Foreign}
<1>1. \A i \in 1..Len(pool') : i + 1 \in 1..Len(pool) /\ pool'[i] = pool[i + 1]
  BY DEF SellInv, TypeOK
<1>2. pool' \in Seq(Tx) /\ Head(pool) \in Tx /\ Head(pool) = pool[1] /\ 1 \in 1..Len(pool)
  BY DEF SellInv, TypeOK
<1>3. HandedKnows'
  BY <1>1 DEF SellInv, HandedKnows
<1> QED BY <1>2, <1>3 DEF SellInv, HandedKnows

(* What the Diamond, the token, the merchants and the operator do.         *)
LEMMA ChainKeeps ==
  ASSUME SellInv, UNCHANGED setup,
         PlaceMined \/ ApproveMined \/ HandOffMined \/ FeeChanges
           \/ \E o \in Slot \cup {Foreign} : MerchantActs(o) \/ Cancelled(o)
  PROVE  SellInv'
<1> USE DEF SellInv
<1> DEFINE Rest == NothingYet /\ GoneOnKnows
<1>0. UNCHANGED <<setup, step, known, view>> /\ Rest' /\ \A p \in Slot : Receipts(p)' = Receipts(p)
  BY DEF PlaceMined, ApproveMined, HandOffMined, FeeChanges, MerchantActs, Cancelled, NothingYet, GoneOnKnows,
         Receipts, Placed, Sender
<1>1. CASE PlaceMined
  <2>1. Head(pool) \in Tx /\ pool' \in Seq(Tx) /\ HandedKnows'
    BY <1>0, <1>1, PoolMoves DEF PlaceMined
  <2> DEFINE o == Head(pool).slot
  <2>2. o \in Slot
    BY <2>1 DEF Tx
  <2>3. Usdc + fee \in Amount
    <3>1. fee \in Nat /\ Usdc \in Nat /\ Unlimited \in Nat /\ Usdc + fee < Unlimited
      BY DEF TypeOK
    <3> QED BY <3>1 DEF Amount
  <2>4. NewOrder \in Order
    BY <2>3 DEF NewOrder, Order, Status
  <2>5. orders' \in [Slot \cup {Foreign} -> Order]
    <3>1. orders' \in {orders, [orders EXCEPT ![o] = NewOrder], [orders EXCEPT ![Foreign] = NewOrder],
                       [orders EXCEPT ![o] = NewOrder, ![Foreign] = NewOrder]}
      BY <1>1 DEF PlaceMined
    <3> HIDE DEF o
    <3>2. orders \in [Slot \cup {Foreign} -> Order]
      BY DEF TypeOK
    <3>3. CASE orders' \in {orders, [orders EXCEPT ![o] = NewOrder], [orders EXCEPT ![Foreign] = NewOrder]}
      BY <2>2, <2>4, <3>2, <3>3
    <3>4. CASE orders' = [orders EXCEPT ![o] = NewOrder, ![Foreign] = NewOrder]
      BY <2>2, <2>4, <3>2, <3>4
    <3> QED BY <3>1, <3>3, <3>4
  <2>6. \E events \in Receipts(o) : logs' = [logs EXCEPT ![o] = events]
    <3>1. logs = [logs EXCEPT ![o] = logs[o]] /\ logs[o] \in Receipts(o)
      BY <2>2 DEF TypeOK, LogsAreReceipts
    <3> QED BY <1>1, <3>1 DEF PlaceMined, Placed, Other, Receipts
  <2>7. Placed(o) \in Event /\ Other \in Event
    BY <2>2 DEF Placed, Other, Event, Owner, Sender
  <2> HIDE DEF o
  <2>8. LogsAreReceipts'
    BY <1>0, <2>2, <2>6 DEF LogsAreReceipts, TypeOK
  <2>9. logs' \in [Slot -> Seq(Event)]
    <3>1. Receipts(o) \subseteq Seq(Event)
      <4> HIDE DEF Placed, Other
      <4> QED BY <2>7 DEF Receipts
    <3> QED BY <2>2, <2>6, <3>1 DEF TypeOK
  <2>10. UNCHANGED <<fee, allowance>>
    BY <1>1 DEF PlaceMined
  <2> QED BY <1>0, <2>1, <2>5, <2>8, <2>9, <2>10 DEF TypeOK
<1>2. CASE ApproveMined
  <2>1. Head(pool) \in Tx /\ pool' \in Seq(Tx) /\ HandedKnows'
    BY <1>0, <1>2, PoolMoves DEF ApproveMined
  <2>2. allowance' \in Amount /\ UNCHANGED <<logs, orders, fee>>
    BY <1>2, <2>1 DEF ApproveMined, Tx
  <2> QED BY <1>0, <2>1, <2>2 DEF TypeOK, LogsAreReceipts
<1>3. CASE HandOffMined
  <2>1. /\ Head(pool) \in Tx /\ pool' \in Seq(Tx) /\ HandedKnows'
        /\ known[Head(pool).slot] \in {Head(pool).slot, Foreign}
    BY <1>0, <1>3, PoolMoves DEF HandOffMined
  <2> DEFINE o == known[Head(pool).slot]
  <2>2. o \in Slot \cup {Foreign}
    BY <2>1 DEF Tx
  <2>3. /\ orders[o] \in Order /\ allowance \in Nat /\ allowance <= Unlimited
        /\ orders[o].actual \in Nat
    BY <2>2 DEF TypeOK, Order, Amount
  <2> HIDE DEF o
  <2>4. /\ \/ orders' = [orders EXCEPT ![o].status = "paid"]
           \/ orders' = [orders EXCEPT ![o] = [status |-> "cancelled", actual |-> 0]]
           \/ orders' = orders
        /\ allowance' = allowance \/ (allowance' = allowance - orders[o].actual /\ allowance >= orders[o].actual)
        /\ UNCHANGED <<logs, fee>>
    BY <1>3, <2>1 DEF HandOffMined, o
  <2>5. orders' \in [Slot \cup {Foreign} -> Order]
    <3>1. [orders[o] EXCEPT !.status = "paid"] \in Order /\ [status |-> "cancelled", actual |-> 0] \in Order
      BY <2>3 DEF Order, Status, Amount
    <3>2. orders \in [Slot \cup {Foreign} -> Order]
      BY DEF TypeOK
    <3>3. orders' = orders \/ \E order \in Order : orders' = [orders EXCEPT ![o] = order]
      BY <2>2, <2>4, <3>1
    <3> QED BY <2>2, <3>2, <3>3
  <2>6. allowance' \in Amount
    BY <2>3, <2>4 DEF Amount
  <2> QED BY <1>0, <2>1, <2>4, <2>5, <2>6 DEF TypeOK, LogsAreReceipts
<1>4. CASE FeeChanges
  <2>1. fee' \in Fees /\ UNCHANGED <<setup, step, known, view, pool, logs, orders, allowance>>
    BY <1>0, <1>4 DEF FeeChanges
  <2>2. TypeOK'
    BY <2>1 DEF TypeOK
  <2>3. LogsAreReceipts' /\ HandedKnows'
    BY <1>0, <2>1 DEF LogsAreReceipts, HandedKnows
  <2> QED BY <1>0, <2>2, <2>3
<1>5. ASSUME NEW o \in Slot \cup {Foreign}, MerchantActs(o) \/ Cancelled(o) PROVE SellInv'
  <2>1. UNCHANGED <<pool, logs, fee, allowance>>
    BY <1>5 DEF MerchantActs, Cancelled
  <2>2. orders' \in [Slot \cup {Foreign} -> Order]
    <3>1. orders[o] \in Order
      BY DEF TypeOK
    <3>2. /\ \A t \in Status : [orders[o] EXCEPT !.status = t] \in Order
          /\ [status |-> "cancelled", actual |-> 0] \in Order
      BY <3>1 DEF Order, Status, Amount
    <3>3. \E order \in Order : orders' = [orders EXCEPT ![o] = order]
      BY <1>5, <3>1, <3>2 DEF MerchantActs, Cancelled, Status, TypeOK
    <3> QED BY <3>3 DEF TypeOK
  <2> QED BY <1>0, <2>1, <2>2 DEF TypeOK, LogsAreReceipts, HandedKnows
<1> QED BY <1>1, <1>2, <1>3, <1>4, <1>5

LEMMA SellStepKeeps == SellInv /\ [Next]_vars => SellInv'
<1> SUFFICES ASSUME SellInv, [Next]_vars PROVE SellInv'
  OBVIOUS
<1>1. CASE UNCHANGED vars
  BY <1>1 DEF vars, SellInv, TypeOK, LogsAreReceipts, Receipts, Placed, Sender, NothingYet, GoneOnKnows, HandedKnows
<1>2. CASE Next
  BY <1>2, AppKeeps, ChainKeeps DEF Next
<1> QED BY <1>1, <1>2

----------------------------------------------------------------------------
(* The hand-offs of SELL and PAY orders                                    *)

Open == {"placed", "accepted"}

(* A placement is sent once, and its order is there only after its receipt,*)
(* which names it or misleads; what getOrder read of it is what the order  *)
(* still asks for.                                                         *)
PlacedOnce ==
  /\ \A o \in Slot : step[o] = "new" => logs[o] = <<>>
  /\ \A i \in 1..Len(pool) : pool[i].kind = "place" => step[pool[i].slot] # "new" /\ logs[pool[i].slot] = <<>>
  /\ \A i, j \in 1..Len(pool) :
       pool[i].kind = "place" /\ pool[j].kind = "place" /\ pool[i].slot = pool[j].slot => i = j
HasReceipt ==
  /\ \A o \in Slot :
       step[o] \in {"placed", "approving", "approved", "handing"} \/ view[o].actual # Unread => logs[o] # <<>>
  /\ \A i \in 1..Len(pool) : pool[i].kind = "handOff" => logs[pool[i].slot] # <<>>
Reported == \A o \in Slot : known[o] = "none" \/ (logs[o] # <<>> /\ (known[o] = o \/ Misleads(logs[o])))
ViewIsActual ==
  \A o \in Slot :
    known[o] = o /\ orders[o].status \in Open /\ view[o].actual # Unread => view[o].actual = orders[o].actual

(* One order at a time: the approval stands right before its hand-off, or  *)
(* is the allowance.                                                       *)
Covers(i, o) ==
  known[o] = o /\ orders[o].status \in Open =>
    IF i = 0 THEN allowance >= orders[o].actual
    ELSE pool[i].kind = "approve" /\ pool[i].amount >= orders[o].actual
OneFunded ==
  setup.policy = "oneAtATime" =>
    /\ \A o, p \in Slot : Busy(o) /\ Busy(p) => o = p
    /\ \A o \in Slot : step[o] \in {"approving", "approved"} => Covers(Len(pool), o)
    /\ \A i \in 1..Len(pool) : pool[i].kind = "handOff" => Covers(i - 1, pool[i].slot)

(* An unlimited approval: the first of them is mined before any hand-off.  *)
Granted(n) == allowance = Unlimited \/ \E i \in 1..n : pool[i].kind = "approve"
AllFunded ==
  setup.policy = "unlimited" =>
    /\ \A i \in 1..Len(pool) : pool[i].kind = "approve" => pool[i].amount = Unlimited
    /\ \A o \in Slot : step[o] \in {"approving", "approved"} => Granted(Len(pool))
    /\ \A i \in 1..Len(pool) : pool[i].kind = "handOff" => Granted(i - 1)

Funded == PlacedOnce /\ HasReceipt /\ Reported /\ ViewIsActual /\ OneFunded /\ AllFunded
FundInv == SellInv /\ Funded

LEMMA FundStarts == Init => FundInv
<1> SUFFICES ASSUME Init PROVE FundInv
  OBVIOUS
<1>1. SellInv
  BY SellStarts
<1>2. pool = <<>> /\ Len(pool) = 0 /\ 1..Len(pool) = {}
  BY DEF Init
<1>3. \A o \in Slot : step[o] = "new" /\ view[o].actual = Unread /\ logs[o] = <<>> /\ known[o] = "none"
  BY DEF Init, NoView
<1> HIDE DEF Unread
<1> QED BY <1>1, <1>2, <1>3
     DEF FundInv, Funded, PlacedOnce, HasReceipt, Reported, ViewIsActual, OneFunded, AllFunded, Busy

(* Where neither what is known nor its receipt changes.                    *)
LEMMA ReportedStays == ASSUME Reported, \A o \in Slot : known'[o] = known[o] /\ (known[o] # "none" => logs'[o] = logs[o])
                       PROVE  Reported'
  BY DEF Reported, Misleads

(* The types that matter here.                                             *)
LEMMA FundTypes ==
  ASSUME TypeOK
  PROVE  /\ step \in [Slot -> Steps] /\ allowance \in Nat /\ pool \in Seq(Tx) /\ Len(pool) \in Nat
         /\ \A o \in Slot : orders[o].actual \in Nat /\ orders[o].actual <= Unlimited
         /\ \A i \in 1..Len(pool) : pool[i] \in Tx /\ pool[i].slot \in Slot
<1>1. \A o \in Slot : orders[o] \in Order
  BY DEF TypeOK
<1>2. pool \in Seq(Tx)
  BY DEF TypeOK
<1>3. \A i \in 1..Len(pool) : pool[i] \in Tx
  BY <1>2
<1> QED BY <1>1, <1>2, <1>3 DEF TypeOK, Order, Amount, Tx

(* The application does something and sends nothing.                       *)
LEMMA QuietFunds ==
  ASSUME FundInv, NEW o \in Slot, NEW t \in Steps, UNCHANGED <<setup, pool, logs, orders, allowance>>,
         step' = [step EXCEPT ![o] = t], step[o] # "new", t # "new", Busy(o),
         t \in {"placed", "handing"} => logs[o] # <<>>,
         t \in {"approving", "approved"} => step[o] \in {"approving", "approved"},
         \A p \in Slot : view'[p].actual = view[p].actual
                           \/ (p = o /\ logs[p] # <<>> /\ (known[p] = p => view'[p].actual = orders[p].actual)),
         \A p \in Slot : known'[p] = known[p]
                           \/ (p = o /\ known[p] = "none" /\ t = "placed" /\ view'[p].actual = Unread),
         Reported'
  PROVE  Funded'
<1> USE DEF FundInv, Funded
<1>0. TypeOK
  BY DEF SellInv
<1>1. step \in [Slot -> Steps]
  BY <1>0, FundTypes
<1>2. PlacedOnce'
  BY <1>0, <1>1, FundTypes DEF PlacedOnce
<1>3. HasReceipt'
  BY <1>0, <1>1, FundTypes DEF HasReceipt
<1>4. ViewIsActual'
  <2> HIDE DEF Unread
  <2> QED BY DEF ViewIsActual
<1>5. OneFunded'
  <2> SUFFICES ASSUME setup.policy = "oneAtATime" PROVE OneFunded'
    BY DEF OneFunded
  <2>1. \A p, q \in Slot : Busy(p)' /\ Busy(q)' => p = q
    BY <1>1 DEF OneFunded, Busy
  <2>2. \A p \in Slot, i \in Nat : known'[p] = known[p] /\ Covers(i, p) => Covers(i, p)'
    BY DEF Covers
  <2>3. \A p \in Slot : step'[p] \in {"approving", "approved"} => Covers(Len(pool), p)'
    BY <1>0, <1>1, <2>2, FundTypes DEF OneFunded
  <2>4. ASSUME NEW i \in 1..Len(pool), pool[i].kind = "handOff" PROVE Covers(i - 1, pool[i].slot)'
    <3>1. pool[i].slot \in Slot /\ i - 1 \in Nat /\ Covers(i - 1, pool[i].slot)
      BY <1>0, <2>4, FundTypes DEF OneFunded
    <3>2. known[pool[i].slot] # "none"
      BY <2>4, <3>1, NoneAssumption DEF SellInv, HandedKnows
    <3> QED BY <2>2, <3>1, <3>2
  <2> QED BY <2>1, <2>3, <2>4 DEF OneFunded
<1>6. AllFunded'
  BY <1>1 DEF AllFunded, Granted
<1> QED BY <1>2, <1>3, <1>4, <1>5, <1>6

(* What a transaction more, or one less, makes of the pool.                *)
LEMMA Appended ==
  ASSUME pool \in Seq(Tx), NEW tx \in Tx, pool' = Append(pool, tx)
  PROVE  /\ Len(pool) \in Nat /\ Len(pool') = Len(pool) + 1 /\ pool'[Len(pool')] = tx
         /\ \A i \in 1..Len(pool) : i \in 1..Len(pool') /\ pool'[i] = pool[i]
         /\ \A i \in 1..Len(pool') : i \in 1..Len(pool) \/ i = Len(pool')
  OBVIOUS
LEMMA Shortened ==
  ASSUME pool \in Seq(Tx), pool # <<>>, pool' = Tail(pool)
  PROVE  /\ Len(pool) \in Nat /\ Len(pool') \in Nat /\ Len(pool) = Len(pool') + 1 /\ Head(pool) = pool[1]
         /\ 1 \in 1..Len(pool) /\ \A i \in 1..Len(pool') : i + 1 \in 1..Len(pool) /\ pool'[i] = pool[i + 1]
  OBVIOUS

LEMMA PlaceFunds == ASSUME FundInv, NEW o \in Slot, Place(o), UNCHANGED setup PROVE Funded'
<1> USE DEF FundInv, Funded
<1> DEFINE tx == [kind |-> "place", slot |-> o, amount |-> 0]
<1>0. TypeOK
  BY DEF SellInv
<1>1. step \in [Slot -> Steps] /\ pool \in Seq(Tx) /\ \A i \in 1..Len(pool) : pool[i].slot \in Slot
  BY <1>0, FundTypes
<1>2. step[o] = "new" /\ step' = [step EXCEPT ![o] = "placing"] /\ pool' = Append(pool, tx)
      /\ UNCHANGED <<setup, known, view, logs, orders, allowance>>
      /\ (setup.policy = "oneAtATime" => \A p \in Slot : ~Busy(p))
  BY DEF Place, Go, Send
<1>3. tx \in Tx /\ tx.kind = "place" /\ tx.slot = o
  BY DEF Tx, Amount
<1> HIDE DEF tx
<1>4. /\ Len(pool) \in Nat /\ Len(pool') = Len(pool) + 1 /\ pool'[Len(pool')] = tx
      /\ \A i \in 1..Len(pool) : i \in 1..Len(pool') /\ pool'[i] = pool[i]
      /\ \A i \in 1..Len(pool') : i \in 1..Len(pool) \/ i = Len(pool')
  BY <1>1, <1>2, <1>3, Appended
<1>5. PlacedOnce'
  BY <1>1, <1>2, <1>3, <1>4 DEF PlacedOnce
<1>6. HasReceipt' /\ Reported'
  BY <1>1, <1>2, <1>3, <1>4, ReportedStays DEF HasReceipt
<1>7. ViewIsActual'
  BY <1>2 DEF ViewIsActual
<1>8. OneFunded'
  <2> SUFFICES ASSUME setup.policy = "oneAtATime" PROVE OneFunded'
    BY <1>2 DEF OneFunded
  <2>1. \A p \in Slot : step[p] \in {"new", "done", "stopped"} /\ (p # o => step'[p] = step[p]) /\ step'[o] = "placing"
    BY <1>1, <1>2 DEF Busy
  <2>2. \A p, q \in Slot : Busy(p)' /\ Busy(q)' => p = q
    BY <2>1 DEF Busy
  <2>3. \A p \in Slot : step'[p] \notin {"approving", "approved"}
    BY <2>1
  <2>4. \A i \in 1..Len(pool') : pool'[i].kind = "handOff" => Covers(i - 1, pool[i].slot) /\ i \in 1..Len(pool)
    BY <1>3, <1>4 DEF OneFunded
  <2>5. \A i \in 1..Len(pool') : pool'[i].kind = "handOff" => Covers(i - 1, pool[i].slot)'
    BY <1>2, <1>4, <2>4 DEF Covers
  <2> QED BY <1>2, <2>2, <2>3, <2>5 DEF OneFunded
<1>9. AllFunded'
  <2> SUFFICES ASSUME setup.policy = "unlimited" PROVE AllFunded'
    BY <1>2 DEF AllFunded
  <2>1. /\ \A i \in 1..Len(pool) : pool[i].kind = "approve" => pool[i].amount = Unlimited
        /\ \A p \in Slot : step[p] \in {"approving", "approved"} => Granted(Len(pool))
        /\ \A i \in 1..Len(pool) : pool[i].kind = "handOff" => Granted(i - 1)
    BY <1>1 DEF AllFunded
  <2>2. ASSUME NEW n \in 0..Len(pool), Granted(n) PROVE Granted(n)' /\ (Granted(n + 1))'
    BY <1>2, <1>4, <2>2 DEF Granted
  <2>3. \A i \in 1..Len(pool') : pool'[i].kind = "approve" => pool'[i].amount = Unlimited
    BY <1>3, <1>4, <2>1
  <2>4. ASSUME NEW p \in Slot, step'[p] \in {"approving", "approved"} PROVE (Granted(Len(pool)))'
    <3>1. step[p] \in {"approving", "approved"}
      BY <1>1, <1>2, <2>4
    <3> QED BY <1>4, <2>1, <2>2, <3>1 DEF Granted
  <2>5. ASSUME NEW i \in 1..Len(pool'), pool'[i].kind = "handOff" PROVE (Granted(i - 1))'
    <3>1. i \in 1..Len(pool) /\ pool[i].kind = "handOff" /\ i - 1 \in 0..Len(pool)
      BY <1>3, <1>4, <2>5
    <3> QED BY <2>1, <2>2, <3>1
  <2> QED BY <1>2, <2>3, <2>4, <2>5 DEF AllFunded
<1> QED BY <1>5, <1>6, <1>7, <1>8, <1>9

LEMMA ApproveFunds ==
  ASSUME FundInv, NEW o \in Slot, UNCHANGED <<setup, known, view, logs, orders, allowance>>, NEW n \in Amount,
         step[o] = "placed", step' = [step EXCEPT ![o] = "approving"],
         pool' = Append(pool, [kind |-> "approve", slot |-> o, amount |-> n]),
         view[o].actual # Unread, n = IF setup.policy = "unlimited" THEN Unlimited ELSE view[o].actual
  PROVE  Funded'
<1> USE DEF FundInv, Funded
<1> DEFINE tx == [kind |-> "approve", slot |-> o, amount |-> n]
<1>0. TypeOK
  BY DEF SellInv
<1>1. step \in [Slot -> Steps] /\ pool \in Seq(Tx) /\ \A i \in 1..Len(pool) : pool[i].slot \in Slot
  BY <1>0, FundTypes
<1>2. tx \in Tx /\ tx.kind = "approve" /\ tx.slot = o /\ tx.amount = n /\ pool' = Append(pool, tx)
  BY DEF Tx
<1> HIDE DEF tx
<1>3. /\ Len(pool) \in Nat /\ Len(pool') = Len(pool) + 1 /\ pool'[Len(pool')] = tx
      /\ \A i \in 1..Len(pool) : i \in 1..Len(pool') /\ pool'[i] = pool[i]
      /\ \A i \in 1..Len(pool') : i \in 1..Len(pool) \/ i = Len(pool')
  BY <1>1, <1>2, Appended
<1>4. PlacedOnce'
  <2>1. \A i \in 1..Len(pool') : pool'[i].kind = "place" => i \in 1..Len(pool) /\ pool'[i] = pool[i]
    BY <1>2, <1>3
  <2>2. \A p \in Slot : step'[p] = "new" => step[p] = "new" /\ p # o
    BY <1>1
  <2>3. \A p \in Slot : step[p] # "new" => step'[p] # "new"
    BY <1>1
  <2>4. \A i \in 1..Len(pool') : pool'[i].kind = "place" => step'[pool'[i].slot] # "new" /\ logs'[pool'[i].slot] = <<>>
    BY <1>1, <2>1, <2>3 DEF PlacedOnce
  <2>5. \A i, j \in 1..Len(pool') :
          pool'[i].kind = "place" /\ pool'[j].kind = "place" /\ pool'[i].slot = pool'[j].slot => i = j
    BY <2>1 DEF PlacedOnce
  <2> QED BY <2>2, <2>4, <2>5 DEF PlacedOnce
<1>5. HasReceipt' /\ Reported'
  BY <1>1, <1>2, <1>3, ReportedStays DEF HasReceipt
<1>6. ViewIsActual'
  BY DEF ViewIsActual
<1>7. OneFunded'
  <2> SUFFICES ASSUME setup.policy = "oneAtATime" PROVE OneFunded'
    BY DEF OneFunded
  <2>1. known[o] = o /\ orders[o].status \in Open => n = orders[o].actual /\ orders[o].actual \in Nat
    BY <1>0, FundTypes DEF ViewIsActual
  <2>2. \A p \in Slot : Busy(p) => p = o
    BY DEF OneFunded, Busy
  <2>3. \A p \in Slot : step'[p] \notin {"new", "done", "stopped"} => p = o
    BY <1>1, <2>2 DEF Busy
  <2>4. Covers(Len(pool), o)'
    BY <1>2, <1>3, <2>1 DEF Covers
  <2>5. \A i \in 1..Len(pool') : pool'[i].kind = "handOff" => Covers(i - 1, pool[i].slot) /\ i \in 1..Len(pool)
    BY <1>2, <1>3 DEF OneFunded
  <2>6. \A i \in 1..Len(pool') : pool'[i].kind = "handOff" => Covers(i - 1, pool[i].slot)'
    BY <1>3, <2>5 DEF Covers
  <2> QED BY <1>3, <2>3, <2>4, <2>6 DEF OneFunded, Busy
<1>8. AllFunded'
  BY <1>1, <1>2, <1>3 DEF AllFunded, Granted
<1> QED BY <1>4, <1>5, <1>6, <1>7, <1>8

LEMMA HandOffFunds == ASSUME FundInv, NEW o \in Slot, HandOff(o), UNCHANGED setup PROVE Funded'
<1> USE DEF FundInv, Funded
<1> DEFINE tx == [kind |-> "handOff", slot |-> o, amount |-> 0]
<1>0. TypeOK
  BY DEF SellInv
<1>1. step \in [Slot -> Steps] /\ pool \in Seq(Tx) /\ \A i \in 1..Len(pool) : pool[i].slot \in Slot
  BY <1>0, FundTypes
<1>2. step[o] = "approved" /\ step' = [step EXCEPT ![o] = "handing"] /\ pool' = Append(pool, tx)
      /\ UNCHANGED <<setup, known, view, logs, orders, allowance>>
  BY DEF HandOff, Go, Send
<1>3. tx \in Tx /\ tx.kind = "handOff" /\ tx.slot = o
  BY DEF Tx, Amount
<1> HIDE DEF tx
<1>4. /\ Len(pool) \in Nat /\ Len(pool') = Len(pool) + 1 /\ pool'[Len(pool')] = tx
      /\ \A i \in 1..Len(pool) : i \in 1..Len(pool') /\ pool'[i] = pool[i]
      /\ \A i \in 1..Len(pool') : i \in 1..Len(pool) \/ i = Len(pool')
  BY <1>1, <1>2, <1>3, Appended
<1>5. PlacedOnce'
  BY <1>1, <1>2, <1>3, <1>4 DEF PlacedOnce
<1>6. HasReceipt' /\ Reported'
  BY <1>1, <1>2, <1>3, <1>4, ReportedStays DEF HasReceipt
<1>7. ViewIsActual'
  BY <1>2 DEF ViewIsActual
<1>8. OneFunded'
  <2> SUFFICES ASSUME setup.policy = "oneAtATime" PROVE OneFunded'
    BY <1>2 DEF OneFunded
  <2>1. \A p \in Slot : step'[p] \notin {"new", "done", "stopped"} => p = o
    BY <1>1, <1>2 DEF OneFunded, Busy
  <2>2. \A i \in 1..Len(pool) : Covers(i - 1, pool[i].slot)' <=> Covers(i - 1, pool[i].slot)
    BY <1>2, <1>4 DEF Covers
  <2>3. Covers(Len(pool), o)
    BY <1>2 DEF OneFunded
  <2>4. \A i \in 1..Len(pool') : pool'[i].kind = "handOff" => Covers(i - 1, pool[i].slot)'
    BY <1>2, <1>3, <1>4, <2>3 DEF OneFunded, Covers
  <2> QED BY <1>1, <1>2, <2>1, <2>4 DEF OneFunded, Busy
<1>9. AllFunded'
  BY <1>1, <1>2, <1>3, <1>4 DEF AllFunded, Granted
<1> QED BY <1>5, <1>6, <1>7, <1>8, <1>9

LEMMA AppFunds == ASSUME FundInv, NEW o \in Slot, App(o), UNCHANGED setup PROVE Funded'
<1>0. /\ TypeOK /\ GoneOnKnows /\ HasReceipt /\ step \in [Slot -> Steps]
      /\ view \in [Slot -> [order: BOOLEAN, actual: Amount \cup {Unread}]]
      /\ known \in [Slot -> Slot \cup {Foreign, "none"}]
      /\ known' = known => \/ ~UNCHANGED logs
                           \/ Reported'
  BY ReportedStays DEF FundInv, Funded, SellInv, TypeOK
<1>1. CASE Place(o)
  BY <1>1, PlaceFunds
<1>2. CASE HandOff(o)
  BY <1>2, HandOffFunds
<1>3. CASE PlacedReturns(o)
  <2>1. /\ UNCHANGED <<setup, pool, logs, orders, allowance, view>> /\ step' = [step EXCEPT ![o] = "placed"]
        /\ step[o] = "placing" /\ logs[o] # <<>> /\ Busy(o)
        /\ known' = [known EXCEPT ![o] = enrichWithOrderId(logs[o])]
    BY <1>3 DEF PlacedReturns, Go, Busy
  <2>2. known[o] = "none" /\ view[o].actual = Unread
    BY <2>1 DEF FundInv, SellInv, NothingYet
  <2>3. known'[o] = o \/ Misleads(logs[o])
    BY <1>0, <2>1, EnrichedIsOwn DEF FundInv, SellInv, LogsAreReceipts
  <2>4. Reported'
    BY <1>0, <2>1, <2>3 DEF FundInv, Funded, Reported, Misleads
  <2>5. \A p \in Slot : known'[p] = known[p] \/ (p = o /\ known[p] = "none" /\ view'[p].actual = Unread)
    BY <1>0, <2>1, <2>2
  <2> QED BY <2>1, <2>4, <2>5, QuietFunds DEF Steps
<1>4. CASE ApproveReturns(o) \/ HandOffReturns(o) \/ Stop(o)
  <2>1. PICK t \in {"approved", "done", "stopped"} : step' = [step EXCEPT ![o] = t] /\ (t = "approved" => step[o] = "approving")
    BY <1>4 DEF ApproveReturns, HandOffReturns, Stop, Go
  <2>2. UNCHANGED <<setup, pool, logs, orders, allowance, view, known>> /\ step[o] # "new" /\ Busy(o)
    BY <1>4 DEF ApproveReturns, HandOffReturns, Stop, Busy
  <2> QED BY <1>0, <2>1, <2>2, QuietFunds DEF Steps
<1>5. CASE ReadDetails(o) \/ ReadOrder(o)
  <2>1. known[o] \in {o, Foreign} /\ logs[o] # <<>> /\ step[o] = "placed" /\ Busy(o)
    BY <1>0, <1>5 DEF ReadDetails, ReadOrder, GoneOnKnows, HasReceipt, Busy
  <2>2. UNCHANGED <<setup, pool, logs, orders, allowance, step, known>> /\ step' = [step EXCEPT ![o] = step[o]]
    BY <1>0, <1>5 DEF ReadDetails, ReadOrder
  <2>3. \A p \in Slot : view'[p].actual = view[p].actual
                          \/ (p = o /\ logs[p] # <<>> /\ (known[p] = p => view'[p].actual = orders[p].actual))
    <3>1. CASE ReadDetails(o)
      BY <1>0, <2>1, <3>1 DEF ReadDetails
    <3>2. CASE ReadOrder(o)
      BY <1>0, <2>1, <3>2 DEF ReadOrder
    <3> QED BY <1>5, <3>1, <3>2
  <2> QED BY <1>0, <2>1, <2>2, <2>3, QuietFunds DEF Steps
<1>6. CASE Approve(o)
  <2>1. step[o] = "placed" /\ view[o].actual # Unread /\ UNCHANGED <<setup, known, view, logs, orders, allowance>>
    BY <1>6 DEF Approve
  <2>2. view[o].actual \in Amount /\ Unlimited \in Amount
    BY <1>0, <2>1 DEF Amount
  <2> DEFINE n == IF setup.policy = "unlimited" THEN Unlimited ELSE view[o].actual
  <2>3. n \in Amount
    BY <2>2
  <2>4. \/ step' = [step EXCEPT ![o] = "stopped"] /\ pool' = pool
        \/ step' = [step EXCEPT ![o] = "approving"] /\ pool' = Append(pool, [kind |-> "approve", slot |-> o, amount |-> n])
    BY <1>6 DEF Approve, Go, Send
  <2>5. CASE step' = [step EXCEPT ![o] = "stopped"] /\ pool' = pool
    BY <1>0, <2>1, <2>5, QuietFunds DEF Steps, Busy
  <2>6. CASE step' = [step EXCEPT ![o] = "approving"] /\ pool' = Append(pool, [kind |-> "approve", slot |-> o, amount |-> n])
    BY <2>1, <2>3, <2>6, ApproveFunds
  <2> QED BY <2>4, <2>5, <2>6
<1> QED BY <1>1, <1>2, <1>3, <1>4, <1>5, <1>6 DEF App

(* An order of the application asks for what it asked, or is open no more; *)
(* so does the rest of the pool, behind what is mined.                     *)
OpenStays(o) == orders'[o].status \in Open => orders[o].status \in Open /\ orders'[o].actual = orders[o].actual
Leaves(o) == logs'[o] = logs[o] /\ OpenStays(o)

LEMMA WorldFunds ==
  ASSUME FundInv, \A o \in Slot : OpenStays(o), UNCHANGED <<setup, step, known, view, pool, logs, allowance>> PROVE Funded'
<1> USE DEF FundInv, Funded
<1>1. TypeOK
  BY DEF SellInv
<1>2. PlacedOnce' /\ HasReceipt' /\ Reported'
  BY ReportedStays DEF PlacedOnce, HasReceipt
<1>3. ViewIsActual'
  BY DEF ViewIsActual, OpenStays
<1>4. OneFunded'
  <2> SUFFICES ASSUME setup.policy = "oneAtATime" PROVE OneFunded'
    BY DEF OneFunded
  <2>1. \A o \in Slot, i \in Nat : Covers(i, o) => Covers(i, o)'
    BY DEF Covers, OpenStays
  <2>2. \A i \in 1..Len(pool) : pool[i].slot \in Slot /\ i - 1 \in Nat
    BY <1>1, FundTypes
  <2>3. Len(pool) \in Nat
    BY <1>1, FundTypes
  <2> QED BY <2>1, <2>2, <2>3 DEF OneFunded, Busy
<1>5. AllFunded'
  BY DEF AllFunded, Granted
<1> QED BY <1>2, <1>3, <1>4, <1>5

(* The first transaction is mined.  A placement opens an order nobody has  *)
(* read or approved for; an approval stands right before what it is for.   *)
LEMMA MinedFunds ==
  ASSUME FundInv, pool # <<>>, pool' = Tail(pool), UNCHANGED <<setup, step, known, view>>,
         \A o \in Slot : Leaves(o) \/ (Head(pool).kind = "place" /\ Head(pool).slot = o /\ logs'[o] # <<>>),
         Head(pool).kind = "approve" => allowance' = Head(pool).amount,
         Head(pool).kind = "place" => allowance' = allowance,
         Head(pool).kind = "handOff" /\ allowance = Unlimited => allowance' = Unlimited
  PROVE  Funded'
<1> USE DEF FundInv, Funded
<1>0. TypeOK /\ pool \in Seq(Tx) /\ \A i \in 1..Len(pool) : pool[i].slot \in Slot /\ pool[i] \in Tx
  BY FundTypes DEF SellInv
<1>1. /\ Len(pool) \in Nat /\ Len(pool') \in Nat /\ Len(pool) = Len(pool') + 1 /\ Head(pool) = pool[1]
      /\ 1 \in 1..Len(pool) /\ \A i \in 1..Len(pool') : i + 1 \in 1..Len(pool) /\ pool'[i] = pool[i + 1]
  BY <1>0, Shortened
<1> DEFINE h == pool[1]
<1>2. /\ h.slot \in Slot /\ h.kind \in {"place", "approve", "handOff"}
      /\ h.kind = "place" => logs[h.slot] = <<>> /\ step[h.slot] # "new"
  BY <1>0, <1>1 DEF PlacedOnce, Tx
<1>3. \A o \in Slot : logs[o] # <<>> =>
        /\ logs'[o] # <<>>
        /\ orders'[o].status \in Open => orders[o].status \in Open /\ orders'[o].actual = orders[o].actual
  BY <1>1, <1>2 DEF Leaves, OpenStays
<1>4. \A i \in 1..Len(pool') : pool'[i].kind = "place" => h.kind # "place" \/ h.slot # pool'[i].slot
  <2> SUFFICES ASSUME NEW i \in 1..Len(pool'), pool'[i].kind = "place", h.kind = "place", h.slot = pool'[i].slot
               PROVE FALSE
    OBVIOUS
  <2>1. i + 1 \in 1..Len(pool) /\ pool[i + 1].kind = "place" /\ pool[i + 1].slot = h.slot /\ i + 1 # 1
    BY <1>1
  <2> QED BY <1>1, <2>1 DEF PlacedOnce
<1>5. PlacedOnce'
  <2>1. \A o \in Slot : step'[o] = "new" => logs'[o] = <<>>
    BY <1>1, <1>2 DEF PlacedOnce, Leaves
  <2>2. \A i \in 1..Len(pool') : pool'[i].kind = "place" => step'[pool'[i].slot] # "new" /\ logs'[pool'[i].slot] = <<>>
    BY <1>0, <1>1, <1>4 DEF PlacedOnce, Leaves
  <2>3. \A i, j \in 1..Len(pool') :
          pool'[i].kind = "place" /\ pool'[j].kind = "place" /\ pool'[i].slot = pool'[j].slot => i = j
    <3> SUFFICES ASSUME NEW i \in 1..Len(pool'), NEW j \in 1..Len(pool'),
                        pool'[i].kind = "place", pool'[j].kind = "place", pool'[i].slot = pool'[j].slot
                 PROVE i = j
      OBVIOUS
    <3>1. i + 1 = j + 1
      BY <1>1 DEF PlacedOnce
    <3> QED BY <3>1
  <2> QED BY <2>1, <2>2, <2>3 DEF PlacedOnce
<1>6. HasReceipt' /\ Reported'
  <2>1. HasReceipt'
    BY <1>0, <1>1, <1>3 DEF HasReceipt
  <2>2. \A o \in Slot : known[o] # "none" => logs'[o] = logs[o]
    BY <1>1, <1>2 DEF Leaves, Reported
  <2> QED BY <2>1, <2>2, ReportedStays
<1>7. ViewIsActual'
  BY <1>3 DEF ViewIsActual, HasReceipt
<1>8. ASSUME NEW o \in Slot, logs[o] # <<>>, NEW i \in 0..Len(pool'), Covers(i + 1, o) PROVE Covers(i, o)'
  <2>1. CASE i = 0
    BY <1>1, <1>3, <1>8, <2>1 DEF Covers
  <2>2. CASE i \in 1..Len(pool')
    BY <1>1, <1>3, <1>8, <2>2 DEF Covers
  <2> QED BY <1>1, <2>1, <2>2
<1>9. OneFunded'
  <2> SUFFICES ASSUME setup.policy = "oneAtATime" PROVE OneFunded'
    BY DEF OneFunded
  <2>1. \A o, p \in Slot : Busy(o)' /\ Busy(p)' => o = p
    BY DEF OneFunded, Busy
  <2>2. \A o \in Slot : step'[o] \in {"approving", "approved"} => Covers(Len(pool), o)'
    <3> SUFFICES ASSUME NEW o \in Slot, step[o] \in {"approving", "approved"} PROVE Covers(Len(pool), o)'
      OBVIOUS
    <3>1. Covers(Len(pool') + 1, o) /\ logs[o] # <<>> /\ Len(pool') \in 0..Len(pool')
      BY <1>1 DEF OneFunded, HasReceipt
    <3>2. \A i \in 0..Len(pool') : Covers(i + 1, o) => Covers(i, o)'
      BY <1>8, <3>1
    <3> QED BY <3>1, <3>2
  <2>3. \A i \in 1..Len(pool') : pool'[i].kind = "handOff" => Covers(i - 1, pool[i].slot)'
    <3> SUFFICES ASSUME NEW i \in 1..Len(pool'), pool'[i].kind = "handOff" PROVE Covers(i - 1, pool[i].slot)'
      OBVIOUS
    <3>1. PICK o \in Slot :
            /\ i + 1 \in 1..Len(pool) /\ pool[i + 1].kind = "handOff" /\ pool[i + 1].slot = o /\ pool'[i].slot = o
            /\ i - 1 \in 0..Len(pool') /\ (i + 1) - 1 = (i - 1) + 1
      BY <1>0, <1>1
    <3>2. Covers((i - 1) + 1, o) /\ logs[o] # <<>>
      BY <3>1 DEF OneFunded, HasReceipt
    <3>3. \A k \in 0..Len(pool') : Covers(k + 1, o) => Covers(k, o)'
      BY <1>8, <3>1, <3>2
    <3>4. Covers(i - 1, o)'
      BY <3>1, <3>2, <3>3
    <3> QED BY <3>1, <3>4 DEF Covers
  <2> QED BY <2>1, <2>2, <2>3 DEF OneFunded
<1>10. AllFunded'
  <2> SUFFICES ASSUME setup.policy = "unlimited" PROVE AllFunded'
    BY DEF AllFunded
  <2>1. \A i \in 1..Len(pool') : pool'[i].kind = "approve" => pool'[i].amount = Unlimited
    BY <1>1 DEF AllFunded
  <2>2. \A n \in 0..Len(pool') : Granted(n + 1) => Granted(n)'
    <3> SUFFICES ASSUME NEW n \in 0..Len(pool'), Granted(n + 1) PROVE Granted(n)'
      OBVIOUS
    <3>1. CASE allowance = Unlimited
      BY <1>1, <1>2, <3>1 DEF AllFunded, Granted
    <3>2. ASSUME NEW i \in 1..(n + 1), pool[i].kind = "approve" PROVE Granted(n)'
      <4>1. CASE i = 1
        BY <1>1, <3>2, <4>1 DEF AllFunded, Granted
      <4>2. CASE i # 1
        <5>1. i - 1 \in 1..n /\ i - 1 \in 1..Len(pool') /\ pool'[i - 1] = pool[(i - 1) + 1] /\ (i - 1) + 1 = i
          BY <1>1, <4>2
        <5> QED BY <3>2, <5>1 DEF Granted
      <4> QED BY <4>1, <4>2
    <3> QED BY <3>1, <3>2 DEF Granted
  <2>3. \A o \in Slot : step'[o] \in {"approving", "approved"} => Granted(Len(pool))'
    BY <1>1, <2>2 DEF AllFunded
  <2>4. \A i \in 1..Len(pool') : pool'[i].kind = "handOff" => Granted(i - 1)'
    <3> SUFFICES ASSUME NEW i \in 1..Len(pool'), pool'[i].kind = "handOff" PROVE Granted(i - 1)'
      OBVIOUS
    <3>1. i + 1 \in 1..Len(pool) /\ pool[i + 1].kind = "handOff" /\ i - 1 \in 0..Len(pool') /\ (i + 1) - 1 = (i - 1) + 1
      BY <1>1
    <3> QED BY <2>2, <3>1 DEF AllFunded
  <2> QED BY <2>1, <2>3, <2>4 DEF AllFunded
<1> QED BY <1>5, <1>6, <1>7, <1>9, <1>10

(* What becomes of an order once it is there opens none.                   *)
LEMMA ChangeKeepsOpen ==
  ASSUME orders \in [Slot \cup {Foreign} -> Order], NEW p \in Slot \cup {Foreign},
         \/ orders[p].status = "placed" /\ orders' = [orders EXCEPT ![p].status = "accepted"]
         \/ \E s \in {"paid", "completed"} : orders' = [orders EXCEPT ![p].status = s]
         \/ orders' = [orders EXCEPT ![p] = [status |-> "cancelled", actual |-> 0]]
         \/ orders' = orders
  PROVE  \A o \in Slot : OpenStays(o)
<1> SUFFICES ASSUME NEW o \in Slot PROVE OpenStays(o)
  OBVIOUS
<1>1. CASE o # p \/ orders' = orders
  <2>1. orders'[o] = orders[o]
    BY <1>1
  <2> QED BY <2>1 DEF OpenStays
<1>2. CASE o = p /\ orders' # orders
  <2>1. orders[o] \in Order
    OBVIOUS
  <2>2. \/ orders[o].status = "placed" /\ orders'[o] = [orders[o] EXCEPT !.status = "accepted"]
        \/ \E s \in {"paid", "completed"} : orders'[o] = [orders[o] EXCEPT !.status = s]
        \/ orders'[o] = [status |-> "cancelled", actual |-> 0]
    BY <1>2
  <2> QED BY <2>1, <2>2 DEF OpenStays, Open, Order
<1> QED BY <1>1, <1>2

LEMMA ChainFunds ==
  ASSUME FundInv, UNCHANGED setup,
         PlaceMined \/ ApproveMined \/ HandOffMined \/ FeeChanges
           \/ \E o \in Slot \cup {Foreign} : MerchantActs(o) \/ Cancelled(o)
  PROVE  Funded'
<1>0. TypeOK /\ SellInv
  BY DEF FundInv, SellInv
<1>1. /\ orders \in [Slot \cup {Foreign} -> Order] /\ logs \in [Slot -> Seq(Event)] /\ allowance \in Nat
      /\ pool # <<>> => Head(pool) \in Tx /\ Head(pool).slot \in Slot
  <2>1. pool # <<>> => Head(pool) = pool[1] /\ 1 \in 1..Len(pool)
    BY <1>0 DEF TypeOK
  <2> QED BY <1>0, <2>1, FundTypes DEF TypeOK
<1>2. CASE PlaceMined
  <2> DEFINE h == Head(pool).slot
  <2>1. pool # <<>> /\ pool' = Tail(pool) /\ Head(pool).kind = "place" /\ h \in Slot /\ UNCHANGED <<step, known, view, allowance>>
    BY <1>1, <1>2 DEF PlaceMined
  <2>2. ASSUME NEW o \in Slot PROVE Leaves(o) \/ (h = o /\ logs'[o] # <<>>)
    <3>1. o # Foreign
      OBVIOUS
    <3>2. CASE UNCHANGED <<orders, logs>>
      BY <3>2 DEF Leaves, OpenStays
    <3>3. CASE ~UNCHANGED <<orders, logs>>
      <4>1. /\ orders' \in {[orders EXCEPT ![h] = NewOrder], [orders EXCEPT ![Foreign] = NewOrder],
                           [orders EXCEPT ![h] = NewOrder, ![Foreign] = NewOrder]}
            /\ \E x, y : logs' \in {[logs EXCEPT ![h] = <<x>>], [logs EXCEPT ![h] = <<x, y>>]}
        BY <1>2, <3>3 DEF PlaceMined
      <4>2. h # o => orders'[o] = orders[o] /\ logs'[o] = logs[o]
        <5> HIDE DEF h
        <5> QED BY <1>1, <2>1, <3>1, <4>1
      <4>3. ASSUME h = o PROVE logs'[o] # <<>>
        <5>1. PICK x, y : logs' \in {[logs EXCEPT ![h] = <<x>>], [logs EXCEPT ![h] = <<x, y>>]}
          BY <4>1
        <5>2. logs'[o] \in {<<x>>, <<x, y>>}
          <6> HIDE DEF h
          <6> QED BY <1>1, <4>3, <5>1
        <5>3. <<x>> # <<>> /\ <<x, y>> # <<>>
          OBVIOUS
        <5> QED BY <5>2, <5>3, Zenon
      <4> QED BY <4>2, <4>3 DEF Leaves, OpenStays
    <3> QED BY <3>2, <3>3
  <2> HIDE DEF h
  <2> QED BY <2>1, <2>2, MinedFunds DEF h
<1>3. CASE ApproveMined
  <2>1. /\ pool # <<>> /\ pool' = Tail(pool) /\ Head(pool).kind = "approve" /\ allowance' = Head(pool).amount
        /\ UNCHANGED <<step, known, view, logs, orders>>
    BY <1>3 DEF ApproveMined
  <2>2. \A o \in Slot : Leaves(o)
    BY <2>1 DEF Leaves, OpenStays
  <2> QED BY <2>1, <2>2, MinedFunds
<1>4. CASE HandOffMined
  <2>1. /\ pool # <<>> /\ pool' = Tail(pool) /\ Head(pool).kind = "handOff"
        /\ UNCHANGED <<step, known, view, logs>>
    BY <1>4 DEF HandOffMined
  <2>2. allowance = Unlimited => allowance' = Unlimited
    BY <1>4 DEF HandOffMined
  <2>3. \A o \in Slot : Leaves(o)
    <3> DEFINE h == known[Head(pool).slot]
    <3>1. h \in Slot \cup {Foreign}
      BY <1>0, <1>1, <2>1, PoolMoves, <1>4 DEF HandOffMined
    <3>2. \/ orders' = [orders EXCEPT ![h].status = "paid"]
          \/ orders' = [orders EXCEPT ![h] = [status |-> "cancelled", actual |-> 0]]
          \/ orders' = orders
      BY <1>4 DEF HandOffMined
    <3> HIDE DEF h
    <3>3. \A o \in Slot : OpenStays(o)
      BY <1>1, <3>1, <3>2, ChangeKeepsOpen
    <3> QED BY <2>1, <3>3 DEF Leaves
  <2> QED BY <2>1, <2>2, <2>3, MinedFunds
<1>5. CASE FeeChanges
  <2>1. UNCHANGED <<step, known, view, pool, logs, orders, allowance>>
    BY <1>5 DEF FeeChanges
  <2> QED BY <2>1, WorldFunds DEF OpenStays
<1>6. ASSUME NEW p \in Slot \cup {Foreign}, MerchantActs(p) \/ Cancelled(p) PROVE Funded'
  <2>1. UNCHANGED <<step, known, view, pool, logs, allowance>>
    BY <1>6 DEF MerchantActs, Cancelled
  <2>2. \A o \in Slot : OpenStays(o)
    BY <1>1, <1>6, ChangeKeepsOpen DEF MerchantActs, Cancelled
  <2> QED BY <2>1, <2>2, WorldFunds
<1> QED BY <1>2, <1>3, <1>4, <1>5, <1>6

LEMMA FundStepKeeps == FundInv /\ [Next]_vars => FundInv'
<1> SUFFICES ASSUME FundInv, [Next]_vars PROVE FundInv'
  OBVIOUS
<1>1. SellInv'
  BY SellStepKeeps DEF FundInv
<1>2. CASE UNCHANGED vars
  <2>1. Funded'
    BY <1>2 DEF vars, FundInv, Funded, PlacedOnce, HasReceipt, Reported, Misleads, ViewIsActual, OneFunded, AllFunded,
                Covers, Granted, Busy
  <2> QED BY <1>1, <2>1 DEF FundInv
<1>3. CASE Next
  BY <1>1, <1>3, AppFunds, ChainFunds DEF Next, FundInv
<1> QED BY <1>2, <1>3

(* A hand-off that is mined finds its order's amount in the allowance.     *)
LEMMA HandOffPays ==
  ASSUME FundInv, setup.policy # "documented", HandOffMined,
         NEW o \in Slot, Head(pool).slot = o, known[o] = o, orders[o].status = "accepted"
  PROVE  orders'[o].status = "paid"
<1> USE DEF FundInv, Funded
<1>1. TypeOK /\ SellInv
  BY DEF SellInv
<1>2. /\ pool # <<>> /\ Head(pool) = pool[1] /\ 1 \in 1..Len(pool) /\ pool[1].kind = "handOff" /\ pool[1].slot = o
      /\ 1 - 1 = 0 /\ 1..0 = {}
  BY <1>1, SMTT(30) DEF HandOffMined, TypeOK
<1>3. known[o] = o
  OBVIOUS
<1>4. orders[o].actual \in Nat /\ orders[o].actual <= Unlimited /\ allowance \in Nat /\ orders \in [Slot \cup {Foreign} -> Order]
  BY <1>1, FundTypes DEF TypeOK
<1>5. setup.policy \in {"oneAtATime", "unlimited"}
  BY <1>1 DEF TypeOK
<1>6. allowance >= orders[o].actual
  <2>1. CASE setup.policy = "oneAtATime"
    BY <1>2, <2>1 DEF OneFunded, Covers, Open
  <2>2. CASE setup.policy = "unlimited"
    <3>1. Granted(0)
      BY <1>2, <2>2 DEF AllFunded
    <3>2. allowance = Unlimited
      BY <1>2, <3>1 DEF Granted
    <3> QED BY <1>4, <3>2
  <2> QED BY <1>5, <2>1, <2>2
<1>7. orders' = [orders EXCEPT ![o].status = "paid"]
  BY <1>2, <1>3, <1>4, <1>6, SMTT(30) DEF HandOffMined
<1> QED BY <1>4, <1>7 DEF Order

----------------------------------------------------------------------------
(* Orders, newest first                                                    *)

(* How many of S come after i.                                             *)
Above(S, i) == {j \in S : j > i}
Rank(S, i) == Cardinality(Above(S, i))

LEMMA SmallestExists ==
  ASSUME NEW S \in SUBSET Nat, S # {} PROVE \E m \in S : \A i \in S : m <= i
<1> DEFINE R == {ss \in Nat \X Nat : ss[1] < ss[2]}
<1>1. IsWellFoundedOn(R, Nat)
  BY NatLessThanWellFounded DEF OpToRel
<1> HIDE DEF R
<1>2. PICK m \in S : \A i \in S : <<i, m>> \notin R
  BY <1>1, WFMin
<1>3. ASSUME NEW i \in S PROVE m <= i
  <2>1. ~(i < m)
    BY <1>2 DEF R
  <2> QED BY <2>1
<1> QED BY <1>3

LEMMA RankRange ==
  ASSUME NEW n \in Nat, NEW S \in SUBSET (1..n), NEW i \in S
  PROVE  /\ IsFiniteSet(S) /\ IsFiniteSet(Above(S, i)) /\ Cardinality(S) \in Nat
         /\ Rank(S, i) \in Nat /\ Rank(S, i) < Cardinality(S)
<1>1. IsFiniteSet(1..n)
  BY FS_Interval
<1>2. IsFiniteSet(S)
  BY <1>1, FS_Subset
<1>3. IsFiniteSet(S \ {i}) /\ Cardinality(S \ {i}) = Cardinality(S) - 1 /\ Cardinality(S) \in Nat
  BY <1>2, FS_RemoveElement, FS_CardinalityType
<1>4. Above(S, i) \in SUBSET (S \ {i})
  BY DEF Above
<1>5. IsFiniteSet(Above(S, i)) /\ Rank(S, i) <= Cardinality(S) - 1
  BY <1>3, <1>4, FS_Subset DEF Rank
<1>6. Rank(S, i) \in Nat
  BY <1>5, FS_CardinalityType DEF Rank
<1> QED BY <1>2, <1>3, <1>5, <1>6

(* The newer one has fewer above it.                                       *)
LEMMA RanksDiffer ==
  ASSUME NEW n \in Nat, NEW S \in SUBSET (1..n), NEW i \in S, NEW j \in S, i < j
  PROVE  Rank(S, j) < Rank(S, i)
<1>1. IsFiniteSet(Above(S, j)) /\ IsFiniteSet(Above(S, i)) /\ Rank(S, i) \in Nat /\ Rank(S, j) \in Nat
  BY RankRange
<1>2. j \notin Above(S, j) /\ Above(S, j) \cup {j} \in SUBSET Above(S, i)
  <2>1. i \in Nat /\ j \in Nat /\ \A l \in S : l \in Nat
    OBVIOUS
  <2>2. j \notin Above(S, j) /\ j \in Above(S, i)
    BY <2>1 DEF Above
  <2>3. ASSUME NEW l \in Above(S, j) PROVE l \in Above(S, i)
    <3>1. l \in S /\ l > j /\ l \in Nat
      BY <2>1, <2>3 DEF Above
    <3>2. l > i
      BY <2>1, <3>1
    <3> QED BY <3>1, <3>2 DEF Above
  <2> QED BY <2>2, <2>3
<1>3. Cardinality(Above(S, j) \cup {j}) = Rank(S, j) + 1
  BY <1>1, <1>2, FS_AddElement DEF Rank
<1>4. Cardinality(Above(S, j) \cup {j}) <= Rank(S, i)
  BY <1>1, <1>2, FS_Subset DEF Rank
<1> QED BY <1>1, <1>3, <1>4

(* There is an order at every place of the list.                           *)
LEMMA RankExists ==
  ASSUME NEW n \in Nat, NEW S \in SUBSET (1..n), NEW k \in Nat, k < Cardinality(S)
  PROVE  \E i \in S : Rank(S, i) = k
<1> DEFINE Bad == {m \in Nat : m < Cardinality(S) /\ ~\E i \in S : Rank(S, i) = m}
<1> SUFFICES ASSUME Bad # {} PROVE FALSE
  OBVIOUS
<1>1. PICK m \in Bad : \A l \in Bad : m <= l
  <2>1. Bad \in SUBSET Nat
    OBVIOUS
  <2> HIDE DEF Bad
  <2> QED BY <2>1, SmallestExists
<1>2. m \in Nat /\ m < Cardinality(S) /\ \A i \in S : Rank(S, i) # m
  BY <1>1
<1>3. \A l \in S : l \in Nat
  OBVIOUS
<1>4. IsFiniteSet(S) /\ Cardinality(S) \in Nat
  <2>1. IsFiniteSet(1..n)
    BY FS_Interval
  <2>2. IsFiniteSet(S)
    BY <2>1, FS_Subset
  <2> QED BY <2>2, FS_CardinalityType
<1>5. CASE m = 0
  <2>1. S # {}
    BY <1>2, <1>4, <1>5, FS_EmptySet
  <2>2. PICK i \in S : \A j \in S : i >= j
    BY <2>1, LargestExists
  <2>3. Above(S, i) = {}
    <3>1. \A j \in S : ~(j > i)
      BY <1>3, <2>2
    <3> QED BY <3>1 DEF Above
  <2> QED BY <1>2, <1>5, <2>2, <2>3, FS_EmptySet DEF Rank
<1>6. CASE m # 0
  <2>1. m - 1 \in Nat /\ m - 1 < Cardinality(S) /\ m - 1 \notin Bad
    BY <1>1, <1>2, <1>4, <1>6
  <2>2. PICK i \in S : Rank(S, i) = m - 1
    BY <2>1
  <2> HIDE DEF Bad
  <2> DEFINE Below == {j \in S : j < i}
  <2>3. IsFiniteSet(Above(S, i)) /\ i \notin Above(S, i)
    <3>1. IsFiniteSet(Above(S, i))
      BY RankRange
    <3>2. i \in Nat
      BY <1>3
    <3> QED BY <3>1, <3>2 DEF Above
  <2>4. Cardinality(Above(S, i) \cup {i}) = m
    <3>1. Cardinality(Above(S, i) \cup {i}) = Cardinality(Above(S, i)) + 1
      BY <2>3, FS_AddElement
    <3>2. Cardinality(Above(S, i)) = m - 1
      BY <2>2 DEF Rank
    <3> QED BY <1>2, <3>1, <3>2
  <2>5. Below # {}
    <3> SUFFICES ASSUME Below = {} PROVE FALSE
      OBVIOUS
    <3>1. ASSUME NEW l \in S PROVE l \in Above(S, i) \cup {i}
      <4>1. l \in Nat /\ i \in Nat /\ l \notin Below
        BY <1>3
      <4>2. ~(l < i)
        BY <4>1
      <4> QED BY <4>1, <4>2 DEF Above
    <3>2. S = Above(S, i) \cup {i}
      BY <3>1 DEF Above
    <3> QED BY <1>2, <1>4, <2>4, <3>2
  <2>6. PICK j \in Below : \A l \in Below : j >= l
    <3>1. Below \in SUBSET (1..n)
      OBVIOUS
    <3> HIDE DEF Below
    <3> QED BY <2>5, <3>1, LargestExists
  <2>7. Above(S, j) = Above(S, i) \cup {i}
    <3>1. j \in S /\ j < i /\ j \in Nat /\ i \in Nat
      BY <1>3
    <3>2. ASSUME NEW l \in S, l > j PROVE l > i \/ l = i
      <4>1. l \in Nat
        BY <1>3
      <4>2. l < i => l \in Below
        OBVIOUS
      <4> QED BY <2>6, <3>1, <3>2, <4>1, <4>2
    <3>3. \A l \in S : l \in Nat
      BY <1>3
    <3> HIDE DEF Below
    <3>4. \A l \in S : l > j <=> l > i \/ l = i
      BY <3>1, <3>2, <3>3
    <3> QED BY <3>1, <3>4 DEF Above
  <2> QED BY <1>2, <2>4, <2>6, <2>7 DEF Rank
<1> QED BY <1>5, <1>6

(* The first k of the list are k orders.                                   *)
LEMMA TopCounts ==
  ASSUME NEW n \in Nat, NEW S \in SUBSET (1..n), NEW k \in Nat, k <= Cardinality(S)
  PROVE  k <= Cardinality({i \in S : Rank(S, i) < k})
<1> DEFINE Top == {i \in S : Rank(S, i) < k}
<1> DEFINE f == [m \in 0..k - 1 |-> CHOOSE i \in S : Rank(S, i) = m]
<1>1. IsFiniteSet(S) /\ Cardinality(S) \in Nat
  <2>1. IsFiniteSet(1..n)
    BY FS_Interval
  <2>2. IsFiniteSet(S)
    BY <2>1, FS_Subset
  <2> QED BY <2>2, FS_CardinalityType
<1>2. \A m \in 0..k - 1 : f[m] \in S /\ Rank(S, f[m]) = m
  <2> SUFFICES ASSUME NEW m \in 0..k - 1 PROVE f[m] \in S /\ Rank(S, f[m]) = m
    OBVIOUS
  <2>1. m \in Nat /\ m < Cardinality(S)
    BY <1>1
  <2>2. \E i \in S : Rank(S, i) = m
    BY <2>1, RankExists
  <2> QED BY <2>2
<1>3. f \in [0..k - 1 -> Top]
  BY <1>2
<1>4. f \in Injection(0..k - 1, Top)
  <2> HIDE DEF f, Top
  <2> QED BY <1>2, <1>3 DEF Injection, IsInjective
<1>5. IsFiniteSet(Top)
  BY <1>1, FS_Subset
<1>6. Cardinality(0..k - 1) = k
  <2>1. IF 0 > k - 1 THEN 0 = k ELSE (k - 1) - 0 + 1 = k
    OBVIOUS
  <2> QED BY <2>1, FS_Interval
<1> HIDE DEF f, Top
<1>7. Cardinality(0..k - 1) <= Cardinality(Top)
  BY <1>4, <1>5, FS_Injection
<1> QED BY <1>6, <1>7 DEF Top
(* With more orders, none has fewer newer ones.                            *)
LEMMA RankGrows ==
  ASSUME NEW n \in Nat, NEW S \in SUBSET (1..n), NEW T \in SUBSET S, NEW i \in T
  PROVE  Rank(T, i) <= Rank(S, i)
<1>1. IsFiniteSet(Above(S, i))
  BY RankRange
<1>2. Above(T, i) \subseteq Above(S, i)
  BY DEF Above
<1> QED BY <1>1, <1>2, FS_Subset DEF Rank

(* A page has the orders at the places asked for, as far as there are any. *)
LEMMA PageIsWhole ==
  ASSUME NEW n \in Nat, NEW skip \in Nat, skip <= Cardinality(Own(n))
  PROVE  /\ Page(n, skip) \in Seq(Own(n)) /\ Len(Page(n, skip)) <= PageSize
         /\ skip + Len(Page(n, skip)) <= Cardinality(Own(n))
         /\ Len(Page(n, skip)) < PageSize => skip + Len(Page(n, skip)) = Cardinality(Own(n))
         /\ \A i \in Own(n) : Rank(Own(n), i) >= skip /\ i \notin ToSet(Page(n, skip))
                                => Rank(Own(n), i) >= skip + Len(Page(n, skip))
<1> DEFINE S == Own(n)
<1>1. S \in SUBSET (1..n)
  BY DEF Own
<1>2. IsFiniteSet(S) /\ Cardinality(S) \in Nat
  <2>1. IsFiniteSet(1..n)
    BY FS_Interval
  <2>2. IsFiniteSet(S)
    BY <1>1, <2>1, FS_Subset
  <2> QED BY <2>2, FS_CardinalityType
<1> HIDE DEF S
<1> DEFINE rest == Cardinality(S) - skip
<1>3. PICK len \in Nat : /\ len = IF PageSize <= rest THEN PageSize ELSE rest
                        /\ Min({PageSize, rest}) = len
  <2>1. rest \in Nat
    BY <1>2 DEF S
  <2>2. Min({PageSize, rest}) = IF PageSize <= rest THEN PageSize ELSE rest
    <3> HIDE DEF rest
    <3> QED BY <2>1 DEF Min
  <2> QED BY <2>1, <2>2
<1>4. len <= PageSize /\ skip + len <= Cardinality(S) /\ (len < PageSize => skip + len = Cardinality(S))
  BY <1>2, <1>3 DEF S
<1>5. Page(n, skip) = [k \in 1..len |-> Nth(n, skip + k - 1)]
  <2>1. Page(n, skip) = [k \in 1..Min({PageSize, rest}) |-> Nth(n, skip + k - 1)]
    BY DEF Page, S
  <2> QED BY <1>3, <2>1
<1> HIDE DEF rest
<1>6. ASSUME NEW k \in 1..len
      PROVE  Nth(n, skip + k - 1) \in S /\ Rank(S, Nth(n, skip + k - 1)) = skip + k - 1
  <2> DEFINE r == skip + k - 1
  <2>1. r \in Nat /\ r < Cardinality(S)
    BY <1>2, <1>4
  <2> HIDE DEF r
  <2>2. \E i \in S : Rank(S, i) = r
    BY <1>1, <2>1, RankExists
  <2>3. Nth(n, r) = CHOOSE i \in S : Rank(S, i) = r
    BY DEF Nth, Newer, Rank, Above, S
  <2>4. Nth(n, r) \in S /\ Rank(S, Nth(n, r)) = r
    BY <2>2, <2>3
  <2> QED BY <2>4 DEF r
<1>7. Page(n, skip) \in Seq(S) /\ Len(Page(n, skip)) = len
  <2>1. Page(n, skip) \in [1..len -> S]
    BY <1>5, <1>6
  <2>2. ASSUME NEW p \in [1..len -> S] PROVE p \in Seq(S) /\ Len(p) = len
    OBVIOUS
  <2> QED BY <2>1, <2>2
<1>8. ASSUME NEW i \in S, Rank(S, i) >= skip, Rank(S, i) < skip + len PROVE i \in ToSet(Page(n, skip))
  <2> DEFINE k == Rank(S, i) - skip + 1
  <2>1. Rank(S, i) \in Nat
    BY <1>1, RankRange
  <2>2. k \in 1..len /\ skip + k - 1 = Rank(S, i)
    BY <1>4, <1>8, <2>1
  <2> HIDE DEF k
  <2>3. PICK j : j = Nth(n, skip + k - 1)
    OBVIOUS
  <2>4. j \in S /\ Rank(S, j) = Rank(S, i) /\ Page(n, skip)[k] = j
    BY <1>5, <1>6, <2>2, <2>3
  <2>5. j = i
    <3>1. i \in Nat /\ j \in Nat
      BY <1>1, <2>4
    <3>2. ~(i < j)
      <4> SUFFICES ASSUME i < j PROVE FALSE
        OBVIOUS
      <4>1. Rank(S, j) < Rank(S, i)
        BY <1>1, <2>4, RanksDiffer
      <4> QED BY <2>1, <2>4, <4>1
    <3>3. ~(j < i)
      <4> SUFFICES ASSUME j < i PROVE FALSE
        OBVIOUS
      <4>1. Rank(S, i) < Rank(S, j)
        BY <1>1, <2>4, RanksDiffer
      <4> QED BY <2>1, <2>4, <4>1
    <3> QED BY <3>1, <3>2, <3>3
  <2>6. k \in DOMAIN Page(n, skip)
    BY <1>5, <2>2
  <2> QED BY <2>4, <2>5, <2>6 DEF ToSet
<1>9. ASSUME NEW i \in S, Rank(S, i) >= skip, i \notin ToSet(Page(n, skip)) PROVE Rank(S, i) >= skip + len
  <2>1. Rank(S, i) \in Nat
    BY <1>1, RankRange
  <2> QED BY <1>4, <1>8, <1>9, <2>1
<1> QED BY <1>4, <1>7, <1>9 DEF S

(* What was read is the user's and no more than the subgraph has; an order *)
(* there was at the first page, and not read yet, is still to come.        *)
ListInv ==
  /\ ledger \in Seq(Entry) /\ indexed \in 0..Len(ledger) /\ day \in 0..MaxDay /\ reading \in {"pages", "done"}
  /\ rows \in Seq(Own(indexed)) /\ atFirst \subseteq Own(indexed)
  /\ Len(rows) <= Cardinality(Own(indexed))
  /\ \A i \in atFirst \ ToSet(rows) : Rank(Own(indexed), i) >= Len(rows)
  /\ reading = "done" => atFirst \subseteq ToSet(rows)

LEMMA OwnIsFinite ==
  ASSUME NEW n \in Nat
  PROVE  Own(n) \in SUBSET (1..n) /\ IsFiniteSet(Own(n)) /\ Cardinality(Own(n)) \in Nat
<1>1. Own(n) \in SUBSET (1..n)
  BY DEF Own
<1>2. IsFiniteSet(1..n)
  BY FS_Interval
<1>3. IsFiniteSet(Own(n))
  BY <1>1, <1>2, FS_Subset
<1> QED BY <1>1, <1>3, FS_CardinalityType

LEMMA ReadsWhole == ASSUME ListInv, ReadPage PROVE ListInv'
<1> DEFINE S == Own(indexed)
           page == Page(indexed, Len(rows))
<1>1. indexed \in Nat /\ Len(rows) \in Nat /\ Len(rows) <= Cardinality(S)
  BY DEF ListInv
<1>2. /\ page \in Seq(S) /\ Len(page) \in Nat /\ Len(rows) + Len(page) <= Cardinality(S)
      /\ Len(page) < PageSize => Len(rows) + Len(page) = Cardinality(S)
      /\ \A i \in S : Rank(S, i) >= Len(rows) /\ i \notin ToSet(page) => Rank(S, i) >= Len(rows) + Len(page)
  BY <1>1, PageIsWhole
<1>3. /\ rows' = rows \o page /\ reading' = IF Len(page) < PageSize THEN "done" ELSE "pages"
      /\ atFirst' = (IF rows = <<>> THEN S ELSE atFirst) /\ ledger' = ledger /\ indexed' = indexed
      /\ day' = day /\ reading = "pages"
  BY DEF ReadPage
<1>4. S' = S
  BY <1>3 DEF Own
<1>5. S \in SUBSET (1..indexed) /\ \A i \in S : Rank(S, i) \in Nat /\ Rank(S, i) < Cardinality(S)
  BY <1>1, OwnIsFinite, RankRange
<1> HIDE DEF S, page
<1>6. rows \in Seq(S) /\ atFirst \subseteq S /\ \A i \in atFirst \ ToSet(rows) : Rank(S, i) >= Len(rows)
  BY DEF ListInv, S
<1>7. rows' \in Seq(S) /\ Len(rows') = Len(rows) + Len(page) /\ ToSet(rows') = ToSet(rows) \cup ToSet(page)
  <2>1. ASSUME NEW s \in Seq(S), NEW t \in Seq(S)
        PROVE  /\ s \o t \in Seq(S) /\ Len(s \o t) = Len(s) + Len(t)
               /\ ToSet(s \o t) = ToSet(s) \cup ToSet(t)
    <3>1. /\ s \o t \in Seq(S) /\ Len(s) \in Nat /\ Len(t) \in Nat /\ Len(s \o t) = Len(s) + Len(t)
          /\ DOMAIN s = 1..Len(s) /\ DOMAIN t = 1..Len(t) /\ DOMAIN (s \o t) = 1..Len(s) + Len(t)
      OBVIOUS
    <3>2. \A k \in 1..Len(s) : (s \o t)[k] = s[k] /\ k \in DOMAIN (s \o t)
      BY <3>1
    <3>3. \A k \in 1..Len(t) : (s \o t)[Len(s) + k] = t[k] /\ Len(s) + k \in DOMAIN (s \o t)
      BY <3>1
    <3>4. ASSUME NEW k \in DOMAIN (s \o t) PROVE (s \o t)[k] \in ToSet(s) \cup ToSet(t)
      <4>1. CASE k \in 1..Len(s)
        BY <3>1, <3>2, <4>1 DEF ToSet
      <4>2. CASE k \notin 1..Len(s)
        <5>1. PICK l \in 1..Len(t) : k = Len(s) + l
          <6>1. k - Len(s) \in 1..Len(t) /\ k = Len(s) + (k - Len(s))
            BY <3>1, <4>2
          <6> QED BY <6>1
        <5> QED BY <3>1, <3>3, <5>1 DEF ToSet
      <4> QED BY <4>1, <4>2
    <3>5. ToSet(s) \cup ToSet(t) \subseteq ToSet(s \o t)
      BY <3>1, <3>2, <3>3 DEF ToSet
    <3>6. ToSet(s \o t) \subseteq ToSet(s) \cup ToSet(t)
      BY <3>4 DEF ToSet
    <3> QED BY <3>1, <3>5, <3>6
  <2> QED BY <1>2, <1>3, <1>6, <2>1
<1>8. ASSUME NEW i \in atFirst', i \notin ToSet(rows') PROVE Rank(S, i) >= Len(rows')
  <2>1. i \in S /\ i \notin ToSet(rows) /\ i \notin ToSet(page)
    BY <1>3, <1>6, <1>7, <1>8
  <2>2. Rank(S, i) >= Len(rows)
    BY <1>1, <1>3, <1>5, <1>6, <2>1
  <2> QED BY <1>2, <1>7, <2>1, <2>2
<1>9. reading' = "done" => atFirst' \subseteq ToSet(rows')
  <2> SUFFICES ASSUME reading' = "done", NEW i \in atFirst', i \notin ToSet(rows') PROVE FALSE
    OBVIOUS
  <2>1. Len(rows') = Cardinality(S)
    BY <1>2, <1>3, <1>7
  <2> QED BY <1>3, <1>5, <1>6, <1>8, <2>1
<1> QED BY <1>2, <1>3, <1>4, <1>6, <1>7, <1>8, <1>9 DEF ListInv, S
LEMMA ListStarts == ReadsInit => ListInv
<1> SUFFICES ASSUME ReadsInit PROVE ListInv
  OBVIOUS
<1>1. Cardinality(Own(0)) \in Nat
  BY OwnIsFinite
<1>2. Len(rows) = 0 /\ indexed = 0 /\ Len(ledger) = 0 /\ ledger \in Seq(Entry) /\ rows \in Seq(Own(0))
  BY DEF ReadsInit
<1> QED BY <1>1, <1>2 DEF ReadsInit, ListInv

(* The subgraph may learn of more, and the chain may have more to tell.    *)
LEMMA MoreIsIndexed ==
  ASSUME ListInv, ledger' \in Seq(Entry), indexed \in Nat, indexed' \in 0..Len(ledger'), indexed <= indexed',
         \A i \in 1..indexed : ledger'[i] = ledger[i], day' \in 0..MaxDay, UNCHANGED <<rows, reading, atFirst>>
  PROVE  ListInv'
<1> DEFINE S == Own(indexed)
<1>1. indexed' \in Nat
  OBVIOUS
<1>2. PICK T : T = Own(indexed)'
  OBVIOUS
<1>3. T \in SUBSET (1..indexed') /\ S \in SUBSET T
  BY <1>1, <1>2 DEF Own
<1>4. IsFiniteSet(T) /\ Cardinality(T) \in Nat
  <2>1. IsFiniteSet(1..indexed')
    BY <1>1, FS_Interval
  <2>2. IsFiniteSet(T)
    BY <1>3, <2>1, FS_Subset
  <2> QED BY <2>2, FS_CardinalityType
<1>5. IsFiniteSet(S) /\ Cardinality(S) <= Cardinality(T) /\ Cardinality(S) \in Nat
  <2>1. IsFiniteSet(S) /\ Cardinality(S) <= Cardinality(T)
    BY <1>3, <1>4, FS_Subset
  <2> QED BY <2>1, FS_CardinalityType
<1> HIDE DEF S
<1>6. /\ rows \in Seq(S) /\ atFirst \subseteq S /\ Len(rows) <= Cardinality(S) /\ Len(rows) \in Nat
      /\ \A i \in atFirst \ ToSet(rows) : Rank(S, i) >= Len(rows)
  BY DEF ListInv, S
<1>7. ASSUME NEW i \in atFirst \ ToSet(rows) PROVE Rank(T, i) >= Len(rows)
  <2>1. i \in S /\ i \in T
    BY <1>3, <1>6
  <2>2. Rank(S, i) <= Rank(T, i)
    BY <1>1, <1>3, <2>1, RankGrows
  <2>3. Rank(T, i) \in Nat
    BY <1>1, <1>3, <2>1, RankRange
  <2>4. Rank(S, i) \in Nat
    <3>1. indexed \in Nat /\ S \in SUBSET (1..indexed)
      BY OwnIsFinite DEF S
    <3> QED BY <2>1, <3>1, RankRange
  <2> QED BY <1>6, <2>2, <2>3, <2>4
<1>8. rows \in Seq(T) /\ atFirst \subseteq T
  <2>1. ASSUME NEW s \in Seq(S) PROVE s \in Seq(T)
    <3>1. Len(s) \in Nat /\ s \in [1..Len(s) -> S]
      OBVIOUS
    <3>2. s \in [1..Len(s) -> T]
      BY <1>3, <3>1
    <3> QED BY <3>1, <3>2
  <2> QED BY <1>3, <1>6, <2>1
<1>9. Len(rows) <= Cardinality(T)
  BY <1>4, <1>5, <1>6
<1> QED BY <1>2, <1>7, <1>8, <1>9 DEF ListInv

(* Every step of the chain, and of the client's readings, keeps that.      *)
LEMMA ListStepKeeps == ListInv /\ [ListNext \/ FormNext]_readVars => ListInv'
<1> SUFFICES ASSUME ListInv, [ListNext \/ FormNext]_readVars PROVE ListInv'
  OBVIOUS
<1>1. ledger \in Seq(Entry) /\ Len(ledger) \in Nat /\ indexed \in 0..Len(ledger) /\ indexed \in Nat /\ day \in 0..MaxDay
  BY DEF ListInv
<1>2. ASSUME NEW e \in Entry, Goes(e) PROVE ListInv'
  <2>1. ledger' \in Seq(Entry) /\ Len(ledger') = Len(ledger) + 1 /\ \A i \in 1..indexed : ledger'[i] = ledger[i]
    BY <1>1, <1>2 DEF Goes
  <2>2. UNCHANGED <<indexed, day, rows, reading, atFirst>>
    BY <1>2 DEF Goes
  <2> QED BY <1>1, <2>1, <2>2, MoreIsIndexed
<1>3. CASE Indexes
  <2>1. indexed' \in 0..Len(ledger') /\ indexed <= indexed' /\ UNCHANGED <<ledger, day, rows, reading, atFirst>>
    BY <1>1, <1>3 DEF Indexes
  <2> QED BY <1>1, <2>1, MoreIsIndexed
<1>4. CASE day' \in 0..MaxDay /\ UNCHANGED <<ledger, indexed, rows, reading, atFirst>>
  BY <1>1, <1>4, MoreIsIndexed
<1>5. CASE ChainNext
  <2>1. CASE DayTurns
    BY <1>1, <1>4, <2>1 DEF DayTurns
  <2>2. \A b \in Bucket : [what |-> "mine", bucket |-> b, day |-> day, to |-> 0] \in Entry
    BY <1>1 DEF Entry
  <2>3. \A w \in {"unknown", "other"} : [what |-> w, bucket |-> "sellPay", day |-> day, to |-> 0] \in Entry
    BY <1>1 DEF Entry, Bucket
  <2>4. \A b \in Bucket, t \in Cap : [what |-> "cap", bucket |-> b, day |-> 0, to |-> t] \in Entry
    BY DEF Entry
  <2> QED BY <1>2, <1>3, <1>5, <2>1, <2>2, <2>3, <2>4 DEF ChainNext
<1>6. CASE ReadPage
  BY <1>6, ReadsWhole
<1>7. ASSUME NEW d \in 0..MaxDay, ReadQuota(d) PROVE ListInv'
  BY <1>1, <1>4, <1>7 DEF ReadQuota
<1>8. CASE UNCHANGED readVars
  BY <1>1, <1>4, <1>8 DEF readVars
<1> QED BY <1>5, <1>6, <1>7, <1>8 DEF ListNext, FormNext

(* As many rows as there are cannot be new orders and those read only.     *)
LEMMA ListWhole == ListInv => ListIsWhole
<1> SUFFICES ASSUME ListInv PROVE ListIsWhole
  OBVIOUS
<1> DEFINE S == Own(indexed)
           Top == {i \in S : Rank(S, i) < Len(rows)}
           R == ToSet(rows)
           N == S \ atFirst
<1>1. indexed \in Nat /\ Len(rows) \in Nat /\ Len(rows) <= Cardinality(S)
  BY DEF ListInv
<1>2. S \in SUBSET (1..indexed) /\ IsFiniteSet(S)
  BY <1>1, OwnIsFinite
<1>3. R \subseteq S /\ (reading = "done" => atFirst \subseteq R)
  BY DEF ListInv, ToSet
<1>4. \A i \in atFirst \ R : Rank(S, i) >= Len(rows)
  BY DEF ListInv
<1>5. \A i \in S : Rank(S, i) \in Nat
  BY <1>1, <1>2, RankRange
<1> HIDE DEF S, R
<1>6. Len(rows) <= Cardinality(Top)
  BY <1>1, <1>2, TopCounts
<1>7. Top \subseteq R \cup N
  <2> SUFFICES ASSUME NEW i \in S, Rank(S, i) < Len(rows), i \notin R PROVE i \in N
    OBVIOUS
  <2> QED BY <1>1, <1>4, <1>5
<1>8. IsFiniteSet(R) /\ IsFiniteSet(N) /\ IsFiniteSet(Top)
  BY <1>2, <1>3, FS_Subset
<1> HIDE DEF Top, N
<1>9. /\ IsFiniteSet(R \cup N) /\ Cardinality(R \cup N) = Cardinality(R) + Cardinality(N) - Cardinality(R \cap N)
      /\ Cardinality(Top) <= Cardinality(R \cup N)
  BY <1>7, <1>8, FS_Union, FS_Subset
<1>10. /\ Cardinality(R) \in Nat /\ Cardinality(N) \in Nat /\ Cardinality(R \cap N) \in Nat
       /\ Cardinality(Top) \in Nat
  BY <1>8, FS_Intersection, FS_CardinalityType
<1>11. Len(rows) - Cardinality(R) <= Cardinality(N)
  BY <1>1, <1>6, <1>9, <1>10
<1> QED BY <1>3, <1>11 DEF ListIsWhole, R, N, S

(* The types of what is read: a quota is no newer than the subgraph, and   *)
(* its numbers are in their ranges.                                        *)
ReadsInv == QuotaInv /\ ListInv /\ Len(ledger) <= MaxLedger /\ (quota # NoQuota => quota.from <= indexed)

LEMMA ReadsStepKeeps == ReadsInv /\ [ListNext \/ FormNext]_readVars => ReadsInv'
<1> SUFFICES ASSUME ReadsInv, [ListNext \/ FormNext]_readVars PROVE ReadsInv'
  OBVIOUS
<1>1. QuotaInv' /\ ListInv'
  BY QuotaStepKeeps, ListStepKeeps DEF ReadsInv
<1>2. ledger \in Seq(Entry) /\ Len(ledger) \in Nat /\ Len(ledger) <= MaxLedger /\ indexed \in Nat
      /\ (quota # NoQuota => quota.from \in Nat /\ quota.from <= indexed)
  BY DEF ReadsInv, QuotaInv
<1>3. CASE UNCHANGED <<ledger, indexed, quota>>
  BY <1>1, <1>2, <1>3 DEF ReadsInv
<1>4. ASSUME NEW e, Goes(e) PROVE ReadsInv'
  <2>1. Len(ledger') <= MaxLedger
    BY <1>2, <1>4 DEF Goes
  <2> QED BY <1>1, <1>2, <1>4, <2>1 DEF Goes, ReadsInv
<1>5. CASE Indexes
  BY <1>1, <1>2, <1>5 DEF Indexes, ReadsInv
<1>6. CASE ChainNext
  BY <1>3, <1>4, <1>5, <1>6 DEF ChainNext, DayTurns
<1>7. CASE ReadPage
  BY <1>3, <1>7 DEF ReadPage
<1>8. ASSUME NEW d \in 0..MaxDay, ReadQuota(d) PROVE ReadsInv'
  <2>1. quota'.from = indexed /\ ledger' = ledger /\ indexed' = indexed
    BY <1>8 DEF ReadQuota
  <2> QED BY <1>1, <1>2, <2>1 DEF ReadsInv
<1>9. CASE UNCHANGED readVars
  BY <1>3, <1>9 DEF readVars
<1> QED BY <1>6, <1>7, <1>8, <1>9 DEF ListNext, FormNext

LEMMA CapIsCap ==
  ASSUME ledger \in Seq(Entry), NEW n \in 0..Len(ledger), NEW b \in Bucket PROVE CapOf(n, b) \in Cap
<1>1. CASE CapsSet(n, b) = {}
  BY <1>1 DEF CapOf
<1>2. CASE CapsSet(n, b) # {}
  <2>1. CapsSet(n, b) \in SUBSET (1..n) /\ n \in Nat
    BY DEF CapsSet
  <2>2. Max(CapsSet(n, b)) \in CapsSet(n, b)
    BY <1>2, <2>1, LargestExists
  <2>3. \A i \in CapsSet(n, b) : ledger[i] \in Entry /\ ledger[i].what = "cap"
    BY DEF CapsSet
  <2>4. \A e \in Entry : e.what = "cap" => e.to \in Cap
    BY DEF Entry
  <2> QED BY <1>2, <2>2, <2>3, <2>4 DEF CapOf
<1> QED BY <1>1, <1>2

LEMMA CountsAreTyped ==
  ASSUME ledger \in Seq(Entry), Len(ledger) <= MaxLedger, NEW n \in 0..Len(ledger), NEW b \in Bucket, NEW d
  PROVE  Counts(n, b, d) \in Counted
<1>1. n \in Nat /\ n <= MaxLedger
  OBVIOUS
<1>2. UsedOn(n, b, d) \in Used
  <2> DEFINE O == {i \in Own(n) : ledger[i].bucket = b /\ ledger[i].day = d}
  <2>1. IsFiniteSet(1..n) /\ Cardinality(1..n) = n
    BY <1>1, FS_Interval
  <2>2. O \subseteq 1..n
    BY DEF Own
  <2> HIDE DEF O
  <2>3. IsFiniteSet(O) /\ Cardinality(O) <= n
    <3>1. IsFiniteSet(O) /\ Cardinality(O) <= Cardinality(1..n)
      BY <2>1, <2>2, FS_Subset, Zenon
    <3> QED BY <2>1, <3>1
  <2>4. Cardinality(O) \in Nat
    BY <2>3, FS_CardinalityType
  <2> QED BY <1>1, <2>3, <2>4 DEF O, UsedOn, Used
<1>3. CapOf(n, b) \in Cap /\ CapOf(n, b) \in Nat
  BY CapIsCap, CapIsNumber
<1> DEFINE u == UsedOn(n, b, d)
           l == CapOf(n, b)
<1>4. u \in Nat /\ u \in Used
  BY <1>2 DEF Used
<1> HIDE DEF u, l
<1>5. (IF u < l THEN l - u ELSE 0) \in Nat
  BY <1>3, <1>4 DEF l
<1>6. ASSUME NEW z \in BOOLEAN PROVE Count(u, l, TRUE, z) \in Counted
  BY <1>3, <1>4, <1>5 DEF Count, Counted, l
<1>7. ASSUME NEW z \in BOOLEAN PROVE Count(u, 0, FALSE, z) \in Counted
  BY <1>4 DEF Count, Counted
<1>8. Counts(n, b, d) = IF Configured(n, b) THEN Count(u, l, TRUE, b = "sellPay") ELSE Count(u, 0, FALSE, b = "sellPay")
  BY DEF Counts, Configured, u, l
<1> QED BY <1>6, <1>7, <1>8

LEMMA ReadsAreTyped == ReadsInv => ReadsTypeOK
<1> SUFFICES ASSUME ReadsInv PROVE ReadsTypeOK
  OBVIOUS
<1>1. ToSet(rows) \subseteq 1..indexed /\ atFirst \subseteq 1..indexed
  BY DEF ReadsInv, ListInv, ToSet, Own
<1>2. quota # NoQuota => quota.day \in 0..MaxDay /\ quota.from \in 0..indexed
                         /\ \A b \in Bucket : quota.counts[b] \in Counted
  BY CountsAreTyped DEF ReadsInv, QuotaInv
<1> QED BY <1>1, <1>2 DEF ReadsInv, ListInv, ReadsTypeOK

----------------------------------------------------------------------------
(* Whatever the screen, each half of the client keeps its invariant.       *)
LEMMA ClientHalves ==
  /\ ClientInit => Init /\ ReadsInit
  /\ [ClientNext]_clientVars => [Next]_vars /\ [ListNext \/ FormNext]_readVars
  BY DEF ClientInit, ClientNext, clientVars

(* The order a placement is told is its own, wherever it stands in a receipt*)
(* with another user's, under the wallet's address or under another one of *)
(* its account, with other placements in flight and with any of them       *)
(* failing; unless the receipt has no event of the wallet's address and a  *)
(* stranger's first, when the fallback of enrichWithOrderId                *)
(* (place-order.ts:39) may name the stranger's.                            *)
THEOREM PlacementsAreOwn == ClientSpec => []ReportedOrderIsOwn
<1>1. ClientInit => FundInv
  BY ClientHalves, FundStarts
<1>2. FundInv /\ [ClientNext]_clientVars => FundInv'
  BY ClientHalves, FundStepKeeps
<1>3. FundInv => ReportedOrderIsOwn
  BY DEF FundInv, Funded, Reported, ReportedOrderIsOwn
<1> QED BY <1>1, <1>2, <1>3, PTL DEF ClientSpec

(* An application that makes its orders one after the other, or approves   *)
(* without a limit, never has one cancelled by its own hand-off, however   *)
(* many it makes, whatever the fee does, whichever read or wait fails and  *)
(* whatever expires meanwhile (approve-usdc.ts, README.md:154-192).        *)
THEOREM HandOffsAreFunded ==
  ASSUME "documented" \notin Policies PROVE ClientSpec => HandOffNeverCancels
<1>1. ClientInit => FundInv
  BY ClientHalves, FundStarts
<1>2. FundInv /\ [ClientNext]_clientVars => FundInv'
  BY ClientHalves, FundStepKeeps
<1>3. FundInv /\ [ClientNext]_clientVars =>
        [\A o \in Slot : HandOffMined /\ Head(pool).slot = o /\ known[o] = o /\ orders[o].status = "accepted"
           => orders'[o].status = "paid"]_vars
  <2>1. FundInv => setup.policy # "documented"
    BY DEF FundInv, SellInv, TypeOK
  <2> QED BY <2>1, HandOffPays
<1> QED BY <1>1, <1>2, <1>3, PTL DEF ClientSpec, HandOffNeverCancels

(* Shown limits of the contract's own day leave a placement exactly where  *)
(* the contract accepts one when the subgraph had everything, and none     *)
(* where it refuses, for any caps, orders and lag (getPlacementLimits).    *)
THEOREM LimitsSpeak == ClientSpec => []QuotaSpeaksForContract
<1>1. ClientInit => QuotaInv
  BY ClientHalves, QuotaStarts
<1>2. QuotaInv /\ [ClientNext]_clientVars => QuotaInv'
  BY ClientHalves, QuotaStepKeeps
<1> QED BY <1>1, <1>2, QuotaSpeaks, PTL DEF ClientSpec

(* A list read to its end has every order the subgraph had at its first    *)
(* page, and repeats no more rows than there were new orders, for any page *)
(* size, any orders and any lag (getOrders).                               *)
THEOREM ListsAreWhole == ClientSpec => []ListIsWhole
<1>1. ClientInit => ListInv
  BY ClientHalves, ListStarts
<1>2. ListInv /\ [ClientNext]_clientVars => ListInv'
  BY ClientHalves, ListStepKeeps
<1> QED BY <1>1, <1>2, ListWhole, PTL DEF ClientSpec

ScreenOK == screen \in {"sell", "list", "form"}

(* Every variable of the three screens keeps its type.                     *)
THEOREM ClientIsTyped == ClientSpec => []ClientTypeOK
<1>1. ClientInit => ScreenOK /\ SellInv /\ ReadsInv
  <2>1. ReadsInit => ReadsInv
    BY QuotaStarts, ListStarts DEF ReadsInit, ReadsInv
  <2> QED BY <2>1, ClientHalves, SellStarts DEF ClientInit, ScreenOK
<1>2. ScreenOK /\ SellInv /\ ReadsInv /\ [ClientNext]_clientVars => (ScreenOK /\ SellInv /\ ReadsInv)'
  <2>1. ScreenOK /\ [ClientNext]_clientVars => ScreenOK'
    BY DEF ScreenOK, ClientNext, clientVars
  <2> QED BY <2>1, ClientHalves, SellStepKeeps, ReadsStepKeeps
<1>3. ScreenOK /\ SellInv /\ ReadsInv => ClientTypeOK
  BY ReadsAreTyped DEF ScreenOK, SellInv, ClientTypeOK
<1> QED BY <1>1, <1>2, <1>3, PTL DEF ClientSpec
=============================================================================
