------------------------------ MODULE OrderReads ------------------------------
(***************************************************************************)
(* What the Orders client reads from the subgraph                          *)
(* (src/src/orders/subgraph/index.ts, normalize.ts): the user's orders,    *)
(* page by page, newest first, and how many more may be placed today.  The *)
(* subgraph is a copy of the chain that lags behind; between two reads     *)
(* anybody may place an order, the caps may be set anew, and the UTC day   *)
(* may turn.  The day of a quota is the caller's clock's, not the chain's. *)
(* The Diamond and the subgraph are external; an answer is taken at once,  *)
(* since one on its way is no different from one that events have overtaken.*)
(***************************************************************************)
EXTENDS Naturals, Sequences, SequencesExt

CONSTANTS
  PageSize,    \* `limit` of getOrders
  MaxLedger,   \* bound: entries on the chain
  MaxDay,      \* bound: days
  Cap,         \* the caps an operator sets
  FirstCap,    \* the cap of both buckets before any was set
  NoQuota      \* no quota has been read

ASSUME ReadsAssumption ==
  PageSize \in Nat \ {0} /\ MaxLedger \in Nat /\ MaxDay \in Nat /\ Cap \subseteq Nat /\ FirstCap \in Cap

VARIABLES
  ledger,    \* the chain: orders (the user's, one of a type this SDK does not
             \* know, another's) and caps set, in order
  day,       \* the chain's UTC day
  indexed,   \* how many entries the subgraph has
  rows,      \* the orders read so far, as their places in the ledger
  reading,   \* "pages" to read, or "done"
  atFirst,   \* history: the user's orders the subgraph had at the first page
  quota      \* the last placement limits, and the entries they were read from

readVars == <<ledger, day, indexed, rows, reading, atFirst, quota>>

Bucket == {"buy", "sellPay"}
Entry == [what : {"mine", "unknown", "other"}, bucket : Bucket, day : 0..MaxDay, to : {0}]
         \cup [what : {"cap"}, bucket : Bucket, day : {0}, to : Cap]
Used == 0..MaxLedger
Counted ==
  [state : {"unknown", "unlimited"}, used : Used, limit : {0}, remaining : {0}]
  \cup [state : {"enforced"}, used : Used, limit : Cap, remaining : Nat]

ReadsTypeOK ==
  /\ ledger \in Seq(Entry) /\ Len(ledger) <= MaxLedger
  /\ day \in 0..MaxDay /\ indexed \in 0..Len(ledger)
  /\ ToSet(rows) \subseteq 1..indexed /\ reading \in {"pages", "done"} /\ atFirst \subseteq 1..indexed
  /\ quota = NoQuota \/ (quota.day \in 0..MaxDay /\ quota.from \in 0..indexed
                         /\ \A b \in Bucket : quota.counts[b] \in Counted)

ReadsInit ==
  /\ ledger = <<>> /\ day = 0 /\ indexed = 0
  /\ rows = <<>> /\ reading = "pages" /\ atFirst = {} /\ quota = NoQuota

----------------------------------------------------------------------------
(* The first n entries, by what they say.                                  *)
Own(n) == {i \in 1..n : ledger[i].what \in {"mine", "unknown"}}
CapsSet(n, b) == {i \in 1..n : ledger[i].what = "cap" /\ ledger[i].bucket = b}
CapOf(n, b) == IF CapsSet(n, b) = {} THEN FirstCap ELSE ledger[Max(CapsSet(n, b))].to
UsedOn(n, b, d) == Cardinality({i \in Own(n) : ledger[i].bucket = b /\ ledger[i].day = d})

(* The contract: a cap of zero is none for SELL and PAY, and blocks BUY.   *)
Accepts(b) ==
  LET n == Len(ledger) IN
  (b = "sellPay" /\ CapOf(n, b) = 0) \/ UsedOn(n, b, day) < CapOf(n, b)

(* An order, or a cap, goes on chain.  A cancelled order stays in the count.*)
Goes(e) ==
  /\ Len(ledger) < MaxLedger
  /\ e.what \in {"mine", "unknown"} => Accepts(e.bucket)
  /\ ledger' = Append(ledger, e)
  /\ UNCHANGED <<day, indexed, rows, reading, atFirst, quota>>

Indexes ==
  /\ indexed < Len(ledger) /\ indexed' = indexed + 1
  /\ UNCHANGED <<ledger, day, rows, reading, atFirst, quota>>

DayTurns ==
  /\ day < MaxDay /\ day' = day + 1
  /\ UNCHANGED <<ledger, indexed, rows, reading, atFirst, quota>>

ChainNext ==
  \/ \E b \in Bucket : Goes([what |-> "mine", bucket |-> b, day |-> day, to |-> 0])
  \/ \E w \in {"unknown", "other"} : Goes([what |-> w, bucket |-> "sellPay", day |-> day, to |-> 0])
  \/ \E b \in Bucket, t \in Cap : Goes([what |-> "cap", bucket |-> b, day |-> 0, to |-> t])
  \/ Indexes \/ DayTurns

----------------------------------------------------------------------------
(* normalizeSubgraphOrder: a type, status or dispute status out of range.  *)
Malformed(i) == ledger[i].what = "unknown"

(* The order with k newer ones.                                            *)
Newer(n, i) == {j \in Own(n) : j > i}
Nth(n, k) == CHOOSE i \in Own(n) : Cardinality(Newer(n, i)) = k

(* Mutant: the rows to skip are taken for pages.                           *)
MutPageByNumber(n, skip) ==
  LET from == skip * PageSize + skip IN
  [k \in 1..Min({PageSize, Cardinality(Own(n)) - from}) |-> Nth(n, from + k - 1)]

(* ORDERS_BY_USER_QUERY: the user's orders, newest first, skip and first.  *)
Page(n, skip) ==
  [k \in 1..Min({PageSize, Cardinality(Own(n)) - skip}) |-> Nth(n, skip + k - 1)]

(* Mutant: a malformed order is left out of its page.                      *)
MutReadPageSkipsMalformed ==
  /\ reading = "pages"
  /\ LET page == Page(indexed, Len(rows)) IN
       /\ rows' = rows \o SelectSeq(page, LAMBDA i : ~Malformed(i))
       /\ reading' = IF Len(page) < PageSize THEN "done" ELSE "pages"
  /\ atFirst' = IF rows = <<>> THEN Own(indexed) ELSE atFirst
  /\ UNCHANGED <<ledger, day, indexed, quota>>

(* getOrders with as many rows to skip as there are, until a page is not   *)
(* full.  One malformed order fails its whole page, now and when asked     *)
(* again, and so does a request: the page keeps what it has.               *)
ReadPage ==
  /\ reading = "pages"
  /\ LET page == Page(indexed, Len(rows)) IN
       /\ \A k \in DOMAIN page : ~Malformed(page[k])
       /\ rows' = rows \o page
       /\ reading' = IF Len(page) < PageSize THEN "done" ELSE "pages"
  /\ atFirst' = IF rows = <<>> THEN Own(indexed) ELSE atFirst
  /\ UNCHANGED <<ledger, day, indexed, quota>>

(* Mutant: zero is unlimited, for a cap never seen and for BUY too.        *)
MutCountZero(used, limit, configured, zeroMeansUnlimited) ==
  IF limit = 0 THEN [state |-> "unlimited", used |-> used, limit |-> 0, remaining |-> 0]
  ELSE [state |-> "enforced", used |-> used, limit |-> limit,
        remaining |-> IF used < limit THEN limit - used ELSE 0]

(* Mutant: an unconfigured cap is taken at its zero.                       *)
MutCountUnconfigured(used, limit, configured, zeroMeansUnlimited) ==
  IF limit = 0 /\ zeroMeansUnlimited
  THEN [state |-> "unlimited", used |-> used, limit |-> 0, remaining |-> 0]
  ELSE [state |-> "enforced", used |-> used, limit |-> limit,
        remaining |-> IF used < limit THEN limit - used ELSE 0]

(* bucket(): 0 stands for the nulls of a state that is not "enforced".     *)
Count(used, limit, configured, zeroMeansUnlimited) ==
  IF ~configured THEN [state |-> "unknown", used |-> used, limit |-> 0, remaining |-> 0]
  ELSE IF limit = 0 /\ zeroMeansUnlimited
  THEN [state |-> "unlimited", used |-> used, limit |-> 0, remaining |-> 0]
  ELSE [state |-> "enforced", used |-> used, limit |-> limit,
        remaining |-> IF used < limit THEN limit - used ELSE 0]

(* getPlacementLimits at a time the caller's clock puts in day d.          *)
ReadQuota(d) ==
  /\ quota' = [day |-> d, from |-> indexed,
               counts |-> [b \in Bucket |->
                 LET configured == CapsSet(indexed, b) # {} IN
                 Count(UsedOn(indexed, b, d), IF configured THEN CapOf(indexed, b) ELSE 0,
                       configured, b = "sellPay")]]
  /\ UNCHANGED <<ledger, day, indexed, rows, reading, atFirst>>

(* A screen with the user's orders, and one with the form to place the next.*)
ListNext == ChainNext \/ ReadPage
FormNext == ChainNext \/ \E d \in 0..MaxDay : ReadQuota(d)

----------------------------------------------------------------------------
(* A list read to its end has every order the subgraph had at its first    *)
(* page, whatever was placed meanwhile, and repeats no more rows than there*)
(* were new orders.  subgraph/index.ts:36-76, queries.ts:1-10.             *)
ListIsWhole ==
  /\ reading = "done" => atFirst \subseteq ToSet(rows)
  /\ Len(rows) - Cardinality(ToSet(rows)) <= Cardinality(Own(indexed) \ atFirst)

(* Shown limits of today speak for the contract: when nothing has happened *)
(* since they were indexed it accepts a placement exactly where they leave *)
(* one, and however old they are it refuses one where they leave none,     *)
(* unless the cap was changed.  subgraph/index.ts:19-30, 122-143.          *)
QuotaSpeaksForContract ==
  quota # NoQuota /\ quota.day = day =>
    \A b \in Bucket : LET c == quota.counts[b] IN
      /\ quota.from = Len(ledger) /\ c.state # "unknown" =>
           (Accepts(b) <=> c.state = "unlimited" \/ c.remaining > 0)
      /\ c.state = "enforced" /\ c.remaining = 0 /\ CapOf(Len(ledger), b) = c.limit => ~Accepts(b)
=============================================================================
