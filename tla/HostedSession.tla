---------------------------- MODULE HostedSession ----------------------------
(***************************************************************************)
(* The verifications that a service hosts and the page drives call by call *)
(* (src/src/zkkyc/orchestrators): the passport and the liveness wizard     *)
(* (simple-kyc.ts, liveness.ts), whose redirect brings a one-time code that*)
(* is redeemed for an attestation, and the Nigerian BVN check (bvn.ts), a  *)
(* session of five calls.  The SDK keeps nothing between two calls: what   *)
(* the page holds, and what the service remembers, is all there is.        *)
(*                                                                         *)
(* Calls may overlap (an effect run twice, a button clicked twice), and a  *)
(* request may be lost before the service served it, or its answer after.  *)
(* The services and the page are external.                                 *)
(***************************************************************************)
EXTENDS Naturals, Sequences

CONSTANTS
  Call,        \* the calls the page can have going at once
  MaxSessions  \* bound: the sessions of one page

ASSUME HostedAssumption == MaxSessions \in Nat

VARIABLES
  provider, \* the service of this page's flow: "kyc", "liveness" or "bvn"
  stage,    \* the service's sessions, in the order it made them
  holds,    \* the page's session (its BvnSession, or what its redirect is of), or 0
  at,       \* the call the page makes next
  call,     \* each call on its way: what it asks of which session, and its reply
  attested, \* the sessions whose attestation the page has got
  astray    \* history: those whose code was spent on an answer that got lost, or
            \* cannot be read

hostedVars == <<provider, stage, holds, at, call, attested, astray>>

Wizard == {"kyc", "liveness"}
Opens(p) == IF p = "bvn" THEN "onboard" ELSE "create"
Op == {"create", "redeem", "onboard", "submitBvn", "sendOtp", "confirmOtp", "getAttestation"}
Stage == {"open", "bvn", "otp", "approved", "rejected", "spent", "dead"}

(* An answer: HTTP success, the status 401, and a body: what was asked for *)
(* (with or without its optional fields), the decision "reject", an error, *)
(* the error "unauthorized", an object without the URL (only a missing URL *)
(* differs from no object at all), or nothing that can be read.            *)
Usable == {"data", "bare", "declined"}
Body == Usable \cup {"error", "unauthorized", "empty", "unreadable"}
Reply == [ok : BOOLEAN, is401 : BOOLEAN, body : Body]
PeculiarTo == [empty |-> "create", bare |-> "redeem", declined |-> "confirmOtp"]
Granted(op) ==
  [ok : {TRUE}, is401 : {FALSE},
   body : {"data", "unreadable"} \cup {b \in DOMAIN PeculiarTo : PeculiarTo[b] = op}]
Refused == [ok : BOOLEAN, is401 : {FALSE}, body : {"error"}]
TokenRejected == [ok : {FALSE}, is401 : {TRUE}, body : {"error", "unreadable"}]
                 \cup [ok : {TRUE}, is401 : {FALSE}, body : {"unauthorized"}]

None == [ok |-> FALSE, is401 |-> FALSE, body |-> "none"]
Idle == [op |-> "none", on |-> 0, reply |-> None]

(* createLivenessFlow and resumeLivenessFlow are createSimpleKycFlow and    *)
(* resumeSimpleKycFlow with codes, a service and a domain of their own.    *)
SessionFailed(p) == IF p = "liveness" THEN "LIVENESS_SESSION_FAILED" ELSE "SIMPLE_KYC_SESSION_FAILED"
RedeemFailed(p) == IF p = "liveness" THEN "LIVENESS_REDEEM_FAILED" ELSE "SIMPLE_KYC_REDEEM_FAILED"

BvnFailure ==
  [onboard |-> "BVN_ONBOARD_FAILED", submitBvn |-> "BVN_SUBMIT_FAILED", sendOtp |-> "BVN_OTP_SEND_FAILED",
   confirmOtp |-> "BVN_OTP_CONFIRM_FAILED", getAttestation |-> "BVN_ATTESTATION_FAILED"]

HostedTypeOK ==
  /\ provider \in Wizard \cup {"bvn"} /\ at \in Op
  /\ stage \in Seq(Stage) /\ Len(stage) <= MaxSessions
  /\ holds \in 0..Len(stage) /\ attested \subseteq 1..Len(stage) /\ astray \subseteq 1..Len(stage)
  /\ call \in [Call -> [op : Op \cup {"none"}, on : 0..Len(stage), reply : Reply \cup {None}]]

HostedInit ==
  /\ provider \in Wizard \cup {"bvn"}
  /\ stage = <<>> /\ holds = 0 /\ at = Opens(provider)
  /\ call = [c \in Call |-> Idle]
  /\ attested = {} /\ astray = {}

----------------------------------------------------------------------------
Pending(c) == call[c].op # "none"
Served(c) == call[c].reply # None

(* A call is one request.  The page makes the next one of its flow, asks   *)
(* for another OTP, or starts over.                                        *)
Request(c, op) ==
  /\ ~Pending(c)
  /\ \/ op = at /\ (op = "redeem" => stage[holds] \in {"approved", "spent"})
     \/ op = "sendOtp" /\ at = "confirmOtp"
     \/ op = Opens(provider)
  /\ op \in {"create", "onboard"} => Len(stage) < MaxSessions
  /\ call' = [call EXCEPT ![c] = [op |-> op, on |-> IF op = Opens(provider) THEN 0 ELSE holds,
                                  reply |-> None]]
  /\ UNCHANGED <<provider, stage, holds, at, attested, astray>>

(* What the service makes of a session by a call it grants.                *)
Grants ==
  {<<"redeem", "approved", "spent">>, <<"submitBvn", "open", "bvn">>, <<"submitBvn", "bvn", "bvn">>,
   <<"sendOtp", "bvn", "otp">>, <<"sendOtp", "otp", "otp">>, <<"confirmOtp", "otp", "approved">>,
   <<"confirmOtp", "otp", "rejected">>, <<"getAttestation", "approved", "approved">>}
Becomes(op, s) == {t \in Stage : <<op, s, t>> \in Grants}

(* Its answer; confirmOtp's holds the decision.                            *)
Says(op, s) ==
  {r \in Granted(op) : op = "confirmOtp" /\ r.body # "unreadable" => (r.body = "declined" <=> s = "rejected")}

Replies(c, replies) == \E r \in replies : call' = [call EXCEPT ![c] = [@ EXCEPT !.reply = r]]

ServeNew(c) ==
  /\ Pending(c) /\ ~Served(c) /\ call[c].on = 0 /\ Len(stage) < MaxSessions
  /\ stage' = Append(stage, "open")
  /\ \E r \in Granted(call[c].op) : call' = [call EXCEPT ![c].reply = r, ![c].on = Len(stage) + 1]
  /\ UNCHANGED <<provider, holds, at, attested, astray>>

Serve(c) ==
  /\ Pending(c) /\ ~Served(c) /\ call[c].on # 0 /\ stage[call[c].on] # "dead"
  /\ \E s \in Becomes(call[c].op, stage[call[c].on]) :
       /\ stage' = [stage EXCEPT ![call[c].on] = s]
       /\ Replies(c, Says(call[c].op, s))
  /\ UNCHANGED <<provider, holds, at, attested, astray>>

(* Out of order, a wrong code, an outage: the session stays as it is.  Only*)
(* the BVN proxy may refuse in the envelope of a success.                  *)
Refuse(c) ==
  /\ Pending(c) /\ ~Served(c)
  /\ call[c].on # 0 => stage[call[c].on] # "dead"
  /\ Replies(c, {r \in Refused : r.ok => provider = "bvn"})
  /\ UNCHANGED <<provider, stage, holds, at, attested, astray>>

RejectToken(c) ==
  /\ Pending(c) /\ ~Served(c) /\ call[c].on # 0 /\ stage[call[c].on] = "dead"
  /\ Replies(c, TokenRejected)
  /\ UNCHANGED <<provider, stage, holds, at, attested, astray>>

(* A BVN session's token expires.                                          *)
Expires(s) ==
  /\ provider = "bvn" /\ stage[s] # "dead"
  /\ stage' = [stage EXCEPT ![s] = "dead"]
  /\ UNCHANGED <<provider, holds, at, call, attested, astray>>

(* The call brings what a one-time code is good for.                       *)
Carries(c) == call[c].op = "redeem" /\ call[c].reply \in Granted("redeem")

(* The page is left: its calls are gone, with the answers they carry.      *)
Leaves ==
  /\ call' = [c \in Call |-> Idle]
  /\ astray' = astray \cup {call[c].on : c \in {c \in Call : Carries(c)}}

(* The user goes through the wizard at the session's URL, which redirects  *)
(* back with a code on approval.                                           *)
WizardReturns ==
  /\ provider \in Wizard /\ holds # 0 /\ stage[holds] = "open"
  /\ stage' = [stage EXCEPT ![holds] = "approved"]
  /\ Leaves
  /\ UNCHANGED <<provider, holds, at, attested>>

(* A reload: the code is in the URL, a BvnSession only in memory.          *)
Reload ==
  /\ \E c \in Call : Pending(c)
  /\ Leaves
  /\ IF provider = "bvn" THEN holds' = 0 /\ at' = "onboard" ELSE UNCHANGED <<holds, at>>
  /\ UNCHANGED <<provider, stage, attested>>

----------------------------------------------------------------------------
(* Mutant: only the status tells that the token was rejected.              *)
MutBvnToldByStatus(op, r) ==
  IF ~r.ok \/ r.body \in {"error", "unauthorized"}
  THEN IF r.is401 THEN "BVN_SESSION_EXPIRED" ELSE BvnFailure[op]
  ELSE IF r.body \in Usable THEN "ok" ELSE BvnFailure[op]

(* Mutant: every refusal restarts the run.                                 *)
MutBvnToldRestart(op, r) ==
  IF ~r.ok \/ r.body \in {"error", "unauthorized"} THEN "BVN_SESSION_EXPIRED"
  ELSE IF r.body \in Usable THEN "ok" ELSE BvnFailure[op]

(* request(): the envelope, the one special error, and the parser, which   *)
(* throws on a body that is not there.                                     *)
BvnTold(op, r) ==
  IF ~r.ok \/ r.body \in {"error", "unauthorized"}
  THEN IF r.is401 \/ r.body = "unauthorized" THEN "BVN_SESSION_EXPIRED" ELSE BvnFailure[op]
  ELSE IF r.body \in Usable THEN "ok" ELSE BvnFailure[op]

(* A missing widget_url is not noticed.                                    *)
CreateTold(p, r) == IF r.ok /\ r.body \in Usable \cup {"empty"} THEN "ok" ELSE SessionFailed(p)

(* Mutant: the optional identity hash is required.                         *)
MutRedeemToldStrict(p, r) == IF r.ok /\ r.body = "data" THEN "ok" ELSE RedeemFailed(p)

(* Reading the amounts throws when they are missing.                       *)
RedeemTold(p, r) == IF r.ok /\ r.body \in Usable THEN "ok" ELSE RedeemFailed(p)

(* What the call of an answer tells its caller.                            *)
Told(c) ==
  IF call[c].op = "create" THEN CreateTold(provider, call[c].reply)
  ELSE IF call[c].op = "redeem" THEN RedeemTold(provider, call[c].reply)
  ELSE BvnTold(call[c].op, call[c].reply)

(* Where the page goes when a call for its session succeeded: confirmOtp   *)
(* says with data whether the user was approved.                           *)
Following ==
  [create |-> "redeem", redeem |-> "redeem", onboard |-> "submitBvn", submitBvn |-> "sendOtp",
   sendOtp |-> "confirmOtp", confirmOtp |-> "getAttestation", getAttestation |-> "getAttestation"]
After(op, decision) == IF op = "confirmOtp" /\ decision = "declined" THEN "onboard" ELSE Following[op]

(* The answer arrives.  The page goes on with the session it was given,    *)
(* unless its URL is missing, and lets answers about another pass.         *)
Hear(c) ==
  /\ Pending(c) /\ Served(c)
  /\ LET said == Told(c) op == call[c].op on == call[c].on body == call[c].reply.body IN
       /\ call' = [call EXCEPT ![c] = Idle]
       /\ holds' = IF said = "ok" /\ op = Opens(provider) /\ body # "empty" THEN on ELSE holds
       /\ at' = IF on # holds' THEN at
                ELSE IF said = "ok" THEN After(op, body)
                ELSE IF said = "BVN_SESSION_EXPIRED" THEN "onboard" ELSE at
       /\ attested' = IF said = "ok" /\ op \in {"redeem", "getAttestation"} THEN attested \cup {on} ELSE attested
       /\ astray' = IF Carries(c) /\ body \notin Usable THEN astray \cup {on} ELSE astray
  /\ UNCHANGED <<provider, stage>>

(* fetch rejects, whether the service has served the request or not: the   *)
(* call ends with its failure code, and the page may repeat it.            *)
Lose(c) ==
  /\ Pending(c)
  /\ call' = [call EXCEPT ![c] = Idle]
  /\ astray' = IF Carries(c) THEN astray \cup {call[c].on} ELSE astray
  /\ UNCHANGED <<provider, stage, holds, at, attested>>

HostedNext ==
  \/ \E c \in Call :
       \/ \E op \in Op : Request(c, op)
       \/ ServeNew(c) \/ Serve(c) \/ Refuse(c) \/ RejectToken(c) \/ Hear(c) \/ Lose(c)
  \/ \E s \in DOMAIN stage : Expires(s)
  \/ WizardReturns \/ Reload

----------------------------------------------------------------------------
(* An answer tells the page to start over exactly when the service rejected*)
(* its token: never for a wrong OTP or an outage, which would throw away a *)
(* session that can go on, and always when nothing else can help.          *)
(* bvn.ts:41-47.                                                           *)
RestartsOnlyWhenDead ==
  \A c \in Call : Pending(c) /\ Served(c) =>
    /\ Told(c) = "BVN_SESSION_EXPIRED" => call[c].on # 0 /\ stage[call[c].on] = "dead"
    /\ call[c].reply \in TokenRejected => Told(c) = "BVN_SESSION_EXPIRED"

(* A code that was redeemed has brought its attestation to the page, or is *)
(* bringing it; it is used up for nothing only when that one answer was    *)
(* lost or cannot be read, however many calls redeem it.                   *)
(* simple-kyc.ts:75-99, liveness.ts:81-105.                                *)
SpentIsHeld ==
  \A s \in DOMAIN stage :
    stage[s] = "spent" => s \in attested \cup astray \/ \E c \in Call : Carries(c) /\ call[c].on = s
=============================================================================
