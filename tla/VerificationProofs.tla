-------------------------- MODULE VerificationProofs --------------------------
(***************************************************************************)
(* The safety of the verification page for any number of calls of start(), *)
(* of ZK Passport flows, of overlapping requests and of hosted sessions.   *)
(*                                                                         *)
(* Each component has an inductive invariant of its own.  Reclaim's says   *)
(* what Reclaim's session must have become for a start() to end as it did  *)
(* (PollInv), the phone's what a settled result rests on (PhoneInv), the   *)
(* hosted one where every answer comes from and what the session it is of  *)
(* has become (HostedInv).  The page adds that what it prepared belongs to *)
(* a flow that succeeded.                                                  *)
(***************************************************************************)
EXTENDS Verification, TLAPS

USE ReclaimAssumption, HostedAssumption

----------------------------------------------------------------------------
(* Reclaim                                                                 *)

PollInv ==
  /\ TypeOK
  /\ PollsUntilProof
  /\ \A p \in Poll : poll[p] = "proof" => session \in {"proved", "gone"} \/ (~Github /\ session = "empty")

(* Nothing is polled before the flow is there.                             *)
LEMMA PollInit == Init => PollInv
  BY DEF Init, PollInv, TypeOK, PollsUntilProof, FlowError, MintError, PollError, Ended

(* Every step of the Reclaim flow keeps its invariant.                     *)
LEMMA PollStepKeeps == PollInv /\ [Next]_vars => PollInv'
<1> SUFFICES ASSUME PollInv, [Next]_vars PROVE PollInv'
  OBVIOUS
<1> USE DEF PollInv, TypeOK, PollsUntilProof, PollError, Ended
<1>1. CASE Mint
  BY <1>1 DEF Mint, FlowError, MintError
<1>2. CASE Abort \/ SignalAborts
  BY <1>2 DEF Abort, SignalAborts
<1>3. CASE SessionMoves
  BY <1>3 DEF SessionMoves
<1>4. ASSUME NEW p \in Poll, Start(p) \/ Wake(p) PROVE PollInv'
  BY <1>4 DEF Start, Wake, Go
<1>5. ASSUME NEW p \in Poll, Top(p) PROVE PollInv'
  BY <1>5 DEF Top, Go
<1>6. ASSUME NEW p \in Poll, Answer(p) PROVE PollInv'
  BY <1>6 DEF Answer, Go, Outcome
<1>7. ASSUME NEW p \in Poll, RequestFails(p) PROVE PollInv'
  BY <1>7 DEF RequestFails, Go
<1>8. CASE UNCHANGED vars
  BY <1>8 DEF vars
<1> QED BY <1>1, <1>2, <1>3, <1>4, <1>5, <1>6, <1>7, <1>8 DEF Next, PollStep

(* No request begins after an abort.                                       *)
LEMMA NextIsQuiet ==
  ASSUME PollInv, [Next]_vars, NEW p \in Poll, poll[p] # "fetching", poll'[p] = "fetching"
  PROVE  ~(aborted \/ signal)
<1> USE DEF PollInv, TypeOK
<1>1. CASE Mint \/ Abort \/ SignalAborts \/ SessionMoves
  BY <1>1 DEF Mint, Abort, SignalAborts, SessionMoves
<1>2. ASSUME NEW q \in Poll, Start(q) \/ Wake(q) \/ RequestFails(q) PROVE ~(aborted \/ signal)
  BY <1>2 DEF Start, Wake, RequestFails, Go
<1>3. ASSUME NEW q \in Poll, Top(q) PROVE ~(aborted \/ signal)
  BY <1>3 DEF Top, Go
<1>4. ASSUME NEW q \in Poll, Answer(q) PROVE ~(aborted \/ signal)
  BY <1>4 DEF Answer, Go, Outcome
<1>5. CASE UNCHANGED vars
  BY <1>5 DEF vars
<1> QED BY <1>1, <1>2, <1>3, <1>4, <1>5 DEF Next, PollStep

(* A start() that has its proof keeps it.                                  *)
LEMMA ProofStays ==
  ASSUME PollInv, [Next]_vars, NEW p \in Poll, poll[p] = "proof" PROVE poll'[p] = "proof"
<1> USE DEF PollInv, TypeOK
<1>1. CASE Mint \/ Abort \/ SignalAborts \/ SessionMoves
  BY <1>1 DEF Mint, Abort, SignalAborts, SessionMoves
<1>2. ASSUME NEW q \in Poll, Start(q) \/ PollStep(q) PROVE poll'[p] = "proof"
  BY <1>2 DEF Start, PollStep, Wake, RequestFails, Top, Answer, Go
<1>3. CASE UNCHANGED vars
  BY <1>3 DEF vars
<1> QED BY <1>1, <1>2, <1>3 DEF Next

----------------------------------------------------------------------------
(* ZK Passport                                                             *)

PhoneInv ==
  /\ ZkTypeOK
  /\ AnswerSettles
  /\ \A f \in Flow : result[f] = "resolved" => bridge[f] = "answered" /\ proof[f]

(* Nothing has come from the phone yet.                                    *)
LEMMA PhoneInit == ZkInit => PhoneInv
  BY DEF ZkInit, PhoneInv, ZkTypeOK, AnswerSettles

(* Every step of the ZK Passport flows keeps their invariant.              *)
LEMMA PhoneStepKeeps == PhoneInv /\ [ZkNext]_zkVars => PhoneInv'
<1> SUFFICES ASSUME PhoneInv, [ZkNext]_zkVars PROVE PhoneInv'
  OBVIOUS
<1> USE DEF PhoneInv, ZkTypeOK, AnswerSettles, Error
<1>1. ASSUME NEW f \in Flow, RequestReceived(f) \/ GeneratingProof(f) PROVE PhoneInv'
  BY <1>1 DEF RequestReceived, GeneratingProof, Reports
<1>2. ASSUME NEW f \in Flow, ProofGenerated(f) PROVE PhoneInv'
  BY <1>2 DEF ProofGenerated, Reports
<1>3. ASSUME NEW f \in Flow, NEW verified \in BOOLEAN, NEW extracted \in BOOLEAN,
             Result(f, verified, extracted)
      PROVE  PhoneInv'
  BY <1>3 DEF Result, Reports, Settle, Verdict
<1>4. ASSUME NEW f \in Flow, Reject(f) PROVE PhoneInv'
  BY <1>4 DEF Reject, Settle
<1>5. ASSUME NEW f \in Flow, BridgeError(f) PROVE PhoneInv'
  BY <1>5 DEF BridgeError, Settle
<1>6. ASSUME NEW f \in Flow, ZkAbort(f) PROVE PhoneInv'
  BY <1>6 DEF ZkAbort
<1>7. CASE UNCHANGED zkVars
  BY <1>7 DEF zkVars
<1> QED BY <1>1, <1>2, <1>3, <1>4, <1>5, <1>6, <1>7 DEF ZkNext, Progress

(* A result that becomes a success does so by the phone's answer to a flow *)
(* that was not aborted, with its proof at hand; and it stays a success.   *)
LEMMA NextIsEarned ==
  ASSUME PhoneInv, [ZkNext]_zkVars, NEW f \in Flow
  PROVE  /\ result[f] # "resolved" /\ result'[f] = "resolved" => proof[f] /\ ~zkAborted[f]
         /\ result[f] = "resolved" => result'[f] = "resolved"
<1> DEFINE Kept == /\ result[f] # "resolved" /\ result'[f] = "resolved" => proof[f] /\ ~zkAborted[f]
                   /\ result[f] = "resolved" => result'[f] = "resolved"
<1> USE DEF PhoneInv, ZkTypeOK
<1>1. ASSUME NEW g \in Flow, RequestReceived(g) \/ GeneratingProof(g) \/ ProofGenerated(g) \/ ZkAbort(g)
      PROVE  Kept
  BY <1>1 DEF RequestReceived, GeneratingProof, ProofGenerated, ZkAbort
<1>2. ASSUME NEW g \in Flow, NEW verified \in BOOLEAN, NEW extracted \in BOOLEAN,
             Result(g, verified, extracted)
      PROVE  Kept
  BY <1>2 DEF Result, Settle, Verdict
<1>3. ASSUME NEW g \in Flow, Reject(g) \/ BridgeError(g) PROVE Kept
  BY <1>3 DEF Reject, BridgeError, Settle
<1>4. CASE UNCHANGED zkVars
  BY <1>4 DEF zkVars
<1> QED BY <1>1, <1>2, <1>3, <1>4 DEF ZkNext, Progress

----------------------------------------------------------------------------
(* Hosted sessions                                                         *)

Steps(p) == IF p = "bvn" THEN DOMAIN BvnFailure ELSE {"create", "redeem"}
Earned == {"approved", "spent", "dead"}

(* Where the answer of a call comes from, and what its session has become. *)
Origin(c) ==
  \/ /\ call[c].reply \in Granted(call[c].op) /\ call[c].on # 0
     /\ call[c].op \in {"redeem", "getAttestation"} => stage[call[c].on] \in Earned
  \/ call[c].reply \in Refused
  \/ call[c].reply \in TokenRejected /\ call[c].on # 0 /\ stage[call[c].on] = "dead"

(* The page is at a step of its own flow, with a session if it needs one.  *)
AtOwnStep ==
  /\ at \in Steps(provider) /\ (at # Opens(provider) => holds # 0)
  /\ \A c \in Call : Pending(c) => /\ call[c].op \in Steps(provider)
                                   /\ call[c].op # Opens(provider) => call[c].on # 0

AnswersHaveOrigin == \A c \in Call : Served(c) => Pending(c) /\ Origin(c)
OnlyTokensDie == \A s \in DOMAIN stage : stage[s] = "dead" => provider = "bvn"
AttestedIsEarned == \A s \in attested : stage[s] \in Earned

HostedInv ==
  HostedTypeOK /\ AtOwnStep /\ AnswersHaveOrigin /\ OnlyTokensDie /\ AttestedIsEarned /\ SpentIsHeld

(* What each kind of answer is told as.                                    *)
LEMMA GrantedIsTold ==
  ASSUME NEW op \in Op, NEW r \in Granted(op)
  PROVE  r.ok /\ ~r.is401 /\ r.body \notin {"error", "unauthorized"} /\ r \in Reply
  BY DEF Granted, PeculiarTo, Reply, Body, Usable
LEMMA RefusedIsTold ==
  ASSUME NEW r \in Refused PROVE ~r.is401 /\ r.body = "error" /\ r \in Reply
  BY DEF Refused, Reply, Body, Usable
LEMMA RejectedIsTold ==
  ASSUME NEW r \in TokenRejected
  PROVE  (r.is401 \/ r.body = "unauthorized") /\ r.body \notin Usable /\ r \in Reply
           /\ (~r.ok \/ r.body = "unauthorized")
  BY DEF TokenRejected, Reply, Body, Usable

(* No session has been asked for yet.                                      *)
LEMMA HostedStarts == HostedInit => HostedInv
<1> SUFFICES ASSUME HostedInit PROVE HostedInv
  OBVIOUS
<1>1. HostedTypeOK
  BY DEF HostedInit, HostedTypeOK, Idle, Wizard, Opens, Op
<1>2. AtOwnStep
  BY DEF HostedInit, AtOwnStep, Steps, Opens, Wizard, BvnFailure, Pending, Idle
<1>3. AnswersHaveOrigin /\ OnlyTokensDie /\ AttestedIsEarned /\ SpentIsHeld
  BY DEF HostedInit, AnswersHaveOrigin, OnlyTokensDie, AttestedIsEarned, SpentIsHeld, Served, Idle
<1> QED BY <1>1, <1>2, <1>3 DEF HostedInv

(* The page asks for something.                                            *)
LEMMA RequestKeeps == ASSUME HostedInv, NEW c \in Call, NEW op \in Op, Request(c, op) PROVE HostedInv'
<1> USE DEF HostedInv, Request
<1>1. HostedTypeOK'
  BY GrantedIsTold, RefusedIsTold, RejectedIsTold DEF HostedTypeOK, Stage, Pending, Served
<1>2. AtOwnStep'
  BY DEF AtOwnStep, HostedTypeOK, Pending, Steps, Opens, BvnFailure
<1>3. AnswersHaveOrigin'
  BY DEF AnswersHaveOrigin, Origin, HostedTypeOK, AtOwnStep, Served, Pending, Earned, None, Steps, Opens, BvnFailure
<1>4. OnlyTokensDie'
  BY DEF OnlyTokensDie, HostedTypeOK
<1>5. AttestedIsEarned'
  BY DEF AttestedIsEarned, HostedTypeOK, Earned
<1>6. SpentIsHeld'
  BY GrantedIsTold DEF SpentIsHeld, HostedTypeOK, Carries, Pending, Served, None
<1> QED BY <1>1, <1>2, <1>3, <1>4, <1>5, <1>6

(* A service makes a session.                                              *)
LEMMA ServeNewKeeps == ASSUME HostedInv, NEW c \in Call, ServeNew(c) PROVE HostedInv'
<1> USE DEF HostedInv, ServeNew, Replies
<1>1. HostedTypeOK'
  BY GrantedIsTold, RefusedIsTold, RejectedIsTold DEF HostedTypeOK, Stage, Pending, Served
<1>2. AtOwnStep'
  BY DEF AtOwnStep, HostedTypeOK, Pending, Steps, Opens, BvnFailure
<1>3. AnswersHaveOrigin'
  BY DEF AnswersHaveOrigin, Origin, HostedTypeOK, AtOwnStep, Served, Pending, Earned, None, Steps, Opens, BvnFailure
<1>4. OnlyTokensDie'
  BY DEF OnlyTokensDie, HostedTypeOK
<1>5. AttestedIsEarned'
  BY DEF AttestedIsEarned, HostedTypeOK, Earned
<1>6. SpentIsHeld'
  BY GrantedIsTold DEF SpentIsHeld, HostedTypeOK, Carries, Pending, Served, None
<1> QED BY <1>1, <1>2, <1>3, <1>4, <1>5, <1>6

(* A service grants a call.                                                *)
LEMMA ServeKeeps == ASSUME HostedInv, NEW c \in Call, Serve(c) PROVE HostedInv'
<1> USE DEF HostedInv, Serve, Replies, Says, Becomes, Grants
<1>1. HostedTypeOK'
  BY GrantedIsTold, RefusedIsTold, RejectedIsTold, SMTT(60) DEF HostedTypeOK, Stage, Pending, Served
<1>2. AtOwnStep'
  BY DEF AtOwnStep, HostedTypeOK, Pending, Steps, Opens, BvnFailure
<1>3. AnswersHaveOrigin'
  BY DEF AnswersHaveOrigin, Origin, HostedTypeOK, AtOwnStep, Served, Pending, Earned, None, Steps, Opens, BvnFailure
<1>4. OnlyTokensDie'
  BY DEF OnlyTokensDie, HostedTypeOK
<1>5. AttestedIsEarned'
  BY DEF AttestedIsEarned, HostedTypeOK, Earned
<1>6. SpentIsHeld'
  BY GrantedIsTold DEF SpentIsHeld, HostedTypeOK, Carries, Pending, Served, None
<1> QED BY <1>1, <1>2, <1>3, <1>4, <1>5, <1>6

(* A service refuses a call.                                               *)
LEMMA RefuseKeeps == ASSUME HostedInv, NEW c \in Call, Refuse(c) PROVE HostedInv'
<1> USE DEF HostedInv, Refuse, Replies
<1>1. HostedTypeOK'
  BY GrantedIsTold, RefusedIsTold, RejectedIsTold DEF HostedTypeOK, Stage, Pending, Served
<1>2. AtOwnStep'
  BY DEF AtOwnStep, HostedTypeOK, Pending, Steps, Opens, BvnFailure
<1>3. AnswersHaveOrigin'
  BY DEF AnswersHaveOrigin, Origin, HostedTypeOK, AtOwnStep, Served, Pending, Earned, None, Steps, Opens, BvnFailure
<1>4. OnlyTokensDie'
  BY DEF OnlyTokensDie, HostedTypeOK
<1>5. AttestedIsEarned'
  BY DEF AttestedIsEarned, HostedTypeOK, Earned
<1>6. SpentIsHeld'
  BY GrantedIsTold DEF SpentIsHeld, HostedTypeOK, Carries, Pending, Served, None
<1> QED BY <1>1, <1>2, <1>3, <1>4, <1>5, <1>6

(* The proxy rejects a token.                                              *)
LEMMA RejectKeeps == ASSUME HostedInv, NEW c \in Call, RejectToken(c) PROVE HostedInv'
<1> USE DEF HostedInv, RejectToken, Replies
<1>1. HostedTypeOK'
  BY GrantedIsTold, RefusedIsTold, RejectedIsTold DEF HostedTypeOK, Stage, Pending, Served
<1>2. AtOwnStep'
  BY DEF AtOwnStep, HostedTypeOK, Pending, Steps, Opens, BvnFailure
<1>3. AnswersHaveOrigin'
  BY DEF AnswersHaveOrigin, Origin, HostedTypeOK, AtOwnStep, Served, Pending, Earned, None, Steps, Opens, BvnFailure
<1>4. OnlyTokensDie'
  BY DEF OnlyTokensDie, HostedTypeOK
<1>5. AttestedIsEarned'
  BY DEF AttestedIsEarned, HostedTypeOK, Earned
<1>6. SpentIsHeld'
  BY GrantedIsTold DEF SpentIsHeld, HostedTypeOK, Carries, Pending, Served, None
<1> QED BY <1>1, <1>2, <1>3, <1>4, <1>5, <1>6

(* A token expires.                                                        *)
LEMMA ExpiresKeeps == ASSUME HostedInv, NEW s \in DOMAIN stage, Expires(s) PROVE HostedInv'
<1> USE DEF HostedInv, Expires
<1>1. HostedTypeOK'
  BY DEF HostedTypeOK, Stage, Op, None
<1>2. AtOwnStep'
  BY DEF AtOwnStep, HostedTypeOK, Pending, Steps, Opens, BvnFailure, Wizard
<1>3. AnswersHaveOrigin'
  BY DEF AnswersHaveOrigin, Origin, HostedTypeOK, Served, Pending, Earned, None
<1>4. OnlyTokensDie'
  BY DEF OnlyTokensDie, HostedTypeOK
<1>5. AttestedIsEarned'
  BY DEF AttestedIsEarned, HostedTypeOK, Earned
<1>6. SpentIsHeld'
  BY GrantedIsTold DEF SpentIsHeld, HostedTypeOK, Carries, None
<1> QED BY <1>1, <1>2, <1>3, <1>4, <1>5, <1>6

(* A call that carries an attestation is of a session.                     *)
LEMMA CarriedIsReal ==
  ASSUME HostedInv, NEW c \in Call, Carries(c) PROVE call[c].on \in 1..Len(stage) /\ Pending(c) /\ Served(c)
<1>1. call[c].op = "redeem" /\ Pending(c)
  BY DEF Carries, Pending
<1>2. call[c].op # Opens(provider)
  BY <1>1 DEF Opens
<1>3. call[c].on \in 0..Len(stage) /\ Len(stage) \in Nat
  BY DEF HostedInv, HostedTypeOK
<1>4. Served(c)
  BY GrantedIsTold DEF Carries, Served, None, Op, Body, Usable
<1> QED BY <1>1, <1>2, <1>3, <1>4 DEF HostedInv, AtOwnStep

(* A page without calls.                                                   *)
LEMMA IdleIsTyped ==
  ASSUME HostedInv, call' = [c \in Call |-> Idle], stage' \in Seq(Stage)
  PROVE  call' \in [Call -> [op : Op \cup {"none"}, on : 0..Len(stage'), reply : Reply \cup {None}]]
  BY DEF Idle

(* The wizard redirects back.                                              *)
LEMMA WizardKeeps == ASSUME HostedInv, WizardReturns PROVE HostedInv'
<1> USE DEF HostedInv, WizardReturns, Leaves, Idle
<1>1. HostedTypeOK'
  <2>1. stage' \in Seq(Stage) /\ Len(stage') = Len(stage)
    BY DEF HostedTypeOK, Stage
  <2>2. astray' \subseteq 1..Len(stage)
    BY CarriedIsReal DEF HostedTypeOK
  <2> QED BY <2>1, <2>2, IdleIsTyped DEF HostedTypeOK
<1>2. AtOwnStep'
  BY DEF AtOwnStep, HostedTypeOK, Pending, Steps, Opens, BvnFailure, Wizard
<1>3. AnswersHaveOrigin'
  BY DEF AnswersHaveOrigin, Origin, HostedTypeOK, Served, Pending, Earned, None
<1>4. OnlyTokensDie'
  BY DEF OnlyTokensDie, HostedTypeOK
<1>5. AttestedIsEarned'
  BY DEF AttestedIsEarned, HostedTypeOK, Earned
<1>6. SpentIsHeld'
  BY GrantedIsTold DEF SpentIsHeld, HostedTypeOK, Carries, None
<1> QED BY <1>1, <1>2, <1>3, <1>4, <1>5, <1>6

(* The page is loaded again.                                               *)
LEMMA ReloadKeeps == ASSUME HostedInv, Reload PROVE HostedInv'
<1> USE DEF HostedInv, Reload, Leaves, Idle
<1>1. HostedTypeOK'
  <2>1. stage' = stage /\ holds' \in 0..Len(stage) /\ at' \in Op
    BY DEF HostedTypeOK, Op
  <2>2. astray' \subseteq 1..Len(stage)
    BY CarriedIsReal DEF HostedTypeOK
  <2> QED BY <2>1, <2>2, IdleIsTyped DEF HostedTypeOK
<1>2. AtOwnStep'
  BY DEF AtOwnStep, HostedTypeOK, Pending, Steps, Opens, BvnFailure, Wizard
<1>3. AnswersHaveOrigin'
  BY DEF AnswersHaveOrigin, Origin, HostedTypeOK, Served, Pending, Earned, None
<1>4. OnlyTokensDie'
  BY DEF OnlyTokensDie, HostedTypeOK
<1>5. AttestedIsEarned'
  BY DEF AttestedIsEarned, HostedTypeOK, Earned
<1>6. SpentIsHeld'
  BY GrantedIsTold DEF SpentIsHeld, HostedTypeOK, Carries, None
<1> QED BY <1>1, <1>2, <1>3, <1>4, <1>5, <1>6

(* A request or its answer is lost.                                        *)
LEMMA LoseKeeps == ASSUME HostedInv, NEW c \in Call, Lose(c) PROVE HostedInv'
<1> USE DEF HostedInv, Lose, Idle
<1>1. HostedTypeOK'
  <2>1. astray' \subseteq 1..Len(stage)
    BY CarriedIsReal DEF HostedTypeOK
  <2> QED BY <2>1 DEF HostedTypeOK
<1>2. AtOwnStep'
  BY DEF AtOwnStep, HostedTypeOK, Pending, Steps, Opens, BvnFailure, Wizard
<1>3. AnswersHaveOrigin'
  BY DEF AnswersHaveOrigin, Origin, HostedTypeOK, Served, Pending, Earned, None
<1>4. OnlyTokensDie'
  BY DEF OnlyTokensDie, HostedTypeOK
<1>5. AttestedIsEarned'
  BY DEF AttestedIsEarned, HostedTypeOK, Earned
<1>6. SpentIsHeld'
  BY GrantedIsTold DEF SpentIsHeld, HostedTypeOK, Carries, None
<1> QED BY <1>1, <1>2, <1>3, <1>4, <1>5, <1>6

(* A failure code is neither a success nor the order to start over.        *)
LEMMA FailureIsItself ==
  LET Plain(code) == code # "ok" /\ code # "BVN_SESSION_EXPIRED"
  IN  /\ Plain(SessionFailed(provider)) /\ Plain(RedeemFailed(provider))
      /\ \A op \in DOMAIN BvnFailure : Plain(BvnFailure[op])
<1>1. \A op \in DOMAIN BvnFailure : BvnFailure[op] # "ok" /\ BvnFailure[op] # "BVN_SESSION_EXPIRED"
  BY DEF BvnFailure
<1> QED BY <1>1 DEF SessionFailed, RedeemFailed

(* What the page is told of an answer tells what the service did.          *)
LEMMA ToldIsSo ==
  ASSUME HostedInv, NEW c \in Call, Served(c)
  PROVE  /\ Told(c) = "ok" => call[c].reply \in Granted(call[c].op) /\ call[c].on \in 1..Len(stage)
         /\ Told(c) = "BVN_SESSION_EXPIRED" =>
              provider = "bvn" /\ call[c].on \in 1..Len(stage) /\ stage[call[c].on] = "dead"
         /\ call[c].reply \in TokenRejected => Told(c) = "BVN_SESSION_EXPIRED"
         /\ Carries(c) /\ call[c].reply.body \in Usable => Told(c) = "ok"
<1> DEFINE op == call[c].op  on == call[c].on  r == call[c].reply
<1>0. op \in Op /\ op \in Steps(provider) /\ on \in 0..Len(stage) /\ Len(stage) \in Nat
  BY DEF HostedInv, HostedTypeOK, AnswersHaveOrigin, AtOwnStep, Pending
<1>1. Origin(c)
  BY DEF HostedInv, AnswersHaveOrigin
<1>2. op \in DOMAIN BvnFailure => op # "create" /\ op # "redeem"
  BY DEF BvnFailure
<1>3. op = "create" \/ op = "redeem" \/ op \in DOMAIN BvnFailure
  BY <1>0 DEF Steps
<1>4. ASSUME r \in Granted(op), on # 0
      PROVE  /\ Told(c) # "BVN_SESSION_EXPIRED" /\ r \notin TokenRejected
             /\ Carries(c) /\ r.body \in Usable => Told(c) = "ok"
  <2>1. r.ok /\ ~r.is401 /\ r.body \notin {"error", "unauthorized"}
    BY <1>0, <1>4, GrantedIsTold
  <2>2. r \notin TokenRejected
    BY <2>1, RejectedIsTold
  <2>3. Told(c) # "BVN_SESSION_EXPIRED"
    BY <1>2, <1>3, <2>1, FailureIsItself DEF Told, CreateTold, RedeemTold, BvnTold
  <2>4. Carries(c) /\ r.body \in Usable => Told(c) = "ok"
    BY <2>1 DEF Told, RedeemTold, Carries
  <2> QED BY <2>2, <2>3, <2>4
<1>5. ASSUME r \in Refused
      PROVE  /\ Told(c) # "BVN_SESSION_EXPIRED" /\ Told(c) # "ok" /\ r \notin TokenRejected
             /\ r.body \notin Usable
  <2>1. ~r.is401 /\ r.body = "error" /\ r.body \notin Usable
    BY <1>5, RefusedIsTold DEF Usable
  <2>2. r \notin TokenRejected
    BY <2>1, RejectedIsTold
  <2>3. Told(c) # "BVN_SESSION_EXPIRED" /\ Told(c) # "ok"
    BY <1>2, <1>3, <2>1, FailureIsItself DEF Told, CreateTold, RedeemTold, BvnTold
  <2> QED BY <2>1, <2>2, <2>3
<1>6. ASSUME r \in TokenRejected, on # 0, stage[on] = "dead"
      PROVE  provider = "bvn" /\ Told(c) = "BVN_SESSION_EXPIRED" /\ r.body \notin Usable
  <2>1. provider = "bvn"
    BY <1>0, <1>6 DEF HostedInv, HostedTypeOK, OnlyTokensDie
  <2>2. /\ r.is401 \/ r.body = "unauthorized"
        /\ r.body \notin Usable
        /\ ~r.ok \/ r.body = "unauthorized"
    BY <1>6, RejectedIsTold
  <2>3. Told(c) = BvnTold(op, r)
    BY <1>0, <1>2, <2>1 DEF Told, Steps
  <2> QED BY <2>1, <2>2, <2>3 DEF BvnTold
<1> QED BY <1>0, <1>1, <1>4, <1>5, <1>6 DEF Origin

(* An answer tells the page to start over exactly when its token is dead.  *)
LEMMA DeadIsRestarted == HostedInv => RestartsOnlyWhenDead
  BY ToldIsSo DEF RestartsOnlyWhenDead

(* An answer arrives.                                                      *)
LEMMA HearKeeps == ASSUME HostedInv, NEW c \in Call, Hear(c) PROVE HostedInv'
<1> USE DEF HostedInv, Hear, Idle
<1> DEFINE op == call[c].op  on == call[c].on  r == call[c].reply  said == Told(c)
<1>1. op \in Op /\ on \in 0..Len(stage) /\ op \in Steps(provider) /\ Len(stage) \in Nat
  BY DEF HostedTypeOK, AtOwnStep, Pending
<1>2. said = "ok" => r \in Granted(op) /\ on \in 1..Len(stage)
  BY ToldIsSo
<1>3. said = "BVN_SESSION_EXPIRED" => provider = "bvn"
  BY ToldIsSo
<1>4. said = "ok" /\ op \in {"redeem", "getAttestation"} => stage[on] \in Earned
  <2>1. ASSUME r \in Granted(op) PROVE r \notin Refused /\ r \notin TokenRejected
    BY <1>1, <2>1, GrantedIsTold, RefusedIsTold, RejectedIsTold
  <2> QED BY <1>2, <2>1 DEF AnswersHaveOrigin, Origin
<1>5. Carries(c) /\ r.body \in Usable => said = "ok"
  BY ToldIsSo
<1>6. said = "ok" => After(op, r.body) \in Op /\ After(op, r.body) \in Steps(provider)
  <2>1. DOMAIN BvnFailure = {"onboard", "submitBvn", "sendOtp", "confirmOtp", "getAttestation"}
    BY DEF BvnFailure
  <2>2. CASE op \in {"create", "redeem"}
    <3>1. After(op, r.body) = "redeem" /\ provider # "bvn"
      BY <1>1, <2>1, <2>2 DEF After, Following, Steps
    <3> QED BY <3>1 DEF Op, Steps
  <2>3. CASE op \in {"onboard", "submitBvn", "sendOtp", "confirmOtp", "getAttestation"}
    <3>1. After(op, r.body) \in {"onboard", "submitBvn", "sendOtp", "confirmOtp", "getAttestation"}
      BY <2>3 DEF After, Following
    <3>2. provider = "bvn"
      BY <1>1, <2>3 DEF Steps
    <3> QED BY <2>1, <3>1, <3>2 DEF Op, Steps
  <2> QED BY <1>1, <2>2, <2>3 DEF Op
<1>7. /\ stage' = stage /\ provider' = provider /\ call' = [call EXCEPT ![c] = Idle]
      /\ holds' \in 0..Len(stage) /\ at' \in Op /\ at' \in Steps(provider)
      /\ at' # Opens(provider) => holds' # 0
  <2>1. stage' = stage /\ provider' = provider /\ call' = [call EXCEPT ![c] = Idle]
    OBVIOUS
  <2>2. (holds' = on /\ said = "ok") \/ holds' = holds
    OBVIOUS
  <2>3. holds' \in 0..Len(stage) /\ (holds # 0 => holds' # 0)
    BY <1>1, <1>2, <2>2 DEF HostedTypeOK
  <2>4. \/ at' = at
        \/ said = "ok" /\ on = holds' /\ at' = After(op, r.body)
        \/ said = "BVN_SESSION_EXPIRED" /\ at' = "onboard"
    OBVIOUS
  <2>5. at' \in Op /\ at' \in Steps(provider)
    BY <1>3, <1>6, <2>4 DEF HostedTypeOK, AtOwnStep, Steps, BvnFailure, Op
  <2>6. at' # Opens(provider) => holds' # 0
    BY <1>1, <1>2, <1>3, <2>3, <2>4 DEF AtOwnStep, Opens
  <2> QED BY <2>1, <2>3, <2>5, <2>6
<1>8. HostedTypeOK'
  <2>1. attested' \subseteq 1..Len(stage)
    BY <1>2 DEF HostedTypeOK
  <2>2. astray' \subseteq 1..Len(stage)
    BY CarriedIsReal DEF HostedTypeOK
  <2>3. call' \in [Call -> [op : Op \cup {"none"}, on : 0..Len(stage), reply : Reply \cup {None}]]
    BY <1>1, <1>7 DEF HostedTypeOK
  <2> QED BY <1>7, <2>1, <2>2, <2>3 DEF HostedTypeOK
<1>9. AtOwnStep'
  BY <1>7 DEF AtOwnStep, HostedTypeOK, Pending, Steps, Opens
<1>10. AnswersHaveOrigin'
  BY <1>7 DEF AnswersHaveOrigin, Origin, HostedTypeOK, Served, Pending, None
<1>11. OnlyTokensDie'
  BY DEF OnlyTokensDie, HostedTypeOK
<1>12. AttestedIsEarned'
  BY <1>2, <1>4 DEF AttestedIsEarned, HostedTypeOK, Earned
<1>13. SpentIsHeld'
  BY <1>5 DEF SpentIsHeld, HostedTypeOK, Carries, None
<1> QED BY <1>8, <1>9, <1>10, <1>11, <1>12, <1>13

(* Every step of the hosted sessions keeps their invariant.                *)
LEMMA HostedStepKeeps == HostedInv /\ [HostedNext]_hostedVars => HostedInv'
<1> SUFFICES ASSUME HostedInv, [HostedNext]_hostedVars PROVE HostedInv'
  OBVIOUS
<1>1. CASE UNCHANGED hostedVars
  <2> USE <1>1 DEF hostedVars, HostedInv
  <2>1. HostedTypeOK' /\ AtOwnStep'
    BY DEF HostedTypeOK, AtOwnStep, Pending
  <2>2. AnswersHaveOrigin'
    BY DEF AnswersHaveOrigin, Origin, Pending, Served
  <2>3. OnlyTokensDie' /\ AttestedIsEarned' /\ SpentIsHeld'
    BY DEF OnlyTokensDie, AttestedIsEarned, SpentIsHeld, Carries
  <2> QED BY <2>1, <2>2, <2>3
<1>2. CASE HostedNext
  BY <1>2, RequestKeeps, ServeNewKeeps, ServeKeeps, RefuseKeeps, RejectKeeps, ExpiresKeeps,
     WizardKeeps, ReloadKeeps, HearKeeps, LoseKeeps DEF HostedNext
<1> QED BY <1>1, <1>2

(* What was attested stays so, and the page keeps its service.             *)
LEMMA AttestedStays == [HostedNext]_hostedVars => provider' = provider /\ attested \subseteq attested'
  BY DEF HostedNext, hostedVars, Request, ServeNew, Serve, Refuse, RejectToken, Expires, WizardReturns, Reload,
         Hear, Lose

----------------------------------------------------------------------------
(* The page                                                                *)

PageInv ==
  /\ PageTypeOK /\ PollInv /\ PhoneInv /\ HostedInv
  /\ prepared \in Transaction => Succeeded /\ prepared.of = Verifier /\ prepared.call = Function[Verifier]

(* A step of the page is a step of the flow it chose, and a stutter of the *)
(* others.                                                                 *)
LEMMA PageStepIsOwn ==
  [PageNext]_pageVars => [Next]_vars /\ [ZkNext]_zkVars /\ [HostedNext]_hostedVars /\ method' = method
  BY DEF PageNext, pageVars, Prepare

(* A success is one for good.                                              *)
LEMMA SuccessStays == PageInv /\ [PageNext]_pageVars /\ Succeeded => Succeeded' /\ Verifier' = Verifier
<1> SUFFICES ASSUME PageInv, [PageNext]_pageVars, Succeeded PROVE Succeeded' /\ Verifier' = Verifier
  OBVIOUS
<1>1. [Next]_vars /\ [ZkNext]_zkVars /\ [HostedNext]_hostedVars /\ method' = method
  BY PageStepIsOwn
<1>2. Verifier' = Verifier
  BY <1>1, AttestedStays DEF Verifier
<1>3. CASE method = "reclaim"
  <2>1. PICK p \in Poll : poll[p] = "proof"
    BY <1>3 DEF Succeeded
  <2>2. poll'[p] = "proof"
    BY <1>1, <2>1, ProofStays DEF PageInv
  <2>3. method' = "reclaim" /\ \E q \in Poll : poll'[q] = "proof"
    BY <1>1, <1>3, <2>2
  <2> QED BY <1>2, <2>3 DEF Succeeded
<1>4. CASE method = "passport"
  <2>1. PICK f \in Flow : result[f] = "resolved"
    BY <1>4 DEF Succeeded
  <2>2. result'[f] = "resolved"
    BY <1>1, <2>1, NextIsEarned DEF PageInv
  <2>3. method' = "passport" /\ \E g \in Flow : result'[g] = "resolved"
    BY <1>1, <1>4, <2>2
  <2> QED BY <1>2, <2>3 DEF Succeeded
<1>5. CASE method = "hosted"
  <2>1. attested # {}
    BY <1>5 DEF Succeeded
  <2>2. method' = "hosted" /\ attested' # {}
    BY <1>1, <1>5, <2>1, AttestedStays
  <2> QED BY <1>2, <2>2 DEF Succeeded
<1> QED BY <1>2, <1>3, <1>4, <1>5 DEF PageInv, PageTypeOK

LEMMA PageStarts == PageInit => PageInv
<1> SUFFICES ASSUME PageInit PROVE PageInv
  OBVIOUS
<1>1. PollInv /\ PhoneInv /\ HostedInv
  BY PollInit, PhoneInit, HostedStarts DEF PageInit
<1>2. prepared \notin Transaction
  BY DEF PageInit, Untold, Transaction, Function
<1> QED BY <1>1, <1>2 DEF PageInv, PageTypeOK, PageInit, PollInv, PhoneInv, HostedInv

LEMMA PageStepKeeps == PageInv /\ [PageNext]_pageVars => PageInv'
<1> SUFFICES ASSUME PageInv, [PageNext]_pageVars PROVE PageInv'
  OBVIOUS
<1>1. [Next]_vars /\ [ZkNext]_zkVars /\ [HostedNext]_hostedVars /\ method' = method
  BY PageStepIsOwn
<1>2. PollInv' /\ PhoneInv' /\ HostedInv'
  BY <1>1, PollStepKeeps, PhoneStepKeeps, HostedStepKeeps DEF PageInv
<1>3. CASE prepared' = prepared
  BY <1>1, <1>2, <1>3, SuccessStays DEF PageInv, PageTypeOK, PollInv, PhoneInv, HostedInv
<1>4. ASSUME NEW flaw \in Flaw, Prepare(flaw) PROVE PageInv'
  <2>1. Succeeded /\ Verifier \in DOMAIN Function
    BY <1>4 DEF Prepare, Verifier, PageInv, PageTypeOK, HostedTypeOK, Wizard, Function
  <2>2. prepared'.of = Verifier /\ prepared'.call \in PrepareError \cup {Function[Verifier]}
    BY <1>4 DEF Prepare, Flaw, PrepareError
  <2>3. PageTypeOK'
    BY <1>1, <1>2, <1>4, <2>1 DEF PageInv, PageTypeOK, Prepare, Flaw, PrepareError, Transaction, PollInv, PhoneInv, HostedInv
  <2>4. prepared' \in Transaction => prepared'.call = Function[Verifier]
    BY <2>1, <2>2 DEF Transaction, PrepareError, Function
  <2> QED BY <1>1, <1>2, <2>1, <2>2, <2>3, <2>4, SuccessStays DEF PageInv
<1> QED BY <1>3, <1>4 DEF PageNext, pageVars

(* A flow that succeeded was finished by its user.                         *)
LEMMA SuccessIsFinished == PageInv /\ Succeeded => Finished
<1> SUFFICES ASSUME PageInv, Succeeded PROVE Finished
  OBVIOUS
<1>1. CASE method = "reclaim"
  BY <1>1 DEF PageInv, PollInv, Succeeded, Finished
<1>2. CASE method = "passport"
  BY <1>2 DEF PageInv, PhoneInv, Succeeded, Finished
<1>3. CASE method = "hosted"
  BY <1>3 DEF PageInv, HostedInv, HostedTypeOK, AttestedIsEarned, Earned, Succeeded, Finished
<1> QED BY <1>1, <1>2, <1>3 DEF PageInv, PageTypeOK

(* The page's invariant holds, however many calls and sessions it has.     *)
LEMMA PageIsSafe == PageSpec => []PageInv
  BY PageStarts, PageStepKeeps, PTL DEF PageSpec

(* Every variable of the page and of its flows keeps its type.             *)
THEOREM PageTypes == PageSpec => []PageTypeOK
  BY PageIsSafe, PTL DEF PageInv

(* However many times start() runs, none of them gives up while Reclaim's  *)
(* session may still bring a proof it can use.  reclaim.ts:121-157.        *)
THEOREM PollingIsPatient == PageSpec => []PollsUntilProof
  BY PageIsSafe, PTL DEF PageInv, PollInv

(* No start() begins a request after an abort.  reclaim.ts:112.            *)
THEOREM AbortIsQuiet == PageSpec => QuietAfterAbort
<1>1. PageInv /\ [PageNext]_pageVars =>
        [\A p \in Poll : poll[p] # "fetching" /\ poll'[p] = "fetching" => ~(aborted \/ signal)]_vars
  BY PageStepIsOwn, NextIsQuiet DEF PageInv
<1> QED BY <1>1, PageIsSafe, PTL DEF PageSpec, QuietAfterAbort

(* The phone's answer or refusal settles the result of every flow that was *)
(* not aborted and whose onStatus did not throw on it, whichever other     *)
(* flows the page began.  zk-passport.ts:79-107, 111-117.                  *)
THEOREM PhoneAnswerSettles == PageSpec => []AnswerSettles
  BY PageIsSafe, PTL DEF PageInv, PhoneInv

(* A success rests on a proof, and never follows an abort.                 *)
(* zk-passport.ts:63, 78, 81.                                              *)
THEOREM PhoneSuccessIsEarned == PageSpec => SuccessIsEarned
<1>1. PageInv /\ [PageNext]_pageVars =>
        [\A f \in Flow : result[f] # "resolved" /\ result'[f] = "resolved" => proof[f] /\ ~zkAborted[f]]_zkVars
  BY PageStepIsOwn, NextIsEarned DEF PageInv
<1> QED BY <1>1, PageIsSafe, PTL DEF PageSpec, SuccessIsEarned

(* BVN_SESSION_EXPIRED is told exactly of a rejected token, whatever calls *)
(* overlap and get lost.  bvn.ts:41-47.                                    *)
THEOREM RestartIsJustified == PageSpec => []RestartsOnlyWhenDead
<1>1. PageInv => RestartsOnlyWhenDead
  BY DeadIsRestarted DEF PageInv
<1> QED BY <1>1, PageIsSafe, PTL

(* No code is used up for nothing but by the loss of the one answer that   *)
(* was its attestation.  simple-kyc.ts:75-99.                              *)
THEOREM CodesAreHeld == PageSpec => []SpentIsHeld
  BY PageIsSafe, PTL DEF PageInv, HostedInv

(* Whatever is encoded for the chain is of a flow its user finished, and   *)
(* for the function that knows its signer.  client.ts, writes.ts:162-167.  *)
THEOREM EarnedOnChain == PageSpec => []TransactionIsEarned
<1>1. PageInv => TransactionIsEarned
  <2> SUFFICES ASSUME PageInv, prepared \in Transaction
               PROVE  Finished /\ Judges[prepared.call] = prepared.of
    BY DEF TransactionIsEarned
  <2>1. Succeeded /\ prepared.of = Verifier /\ prepared.call = Function[Verifier]
    BY DEF PageInv
  <2>2. Verifier \in {"reclaim", "passport", "kyc", "liveness", "bvn"}
    BY DEF PageInv, PageTypeOK, HostedTypeOK, Wizard, Verifier
  <2>3. Judges[Function[Verifier]] = Verifier
    BY <2>2 DEF Judges, Function
  <2> QED BY <2>1, <2>3, SuccessIsFinished
<1> QED BY <1>1, PageIsSafe, PTL

----------------------------------------------------------------------------
(* Polling ends                                                            *)

(* A page that chose another flow has started no poll.                     *)
OnlyReclaimPolls == \A p \in Poll : method # "reclaim" => poll[p] = "idle"

LEMMA PollsAreReclaims == PageSpec => []OnlyReclaimPolls
<1>1. PageInit => OnlyReclaimPolls
  BY DEF PageInit, Init, OnlyReclaimPolls
<1>2. OnlyReclaimPolls /\ [PageNext]_pageVars => OnlyReclaimPolls'
  BY DEF OnlyReclaimPolls, PageNext, pageVars, vars, Prepare
<1> QED BY <1>1, <1>2, PTL DEF PageSpec

(* Why a poll will be over, and how far it is: a stopped one ends at the   *)
(* top of its loop, one whose session is settled when the answer is there. *)
Stopped == aborted \/ signal
SessionIsSettled == session # "waiting"
PollAt(p, s) == poll[p] = s
PollEnded(p) == poll[p] \in Ended

PollGoesOn(p) ==
  /\ Stopped => Stopped'
  /\ SessionIsSettled => SessionIsSettled'
  /\ PollAt(p, "sleeping") => PollAt(p, "sleeping")' \/ PollAt(p, "top")'
  /\ PollAt(p, "top") => PollAt(p, "top")' \/ PollEnded(p)' \/ (PollAt(p, "fetching")' /\ ~Stopped)
  /\ PollAt(p, "fetching") =>
       PollAt(p, "fetching")' \/ PollEnded(p)' \/ (PollAt(p, "sleeping")' /\ ~SessionIsSettled)

LEMMA NextGoesOn ==
  ASSUME TypeOK, [Next]_vars, NEW p \in Poll PROVE PollGoesOn(p)
<1> USE DEF PollGoesOn, Stopped, SessionIsSettled, PollAt, PollEnded, TypeOK, PollError, Ended
<1>1. CASE Mint \/ Abort \/ SignalAborts \/ SessionMoves
  BY <1>1 DEF Mint, Abort, SignalAborts, SessionMoves
<1>2. ASSUME NEW q \in Poll, Start(q) \/ Wake(q) \/ RequestFails(q) PROVE PollGoesOn(p)
  BY <1>2 DEF Start, Wake, RequestFails, Go
<1>3. ASSUME NEW q \in Poll, Top(q) PROVE PollGoesOn(p)
  BY <1>3 DEF Top, Go
<1>4. ASSUME NEW q \in Poll, Answer(q) PROVE PollGoesOn(p)
  BY <1>4 DEF Answer, Go, Outcome
<1>5. CASE UNCHANGED vars
  BY <1>5 DEF vars
<1> QED BY <1>1, <1>2, <1>3, <1>4, <1>5 DEF Next, PollStep

(* A step of the poll itself leaves the place where it was.                *)
LEMMA PollLeaves ==
  ASSUME TypeOK, NEW p \in Poll, PollStep(p), NEW s \in {"sleeping", "top", "fetching"}, PollAt(p, s)
  PROVE  ~PollAt(p, s)'
<1> USE DEF PollAt, TypeOK, PollError, Ended
<1>1. CASE Top(p) \/ Wake(p) \/ RequestFails(p)
  BY <1>1 DEF Top, Wake, RequestFails, Go
<1>2. CASE Answer(p)
  BY <1>2 DEF Answer, Go, Outcome
<1> QED BY <1>1, <1>2 DEF PollStep

(* A poll that runs has something to do: its loop goes on, its request is  *)
(* answered or fails, its timer fires.                                     *)
PollCanGoOn(p) == method = "reclaim" /\ poll[p] \in {"sleeping", "top", "fetching"} => ENABLED <<PollTurn(p)>>_pageVars
PollsCanGoOn == \A p \in Poll : PollCanGoOn(p)

LEMMA PollEnds ==
  ASSUME NEW p \in Poll
  PROVE  PageFairSpec /\ []PollsCanGoOn => ((poll[p] \notin {"idle"} /\ Over) ~> poll[p] \in Ended)
<1> DEFINE Running == PollAt(p, "sleeping") \/ PollAt(p, "top") \/ PollAt(p, "fetching")
<1>1. PageFairSpec => PageSpec /\ PollFair(p)
  BY DEF PageFairSpec
<1>2. PollsCanGoOn /\ OnlyReclaimPolls /\ Running => ENABLED <<PollTurn(p)>>_pageVars
  <2>1. PollsCanGoOn => PollCanGoOn(p)
    BY DEF PollsCanGoOn
  <2>2. OnlyReclaimPolls /\ Running => method = "reclaim" /\ poll[p] \in {"sleeping", "top", "fetching"}
    BY DEF OnlyReclaimPolls, PollAt
  <2> QED BY <2>1, <2>2 DEF PollCanGoOn
<1>3. PageInv /\ [PageNext]_pageVars => PollGoesOn(p)
  BY PageStepIsOwn, NextGoesOn DEF PageInv, PollInv
<1>4. /\ PageInv /\ PollTurn(p) /\ PollAt(p, "sleeping") => ~PollAt(p, "sleeping")'
      /\ PageInv /\ PollTurn(p) /\ PollAt(p, "top") => ~PollAt(p, "top")'
      /\ PageInv /\ PollTurn(p) /\ PollAt(p, "fetching") => ~PollAt(p, "fetching")'
  BY PollLeaves DEF PageInv, PollInv, PollTurn
<1>5. PageInv /\ poll[p] \notin {"idle"} /\ Over =>
        (PollEnded(p) \/ Running) /\ (Stopped \/ SessionIsSettled)
  BY DEF PageInv, PollInv, TypeOK, Over, Stopped, SessionIsSettled, PollEnded, PollAt
<1>6. PollEnded(p) => poll[p] \in Ended
  BY DEF PollEnded
<1> QED BY <1>1, <1>2, <1>3, <1>4, <1>5, <1>6, PageIsSafe, PollsAreReclaims, PTL
        DEF PageSpec, PollFair, PollGoesOn

(* However often start() runs, each of its loops ends once the flow was    *)
(* aborted or Reclaim's session is settled (PollingEnds), also when the    *)
(* abort falls between a request and its answer.  reclaim.ts:111-160.      *)
THEOREM PollsEnd == PageFairSpec /\ []PollsCanGoOn => PollingEnds
<1>1. ASSUME NEW p \in Poll
      PROVE  PageFairSpec /\ []PollsCanGoOn => ((poll[p] \notin {"idle"} /\ Over) ~> poll[p] \in Ended)
  BY PollEnds
<1> QED BY <1>1 DEF PollingEnds
=============================================================================
