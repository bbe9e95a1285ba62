--------------------------- MODULE ZkPassportFlow ---------------------------
(***************************************************************************)
(* createZkPassportFlow (src/src/zkkyc/orchestrators/zk-passport.ts): the  *)
(* phone tells its progress through six callbacks, which settle one result *)
(* promise; abort() only sets a flag that some of the callbacks look at.   *)
(* A page that aborts a flow may begin the next while the phone still acts *)
(* on the old one.  The bridge to the phone is external: it reports the    *)
(* stages in order, an error at any time, and at most one answer.          *)
(***************************************************************************)
CONSTANT Flow

VARIABLES
  bridge,   \* what the phone has reported: "created", "received", "generating",
            \* "proved" or "answered"
  proof,    \* has a proof been kept?
  result,   \* the result promise: "pending", "resolved" or its error
  zkAborted, \* `aborted`
  lost      \* onStatus threw in the callback of the answer, before it settled result

zkVars == <<bridge, proof, result, zkAborted, lost>>

Error == {"ZK_PASSPORT_VERIFICATION_FAILED", "ZK_PASSPORT_REJECTED", "ZK_PASSPORT_ABORTED"}

ZkTypeOK ==
  /\ bridge \in [Flow -> {"created", "received", "generating", "proved", "answered"}]
  /\ proof \in [Flow -> BOOLEAN] /\ zkAborted \in [Flow -> BOOLEAN] /\ lost \in [Flow -> BOOLEAN]
  /\ result \in [Flow -> Error \cup {"pending", "resolved"}]

ZkInit ==
  /\ bridge = [f \in Flow |-> "created"]
  /\ proof = [f \in Flow |-> FALSE]
  /\ result = [f \in Flow |-> "pending"]
  /\ zkAborted = [f \in Flow |-> FALSE]
  /\ lost = [f \in Flow |-> FALSE]

----------------------------------------------------------------------------
(* The first settlement of a promise counts.                               *)
Settle(f, outcome) ==
  result' = [result EXCEPT ![f] = IF @ = "pending" THEN outcome ELSE @]

Reports(f, from, to) == bridge[f] = from /\ bridge' = [bridge EXCEPT ![f] = to]

RequestReceived(f) ==
  /\ Reports(f, "created", "received")
  /\ UNCHANGED <<proof, result, zkAborted, lost>>

GeneratingProof(f) ==
  /\ Reports(f, "received", "generating")
  /\ UNCHANGED <<proof, result, zkAborted, lost>>

ProofGenerated(f) ==
  /\ Reports(f, "generating", "proved")
  /\ \E throws \in BOOLEAN : proof' = [proof EXCEPT ![f] = ~zkAborted[f] /\ ~throws]
  /\ UNCHANGED <<result, zkAborted, lost>>

Verdict(f, verified, extracted) ==
  IF verified /\ proof[f] /\ extracted THEN "resolved" ELSE "ZK_PASSPORT_VERIFICATION_FAILED"

(* Mutant: `aborted` is not looked at.                                     *)
MutResultAfterAbort(f, verified, extracted) ==
  /\ Reports(f, "proved", "answered")
  /\ Settle(f, Verdict(f, verified, extracted))
  /\ UNCHANGED <<proof, zkAborted, lost>>

(* Mutant: the kept proof is not looked at.                                *)
MutResultWithoutProof(f, verified, extracted) ==
  /\ Reports(f, "proved", "answered")
  /\ IF zkAborted[f] THEN UNCHANGED result
     ELSE Settle(f, IF verified THEN "resolved" ELSE "ZK_PASSPORT_VERIFICATION_FAILED")
  /\ UNCHANGED <<proof, zkAborted, lost>>

(* Mutant: parameters that cannot be extracted throw out of the callback.  *)
MutResultUncaught(f, verified, extracted) ==
  /\ Reports(f, "proved", "answered")
  /\ IF zkAborted[f] \/ (verified /\ ~extracted) THEN UNCHANGED result
     ELSE Settle(f, Verdict(f, verified, extracted))
  /\ UNCHANGED <<proof, zkAborted, lost>>

(* The phone's result: `verified` with a unique identifier, and with       *)
(* verifier parameters that can be `extracted`, or not.  onStatus may throw*)
(* before any of it is looked at.                                          *)
Result(f, verified, extracted) ==
  /\ Reports(f, "proved", "answered")
  /\ \/ zkAborted[f] /\ UNCHANGED <<result, lost>>
     \/ ~zkAborted[f] /\ lost' = [lost EXCEPT ![f] = TRUE] /\ UNCHANGED result
     \/ ~zkAborted[f] /\ Settle(f, Verdict(f, verified, extracted)) /\ UNCHANGED lost
  /\ UNCHANGED <<proof, zkAborted>>

(* The user refuses on the phone; onStatus may throw before reject(), and  *)
(* `aborted` is not looked at.                                             *)
Reject(f) ==
  /\ bridge[f] # "answered" /\ bridge' = [bridge EXCEPT ![f] = "answered"]
  /\ \/ lost' = [lost EXCEPT ![f] = TRUE] /\ UNCHANGED result
     \/ Settle(f, "ZK_PASSPORT_REJECTED") /\ UNCHANGED lost
  /\ UNCHANGED <<proof, zkAborted>>

BridgeError(f) ==
  /\ bridge[f] # "answered"
  /\ Settle(f, "ZK_PASSPORT_VERIFICATION_FAILED")
  /\ UNCHANGED <<bridge, proof, zkAborted, lost>>

ZkAbort(f) ==
  /\ ~zkAborted[f] /\ zkAborted' = [zkAborted EXCEPT ![f] = TRUE]
  /\ UNCHANGED <<bridge, proof, result, lost>>

Progress(f) ==
  \/ RequestReceived(f) \/ GeneratingProof(f) \/ ProofGenerated(f) \/ Reject(f)
  \/ \E verified, extracted \in BOOLEAN : Result(f, verified, extracted)

ZkNext == \E f \in Flow : Progress(f) \/ BridgeError(f) \/ ZkAbort(f)

ZkSpec == ZkInit /\ [][ZkNext]_zkVars

(* The phone goes on to an answer; nothing else is owed.                   *)
ZkFairSpec == ZkSpec /\ \A f \in Flow : WF_zkVars(Progress(f))

----------------------------------------------------------------------------
(* A success rests on a proof the phone delivered before any abort, and an *)
(* abort is never followed by a new success.  zk-passport.ts:63, 78, 81.   *)
SuccessIsEarned ==
  [][\A f \in Flow : result[f] # "resolved" /\ result'[f] = "resolved" => proof[f] /\ ~zkAborted[f]]_zkVars

(* Once the phone has answered or refused, the caller of a flow that was   *)
(* not aborted has its result, also when the answer cannot be turned into  *)
(* parameters; unless the caller's own onStatus threw on that answer: then *)
(* nothing settles the result.  zk-passport.ts:79-107, 111-117.            *)
AnswerSettles ==
  \A f \in Flow : bridge[f] = "answered" /\ ~zkAborted[f] /\ ~lost[f] => result[f] # "pending"

(* What types.ts:137 says of abort(), "The result promise will reject",    *)
(* taken at its least: it settles, unless the caller's onStatus threw.     *)
AbortSettles ==
  \A f \in Flow : zkAborted[f] /\ result[f] = "pending" ~> result[f] # "pending" \/ lost[f]
=============================================================================
