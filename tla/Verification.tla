---------------------------- MODULE Verification ----------------------------
(***************************************************************************)
(* A page that verifies its user in one of the SDK's ways and takes the    *)
(* outcome on chain: a proof from Reclaim (ReclaimFlow) or from the        *)
(* ZKPassport phone app (ZkPassportFlow), or the attestation of a hosted   *)
(* session (HostedSession), handed to the prepare function that            *)
(* createZkkyc binds to the reputation manager (src/src/zkkyc/client.ts,   *)
(* src/src/contracts/reputation-manager/writes.ts).  The flows that were   *)
(* not chosen were never created.                                          *)
(***************************************************************************)
EXTENDS ReclaimFlow, ZkPassportFlow, HostedSession

VARIABLES
  method,    \* the flow the page created: "reclaim", "passport" or "hosted"
  prepared   \* the last prepare call: of whose result, and the function it
             \* encoded, its error, or "nothing"

pageVars == <<method, prepared, vars, zkVars, hostedVars>>

Verifier == IF method = "hosted" THEN provider ELSE method

(* Mutant: the liveness attestation is encoded for the KYC function.       *)
MutFunctionCopied ==
  [reclaim |-> "socialVerify", passport |-> "zkPassportRegister", bvn |-> "submitBvnAttestation",
   kyc |-> "submitKycAttestation", liveness |-> "submitKycAttestation"]

(* The prepare functions: which function of the contract each encodes.     *)
Function ==
  [reclaim |-> "socialVerify", passport |-> "zkPassportRegister", bvn |-> "submitBvnAttestation",
   kyc |-> "submitKycAttestation", liveness |-> "submitLivenessAttestation"]

(* Parameters that a schema refuses, that it lets pass but the ABI cannot  *)
(* encode (a negative limit, an identifier of the wrong length), or sound. *)
Flaw == {"malformed", "unencodable", "sound"}
PrepareError == {"VALIDATION_ERROR", "ENCODE_ERROR"}
Transaction == [of : DOMAIN Function, call : {Function[v] : v \in DOMAIN Function}]
Untold == [of |-> "reclaim", call |-> "nothing"]

PageTypeOK ==
  /\ method \in {"reclaim", "passport", "hosted"}
  /\ prepared \in Transaction \cup [of : DOMAIN Function, call : PrepareError] \cup {Untold}
  /\ TypeOK /\ ZkTypeOK /\ HostedTypeOK

PageInit ==
  /\ method \in {"reclaim", "passport", "hosted"} /\ prepared = Untold
  /\ Init /\ ZkInit
  /\ HostedInit /\ (method # "hosted" => provider = "kyc")

(* The flow succeeded, and the page has its result.                        *)
Succeeded ==
  CASE method = "reclaim"  -> \E p \in Poll : poll[p] = "proof"
    [] method = "passport" -> \E f \in Flow : result[f] = "resolved"
    [] method = "hosted"   -> attested # {}

(* A prepare function: schema, then encoding; no request and no state.     *)
Prepare(flaw) ==
  /\ Succeeded
  /\ prepared' = [of |-> Verifier, call |-> CASE flaw = "malformed"   -> "VALIDATION_ERROR"
                                              [] flaw = "unencodable" -> "ENCODE_ERROR"
                                              [] flaw = "sound"       -> Function[Verifier]]
  /\ UNCHANGED <<method, vars, zkVars, hostedVars>>

PageNext ==
  \/ method = "reclaim" /\ Next /\ UNCHANGED <<method, prepared, zkVars, hostedVars>>
  \/ method = "passport" /\ ZkNext /\ UNCHANGED <<method, prepared, vars, hostedVars>>
  \/ method = "hosted" /\ HostedNext /\ UNCHANGED <<method, prepared, vars, zkVars>>
  \/ \E flaw \in Flaw : Prepare(flaw)

PageSpec == PageInit /\ [][PageNext]_pageVars

(* A request settles and a timer fires.  Nobody must start, abort, prove,  *)
(* answer on the phone, ask a hosted session or prepare.                   *)
PollTurn(p) == method = "reclaim" /\ PollStep(p) /\ UNCHANGED <<method, prepared, zkVars, hostedVars>>
PollFair(p) == WF_pageVars(PollTurn(p))
PageFairSpec == PageSpec /\ \A p \in Poll : PollFair(p)

----------------------------------------------------------------------------
(* What goes on chain was earned and is for the function that knows its    *)
(* signer: each verifier has its own EIP-712 domain or proof system, and a *)
(* result handed to another's function is rejected (liveness.ts:16-21,     *)
(* writes.ts:162-167).  There is none of a flow whose user did not finish. *)
Judges ==
  [socialVerify |-> "reclaim", zkPassportRegister |-> "passport", submitKycAttestation |-> "kyc",
   submitLivenessAttestation |-> "liveness", submitBvnAttestation |-> "bvn"]

Finished ==
  CASE method = "reclaim"  -> session \in {"proved", "gone"} \/ (~Github /\ session = "empty")
    [] method = "passport" -> \E f \in Flow : bridge[f] = "answered" /\ proof[f]
    [] method = "hosted"   -> \E s \in DOMAIN stage : stage[s] \in {"approved", "spent", "dead"}

TransactionIsEarned ==
  prepared \in Transaction => Finished /\ Judges[prepared.call] = prepared.of
=============================================================================
