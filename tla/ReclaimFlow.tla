----------------------------- MODULE ReclaimFlow -----------------------------
(***************************************************************************)
(* createReclaimFlow (src/src/zkkyc/orchestrators/reclaim.ts): a session is*)
(* minted (or resumed after the redirect back), then every start() polls   *)
(* Reclaim until the proof is there.  start() may be called more than once *)
(* (a button clicked twice), abort() and the caller's AbortSignal at any   *)
(* time, also while a request is in flight; Reclaim's session is external. *)
(***************************************************************************)
CONSTANTS
  Poll,     \* the calls of start()
  Resumed,  \* created with an existing sessionId?
  Github    \* platform = "github": proofs without public data are refused

ASSUME ReclaimAssumption == Resumed \in BOOLEAN /\ Github \in BOOLEAN

VARIABLES
  flow,     \* createReclaimFlow: "minting", "ready" or the code it failed with
  poll,     \* each start(): "idle", "top" of the loop, "fetching", "sleeping", or its end
  aborted,  \* abort() was called
  signal,   \* the caller's signal is aborted
  session   \* at Reclaim: "waiting", "proved", "empty" (a proof without
            \* public data), "failed" or "gone"

vars == <<flow, poll, aborted, signal, session>>

MintError == {"VALIDATION_ERROR", "RECLAIM_SESSION_ENDPOINT_FAILED", "RECLAIM_INIT_FAILED"}
FlowError == MintError \cup {"PEER_DEPENDENCY_MISSING"}
PollError == {"RECLAIM_POLLING_ABORTED", "RECLAIM_PROOF_INVALID", "RECLAIM_SESSION_NOT_FOUND",
              "RECLAIM_PROOF_GENERATION_FAILED", "RECLAIM_INIT_FAILED"}
Ended == PollError \cup {"proof"}

TypeOK ==
  /\ flow \in FlowError \cup {"minting", "ready"}
  /\ poll \in [Poll -> Ended \cup {"idle", "top", "fetching", "sleeping"}]
  /\ aborted \in BOOLEAN /\ signal \in BOOLEAN
  /\ session \in {"waiting", "proved", "empty", "failed", "gone"}

Init ==
  /\ flow = "minting"
  /\ poll = [p \in Poll |-> "idle"]
  /\ aborted = FALSE /\ signal = FALSE
  /\ session = "waiting"

(* The session service mints, refuses or is not reached (the signal aborts *)
(* only the request in flight); a resumed session needs no service.        *)
Mint ==
  /\ flow = "minting"
  /\ \/ flow' \in {"ready", "PEER_DEPENDENCY_MISSING"}
     \/ ~Resumed /\ flow' \in MintError
  /\ UNCHANGED <<poll, aborted, signal, session>>

Go(p, s) == poll' = [poll EXCEPT ![p] = s]

Start(p) ==
  /\ flow = "ready" /\ poll[p] = "idle"
  /\ Go(p, "top")
  /\ UNCHANGED <<flow, aborted, signal, session>>

(* Mutant: the loop looks at the signal only.                              *)
MutTopSignalOnly(p) ==
  /\ poll[p] = "top"
  /\ Go(p, IF signal THEN "RECLAIM_POLLING_ABORTED" ELSE "fetching")
  /\ UNCHANGED <<flow, aborted, signal, session>>

(* The top of the loop is the only place that looks at abort and signal.   *)
Top(p) ==
  /\ poll[p] = "top"
  /\ Go(p, IF aborted \/ signal THEN "RECLAIM_POLLING_ABORTED" ELSE "fetching")
  /\ UNCHANGED <<flow, aborted, signal, session>>

Outcome(s) ==
  CASE s = "waiting" -> "sleeping"
    [] s = "proved"  -> "proof"
    [] s = "empty"   -> IF Github THEN "RECLAIM_PROOF_INVALID" ELSE "proof"
    [] s = "failed"  -> "RECLAIM_PROOF_GENERATION_FAILED"
    [] s = "gone"    -> "RECLAIM_SESSION_NOT_FOUND"

(* Mutant: only proofs end the loop.                                       *)
MutAnswerProofsOnly(p) ==
  /\ poll[p] = "fetching"
  /\ Go(p, IF session \in {"proved", "empty"} THEN Outcome(session) ELSE "sleeping")
  /\ UNCHANGED <<flow, aborted, signal, session>>

(* Mutant: a session without proofs is a failed one.                       *)
MutAnswerGivesUp(p) ==
  /\ poll[p] = "fetching"
  /\ Go(p, IF session = "waiting" THEN "RECLAIM_PROOF_GENERATION_FAILED" ELSE Outcome(session))
  /\ UNCHANGED <<flow, aborted, signal, session>>

(* Reclaim answers with the session as it is.                              *)
Answer(p) ==
  /\ poll[p] = "fetching"
  /\ Go(p, Outcome(session))
  /\ UNCHANGED <<flow, aborted, signal, session>>

(* The request, or the reading of its body, fails.                         *)
RequestFails(p) ==
  /\ poll[p] = "fetching"
  /\ Go(p, "RECLAIM_INIT_FAILED")
  /\ UNCHANGED <<flow, aborted, signal, session>>

Wake(p) ==
  /\ poll[p] = "sleeping"
  /\ Go(p, "top")
  /\ UNCHANGED <<flow, aborted, signal, session>>

Abort ==
  /\ flow = "ready" /\ ~aborted /\ aborted' = TRUE
  /\ UNCHANGED <<flow, poll, signal, session>>

SignalAborts ==
  /\ ~signal /\ signal' = TRUE
  /\ UNCHANGED <<flow, poll, aborted, session>>

(* The user proves, or fails to; Reclaim forgets the session.              *)
SessionMoves ==
  /\ \/ session = "waiting" /\ session' \in {"proved", "empty", "failed"}
     \/ session # "gone" /\ session' = "gone"
  /\ UNCHANGED <<flow, poll, aborted, signal>>

PollStep(p) == Top(p) \/ Answer(p) \/ RequestFails(p) \/ Wake(p)

Next ==
  \/ Mint \/ Abort \/ SignalAborts \/ SessionMoves
  \/ \E p \in Poll : Start(p) \/ PollStep(p)

Spec == Init /\ [][Next]_vars

(* A request settles and the timer fires.  Nobody must start, abort, or    *)
(* finish the proof.                                                       *)
FairSpec == Spec /\ \A p \in Poll : WF_vars(PollStep(p))

----------------------------------------------------------------------------
(* Once the flow is aborted no further request is made: at most the one in *)
(* flight is still answered.  reclaim.ts:112.                              *)
QuietAfterAbort ==
  [][\A p \in Poll : poll[p] # "fetching" /\ poll'[p] = "fetching" => ~(aborted \/ signal)]_vars

(* The loop ends, however often it was started: by an abort, by a session  *)
(* that failed or is gone, or by a proof.  reclaim.ts:111-160.             *)
Over == aborted \/ signal \/ session # "waiting"
PollingEnds == \A p \in Poll : (poll[p] \notin {"idle"} /\ Over) ~> poll[p] \in Ended

(* Short of a request that fails, a start() gives up only when it was      *)
(* aborted or when Reclaim's session will bring no proof it can use; the   *)
(* user may take any time.  reclaim.ts:121-157, types.ts:90.               *)
PollsUntilProof ==
  \A p \in Poll : poll[p] \in PollError \ {"RECLAIM_INIT_FAILED"} =>
    aborted \/ signal \/ session \in {"failed", "gone"} \/ (Github /\ session = "empty")
=============================================================================
