----------------------------- MODULE Fingerprint -----------------------------
(***************************************************************************)
(* The device's fingerprint: the agent and the result that fraud-engine/   *)
(* fingerprint.ts keeps for the whole page, the hook that shows it         *)
(* (fraud-engine/react/use-fingerprint.ts), logFingerprint and the engine's*)
(* init, which React's provider calls (src/src/fraud-engine/client.ts).    *)
(* Any of them may load the agent or read it at the same time; a change of *)
(* `enabled` runs the hook's effect anew.  FingerprintJS, the wallet and   *)
(* the backend are external.                                               *)
(***************************************************************************)
EXTENDS Naturals

CONSTANTS
  MaxRuns,  \* bound: how often the hook's effect runs
  Log,      \* the calls of logFingerprint
  Preload,  \* the calls of init
  Id        \* what FingerprintJS may find: a visitor's id and its confidence

Run == 1..MaxRuns
Reader == Run \cup Log \cup Preload

ASSUME FingerprintAssumption ==
  /\ MaxRuns \in Nat /\ "null" \notin Id /\ "error" \notin Id
  /\ Run \cap Log = {} /\ Run \cap Preload = {} /\ Log \cap Preload = {}

VARIABLES
  valid,     \* did the engine's configuration validate?
  enabled,   \* the hook's argument
  run,       \* its newest effect run, or 0
  cancelled, \* the runs whose clean-up has run
  shown,     \* what the hook returns
  agent,     \* is there a loaded agent?
  cachedResult,
  reading,   \* where each reader is
  outcome    \* what each reader got, or was told, in the end

deviceVars == <<valid, enabled, run, cancelled, shown, agent, cachedResult, reading, outcome>>

LogError == {"VALIDATION_ERROR", "SIGNING_ERROR", "ENCRYPTION_ERROR", "API_ERROR", "NETWORK_ERROR"}

DeviceTypeOK ==
  /\ valid \in BOOLEAN /\ enabled \in BOOLEAN /\ agent \in BOOLEAN
  /\ run \in 0..MaxRuns /\ cancelled \subseteq 1..run
  /\ shown \in [data : Id \cup {"null"}, error : BOOLEAN, isLoading : BOOLEAN]
  /\ cachedResult \in Id \cup {"null"}
  /\ reading \in [Reader -> {"idle", "loading", "asking", "getting", "sending", "done"}]
  /\ outcome \in [Reader -> Id \cup LogError \cup {"null", "error", "logged"}]

DeviceInit ==
  /\ valid \in BOOLEAN /\ enabled = FALSE /\ run = 0 /\ cancelled = {}
  /\ shown = [data |-> "null", error |-> FALSE, isLoading |-> FALSE]
  /\ agent = FALSE /\ cachedResult = "null"
  /\ reading = [r \in Reader |-> "idle"] /\ outcome = [r \in Reader |-> "null"]

----------------------------------------------------------------------------
Reads(r, s) == reading' = [reading EXCEPT ![r] = s]

(* The effect with `enabled`: loadFingerprintAgent returns at once when    *)
(* there is an agent.                                                      *)
Enable ==
  /\ ~enabled /\ run < MaxRuns
  /\ enabled' = TRUE /\ run' = run + 1
  /\ shown' = [shown EXCEPT !.isLoading = TRUE]
  /\ Reads(run + 1, IF agent THEN "asking" ELSE "loading")
  /\ UNCHANGED <<valid, cancelled, agent, cachedResult, outcome>>

(* Its clean-up, when `enabled` falls, or the hook unmounts for good.      *)
Disable ==
  /\ enabled /\ enabled' = FALSE
  /\ cancelled' = cancelled \cup {run}
  /\ UNCHANGED <<valid, run, shown, agent, cachedResult, reading, outcome>>

(* Mutant: a run that is over for its effect still sets the hook's state.  *)
MutSettlesAlways(r, v) ==
  /\ Reads(r, "done") /\ outcome' = [outcome EXCEPT ![r] = v]
  /\ shown' = [data |-> IF v = "error" THEN "null" ELSE v, error |-> v = "error", isLoading |-> FALSE]

(* The end of a run: setData, setError and setIsLoading, unless cancelled. *)
Settles(r, v) ==
  /\ Reads(r, "done") /\ outcome' = [outcome EXCEPT ![r] = v]
  /\ shown' = IF r \in cancelled THEN shown
              ELSE [data |-> IF v = "error" THEN "null" ELSE v, error |-> v = "error", isLoading |-> FALSE]

Ends(r, v) == Reads(r, "done") /\ outcome' = [outcome EXCEPT ![r] = v] /\ UNCHANGED shown

(* getFingerprint returns: logFingerprint goes on to send what it got.     *)
Answers(r, v) ==
  CASE r \in Run -> Settles(r, v)
    [] r \in Log /\ v = "null" -> Ends(r, "null")
    [] OTHER -> Reads(r, "sending") /\ UNCHANGED <<shown, outcome>>

BeginLog(l) ==
  /\ reading[l] = "idle"
  /\ IF valid THEN Reads(l, "asking") /\ UNCHANGED <<shown, outcome>> ELSE Ends(l, "VALIDATION_ERROR")
  /\ UNCHANGED <<valid, enabled, run, cancelled, agent, cachedResult>>

init(p) ==
  /\ reading[p] = "idle" /\ Reads(p, IF agent THEN "done" ELSE "loading")
  /\ UNCHANGED <<valid, enabled, run, cancelled, shown, agent, cachedResult, outcome>>

(* getFingerprint begins: the result of before, or a read of the agent.    *)
Asks(r) ==
  /\ reading[r] = "asking"
  /\ IF cachedResult # "null" THEN Answers(r, cachedResult)
     ELSE Reads(r, IF agent THEN "getting" ELSE "loading") /\ UNCHANGED <<shown, outcome>>
  /\ UNCHANGED <<valid, enabled, run, cancelled, agent, cachedResult>>

(* FingerprintJS.load comes back, or throws.  The hook asks after it; in   *)
(* getFingerprint the read follows it.                                     *)
Loaded(r) ==
  /\ reading[r] = "loading" /\ agent' = TRUE
  /\ Reads(r, CASE r \in Run -> "asking" [] r \in Log -> "getting" [] OTHER -> "done")
  /\ UNCHANGED <<valid, enabled, run, cancelled, shown, cachedResult, outcome>>

LoadFails(r) ==
  /\ reading[r] = "loading"
  /\ CASE r \in Run -> Settles(r, "error") [] r \in Log -> Answers(r, "null") [] OTHER -> Ends(r, "error")
  /\ UNCHANGED <<valid, enabled, run, cancelled, agent, cachedResult>>

(* agent.get() comes back in time, and what it found is kept.              *)
Gets(r, id) ==
  /\ reading[r] = "getting" /\ cachedResult' = id /\ Answers(r, id)
  /\ UNCHANGED <<valid, enabled, run, cancelled, agent>>

(* Mutant: a read that took too long is begun again.                       *)
MutGetRetries(r) ==
  /\ reading[r] = "getting" /\ Reads(r, "asking")
  /\ UNCHANGED <<valid, enabled, run, cancelled, shown, agent, cachedResult, outcome>>

(* It throws, or the timer comes first.                                    *)
GetFails(r) ==
  /\ reading[r] = "getting" /\ Answers(r, "null")
  /\ UNCHANGED <<valid, enabled, run, cancelled, agent, cachedResult>>

(* The signature, the encryption and the request of logFingerprint.        *)
LogEnds(l) ==
  /\ reading[l] = "sending"
  /\ \E v \in (LogError \ {"VALIDATION_ERROR"}) \cup {"logged"} : Ends(l, v)
  /\ UNCHANGED <<valid, enabled, run, cancelled, agent, cachedResult>>

Progress(r) == Asks(r) \/ Loaded(r) \/ LoadFails(r) \/ GetFails(r)
NewestGoesOn == run # 0 /\ Progress(run)

DeviceNext ==
  \/ Enable \/ Disable
  \/ \E l \in Log : BeginLog(l) \/ LogEnds(l)
  \/ \E p \in Preload : init(p)
  \/ \E r \in Reader : Progress(r) \/ \E id \in Id : Gets(r, id)

----------------------------------------------------------------------------
(* What an enabled hook that is not loading returns is the outcome of its  *)
(* newest run: the late answer, or the late timeout, of a run from before  *)
(* `enabled` fell and rose again does not replace it.                      *)
(* use-fingerprint.ts:22, 29-43.                                           *)
ShowsNewestRun ==
  enabled /\ ~shown.isLoading =>
    /\ reading[run] = "done"
    /\ IF outcome[run] = "error" THEN shown.error /\ shown.data = "null"
       ELSE ~shown.error /\ shown.data = outcome[run]

(* The spinner of an enabled hook stops although nothing bounds the read:  *)
(* fingerprint.ts:24-29 does.                                              *)
DeviceLoadingEnds == enabled /\ shown.isLoading ~> ~(enabled /\ shown.isLoading)
==============================================================================
