------------------------------ MODULE AppPage ------------------------------
(***************************************************************************)
(* An application over the SDK's React provider, by the feature its user   *)
(* is at: placement limits on screen (PlacementLimitsHook), orders watched *)
(* (WatchOrders), buy orders under the fraud engine (FraudEngine), or the  *)
(* device's fingerprint (Fingerprint).  The features share no state: one   *)
(* that is not looked at keeps the state in which it was never started, and*)
(* each behaviour follows one of them.                                     *)
(***************************************************************************)
EXTENDS PlacementLimitsHook, WatchOrders, FraudEngine, Fingerprint

VARIABLE feature   \* "limits", "watch", "fraud" or "device"

appVars == <<feature, hookVars, watchVars, fraudVars, deviceVars>>

AppTypeOK ==
  /\ feature \in {"limits", "watch", "fraud", "device"}
  /\ HookTypeOK /\ WatchTypeOK /\ FraudTypeOK /\ DeviceTypeOK

AppInit ==
  /\ feature \in {"limits", "watch", "fraud", "device"}
  /\ HookInit /\ (feature # "limits" => user = NoWallet /\ ~pollMs)
  /\ WatchInit /\ (feature # "watch" => rendered = Anyone)
  /\ FraudInit /\ (feature # "fraud" => ~configured)
  /\ DeviceInit /\ (feature # "device" => ~valid)

(* A step of one feature leaves the others alone.                          *)
AtLimits(A) == feature = "limits" /\ A /\ UNCHANGED <<feature, watchVars, fraudVars, deviceVars>>
AtWatch(A) == feature = "watch" /\ A /\ UNCHANGED <<feature, hookVars, fraudVars, deviceVars>>
AtFraud(A) == feature = "fraud" /\ A /\ UNCHANGED <<feature, hookVars, watchVars, deviceVars>>
AtDevice(A) == feature = "device" /\ A /\ UNCHANGED <<feature, hookVars, watchVars, fraudVars>>

AppNext == AtLimits(HookNext) \/ AtWatch(WatchNext) \/ AtFraud(FraudNext) \/ AtDevice(DeviceNext)

AppSpec == AppInit /\ [][AppNext]_appVars

(* The fairness of the four: see HookFairSpec, WatchFairSpec and, for the  *)
(* calls of the fraud engine, where the wallet answers, a check's request  *)
(* is answered or fails, and the page's callback settles.  client.ts has no*)
(* timeout for any of these.  Nothing is owed by a link, and nothing by a  *)
(* read of the fingerprint, which a timer bounds; its load comes to an end.*)
LimitsFair ==
  /\ WF_appVars(AtLimits(Midnight)) /\ WF_appVars(AtLimits(SecondPasses))
  /\ WF_appVars(AtLimits(InputsEffects)) /\ WF_appVars(AtLimits(ShownEffect))
  /\ WF_appVars(AtLimits(MidnightTimer)) /\ WF_appVars(AtLimits(Interval))
  /\ WF_appVars(AtLimits(NewestRequestSettles))
EffectFair == WF_appVars(AtWatch(Effect))
WatcherFair(k) == WF_appVars(AtWatch(Hears(k)))
CallFair(b) == WF_appVars(AtFraud(Checks(b))) /\ WF_appVars(AtFraud(Callback(b)))
DeviceFair == WF_appVars(AtDevice(NewestGoesOn))
AppFairSpec ==
  /\ AppSpec /\ LimitsFair
  /\ EffectFair /\ \A k \in Kind : WatcherFair(k)
  /\ \A b \in Buy : CallFair(b)
  /\ DeviceFair

----------------------------------------------------------------------------
(* The spinners stop: the limits' (LoadingEnds) and the fingerprint's      *)
(* (DeviceLoadingEnds).  use-placement-limits.ts:59-76, fingerprint.ts:24. *)
SpinnersStop == LoadingEnds /\ DeviceLoadingEnds
=============================================================================
