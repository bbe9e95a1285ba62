----------------------------- MODULE MCPayments -----------------------------
(* Objects of a Peruvian code, one whose value holds "6304", and "5904JKBD"*)
(* and "5904AGNR", found by search: after (before) "5802PE5303604" they    *)
(* make the checksum 6304.                                                 *)
EXTENDS Payments, MCPaymentPage

MCObjects ==
  {<<53,56,48,50,80,69>>,                  \* 5802PE
   <<53,51,48,51,54,48,52>>,               \* 5303604
   <<53,57,48,52,74,75,66,68>>,            \* 5904JKBD
   <<53,57,48,52,54,51,48,52>>}            \* 59046304
MCWrong == {52, 65}                        \* 4 A
=============================================================================
