------------------------------ MODULE Payments ------------------------------
(***************************************************************************)
(* The payment side of an app, one of its screens at a time: a payment page*)
(* over codes in outline (PaymentPage), or the checks of one EMVCo code    *)
(* character by character (EmvCode).  The screen that was not opened stays *)
(* as it was.                                                              *)
(***************************************************************************)
EXTENDS PaymentPage, EmvCode

(* A code's characters are ASCII's, of one byte each: one check of the     *)
(* program takes the bytes of the text and the other its UTF-16 units.  An *)
(* issuer prints whole objects.                                            *)
ASSUME CodesAreAscii == Objects \subseteq Seq(0..127) /\ Wrong \subseteq 0..127
ASSUME CodesAreObjects == \A o \in Objects : WellFormed(o)

VARIABLE screen   \* "page" or "code"

screenVars == <<screen, payVars, emvVars>>

ScreenInit ==
  /\ screen \in {"page", "code"} /\ (screen = "code" => cur = "PEN")
  /\ PayInit /\ EmvInit

ScreenNext ==
  \/ screen = "page" /\ PayNext /\ UNCHANGED <<screen, emvVars>>
  \/ screen = "code" /\ EmvNext /\ UNCHANGED <<screen, payVars>>

ScreenSpec == ScreenInit /\ [][ScreenNext]_screenVars
=============================================================================
