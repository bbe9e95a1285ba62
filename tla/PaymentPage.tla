----------------------------- MODULE PaymentPage -----------------------------
(***************************************************************************)
(* A payment page over the stored ids: a seller fills the catalogue's form *)
(* (fields and, where the country takes one, an uploaded QR code), saves   *)
(* it, opens it again later, or opens one stored by an earlier version; a  *)
(* buyer scans a merchant's code and the PAY order stores what was read.   *)
(***************************************************************************)
EXTENDS PaymentIds

CONSTANTS
  Typed,     \* the texts tried in the fields of each rule
  Uploads,   \* the codes tried in the form of each currency
  Scanned,   \* the codes scanned for each currency
  Inherited, \* ids stored by earlier versions, for each currency
  Prices,    \* the sell prices
  Answers    \* what the PIX proxy's answer may hold, or "lost"

(* What is uploaded or was stored is a sequence of texts.                  *)
ASSUME IdsAreSequences ==
  \A c \in CURRENCY : \A s \in Uploads[c] \cup Inherited[c] : s \in Seq({s[i] : i \in DOMAIN s})

(* Where a code may stand for the whole id, none is typed into a field, and*)
(* an earlier version stored one alone or before its separator.            *)
IsCode(t) == t.form \in {"emv", "s7b"}
CodeStandsFirst(c, s) ==
  \A i \in DOMAIN s : IsCode(s[i]) => i = 1 /\ IF Len(s) = 1 THEN Drawable(c, s) ELSE 2 \in Gaps(s)
ASSUME CodesAreUploaded ==
  \A c \in {"BOB", "VEN"} :
    /\ \A s \in Inherited[c] : CodeStandsFirst(c, s)
    /\ \A i \in DOMAIN PAYMENT_ID_FIELDS(c) : \A t \in Typed[PAYMENT_ID_FIELDS(c)[i].rule] : ~IsCode(t)

(* The phone in a Transfermovil code is a sequence of digits.              *)
ASSUME PhonesAreDigits ==
  \A code \in Scanned["CUP"] : code[1].form = "transfermovil" => code[1].phone.digits \in Seq(0..9)

(* An Indonesian id is a number, or a provider and a number with a "|"     *)
(* between them; neither holds one itself.                                 *)
ASSUME WalletsHaveOneNumber == \A s \in Inherited["IDR"] : Len(s) \in {1, 2}

(* How the forms have laid out an id: all fields, or the first of them     *)
(* without a gap, or an Indonesian provider before its number; where a code*)
(* may be stored, alone or so behind it.                                   *)
LaidOut(c, s) ==
  \/ Len(s) = Len(PAYMENT_ID_FIELDS(c))
  \/ Gaps(s) = {} /\ Len(s) \in 1..Len(PAYMENT_ID_FIELDS(c))
  \/ c = "IDR" /\ Len(s) = 2 /\ Lettered(s[1])
WellLaid(c, s) ==
  IF usesPackedPaymentId(c) /\ HasPackSep(s)
  THEN unpackPackedPaymentId(s).qr # NoText /\ LaidOut(c, unpackPackedPaymentId(s).rest)
  ELSE LaidOut(c, s) \/ ValidQr(c, s)
OldIdsAreWellLaid == \A c \in CURRENCY : \A s \in Inherited[c] : WellLaid(c, s)

VARIABLES
  cur,     \* the currency of the page
  phase,   \* "form", "saved", "inherited", "loaded", "reading", "read" or "placed"
  values,  \* the text in each field, in the catalogue's order
  qr,      \* the uploaded code, or NoText
  stored,  \* the stored id, or NoText
  scan,    \* the scan: the code, the price and the proxy's answer
  read     \* what it returned

payVars == <<cur, phase, values, qr, stored, scan, read>>

Fields == PAYMENT_ID_FIELDS(cur)
NoValues(c) == [i \in DOMAIN PAYMENT_ID_FIELDS(c) |-> Empty]
NoScan == [code |-> NoText, price |-> 0, answer |-> NoAmount]
NoRead == Failure("none")

PayInit ==
  /\ cur \in CURRENCY /\ phase = "form"
  /\ values = NoValues(cur) /\ qr = NoText /\ stored = NoText
  /\ scan = NoScan /\ read = NoRead

Blankpage == phase = "form" /\ values = NoValues(cur) /\ qr = NoText

----------------------------------------------------------------------------
(* Editing a loaded form makes it a form again.                            *)
Edit == phase \in {"form", "loaded"} /\ phase' = "form" /\ stored' = NoText

Type(i, t) == Edit /\ values' = [values EXCEPT ![i] = t] /\ UNCHANGED <<cur, qr, scan, read>>

Upload(q) ==
  /\ Edit /\ usesCatalogPaymentForm(cur) /\ usesPackedPaymentId(cur)
  /\ qr' = q /\ UNCHANGED <<cur, values, scan, read>>

Save ==
  /\ phase = "form" /\ validateCatalogPaymentDraft(cur, qr, values)
  /\ phase' = "saved" /\ stored' = packStoredPaymentId(cur, qr, values)
  /\ UNCHANGED <<cur, values, qr, scan, read>>

Inherit(s) ==
  /\ Blankpage /\ phase' = "inherited" /\ stored' = s
  /\ UNCHANGED <<cur, values, qr, scan, read>>

Load ==
  /\ phase \in {"saved", "inherited"} /\ phase' = "loaded"
  /\ values' = assignStoredPaymentIdToFieldValues(cur, stored)
  /\ qr' = getStoredQrPayload(cur, stored)
  /\ UNCHANGED <<cur, stored, scan, read>>

(* Only a dynamic PIX code waits for the proxy.                            *)
Scan(code, price) ==
  /\ Blankpage /\ phase' = "reading"
  /\ scan' = [code |-> code, price |-> price, answer |-> NoAmount]
  /\ UNCHANGED <<cur, values, qr, stored, read>>

Returned(answer) ==
  /\ phase = "reading" /\ phase' = "read"
  /\ answer # NoAmount => cur = "BRL" /\ scan.code[1].form = "emv" /\ scan.code[1].account = "location"
  /\ scan' = [scan EXCEPT !.answer = answer]
  /\ read' = parseQR(cur, scan.code, scan.price, answer)
  /\ UNCHANGED <<cur, values, qr, stored>>

Place ==
  /\ phase = "read" /\ read.code = "ok"
  /\ phase' = "placed" /\ stored' = read.address
  /\ UNCHANGED <<cur, values, qr, scan, read>>

PayNext ==
  \/ /\ phase \in {"form", "loaded"}
     /\ \/ \E i \in DOMAIN values : \E t \in Typed[Fields[i].rule] : Type(i, t)
        \/ \E q \in Uploads[cur] : Upload(q)
  \/ Save
  \/ Blankpage /\ \E s \in Inherited[cur] : Inherit(s)
  \/ Load
  \/ Blankpage /\ \E code \in Scanned[cur], price \in Prices : Scan(code, price)
  \/ phase = "reading" /\ \E answer \in Answers \cup {NoAmount} : Returned(answer)
  \/ Place

PaySpec == PayInit /\ [][PayNext]_payVars

----------------------------------------------------------------------------
(* What a complete draft is, said of the form and not of the string made of*)
(* it: every text passes its field's rule, and once there is any text no   *)
(* field is missing that must be there or that a filled field asks for.    *)
Filled(i) == ~IsBlank(values[i])
Complete ==
  /\ \A i \in DOMAIN values : Filled(i) => Valid(Fields[i].rule, values[i])
  /\ (\E i \in DOMAIN values : Filled(i)) =>
        \A i \in DOMAIN values :
           ~Filled(i) => /\ Fields[i].optional
                         /\ \A j \in DOMAIN values : Filled(j) => Fields[i].key \notin Fields[j].requires
  /\ ValidQr(cur, qr) \/ \E i \in DOMAIN values : Filled(i)

(* Invariant: the form accepts exactly the complete drafts, for every      *)
(* country: packing, unpacking and the positions of the parts neither lose *)
(* a mistake nor make one (validators.ts validateCatalogPaymentDraft).     *)
AcceptsExactly == phase = "form" => (validateCatalogPaymentDraft(cur, qr, values) <=> Complete)

(* Action property: a saved form opens with the texts and the code it was  *)
(* saved with, each in its own field; only a field that was empty may hold *)
(* what the code tells (assignStoredPaymentIdToFieldValues).               *)
SavedComesBack ==
  [][phase = "saved" /\ phase' = "loaded" =>
       /\ qr' = IF ValidQr(cur, qr) THEN qr ELSE NoText
       /\ \A i \in DOMAIN values : Filled(i) => values'[i] = values[i]
       /\ \A i \in DOMAIN values : ~Filled(i) /\ values'[i] # Empty => ValidQr(cur, qr)]_payVars

Shown(s) == <<getPayQrPayload(cur, s), formatStoredPaymentIdForDisplay(cur, s)>>

(* Invariant: an accepted id, saved by the form or by an earlier version,  *)
(* opens as a draft that can be saved as it is, and saving it changes      *)
(* neither the code drawn nor the details shown.                           *)
ReloadKeepsAccepted ==
  phase = "loaded" /\ validateStoredPaymentId(cur, stored) =>
    \A again \in {packStoredPaymentId(cur, qr, values)} :
      validateStoredPaymentId(cur, again) /\ Shown(again) = Shown(stored)

PeruAgrees(parts) ==
  /\ parts.qr = getStoredQrPayload(cur, stored)
  /\ Filled(1) => parts.phone = normalizePeruvianPaymentKey(values[1])
  /\ Filled(2) => parts.cci = normalizePeruvianPaymentKey(values[2])
  /\ \A again \in {serializePeruvianPaymentId(parts.qr, parts.phone, parts.cci)} :
       validateStoredPaymentId(cur, again) /\ parsePeruvianPaymentId(again) = parts
VenezuelaAgrees(parts) ==
  /\ parts.qr = getStoredQrPayload(cur, stored)
  /\ serializeVenezuelanPaymentId(parts.qr, parts.compound) = stored

(* Invariant: the older functions of Peru and Venezuela accept what the    *)
(* form saved and read the same code and texts from it, and an Indonesian  *)
(* wallet's id is accepted by both readers or by none (pen.ts, ven.ts,     *)
(* idr.ts against validators.ts).                                          *)
TwinsAgree ==
  /\ phase = "saved" /\ cur = "PEN" =>
       validatePeruvianPaymentId(stored) /\ PeruAgrees(parsePeruvianPaymentId(stored))
  /\ phase = "saved" /\ cur = "VEN" =>
       validateVenezuelanPaymentId(stored) /\ VenezuelaAgrees(parseVenezuelanPaymentId(stored))
  /\ phase = "inherited" /\ cur = "IDR" /\ getIndonesianPaymentProviderType(stored[1]) = "e-wallet" =>
       (validateStoredPaymentId(cur, stored) <=> validateIndonesianStoredPaymentId(stored))

(* Invariant: a PAY order draws the very code that was scanned, and where  *)
(* what was read is also what a seller stores, the catalogue accepts it.   *)
ScannedIsUsable ==
  phase = "placed" =>
    /\ cur \in {"PEN", "VEN", "BOB", "PHP"} \/ (cur = "INR" /\ isFonepayQr(scan.code)) =>
          getPayQrPayload(cur, stored) = scan.code
    /\ cur \in {"PEN", "VEN", "BOB", "CUP"} => validateStoredPaymentId(cur, stored)

Asked(t) == IF t.form \notin {"emv", "link", "spd", "transfermovil"} THEN NoAmount
            ELSE IF scan.answer # NoAmount THEN scan.answer ELSE t.amount
Worth(a) == Cents(IF a = Grouped THEN "1000" ELSE a)

(* Invariant: a scan that succeeds states the amount its maker asked for   *)
(* (behind the location of a dynamic PIX code, when it is there), and none *)
(* only if none was asked for, it is in another money, or, in Brazil and   *)
(* Colombia, it could not be read.                                         *)
AmountIsStated ==
  phase = "read" /\ read.code = "ok" =>
    IF read.amount # {}
    THEN \A a \in read.amount : /\ a.fiat = Worth(Asked(scan.code[1]))
                                /\ a.fiat > 0 /\ a.per = scan.price /\ a.per > 0
    ELSE \/ Asked(scan.code[1]) \in {NoAmount, "undefined", "null"}
         \/ cur \in {"ARS", "BRL", "COP"} \/ (cur = "INR" /\ isFonepayQr(scan.code))
=============================================================================
