------------------------------- MODULE QrCodes -------------------------------
(***************************************************************************)
(* Payment QR codes: the checks a stored code passes                       *)
(* (src/src/country/qr-validator.ts) and the readers of a scanned one      *)
(* (src/src/qr-parsers).  A code is the sequence of the texts between its  *)
(* "|", one text but for Bolivia's envelope <<base64, checksum>>.  A text  *)
(* read off a code carries the parts the readers look for, e.g. the tags of*)
(* an EMVCo code, and "crc", what a reader finds at its checksum:          *)
(*   "good"   the right value at the very end;                             *)
(*   "6304"   so, and the value happens to be 6304, the tag's own text;    *)
(*   "tailed" the right value, then more text;                             *)
(*   "bad"    another value;  "none" no checksum tag.                      *)
(* Amounts are texts too, here strings; Cents says what a decimal is worth.*)
(***************************************************************************)
EXTENDS Countries

Emv(country, currency, amount, name, crc, account) ==
  [form |-> "emv", digits |-> <<0, 0, 0, 2, 0, 1>>, len |-> 99, country |-> country, currency |-> currency,
   amount |-> amount, name |-> name, crc |-> crc, account |-> account]

Base64(len) == Text("base64", <<1, 2>>, len)
Hex(len) == Text("hex", <<1, 2>>, len)
S7b(len, merchantId) ==
  [form |-> "s7b", digits |-> <<1, 2>>, len |-> len, merchantId |-> merchantId]

(* A packed id is no code: there is an empty text inside it.               *)
Gaps(s) == {i \in 2..(Len(s) - 1) : s[i] = Empty}
HasPackSep(s) == Gaps(s) # {}

----------------------------------------------------------------------------
(* What a stored code must pass.                                           *)
verifyCRC16(t) == t.crc \in {"good", "6304"}

validateEmvcoQr(s, country, currency) ==
  /\ Len(s) = 1 /\ s[1].form = "emv"
  /\ s[1].country = country /\ s[1].currency = currency
  /\ s[1].crc \in {"good", "tailed"}

validatePeruvianQr(s) == validateEmvcoQr(s, "PE", "604")

isBolivianEncryptedQr(s) ==
  /\ ~HasPackSep(s) /\ Len(s) = 2
  /\ s[1].form = "base64" /\ s[1].len >= 40 /\ s[1].len % 4 = 0
  /\ s[2].form = "hex" /\ s[2].len \in {24, 32}

validateBolivianQr(s) == isBolivianEncryptedQr(s) \/ validateEmvcoQr(s, "BO", "068")

validateVenezuelanQr(s) == Len(s) = 1 /\ s[1].form = "s7b" /\ s[1].len >= 40 /\ s[1].merchantId

(* What a PAY order may draw again, checksum or not.                       *)
PayEmv(s, country, currency) ==
  Len(s) = 1 /\ s[1].form = "emv" /\ s[1].country = country /\ s[1].currency = currency

isPeruvianPayQr(s) == PayEmv(s, "PE", "604")
isPhilippinePayQr(s) == PayEmv(s, "PH", "608")
isVenezuelanPayQr(s) == Len(s) = 1 /\ s[1].form = "s7b" /\ s[1].len > 0
isNepalFonepayQr(s) == Len(s) = 1 /\ s[1].form = "emv" /\ s[1].account = "fonepay.com" /\ s[1].country = "NP"
isBolivianPayQr(s) ==
  \/ PayEmv(s, "BO", "068")
  \/ /\ ~HasPackSep(s) /\ Len(s) = 2
     /\ s[1].form = "base64" /\ s[1].len >= 40 /\ s[1].len % 4 = 0
     /\ s[2].form = "hex" /\ s[2].len \in 16..64

(* The two hooks of a country.                                             *)
ValidQr(c, s) ==
  CASE COUNTRY_OPTIONS[c].validateQr = "peruvian" -> validatePeruvianQr(s)
    [] COUNTRY_OPTIONS[c].validateQr = "bolivian" -> validateBolivianQr(s)
    [] COUNTRY_OPTIONS[c].validateQr = "venezuelan" -> validateVenezuelanQr(s)
    [] OTHER -> FALSE
usesPackedPaymentId(c) == COUNTRY_OPTIONS[c].validateQr # "none"

Drawable(c, s) ==
  CASE COUNTRY_OPTIONS[c].payQr = "peruvian" -> isPeruvianPayQr(s)
    [] COUNTRY_OPTIONS[c].payQr = "bolivian" -> isBolivianPayQr(s)
    [] COUNTRY_OPTIONS[c].payQr = "venezuelan" -> isVenezuelanPayQr(s)
    [] COUNTRY_OPTIONS[c].payQr = "philippine" -> isPhilippinePayQr(s)
    [] COUNTRY_OPTIONS[c].payQr = "fonepay" -> isNepalFonepayQr(s)
    [] OTHER -> FALSE

(* Yape and Plin codes may hold the phone: in a tag of its own, or glued to*)
(* +51 in the text of another; a hex hash with its digits does not count.  *)
phoneFromTlvValue(t) ==
  CASE validatePeruvianPhone(t) -> {normalizePeruvianPaymentKey(t)}
    [] t.form = "hex" -> {}
    [] t.form = "glued" /\ Len(Local(t)) = 9 /\ Local(t)[1] = 9 -> {Number(Local(t))}
    [] OTHER -> {}
extractPeruvianPhoneFromQr(s) == phoneFromTlvValue(s[1].name)

----------------------------------------------------------------------------
(* A scanned code, read.                                                   *)
Parsed(address, amount) == [code |-> "ok", address |-> address, amount |-> amount]
Failure(code) == [code |-> code, address |-> <<>>, amount |-> {}]

NoAmount == ""        \* no amount; only a whole, positive decimal is one
Grouped == "1,000"    \* its thousands apart, which one reader puts together
Cents(a) == CASE a = "12.50" -> 1250 [] a = "1000" -> 100000 [] OTHER -> 0
parseAmount(a, sellPrice) ==
  IF Cents(a) > 0 /\ sellPrice > 0 THEN {[fiat |-> Cents(a), per |-> sellPrice]} ELSE {}

(* An absent amount is none, an unreadable one refuses the code.           *)
WithAmount(address, a, sellPrice) ==
  IF a = NoAmount THEN Parsed(address, {})
  ELSE IF parseAmount(a, sellPrice) = {} THEN Failure("INVALID_AMOUNT")
  ELSE Parsed(address, parseAmount(a, sellPrice))

IsEmv(s) == s[1].form = "emv" /\ Len(s) = 1
Invalid == Failure("INVALID_QR")

parseMercadoPago(s, sellPrice) ==
  IF IsEmv(s) /\ (s[1].currency = "032" \/ s[1].country = "AR") /\ verifyCRC16(s[1])
  THEN Parsed(<<IF s[1].name = Empty THEN Text("letters", <<>>, 7) ELSE s[1].name>>, {})
  ELSE Invalid

parseBolivia(s, sellPrice) ==
  IF isBolivianEncryptedQr(s) THEN Parsed(s, {})
  ELSE IF PayEmv(s, "BO", "068") THEN WithAmount(s, s[1].amount, sellPrice)
  ELSE Invalid

(* A DIAN invoice is known by its CUFE or its number.                      *)
parseDianInvoice(s) ==
  IF s[1].cufe # Empty THEN Parsed(<<s[1].cufe>>, {})
  ELSE IF s[1].numFac # Empty THEN Parsed(<<s[1].numFac>>, {}) ELSE Invalid
parseColombianEMV(s, sellPrice) ==
  Parsed(<<IF s[1].name = Empty THEN Text("alias", <<>>, 18) ELSE s[1].name>>, parseAmount(s[1].amount, sellPrice))
parseCOP(s, sellPrice) ==
  CASE s[1].form = "dian" -> parseDianInvoice(s)
    [] PayEmv(s, "CO", "170") -> parseColombianEMV(s, sellPrice)
    [] OTHER -> Invalid

normalizePhone(t) ==
  IF Count(t) = 8 THEN {Number(t.digits)}
  ELSE IF Count(t) = 10 /\ Leads(<<5, 3>>, t) THEN {Number(SubSeq(t.digits, 3, 10))} ELSE {}
normalizeCard(t) == IF BarDashes(t) /\ Count(t) = 16 THEN {Number(t.digits)} ELSE {}
(* Mutant: card and phone change places.                                   *)
MutTransfermovilSwapped(s, sellPrice) ==
  IF s[1].form # "transfermovil" \/ normalizeCard(s[1].card) = {} \/ normalizePhone(s[1].phone) = {}
  THEN Invalid
  ELSE LET card == CHOOSE x \in normalizeCard(s[1].card) : TRUE
           phone == CHOOSE x \in normalizePhone(s[1].phone) : TRUE
       IN  WithAmount(<<card, phone>>, s[1].amount, sellPrice)

parseTransfermovil(s, sellPrice) ==
  IF s[1].form # "transfermovil" \/ normalizeCard(s[1].card) = {} \/ normalizePhone(s[1].phone) = {}
  THEN Invalid
  ELSE LET card == CHOOSE x \in normalizeCard(s[1].card) : TRUE
           phone == CHOOSE x \in normalizePhone(s[1].phone) : TRUE
       IN  WithAmount(<<phone, card>>, s[1].amount, sellPrice)

parseDeUna(s, sellPrice) ==
  IF s[1].form = "url" /\ s[1].host = "pagar.deuna.app" /\ s[1].id # Empty
  THEN Parsed(<<s[1].id>>, {}) ELSE Invalid

parseQRIS(s, sellPrice) ==
  IF IsEmv(s) /\ s[1].name # Empty THEN WithAmount(<<s[1].name>>, s[1].amount, sellPrice) ELSE Invalid

(* Fonepay's amount is in Nepalese rupees and is not read; a UPI link may  *)
(* hold "undefined" or "null" where its maker had no amount.               *)
isFonepayQr(s) ==
  IsEmv(s) /\ s[1].account = "fonepay.com" /\ verifyCRC16(s[1]) /\ s[1].country = "NP"
readAmountParam(a) == IF a \in {"undefined", "null"} THEN NoAmount ELSE a
parseUPI(s, sellPrice) ==
  IF isFonepayQr(s) THEN Parsed(s, {})
  ELSE IF s[1].form # "link" \/ s[1].pa.form \notin {"upi", "email"} THEN Invalid
  ELSE WithAmount(<<s[1].pa>>, readAmountParam(s[1].amount), sellPrice)

isNQR(t) == t.account = "NG.COM.NIBSSPLC.QR" \/ t.currency = "566" \/ t.country = "NG"
parseEMVCoNQR(s, sellPrice) ==
  IF verifyCRC16(s[1]) /\ isNQR(s[1]) /\ s[1].name # Empty
  THEN WithAmount(<<s[1].name>>, s[1].amount, sellPrice) ELSE Invalid
parseSPD(s, sellPrice) ==
  IF s[1].acc = Empty THEN Invalid
  ELSE WithAmount(<<s[1].acc>>, IF s[1].amount = Grouped THEN "1000" ELSE s[1].amount, sellPrice)
parseNGN(s, sellPrice) ==
  CASE s[1].form = "spd" -> parseSPD(s, sellPrice)
    [] IsEmv(s) -> parseEMVCoNQR(s, sellPrice)
    [] OTHER -> Invalid

parsePeru(s, sellPrice) == IF validatePeruvianQr(s) THEN WithAmount(s, s[1].amount, sellPrice) ELSE Invalid

parseQRPh(s, sellPrice) ==
  IF PayEmv(s, "PH", "608") /\ verifyCRC16(s[1]) THEN WithAmount(s, s[1].amount, sellPrice) ELSE Invalid

parsePagoMovil(s, sellPrice) == IF validateVenezuelanQr(s) THEN Parsed(s, {}) ELSE Invalid

(* PIX: the amount behind the code's location, when it has one and the     *)
(* proxy's answer names one, else the code's own; an unreadable one is     *)
(* dropped.  "answer" is the amount in the answer, or "lost": no proxy was *)
(* given, it failed, or what it sent is no token.                          *)
fetchDynamicData(answer) == IF answer = "lost" THEN Failure("FETCH_FAILED") ELSE Parsed(<<>>, {})
(* Mutant: the amount in the code goes before the one behind its location. *)
MutPixOwnAmountFirst(s, sellPrice, answer) ==
  LET dynamic == s[1].account = "location"
      amount == IF s[1].amount # NoAmount THEN s[1].amount ELSE answer
      name == IF s[1].name = Empty THEN Text("alias", <<>>, 18) ELSE s[1].name
  IN  IF ~IsEmv(s) \/ ~verifyCRC16(s[1]) THEN Invalid
      ELSE IF dynamic /\ fetchDynamicData(answer).code # "ok" THEN fetchDynamicData(answer)
      ELSE Parsed(<<name>>, parseAmount(amount, sellPrice))

parsePIX(s, sellPrice, answer) ==
  LET dynamic == s[1].account = "location"
      amount == IF dynamic /\ answer # NoAmount THEN answer ELSE s[1].amount
      name == IF s[1].name = Empty THEN Text("alias", <<>>, 18) ELSE s[1].name
  IN  IF ~IsEmv(s) \/ ~verifyCRC16(s[1]) THEN Invalid
      ELSE IF dynamic /\ fetchDynamicData(answer).code # "ok" THEN fetchDynamicData(answer)
      ELSE Parsed(<<name>>, parseAmount(amount, sellPrice))

Read(c, s, sellPrice, answer) ==
  CASE c = "INR" -> parseUPI(s, sellPrice)
    [] c = "IDR" -> parseQRIS(s, sellPrice)
    [] c = "BRL" -> parsePIX(s, sellPrice, answer)
    [] c = "ARS" -> parseMercadoPago(s, sellPrice)
    [] c = "VEN" -> parsePagoMovil(s, sellPrice)
    [] c = "BOB" -> parseBolivia(s, sellPrice)
    [] c = "NGN" -> parseNGN(s, sellPrice)
    [] c = "COP" -> parseCOP(s, sellPrice)
    [] c = "CUP" -> parseTransfermovil(s, sellPrice)
    [] c = "ECU" -> parseDeUna(s, sellPrice)
    [] c = "PEN" -> parsePeru(s, sellPrice)
    [] c = "PHP" -> parseQRPh(s, sellPrice)
    [] OTHER -> Failure("INVALID_CURRENCY")

(* Whatever was read, a country that stores codes checks the code again.   *)
parseQR(c, s, sellPrice, answer) ==
  LET result == Read(c, s, sellPrice, answer)
  IN  IF result.code = "ok" /\ usesPackedPaymentId(c) /\ ~ValidQr(c, s) THEN Invalid ELSE result
=============================================================================
