-------------------------- MODULE PaymentPageProofs --------------------------
(***************************************************************************)
(* What the payment page makes of drafts, codes and scans, for any texts   *)
(* typed, codes uploaded or scanned, ids inherited and prices.  ScanInv is *)
(* inductive and says where a scan's result comes from, DraftInv what a    *)
(* form holds, LoadInv what an opened form was read from; what the readers,*)
(* the string of an id and the catalogue do with it are lemmas about       *)
(* operators.                                                              *)
(***************************************************************************)
EXTENDS PaymentPage, FiniteSetTheorems, WellFoundedInduction, TLAPS

----------------------------------------------------------------------------
(* The catalogue.                                                          *)

(* The catalogue's currencies; three of them store codes, two more draw a  *)
(* scanned one again.                                                      *)
LEMMA Currencies ==
  CURRENCY = {"ARS", "BOB", "BRL", "COP", "CUP", "ECU", "EGP", "EUR", "IDR", "INR", "KES", "MEX",
              "NGN", "PEN", "PHP", "USD", "VEN"}
BY DEF CURRENCY, COUNTRY_OPTIONS

LEMMA CodeHooks ==
  ASSUME NEW c \in CURRENCY
  PROVE  /\ COUNTRY_OPTIONS[c].validateQr =
              CASE c = "PEN" -> "peruvian" [] c = "BOB" -> "bolivian" [] c = "VEN" -> "venezuelan" [] OTHER -> "none"
         /\ COUNTRY_OPTIONS[c].payQr =
              CASE c = "PEN" -> "peruvian" [] c = "BOB" -> "bolivian" [] c = "VEN" -> "venezuelan"
                [] c = "PHP" -> "philippine" [] c = "INR" -> "fonepay" [] OTHER -> "none"
BY Currencies DEF COUNTRY_OPTIONS, Option, Plain, NoPay, ARS_COUNTRY_OPTION, BOB_COUNTRY_OPTION, BRL_COUNTRY_OPTION,
  COP_COUNTRY_OPTION, CUP_COUNTRY_OPTION, ECU_COUNTRY_OPTION, EGP_COUNTRY_OPTION, EUR_COUNTRY_OPTION,
  IDR_COUNTRY_OPTION, INR_COUNTRY_OPTION, KES_COUNTRY_OPTION, MEX_COUNTRY_OPTION, NGN_COUNTRY_OPTION,
  PEN_COUNTRY_OPTION, PHP_COUNTRY_OPTION, USD_COUNTRY_OPTION, VEN_COUNTRY_OPTION

(* A sequence of whatever it holds.                                        *)
IsList(s) == s \in Seq({s[i] : i \in DOMAIN s})

LEMMA Lists ==
  ASSUME NEW n \in Nat, NEW s, DOMAIN s = 1..n, s = [i \in 1..n |-> s[i]]
  PROVE  IsList(s) /\ Len(s) = n
BY DEF IsList

LEMMA ListHas ==
  ASSUME NEW s, IsList(s)
  PROVE  Len(s) \in Nat /\ DOMAIN s = 1..Len(s) /\ s = [i \in 1..Len(s) |-> s[i]]
BY DEF IsList

LEMMA SeqIsList == ASSUME NEW S, NEW s \in Seq(S) PROVE IsList(s)
BY DEF IsList

LEMMA TuplesAreLists ==
  /\ \A a : IsList(<<a>>) /\ Len(<<a>>) = 1
  /\ \A a, b : IsList(<<a, b>>) /\ Len(<<a, b>>) = 2
  /\ \A a, b, c : IsList(<<a, b, c>>) /\ Len(<<a, b, c>>) = 3
  /\ \A a, b, c, d : IsList(<<a, b, c, d>>) /\ Len(<<a, b, c, d>>) = 4
  /\ \A a, b, c, d, e : IsList(<<a, b, c, d, e>>) /\ Len(<<a, b, c, d, e>>) = 5
<1>1. ASSUME NEW a PROVE IsList(<<a>>) /\ Len(<<a>>) = 1
  <2>1. <<a>> \in Seq({a})
    OBVIOUS
  <2> QED BY <2>1, SeqIsList
<1>2. ASSUME NEW a, NEW b PROVE IsList(<<a, b>>) /\ Len(<<a, b>>) = 2
  <2>1. <<a, b>> \in Seq({a, b})
    OBVIOUS
  <2> QED BY <2>1, SeqIsList
<1>3. ASSUME NEW a, NEW b, NEW c PROVE IsList(<<a, b, c>>) /\ Len(<<a, b, c>>) = 3
  <2>1. <<a, b, c>> \in Seq({a, b, c})
    OBVIOUS
  <2> QED BY <2>1, SeqIsList
<1>4. ASSUME NEW a, NEW b, NEW c, NEW d PROVE IsList(<<a, b, c, d>>) /\ Len(<<a, b, c, d>>) = 4
  <2>1. <<a, b, c, d>> \in Seq({a, b, c, d})
    OBVIOUS
  <2> QED BY <2>1, SeqIsList
<1>5. ASSUME NEW a, NEW b, NEW c, NEW d, NEW e
      PROVE  IsList(<<a, b, c, d, e>>) /\ Len(<<a, b, c, d, e>>) = 5
  <2>1. <<a, b, c, d, e>> \in Seq({a, b, c, d, e})
    OBVIOUS
  <2> QED BY <2>1, SeqIsList
<1> QED BY <1>1, <1>2, <1>3, <1>4, <1>5

(* The fields of a currency are a sequence.                                *)
LEMMA FieldsAreList ==
  ASSUME NEW c \in CURRENCY
  PROVE  IsList(PAYMENT_ID_FIELDS(c)) /\ Len(PAYMENT_ID_FIELDS(c)) \in Nat \ {0}
<1> DEFINE IsForm(F) == IsList(F) /\ Len(F) \in Nat \ {0}
<1>1. PAYMENT_ID_FIELDS(c) \in
        {ARS_PAYMENT_FIELDS, BOB_PAYMENT_FIELDS, BRL_PAYMENT_FIELDS, COP_PAYMENT_FIELDS, CUP_PAYMENT_FIELDS,
         ECU_PAYMENT_FIELDS, EGP_PAYMENT_FIELDS, EUR_PAYMENT_FIELDS, USD_PAYMENT_FIELDS, IDR_PAYMENT_FIELDS,
         INR_PAYMENT_FIELDS, KES_PAYMENT_FIELDS, MEX_PAYMENT_FIELDS, NGN_PAYMENT_FIELDS, PEN_PAYMENT_FIELDS,
         PHP_PAYMENT_FIELDS, VEN_PAYMENT_FIELDS}
  BY Currencies DEF PAYMENT_ID_FIELDS, COUNTRY_OPTIONS, Option, Plain, NoPay,
  ARS_COUNTRY_OPTION, BOB_COUNTRY_OPTION, BRL_COUNTRY_OPTION,
  COP_COUNTRY_OPTION, CUP_COUNTRY_OPTION, ECU_COUNTRY_OPTION, EGP_COUNTRY_OPTION, EUR_COUNTRY_OPTION,
  IDR_COUNTRY_OPTION, INR_COUNTRY_OPTION, KES_COUNTRY_OPTION, MEX_COUNTRY_OPTION, NGN_COUNTRY_OPTION,
  PEN_COUNTRY_OPTION, PHP_COUNTRY_OPTION, USD_COUNTRY_OPTION, VEN_COUNTRY_OPTION
<1>2. IsForm(ARS_PAYMENT_FIELDS) /\ IsForm(BOB_PAYMENT_FIELDS) /\ IsForm(BRL_PAYMENT_FIELDS)
  BY TuplesAreLists DEF ARS_PAYMENT_FIELDS, BOB_PAYMENT_FIELDS, BRL_PAYMENT_FIELDS
<1>3. IsForm(COP_PAYMENT_FIELDS) /\ IsForm(EGP_PAYMENT_FIELDS) /\ IsForm(EUR_PAYMENT_FIELDS) /\ IsForm(USD_PAYMENT_FIELDS)
  BY TuplesAreLists DEF COP_PAYMENT_FIELDS, EGP_PAYMENT_FIELDS, EUR_PAYMENT_FIELDS, USD_PAYMENT_FIELDS
<1>4. IsForm(IDR_PAYMENT_FIELDS) /\ IsForm(INR_PAYMENT_FIELDS) /\ IsForm(MEX_PAYMENT_FIELDS)
  BY TuplesAreLists DEF IDR_PAYMENT_FIELDS, INR_PAYMENT_FIELDS, MEX_PAYMENT_FIELDS
<1>5. IsForm(CUP_PAYMENT_FIELDS) /\ IsForm(PEN_PAYMENT_FIELDS) /\ IsForm(PHP_PAYMENT_FIELDS)
  BY TuplesAreLists DEF CUP_PAYMENT_FIELDS, PEN_PAYMENT_FIELDS, PHP_PAYMENT_FIELDS
<1>6. IsForm(NGN_PAYMENT_FIELDS) /\ IsForm(VEN_PAYMENT_FIELDS)
  BY TuplesAreLists DEF NGN_PAYMENT_FIELDS, VEN_PAYMENT_FIELDS
<1>7. IsForm(KES_PAYMENT_FIELDS) /\ IsForm(ECU_PAYMENT_FIELDS)
  BY TuplesAreLists DEF KES_PAYMENT_FIELDS, ECU_PAYMENT_FIELDS
<1> QED BY <1>1, <1>2, <1>3, <1>4, <1>5, <1>6, <1>7

(* The forms of the countries the proofs look at closer.                   *)
LEMMA SomeForms ==
  /\ PAYMENT_ID_FIELDS("BOB") = BOB_PAYMENT_FIELDS /\ Len(BOB_PAYMENT_FIELDS) = 1
  /\ PAYMENT_ID_FIELDS("CUP") = CUP_PAYMENT_FIELDS /\ Len(CUP_PAYMENT_FIELDS) = 2
  /\ PAYMENT_ID_FIELDS("INR") = INR_PAYMENT_FIELDS /\ Len(INR_PAYMENT_FIELDS) = 1
  /\ PAYMENT_ID_FIELDS("PEN") = PEN_PAYMENT_FIELDS /\ Len(PEN_PAYMENT_FIELDS) = 2
  /\ PAYMENT_ID_FIELDS("PHP") = PHP_PAYMENT_FIELDS /\ Len(PHP_PAYMENT_FIELDS) = 2
  /\ PAYMENT_ID_FIELDS("VEN") = VEN_PAYMENT_FIELDS /\ Len(VEN_PAYMENT_FIELDS) = 3
<1>1. /\ PAYMENT_ID_FIELDS("BOB") = BOB_PAYMENT_FIELDS /\ PAYMENT_ID_FIELDS("CUP") = CUP_PAYMENT_FIELDS
      /\ PAYMENT_ID_FIELDS("INR") = INR_PAYMENT_FIELDS /\ PAYMENT_ID_FIELDS("PEN") = PEN_PAYMENT_FIELDS
      /\ PAYMENT_ID_FIELDS("PHP") = PHP_PAYMENT_FIELDS /\ PAYMENT_ID_FIELDS("VEN") = VEN_PAYMENT_FIELDS
  BY DEF PAYMENT_ID_FIELDS, COUNTRY_OPTIONS, Option, Plain, BOB_COUNTRY_OPTION, CUP_COUNTRY_OPTION,
         INR_COUNTRY_OPTION, PEN_COUNTRY_OPTION, PHP_COUNTRY_OPTION, VEN_COUNTRY_OPTION
<1>2. Len(BOB_PAYMENT_FIELDS) = 1 /\ Len(INR_PAYMENT_FIELDS) = 1
  BY DEF BOB_PAYMENT_FIELDS, INR_PAYMENT_FIELDS
<1>3. Len(CUP_PAYMENT_FIELDS) = 2 /\ Len(PEN_PAYMENT_FIELDS) = 2 /\ Len(PHP_PAYMENT_FIELDS) = 2
  BY DEF CUP_PAYMENT_FIELDS, PEN_PAYMENT_FIELDS, PHP_PAYMENT_FIELDS
<1>4. Len(VEN_PAYMENT_FIELDS) = 3
  BY DEF VEN_PAYMENT_FIELDS
<1> QED BY <1>1, <1>2, <1>3, <1>4

----------------------------------------------------------------------------
(* Codes and what is packed with them.                                     *)

LEMMA StoresCodes == ASSUME NEW c \in CURRENCY PROVE usesPackedPaymentId(c) <=> c \in {"BOB", "PEN", "VEN"}
BY CodeHooks DEF usesPackedPaymentId

(* A right code is one text or an envelope of two, none of them empty: it  *)
(* is not the empty string, and nothing in it separates it.                *)
LEMMA RightCode ==
  ASSUME NEW c \in CURRENCY, NEW s, ValidQr(c, s)
  PROVE  /\ c \in {"BOB", "PEN", "VEN"} /\ Len(s) \in {1, 2} /\ Gaps(s) = {} /\ s # NoText
         /\ s[1].form \in {"emv", "s7b", "base64"} /\ (Len(s) = 2 => s[2].form = "hex" /\ c = "BOB")
<1>1. CASE c = "PEN"
  <2>1. validatePeruvianQr(s)
    BY <1>1, CodeHooks DEF ValidQr
  <2>2. Len(s) = 1 /\ s[1].form = "emv"
    BY <2>1 DEF validatePeruvianQr, validateEmvcoQr
  <2> QED BY <1>1, <2>2 DEF Gaps, NoText, Empty, Text
<1>2. CASE c = "VEN"
  <2>1. validateVenezuelanQr(s)
    BY <1>2, CodeHooks DEF ValidQr
  <2>2. Len(s) = 1 /\ s[1].form = "s7b"
    BY <2>1 DEF validateVenezuelanQr
  <2> QED BY <1>2, <2>2 DEF Gaps, NoText, Empty, Text
<1>3. CASE c = "BOB"
  <2>1. validateBolivianQr(s)
    BY <1>3, CodeHooks DEF ValidQr
  <2>2. \/ Len(s) = 1 /\ s[1].form = "emv"
        \/ Len(s) = 2 /\ s[1].form = "base64" /\ s[2].form = "hex"
    BY <2>1 DEF validateBolivianQr, validateEmvcoQr, isBolivianEncryptedQr
  <2> QED BY <1>3, <2>2 DEF Gaps, NoText, Empty, Text
<1>4. CASE c \notin {"BOB", "PEN", "VEN"}
  BY <1>4, CodeHooks DEF ValidQr
<1> QED BY <1>1, <1>2, <1>3, <1>4

LEMMA Alone == ASSUME NEW s, Gaps(s) = {} PROVE unpackPackedPaymentId(s) = [qr |-> NoText, rest |-> s]
BY DEF unpackPackedPaymentId, HasPackSep

(* A right code that stands alone is a stored id, and is drawn again.      *)
LEMMA CodeAlone ==
  ASSUME NEW c \in CURRENCY, NEW s, ValidQr(c, s)
  PROVE  getStoredQrPayload(c, s) = s /\ getPayQrPayload(c, s) = s /\ validateStoredPaymentId(c, s)
<1>1. unpackPackedPaymentId(s) = [qr |-> NoText, rest |-> s] /\ s # NoText /\ usesPackedPaymentId(c)
  BY RightCode, Alone, StoresCodes
<1>2. ~ValidQr(c, NoText)
  BY RightCode
<1>3. getStoredQrPayload(c, s) = s
  BY <1>1, <1>2 DEF getStoredQrPayload
<1>4. validateStoredPaymentId(c, s)
  BY <1>1 DEF validateStoredPaymentId, unpackForCurrency
<1> QED BY <1>1, <1>3, <1>4 DEF getPayQrPayload

----------------------------------------------------------------------------
(* Scans.                                                                  *)

(* A scan waits for its answer, which only a dynamic PIX code gets; what   *)
(* was read is what parseQR makes of the code, and is what an order stores.*)
ScanInv ==
  /\ cur \in CURRENCY
  /\ scan = [code |-> scan.code, price |-> scan.price, answer |-> scan.answer]
  /\ phase \in {"reading", "read", "placed"} => scan.code \in Scanned[cur]
  /\ phase \in {"read", "placed"} =>
       /\ read = parseQR(cur, scan.code, scan.price, scan.answer)
       /\ scan.answer # NoAmount => cur = "BRL" /\ scan.code[1].form = "emv" /\ scan.code[1].account = "location"
  /\ phase = "placed" => read.code = "ok" /\ stored = read.address

LEMMA ScanStarts == PayInit => ScanInv
BY DEF PayInit, ScanInv, NoScan

LEMMA ScanStepKeeps == ScanInv /\ [PayNext]_payVars => ScanInv'
<1> SUFFICES ASSUME ScanInv, [PayNext]_payVars PROVE ScanInv'
  OBVIOUS
<1> USE DEF ScanInv
<1>1. CASE \E i \in DOMAIN values : \E t \in Typed[Fields[i].rule] : Type(i, t)
  BY <1>1 DEF Type, Edit
<1>2. CASE \E q \in Uploads[cur] : Upload(q)
  BY <1>2 DEF Upload, Edit
<1>3. CASE Save
  BY <1>3 DEF Save
<1>4. CASE \E s \in Inherited[cur] : Inherit(s)
  BY <1>4 DEF Inherit
<1>5. CASE Load
  BY <1>5 DEF Load
<1>6. CASE \E code \in Scanned[cur], price \in Prices : Scan(code, price)
  BY <1>6 DEF Scan
<1>7. CASE \E answer \in Answers \cup {NoAmount} : Returned(answer)
  <2>1. PICK answer \in Answers \cup {NoAmount} : Returned(answer)
    BY <1>7
  <2>2. scan' = [code |-> scan.code, price |-> scan.price, answer |-> answer]
    BY <2>1 DEF Returned
  <2> QED BY <2>1, <2>2 DEF Returned
<1>8. CASE Place
  BY <1>8 DEF Place
<1>9. CASE UNCHANGED payVars
  BY <1>9 DEF payVars
<1> QED BY <1>1, <1>2, <1>3, <1>4, <1>5, <1>6, <1>7, <1>8, <1>9 DEF PayNext

----------------------------------------------------------------------------
(* The readers.                                                            *)

LEMMA NoAmountDiffers ==
  NoAmount \notin {"12.50", "1000", Grouped, "undefined", "null"} /\ Grouped \notin {"12.50", "1000", "undefined", "null"}
BY Zenon DEF NoAmount, Grouped

(* What a reader that takes an amount says of it.                          *)
LEMMA AmountsAreAsked ==
  ASSUME NEW address, NEW a, NEW price
  PROVE  /\ WithAmount(address, a, price).code = "ok" =>
              /\ WithAmount(address, a, price).address = address
              /\ WithAmount(address, a, price).amount = {} => a = NoAmount
         /\ \A x \in WithAmount(address, a, price).amount :
              x.fiat = Cents(a) /\ x.fiat > 0 /\ x.per = price /\ x.per > 0
<1>1. \A x \in parseAmount(a, price) : x.fiat = Cents(a) /\ x.fiat > 0 /\ x.per = price /\ x.per > 0
  BY DEF parseAmount
<1> QED BY <1>1 DEF WithAmount, Parsed, Failure

(* An amount read is the one asked for, and none is read only if none was  *)
(* asked for, it is not in the reader's money or it need not be readable.  *)
AskedFor(s, answer) ==
  IF s[1].form \notin {"emv", "link", "spd", "transfermovil"} THEN NoAmount
  ELSE IF answer # NoAmount THEN answer ELSE s[1].amount
States(c, s, price, answer, result) ==
  IF result.amount # {}
  THEN \A a \in result.amount :
         a.fiat = Worth(AskedFor(s, answer)) /\ a.fiat > 0 /\ a.per = price /\ a.per > 0
  ELSE \/ AskedFor(s, answer) \in {NoAmount, "undefined", "null"}
       \/ c \in {"ARS", "BRL", "COP"} \/ (c = "INR" /\ isFonepayQr(s))

(* A reader whose result is that of WithAmount states what it was asked.   *)
LEMMA AskedIsStated ==
  ASSUME NEW c, NEW s, NEW price, NEW answer, NEW address, NEW a, NEW result,
         result = WithAmount(address, a, price), result.code = "ok",
         s[1].form \in {"emv", "link", "spd", "transfermovil"}, answer = NoAmount,
         \/ a = s[1].amount
         \/ a = NoAmount /\ s[1].amount \in {"undefined", "null"}
         \/ a = "1000" /\ s[1].amount = Grouped
  PROVE  States(c, s, price, answer, result)
<1>1. CASE result.amount # {}
  <2>1. \A x \in result.amount : x.fiat = Cents(a) /\ x.fiat > 0 /\ x.per = price /\ x.per > 0
    BY AmountsAreAsked
  <2>2. a # NoAmount
    BY <1>1 DEF WithAmount, Parsed
  <2>3. Cents(a) = Worth(s[1].amount)
    <3>1. PICK x \in result.amount : TRUE
      BY <1>1
    <3>2. Cents(a) > 0
      BY <2>1, <3>1
    <3> QED BY <2>2, <3>2, NoAmountDiffers DEF Worth, Cents
  <2> QED BY <1>1, <2>1, <2>3 DEF States, AskedFor
<1>2. CASE result.amount = {}
  <2>1. a = NoAmount
    BY <1>2, AmountsAreAsked
  <2>2. s[1].amount \in {NoAmount, "undefined", "null"}
    BY <2>1, NoAmountDiffers
  <2> QED BY <1>2, <2>2 DEF States, AskedFor
<1> QED BY <1>1, <1>2

LEMMA ReadersState ==
  ASSUME NEW c, NEW s, NEW price, NEW answer, NEW result,
         answer # NoAmount => c = "BRL" /\ s[1].form = "emv" /\ s[1].account = "location",
         result = Read(c, s, price, answer), result.code = "ok"
  PROVE  States(c, s, price, answer, result)
<1> USE DEF Invalid, Failure
<1>1. CASE c = "INR"
  <2>1. result = parseUPI(s, price)
    BY <1>1 DEF Read
  <2>2. CASE isFonepayQr(s)
    BY <1>1, <2>1, <2>2 DEF parseUPI, Parsed, States
  <2>3. CASE ~isFonepayQr(s)
    BY <1>1, <2>1, <2>3, AskedIsStated DEF parseUPI, readAmountParam
  <2> QED BY <2>2, <2>3
<1>2. CASE c = "IDR"
  <2>1. result = parseQRIS(s, price)
    BY <1>2 DEF Read
  <2> QED BY <1>2, <2>1, AskedIsStated DEF parseQRIS, IsEmv
<1>3. CASE c = "BRL"
  <2> DEFINE amount == IF s[1].account = "location" /\ answer # NoAmount THEN answer ELSE s[1].amount
  <2>1. result = parsePIX(s, price, answer)
    BY <1>3 DEF Read
  <2>2. s[1].form = "emv" /\ result.amount = parseAmount(amount, price)
    BY <2>1 DEF parsePIX, IsEmv, fetchDynamicData, Parsed
  <2>3. \A x \in result.amount : x.fiat = Cents(amount) /\ x.fiat > 0 /\ x.per = price /\ x.per > 0
    BY <2>2 DEF parseAmount
  <2>4. amount = AskedFor(s, answer)
    BY <2>2 DEF AskedFor
  <2>5. ASSUME NEW x \in result.amount PROVE x.fiat = Worth(amount)
    BY <2>3, NoAmountDiffers DEF Cents, Worth
  <2> QED BY <1>3, <2>2, <2>3, <2>4, <2>5 DEF States
<1>4. CASE c = "ARS"
  <2>1. result = parseMercadoPago(s, price)
    BY <1>4 DEF Read
  <2>2. result.amount = {}
    BY <2>1 DEF parseMercadoPago, Parsed
  <2> QED BY <1>4, <2>2 DEF States
<1>5. CASE c = "VEN"
  <2>1. result = parsePagoMovil(s, price)
    BY <1>5 DEF Read
  <2>2. result.amount = {} /\ s[1].form = "s7b"
    BY <2>1 DEF parsePagoMovil, validateVenezuelanQr, Parsed
  <2> QED BY <2>2 DEF States, AskedFor
<1>6. CASE c = "BOB"
  <2>1. result = parseBolivia(s, price)
    BY <1>6 DEF Read
  <2>2. CASE isBolivianEncryptedQr(s)
    <3>1. result.amount = {} /\ s[1].form = "base64"
      BY <2>1, <2>2 DEF parseBolivia, isBolivianEncryptedQr, Parsed
    <3> QED BY <3>1 DEF States, AskedFor
  <2>3. CASE ~isBolivianEncryptedQr(s)
    BY <1>6, <2>1, <2>3, AskedIsStated DEF parseBolivia, PayEmv
  <2> QED BY <2>2, <2>3
<1>7. CASE c = "NGN"
  <2>1. result = parseNGN(s, price)
    BY <1>7 DEF Read
  <2>2. CASE s[1].form = "spd"
    BY <1>7, <2>1, <2>2, AskedIsStated DEF parseNGN, parseSPD, IsEmv
  <2>3. CASE s[1].form # "spd"
    BY <1>7, <2>1, <2>3, AskedIsStated DEF parseNGN, parseEMVCoNQR, IsEmv
  <2> QED BY <2>2, <2>3
<1>8. CASE c = "COP"
  <2>1. result = parseCOP(s, price)
    BY <1>8 DEF Read
  <2>2. CASE s[1].form = "dian"
    <3>1. result.amount = {}
      BY <2>1, <2>2 DEF parseCOP, parseDianInvoice, PayEmv, Parsed
    <3> QED BY <1>8, <3>1 DEF States
  <2>3. CASE s[1].form # "dian"
    <3>1. s[1].form = "emv" /\ result.amount = parseAmount(s[1].amount, price)
      BY <2>1, <2>3 DEF parseCOP, PayEmv, parseColombianEMV, Parsed
    <3>2. \A x \in result.amount : x.fiat = Cents(s[1].amount) /\ x.fiat > 0 /\ x.per = price /\ x.per > 0
      BY <3>1 DEF parseAmount
    <3>3. s[1].amount = AskedFor(s, answer)
      BY <1>8, <3>1 DEF AskedFor
    <3>4. ASSUME NEW x \in result.amount PROVE x.fiat = Worth(s[1].amount)
      BY <3>2, NoAmountDiffers DEF Cents, Worth
    <3> QED BY <1>8, <3>1, <3>2, <3>3, <3>4 DEF States
  <2> QED BY <2>2, <2>3
<1>9. CASE c = "CUP"
  <2>1. result = parseTransfermovil(s, price)
    BY <1>9 DEF Read
  <2> QED BY <1>9, <2>1, AskedIsStated DEF parseTransfermovil
<1>10. CASE c = "ECU"
  <2>1. result = parseDeUna(s, price)
    BY <1>10 DEF Read
  <2>2. result.amount = {} /\ s[1].form = "url"
    BY <2>1 DEF parseDeUna, Parsed
  <2> QED BY <2>2 DEF States, AskedFor
<1>11. CASE c = "PEN"
  <2>1. result = parsePeru(s, price)
    BY <1>11 DEF Read
  <2> QED BY <1>11, <2>1, AskedIsStated DEF parsePeru, validatePeruvianQr, validateEmvcoQr
<1>12. CASE c = "PHP"
  <2>1. result = parseQRPh(s, price)
    BY <1>12 DEF Read
  <2> QED BY <1>12, <2>1, AskedIsStated DEF parseQRPh, PayEmv
<1> QED BY <1>1, <1>2, <1>3, <1>4, <1>5, <1>6, <1>7, <1>8, <1>9, <1>10, <1>11, <1>12 DEF Read

LEMMA ScanStates == ScanInv => AmountIsStated
<1> SUFFICES ASSUME ScanInv, phase = "read", read.code = "ok" PROVE States(cur, scan.code, scan.price, scan.answer, read)
  BY DEF AmountIsStated, States, Asked, AskedFor
<1>1. read = Read(cur, scan.code, scan.price, scan.answer)
  BY DEF ScanInv, parseQR, Invalid, Failure
<1> QED BY <1>1, ReadersState DEF ScanInv

(* A reader that stores the code keeps it whole.                           *)
LEMMA CodeIsKept ==
  ASSUME NEW c, NEW s, NEW price, NEW answer, NEW result,
         result = Read(c, s, price, answer), result.code = "ok"
  PROVE  /\ c \in {"PEN", "VEN", "BOB", "PHP"} => result.address = s
         /\ c = "PHP" => isPhilippinePayQr(s)
         /\ c = "INR" /\ isFonepayQr(s) => result.address = s
<1> USE DEF Invalid, Failure
<1>1. CASE c = "PEN"
  <2>1. result = parsePeru(s, price)
    BY <1>1 DEF Read
  <2> QED BY <1>1, <2>1, AmountsAreAsked DEF parsePeru
<1>2. CASE c = "VEN"
  <2>1. result = parsePagoMovil(s, price)
    BY <1>2 DEF Read
  <2> QED BY <1>2, <2>1 DEF parsePagoMovil, Parsed
<1>3. CASE c = "BOB"
  <2>1. result = parseBolivia(s, price)
    BY <1>3 DEF Read
  <2> QED BY <1>3, <2>1, AmountsAreAsked DEF parseBolivia, Parsed
<1>4. CASE c = "PHP"
  <2>1. result = parseQRPh(s, price)
    BY <1>4 DEF Read
  <2> QED BY <1>4, <2>1, AmountsAreAsked DEF parseQRPh, isPhilippinePayQr
<1>5. CASE c = "INR" /\ isFonepayQr(s)
  <2>1. result = parseUPI(s, price)
    BY <1>5 DEF Read
  <2> QED BY <1>5, <2>1 DEF parseUPI, Parsed
<1> QED BY <1>1, <1>2, <1>3, <1>4, <1>5

(* Cuba's phone and card change places, and pass the rules of their fields.*)
LEMMA CardAndPhoneFit ==
  ASSUME NEW s, NEW price, NEW result, result = parseTransfermovil(s, price), result.code = "ok",
         s[1].phone.digits \in Seq(0..9)
  PROVE  validateStoredPaymentId("CUP", result.address)
<1> DEFINE phones == normalizePhone(s[1].phone)
           cards == normalizeCard(s[1].card)
           phone == CHOOSE x \in phones : TRUE
           card == CHOOSE x \in cards : TRUE
<1>1. phones # {} /\ cards # {} /\ result = WithAmount(<<phone, card>>, s[1].amount, price)
  BY DEF parseTransfermovil, Invalid, Failure
<1>2. result.address = <<phone, card>>
  <2>1. PICK id : id = <<phone, card>> /\ result = WithAmount(id, s[1].amount, price)
    BY <1>1
  <2> HIDE DEF phones, cards, phone, card
  <2> QED BY <2>1, AmountsAreAsked
<1>3. \A x \in phones : x.form = "digits" /\ Len(x.digits) = 8
  <2> DEFINE d == s[1].phone.digits
  <2>1. Len(d) = 10 => Len(SubSeq(d, 3, 10)) = 8
    OBVIOUS
  <2>2. \A e : Number(e).form = "digits" /\ Number(e).digits = e
    BY DEF Number, Text
  <2>3. ASSUME NEW x \in phones PROVE \E e : x = Number(e) /\ Len(e) = 8
    <3>1. CASE Len(d) = 8
      BY <2>3, <3>1 DEF normalizePhone, Count
    <3>2. CASE Len(d) # 8
      BY <2>1, <2>3, <3>2 DEF normalizePhone, Count
    <3> QED BY <3>1, <3>2
  <2> QED BY <2>2, <2>3
<1>4. \A x \in cards : x.form = "digits" /\ Len(x.digits) = 16
  BY DEF normalizeCard, Number, Text, Count
<1> HIDE DEF phones, cards
<1>5. phone.form = "digits" /\ Len(phone.digits) = 8 /\ card.form = "digits" /\ Len(card.digits) = 16
  BY <1>1, <1>3, <1>4
<1> HIDE DEF phone, card
<1> DEFINE id == <<phone, card>>
           F == CUP_PAYMENT_FIELDS
<1>6. Valid("cubanPhone", phone) /\ Valid("cubanCard", card)
  BY <1>5 DEF Valid, validateCubanPhoneNumber, validateCubanCardNumber, AnyText, IsBlank, BarDashes, Count
<1>7. phone # Empty /\ card # Empty /\ Trim(phone) = phone /\ Trim(card) = card
  BY <1>5 DEF Empty, Text, Trim, IsBlank
<1>8. DOMAIN F = 1..2 /\ F[1].rule = "cubanPhone" /\ F[2].rule = "cubanCard" /\ Len(F) = 2
  BY DEF CUP_PAYMENT_FIELDS, Must, Field
<1>9. ByPosition(F, id) = id /\ Len(id) = 2
  <2>1. \A i \in 1..2 : i <= Len(id) /\ Trim(id[i]) = id[i]
    BY <1>7
  <2> QED BY <1>8, <2>1 DEF ByPosition
<1>10. fieldValuesValid(F, id)
  BY <1>6, <1>7, <1>8 DEF fieldValuesValid
<1>11. id # NoText
  BY DEF NoText
<1>12. validatePaymentIdFields(F, id)
  BY <1>7, <1>8, <1>9, <1>10, <1>11 DEF validatePaymentIdFields
<1>13. "CUP" \in CURRENCY /\ ~usesPackedPaymentId("CUP") /\ PAYMENT_ID_FIELDS("CUP") = F
  BY Currencies, StoresCodes, SomeForms
<1> QED BY <1>2, <1>11, <1>12, <1>13 DEF validateStoredPaymentId, unpackForCurrency, fieldsMatchStoredId

LEMMA ScanUsable == ScanInv => ScannedIsUsable
<1> SUFFICES ASSUME ScanInv, phase = "placed" PROVE ScannedIsUsable
  BY DEF ScannedIsUsable
<1> DEFINE s == scan.code
<1>1. read = Read(cur, s, scan.price, scan.answer) /\ read.code = "ok" /\ stored = read.address /\ cur \in CURRENCY
      /\ (usesPackedPaymentId(cur) => ValidQr(cur, s))
  BY DEF ScanInv, parseQR, Invalid, Failure
<1>2. CASE cur \in {"PEN", "VEN", "BOB"}
  <2>1. ValidQr(cur, s) /\ stored = s
    BY <1>1, <1>2, StoresCodes, CodeIsKept
  <2> QED BY <1>1, <1>2, <2>1, CodeAlone DEF ScannedIsUsable
<1>3. CASE cur = "PHP"
  <2>1. stored = s /\ isPhilippinePayQr(s)
    BY <1>1, <1>3, CodeIsKept
  <2>2. Gaps(s) = {} /\ s # NoText
    BY <2>1 DEF isPhilippinePayQr, PayEmv, Gaps, NoText, Empty, Text
  <2>3. payQrCandidate(s) = s /\ Drawable(cur, s)
    BY <1>1, <1>3, <2>1, <2>2, CodeHooks DEF payQrCandidate, HasPackSep, Drawable
  <2>4. getStoredQrPayload(cur, s) = NoText
    BY <1>1, <1>3, StoresCodes DEF getStoredQrPayload
  <2> QED BY <1>3, <2>1, <2>3, <2>4 DEF ScannedIsUsable, getPayQrPayload
<1>4. CASE cur = "INR" /\ isFonepayQr(s)
  <2>1. stored = s /\ isNepalFonepayQr(s)
    BY <1>1, <1>4, CodeIsKept DEF isFonepayQr, isNepalFonepayQr, IsEmv
  <2>2. Gaps(s) = {} /\ s # NoText
    BY <2>1 DEF isNepalFonepayQr, Gaps, NoText, Empty, Text
  <2>3. payQrCandidate(s) = s /\ Drawable(cur, s)
    BY <1>1, <1>4, <2>1, <2>2, CodeHooks DEF payQrCandidate, HasPackSep, Drawable
  <2>4. getStoredQrPayload(cur, s) = NoText
    BY <1>1, <1>4, StoresCodes DEF getStoredQrPayload
  <2> QED BY <1>4, <2>1, <2>3, <2>4 DEF ScannedIsUsable, getPayQrPayload
<1>5. CASE cur = "CUP"
  <2>1. read = parseTransfermovil(s, scan.price)
    BY <1>1, <1>5 DEF Read
  <2>2. s \in Scanned["CUP"] /\ s[1].form = "transfermovil"
    BY <1>1, <1>5, <2>1 DEF ScanInv, parseTransfermovil, Invalid, Failure
  <2>3. s[1].phone.digits \in Seq(0..9)
    BY <2>2, PhonesAreDigits DEF PhonesAreDigits
  <2> QED BY <1>1, <1>5, <2>1, <2>3, CardAndPhoneFit DEF ScannedIsUsable
<1>6. CASE ~(cur \in {"PEN", "VEN", "BOB", "PHP", "CUP"} \/ (cur = "INR" /\ isFonepayQr(s)))
  BY <1>6 DEF ScannedIsUsable
<1> QED BY <1>2, <1>3, <1>4, <1>5, <1>6

----------------------------------------------------------------------------
(* Forms.                                                                  *)

LEMMA Trimmed ==
  /\ \A t : (Trim(t) = Empty <=> IsBlank(t)) /\ (~IsBlank(t) => Trim(t) = t)
  /\ \A t : Trim(Trim(t)) = Trim(t)
BY DEF Trim, IsBlank, Empty, Text

(* The texts of a form as they are stored.                                 *)
Parts(v) == [i \in DOMAIN v |-> Trim(v[i])]

LEMMA PartsAreList ==
  ASSUME NEW F, NEW v, IsList(F), DOMAIN v = DOMAIN F
  PROVE  /\ IsList(Parts(v)) /\ Len(Parts(v)) = Len(F) /\ DOMAIN Parts(v) = 1..Len(F)
         /\ ByPosition(F, Parts(v)) = Parts(v)
         /\ packedTypedRest(v) = IF \A i \in DOMAIN v : IsBlank(v[i]) THEN NoText ELSE Parts(v)
<1>1. Len(F) \in Nat /\ DOMAIN F = 1..Len(F)
  BY ListHas
<1>2. DOMAIN Parts(v) = 1..Len(F) /\ Parts(v) = [i \in 1..Len(F) |-> Parts(v)[i]]
  BY <1>1 DEF Parts
<1>3. IsList(Parts(v)) /\ Len(Parts(v)) = Len(F)
  BY <1>1, <1>2, Lists
<1>4. ByPosition(F, Parts(v)) = Parts(v)
  <2>1. \A i \in DOMAIN F : i <= Len(Parts(v)) /\ Trim(Parts(v)[i]) = Parts(v)[i]
    BY <1>1, <1>3, Trimmed DEF Parts
  <2> QED BY <1>1, <1>2, <2>1 DEF ByPosition, Parts
<1>5. packedTypedRest(v) = IF \A i \in DOMAIN v : IsBlank(v[i]) THEN NoText ELSE Parts(v)
  <2>1. Places(Parts(v)) = {} <=> \A i \in DOMAIN v : IsBlank(v[i])
    BY Trimmed DEF Places, Parts
  <2> QED BY <2>1 DEF packedTypedRest, Parts
<1> QED BY <1>2, <1>3, <1>4, <1>5

(* What Complete asks of the texts, for a form's fields and its texts.     *)
Fits(F, v) ==
  \A i \in DOMAIN F :
    IF ~IsBlank(v[i]) THEN Valid(F[i].rule, v[i])
    ELSE F[i].optional /\ \A j \in DOMAIN F : ~IsBlank(v[j]) => F[i].key \notin F[j].requires

(* A form with any text in it is stored in full, is read back in full, and *)
(* fits exactly when its texts do.                                         *)
LEMMA FormIsRead ==
  ASSUME NEW F, NEW v, IsList(F), Len(F) \in Nat \ {0}, DOMAIN v = DOMAIN F,
         NEW k \in DOMAIN F, ~IsBlank(v[k])
  PROVE  /\ Parts(v) # NoText
         /\ assignPaymentIdToFieldValues(F, Parts(v)) = Parts(v)
         /\ fieldsMatchStoredId(F, Parts(v)) <=> Fits(F, v)
<1> DEFINE p == Parts(v)
<1>1. DOMAIN F = 1..Len(F) /\ DOMAIN p = 1..Len(F) /\ Len(p) = Len(F) /\ ByPosition(F, p) = p
  BY PartsAreList, ListHas
<1>2. \A i \in DOMAIN F : /\ p[i] = Empty <=> IsBlank(v[i])
                          /\ ~IsBlank(v[i]) => p[i] = v[i]
                          /\ IsBlank(p[i]) <=> IsBlank(v[i])
  BY Trimmed DEF Parts
<1>3. p # NoText
  <2>1. p[k] # Empty
    BY <1>2
  <2> QED BY <1>1, <2>1 DEF NoText
<1>4. fieldValuesValid(F, p) <=> Fits(F, v)
  <2> HIDE DEF p
  <2>1. ASSUME NEW i \in DOMAIN F, IsBlank(v[i])
        PROVE  ~isPaymentIdFieldRequired(F, i, p)
                 <=> F[i].optional /\ \A j \in DOMAIN F : ~IsBlank(v[j]) => F[i].key \notin F[j].requires
    BY <1>2, <2>1 DEF isPaymentIdFieldRequired
  <2> QED BY <1>2, <2>1 DEF fieldValuesValid, Fits
<1>5. assignPaymentIdToFieldValues(F, p) = p
  <2> HIDE DEF p
  <2> QED BY <1>1, <1>3 DEF assignPaymentIdToFieldValues, isPositionalCompound
<1>6. validatePaymentIdFields(F, p) => Fits(F, v)
  <2> HIDE DEF p
  <2>1. CASE Len(F) = 1
    <3>1. k = 1 /\ DOMAIN F = {1}
      BY <1>1, <2>1
    <3>2. Glue(p) = v[1]
      BY <1>1, <1>2, <2>1, <3>1 DEF Glue
    <3>3. validatePaymentIdFields(F, p) <=> Valid(F[1].rule, v[1])
      BY <1>3, <2>1, <3>2 DEF validatePaymentIdFields
    <3> QED BY <3>1, <3>3 DEF Fits
  <2>2. CASE Len(F) # 1
    <3>1. validatePaymentIdFields(F, p) => fieldValuesValid(F, ByPosition(F, p))
      BY <1>1, <1>3, <2>2 DEF validatePaymentIdFields
    <3> QED BY <1>1, <1>4, <3>1
  <2> QED BY <2>1, <2>2
<1>7. \E i \in DOMAIN F : p[i] # Empty
  BY <1>2
<1> HIDE DEF p
<1>8. fieldsMatchStoredId(F, p) <=> Fits(F, v)
  BY <1>4, <1>5, <1>6, <1>7 DEF fieldsMatchStoredId
<1> QED BY <1>3, <1>5, <1>8 DEF p

----------------------------------------------------------------------------
(* Stored ids.                                                             *)

LEMMA ListsJoin ==
  ASSUME NEW S, NEW q \in Seq(S), NEW p \in Seq(S), NEW x \in S
  PROVE  /\ q \o <<x>> \o p \in Seq(S) /\ Len(q \o <<x>> \o p) = Len(q) + 1 + Len(p)
         /\ \A i \in 1..Len(q) : (q \o <<x>> \o p)[i] = q[i]
         /\ (q \o <<x>> \o p)[Len(q) + 1] = x
         /\ \A i \in 1..Len(p) : (q \o <<x>> \o p)[Len(q) + 1 + i] = p[i]
<1>1. <<x>> \in Seq(S) /\ Len(<<x>>) = 1 /\ <<x>>[1] = x
  OBVIOUS
<1>2. PICK r \in Seq(S) : r = q \o <<x>>
  <2>1. \A t \in Seq(S) : q \o t \in Seq(S)
    OBVIOUS
  <2> QED BY <1>1, <2>1
<1>3. Len(r) = Len(q) + 1 /\ r[Len(q) + 1] = x /\ \A i \in 1..Len(q) : r[i] = q[i]
  BY <1>1, <1>2
<1>4. /\ r \o p \in Seq(S) /\ Len(r \o p) = Len(r) + Len(p)
      /\ \A i \in 1..Len(r) : (r \o p)[i] = r[i]
      /\ \A i \in 1..Len(p) : (r \o p)[Len(r) + i] = p[i]
  OBVIOUS
<1> QED BY <1>2, <1>3, <1>4

LEMMA SubLists ==
  ASSUME NEW S, NEW s \in Seq(S), NEW a \in Nat \ {0}, NEW b \in Nat, b <= Len(s)
  PROVE  /\ SubSeq(s, a, b) \in Seq(S)
         /\ Len(SubSeq(s, a, b)) = IF a <= b THEN b - a + 1 ELSE 0
         /\ \A i \in 1..Len(SubSeq(s, a, b)) : SubSeq(s, a, b)[i] = s[a + i - 1]
OBVIOUS

LEMMA SameList ==
  ASSUME NEW S, NEW s \in Seq(S), NEW t \in Seq(S), Len(s) = Len(t), \A i \in 1..Len(s) : s[i] = t[i]
  PROVE  s = t
OBVIOUS

(* A code and what is packed with it come apart again.                     *)
LEMMA Packed ==
  ASSUME NEW c \in CURRENCY, NEW q, NEW p, ValidQr(c, q), IsList(q), IsList(p), Len(p) >= 1
  PROVE  /\ unpackPackedPaymentId(q \o NoText \o p) = [qr |-> q, rest |-> p]
         /\ IsList(q \o NoText \o p) /\ q \o NoText \o p # NoText
<1> DEFINE S == {q[i] : i \in DOMAIN q} \cup {p[i] : i \in DOMAIN p} \cup {Empty}
<1>1. q \in Seq(S) /\ p \in Seq(S) /\ Empty \in S
  BY DEF IsList
<1> HIDE DEF S
<1>2. PICK s \in Seq(S) : s = q \o NoText \o p
  BY <1>1, ListsJoin DEF NoText
<1>3. /\ Len(s) = Len(q) + 1 + Len(p)
      /\ \A i \in 1..Len(q) : s[i] = q[i]
      /\ s[Len(q) + 1] = Empty
      /\ \A i \in 1..Len(p) : s[Len(q) + 1 + i] = p[i]
  BY <1>1, <1>2, ListsJoin DEF NoText
<1>4. Len(q) \in 1..2 /\ (Len(q) = 2 => q[2] # Empty)
  BY RightCode DEF Empty, Text
<1>5. Len(q) + 1 \in Gaps(s) /\ \A g \in Gaps(s) : Len(q) + 1 <= g
  <2>1. Len(s) \in Nat /\ Len(p) \in Nat /\ Gaps(s) = {i \in 2..(Len(s) - 1) : s[i] = Empty}
    BY <1>1 DEF Gaps
  <2>2. Len(q) + 1 \in Gaps(s)
    <3>1. Len(q) + 1 \in 2..(Len(s) - 1)
      <4>1. Len(s) = Len(q) + 1 + Len(p) /\ Len(q) \in 1..2
        BY <1>3, <1>4
      <4> QED BY <2>1, <4>1
    <3> QED BY <1>3, <2>1, <3>1
  <2>3. ASSUME NEW g \in Gaps(s), g <= Len(q) PROVE FALSE
    <3>1. g \in 2..(Len(s) - 1) /\ s[g] = Empty
      BY <2>1, <2>3
    <3>2. g = 2 /\ Len(q) = 2
      <4>1. \A m \in 1..2 : \A x \in Int : x >= 2 /\ x <= m => x = 2 /\ m = 2
        OBVIOUS
      <4>2. g \in Int /\ g >= 2
        BY <2>1, <3>1
      <4> QED BY ONLY <1>4, <2>3, <4>1, <4>2
    <3>3. s[2] = q[2]
      BY <1>3, <3>2
    <3> QED BY <1>4, <3>1, <3>2, <3>3
  <2> QED BY <1>4, <2>1, <2>2, <2>3
<1>6. Min(Gaps(s)) = Len(q) + 1
  <2>1. \A g \in Gaps(s) : g \in Nat
    BY <1>1 DEF Gaps
  <2> QED BY <1>1, <1>4, <1>5, <2>1 DEF Min
<1>7. SubSeq(s, 1, Len(q)) = q
  BY <1>1, <1>3, <1>4, SubLists, SameList
<1>8. SubSeq(s, Len(q) + 2, Len(s)) = p
  BY <1>1, <1>3, <1>4, SubLists, SameList
<1>9. unpackPackedPaymentId(s) = [qr |-> q, rest |-> p]
  <2>1. Min(Gaps(s)) - 1 = Len(q) /\ Min(Gaps(s)) + 1 = Len(q) + 2 /\ Gaps(s) # {}
    BY <1>4, <1>5, <1>6
  <2> QED BY <1>7, <1>8, <2>1 DEF unpackPackedPaymentId, HasPackSep
<1>10. s # NoText
  BY <1>1, <1>3, <1>4 DEF NoText
<1> QED BY <1>2, <1>9, <1>10, SeqIsList

(* What a draft must be, said of the form.                                 *)
Whole(c, q, v) ==
  /\ (\A i \in DOMAIN v : IsBlank(v[i])) \/ Fits(PAYMENT_ID_FIELDS(c), v)
  /\ ValidQr(c, q) \/ \E i \in DOMAIN v : ~IsBlank(v[i])

NoneIsCode(c, v) == c \in {"BOB", "VEN"} => \A i \in DOMAIN v : ~IsCode(v[i])

(* What was typed and stored without a code holds none.                    *)
LEMMA TypedHoldsNoCode ==
  ASSUME NEW c \in CURRENCY, NEW v, DOMAIN v = DOMAIN PAYMENT_ID_FIELDS(c), NoneIsCode(c, v)
  PROVE  ~ValidQr(c, Parts(v))
<1> DEFINE p == Parts(v)
<1>1. Len(p) = Len(PAYMENT_ID_FIELDS(c)) /\ DOMAIN p = DOMAIN v
  BY FieldsAreList, PartsAreList DEF Parts
<1>2. CASE c = "PEN"
  <2>1. Len(p) = 2 /\ (ValidQr(c, p) => validatePeruvianQr(p))
    BY <1>1, <1>2, SomeForms, CodeHooks DEF ValidQr
  <2> QED BY <2>1 DEF validatePeruvianQr, validateEmvcoQr
<1>3. CASE c = "VEN"
  <2>1. Len(p) = 3 /\ (ValidQr(c, p) => validateVenezuelanQr(p))
    BY <1>1, <1>3, SomeForms, CodeHooks DEF ValidQr
  <2> QED BY <2>1 DEF validateVenezuelanQr
<1>4. CASE c = "BOB"
  <2>1. Len(p) = 1 /\ 1 \in DOMAIN v /\ (ValidQr(c, p) => validateBolivianQr(p))
    BY <1>1, <1>4, SomeForms, CodeHooks, ListHas, FieldsAreList DEF ValidQr
  <2>2. p[1].form # "emv"
    BY <1>4, <2>1 DEF NoneIsCode, IsCode, Parts, Trim, Empty, Text
  <2>3. ~validateBolivianQr(p)
    <3> HIDE DEF p
    <3> QED BY <2>1, <2>2 DEF validateBolivianQr, validateEmvcoQr, isBolivianEncryptedQr
  <2> QED BY <2>1, <2>3
<1>5. CASE c \notin {"BOB", "PEN", "VEN"}
  BY <1>5, RightCode
<1> QED BY <1>2, <1>3, <1>4, <1>5

(* Typed texts alone are accepted exactly when they fit.                   *)
LEMMA TypedAlone ==
  ASSUME NEW c \in CURRENCY, NEW v, DOMAIN v = DOMAIN PAYMENT_ID_FIELDS(c), NoneIsCode(c, v),
         NEW k \in DOMAIN v, ~IsBlank(v[k])
  PROVE  /\ validateStoredPaymentId(c, Parts(v)) <=> Fits(PAYMENT_ID_FIELDS(c), v)
         /\ Fits(PAYMENT_ID_FIELDS(c), v) =>
              /\ unpackForCurrency(c, Parts(v)) = [qr |-> NoText, rest |-> Parts(v)]
              /\ usesPackedPaymentId(c) => Gaps(Parts(v)) = {}
<1> DEFINE p == Parts(v)
           F == PAYMENT_ID_FIELDS(c)
<1>1. IsList(F) /\ Len(F) \in Nat \ {0} /\ DOMAIN F = 1..Len(F) /\ Len(p) = Len(F)
  BY FieldsAreList, PartsAreList, ListHas
<1>2. p # NoText /\ (fieldsMatchStoredId(F, p) <=> Fits(F, v))
  BY <1>1, FormIsRead
<1>3. ~ValidQr(c, p)
  BY TypedHoldsNoCode
<1>4. ASSUME unpackForCurrency(c, p).qr = NoText
      PROVE  validateStoredPaymentId(c, p) <=> Fits(F, v)
  BY <1>2, <1>3, <1>4 DEF validateStoredPaymentId
<1>5. CASE ~usesPackedPaymentId(c)
  <2>1. unpackForCurrency(c, p) = [qr |-> NoText, rest |-> p]
    BY <1>5 DEF unpackForCurrency
  <2> QED BY <1>4, <1>5, <2>1
<1>6. CASE usesPackedPaymentId(c) /\ Gaps(p) = {}
  <2>1. unpackForCurrency(c, p) = [qr |-> NoText, rest |-> p]
    BY <1>6, Alone DEF unpackForCurrency
  <2> QED BY <1>4, <1>6, <2>1
<1>7. CASE usesPackedPaymentId(c) /\ Gaps(p) # {}
  <2>1. c = "VEN" /\ Len(F) = 3
    <3>1. \E g \in 2..(Len(p) - 1) : TRUE
      BY <1>7 DEF Gaps
    <3>2. c \in {"BOB", "PEN", "VEN"}
      BY <1>7, StoresCodes
    <3>3. Len(p) >= 3
      <4>1. \A n \in Nat : \A g \in 2..(n - 1) : n >= 3
        OBVIOUS
      <4>2. Len(p) \in Nat
        BY <1>1
      <4> QED BY <3>1, <4>1, <4>2
    <3>4. c \in {"BOB", "PEN"} => Len(F) \in {1, 2}
      BY SomeForms
    <3>5. c = "VEN" => Len(F) = 3
      BY SomeForms
    <3> HIDE DEF p, F
    <3> QED BY <1>1, <3>2, <3>3, <3>4, <3>5
  <2>2. Gaps(p) = {2} /\ p[2] = Empty
    <3> HIDE DEF p, F
    <3>1. Len(p) = 3 /\ 2..(3 - 1) = {2}
      BY <1>1, <2>1
    <3> QED BY <1>7, <3>1 DEF Gaps
  <2>3. ~Fits(F, v)
    <3>1. 2 \in DOMAIN F /\ IsBlank(v[2]) /\ ~F[2].optional
      BY <1>1, <2>1, <2>2, Trimmed, SomeForms DEF Parts, VEN_PAYMENT_FIELDS, Must, Field
    <3> QED BY <3>1 DEF Fits
  <2>4. PICK u : u = SubSeq(p, 1, 1) /\ unpackForCurrency(c, p).qr = u
    <3>1. Min({2}) = 2
      BY DEF Min
    <3>2. unpackPackedPaymentId(p).qr = SubSeq(p, 1, 2 - 1)
      BY <2>2, <3>1 DEF unpackPackedPaymentId, HasPackSep
    <3> QED BY <1>7, <3>2 DEF unpackForCurrency
  <2>5. u[1] = p[1] /\ Len(u) = 1
    <3>1. IsList(p)
      BY <1>1, PartsAreList
    <3> HIDE DEF p
    <3>2. PICK S : p \in Seq(S)
      BY <3>1 DEF IsList
    <3> QED BY <1>1, <2>1, <2>4, <3>2, SubLists
  <2>6. ~ValidQr(c, u)
    <3>1. u[1].form # "s7b"
      BY <1>1, <2>1, <2>5 DEF NoneIsCode, IsCode, Parts, Trim, Empty, Text
    <3> QED BY <2>1, <3>1, CodeHooks DEF ValidQr, validateVenezuelanQr
  <2>7. ~validateStoredPaymentId(c, p) \/ u = NoText
    BY <2>4, <2>6 DEF validateStoredPaymentId
  <2> QED BY <1>4, <2>3, <2>4, <2>7
<1> QED BY <1>5, <1>6, <1>7

LEMMA DraftIsJudged ==
  ASSUME NEW c \in CURRENCY, NEW q, NEW v, IsList(q), DOMAIN v = DOMAIN PAYMENT_ID_FIELDS(c), NoneIsCode(c, v)
  PROVE  validateCatalogPaymentDraft(c, q, v) <=> Whole(c, q, v)
<1> DEFINE F == PAYMENT_ID_FIELDS(c)
           p == Parts(v)
<1>1. IsList(F) /\ Len(F) \in Nat \ {0}
  BY FieldsAreList
<1>2. IsList(p) /\ Len(p) = Len(F) /\ packedTypedRest(v) = IF \A i \in DOMAIN v : IsBlank(v[i]) THEN NoText ELSE p
  BY <1>1, PartsAreList
<1>3. CASE \A i \in DOMAIN v : IsBlank(v[i])
  <2>1. packStoredPaymentId(c, q, v) = IF ValidQr(c, q) THEN q ELSE NoText
    BY <1>2, <1>3, RightCode DEF packStoredPaymentId
  <2>2. ~validateStoredPaymentId(c, NoText)
    <3>1. unpackForCurrency(c, NoText).qr = NoText
      <4>1. Gaps(NoText) = {}
        BY DEF Gaps, NoText
      <4> QED BY <4>1, Alone DEF unpackForCurrency
    <3> QED BY <3>1 DEF validateStoredPaymentId
  <2> QED BY <1>3, <2>1, <2>2, CodeAlone DEF validateCatalogPaymentDraft, Whole
<1>4. CASE \E i \in DOMAIN v : ~IsBlank(v[i])
  <2>1. PICK k \in DOMAIN v : ~IsBlank(v[k])
    BY <1>4
  <2>2. p # NoText /\ (fieldsMatchStoredId(F, p) <=> Fits(F, v))
    BY <1>1, <2>1, FormIsRead
  <2>3. packedTypedRest(v) = p
    BY <1>2, <2>1
  <2>4. CASE ValidQr(c, q)
    <3>1. packStoredPaymentId(c, q, v) = q \o NoText \o p
      BY <2>2, <2>3, <2>4, RightCode DEF packStoredPaymentId
    <3>2. unpackPackedPaymentId(q \o NoText \o p) = [qr |-> q, rest |-> p] /\ q \o NoText \o p # NoText
      BY <1>1, <1>2, <2>4, Packed
    <3>3. unpackForCurrency(c, q \o NoText \o p) = [qr |-> q, rest |-> p]
      BY <2>4, <3>2, RightCode, StoresCodes DEF unpackForCurrency
    <3>4. q # NoText
      BY <2>4, RightCode
    <3> HIDE DEF p, F
    <3>5. validateStoredPaymentId(c, q \o NoText \o p) <=> Fits(F, v)
      BY <2>2, <2>4, <3>2, <3>3, <3>4 DEF validateStoredPaymentId, F
    <3> QED BY <2>1, <2>4, <3>1, <3>5 DEF validateCatalogPaymentDraft, Whole, F
  <2>5. CASE ~ValidQr(c, q)
    <3>1. packStoredPaymentId(c, q, v) = p
      BY <2>3, <2>5 DEF packStoredPaymentId
    <3> QED BY <2>1, <2>5, <3>1, TypedAlone DEF validateCatalogPaymentDraft, Whole
  <2> QED BY <2>4, <2>5
<1> QED BY <1>3, <1>4

(* Where texts alone were stored, no code is drawn.                        *)
LEMMA NothingDrawn ==
  ASSUME NEW c \in CURRENCY, NEW v, DOMAIN v = DOMAIN PAYMENT_ID_FIELDS(c), NoneIsCode(c, v),
         NEW k \in DOMAIN v, ~IsBlank(v[k]), Fits(PAYMENT_ID_FIELDS(c), v)
  PROVE  ~Drawable(c, payQrCandidate(Parts(v)))
<1> DEFINE p == Parts(v)
           F == PAYMENT_ID_FIELDS(c)
<1>1. IsList(F) /\ Len(F) \in Nat \ {0} /\ DOMAIN F = 1..Len(F) /\ Len(p) = Len(F)
  BY FieldsAreList, PartsAreList, ListHas
<1>2. CASE c \notin {"BOB", "PEN", "VEN", "PHP", "INR"}
  BY <1>2, CodeHooks DEF Drawable
<1>3. CASE c \in {"PEN", "PHP"}
  <2>1. Len(p) = 2
    BY <1>1, <1>3, SomeForms
  <2>2. payQrCandidate(p) = p
    <3>1. Gaps(p) = {}
      BY <2>1 DEF Gaps
    <3> QED BY <3>1 DEF payQrCandidate, HasPackSep
  <2> HIDE DEF p
  <2>3. ~Drawable(c, p)
    BY <1>3, <2>1, CodeHooks DEF Drawable, isPeruvianPayQr, isPhilippinePayQr, PayEmv
  <2> QED BY <2>2, <2>3 DEF p
<1>4. CASE c = "VEN"
  <2>1. Len(p) = 3
    BY <1>1, <1>4, SomeForms
  <2>2. p[2] # Empty
    <3>1. 2 \in DOMAIN F /\ ~F[2].optional
      BY <1>1, <1>4, SomeForms DEF VEN_PAYMENT_FIELDS, Must, Field
    <3>2. ~IsBlank(v[2])
      BY <3>1 DEF Fits
    <3> QED BY <1>1, <3>1, <3>2, Trimmed DEF Parts
  <2> HIDE DEF p
  <2>3. Gaps(p) = {}
    <3>1. 2..(3 - 1) = {2}
      OBVIOUS
    <3> QED BY <2>1, <2>2, <3>1 DEF Gaps
  <2>4. payQrCandidate(p) = p
    BY <2>3 DEF payQrCandidate, HasPackSep
  <2>5. ~Drawable(c, p)
    BY <1>4, <2>1, CodeHooks DEF Drawable, isVenezuelanPayQr
  <2> QED BY <2>4, <2>5 DEF p
<1>5. CASE c \in {"BOB", "INR"}
  <2>1. Len(p) = 1 /\ 1 \in DOMAIN F
    <3>1. Len(F) = 1
      BY <1>5, SomeForms
    <3> QED BY <1>1, <3>1
  <2>2. p[1].form # "emv"
    <3>1. F[1].rule \in {"bolivian", "upi"} /\ ~F[1].optional
      BY <1>5, SomeForms DEF BOB_PAYMENT_FIELDS, INR_PAYMENT_FIELDS, Must, Field
    <3>2. Valid(F[1].rule, v[1])
      BY <2>1, <3>1 DEF Fits
    <3>3. v[1].form # "emv"
      BY <3>1, <3>2 DEF Valid, validateBolivianAccount, BarDashes, validateUPIId
    <3> QED BY <2>1, <3>3 DEF Parts, Trim, Empty, Text
  <2> HIDE DEF p
  <2>3. Gaps(p) = {}
    BY <2>1 DEF Gaps
  <2>4. payQrCandidate(p) = p
    BY <2>3 DEF payQrCandidate, HasPackSep
  <2>5. ~Drawable(c, p)
    BY <1>5, <2>1, <2>2, CodeHooks DEF Drawable, isBolivianPayQr, isNepalFonepayQr, PayEmv
  <2> QED BY <2>4, <2>5 DEF p
<1> QED BY <1>2, <1>3, <1>4, <1>5

(* Filling in Peru's phone leaves what is there.                           *)
LEMMA Hydrated ==
  ASSUME NEW c, NEW q, NEW w
  PROVE  /\ DOMAIN hydrateFieldsFromQr(c, q, w) = DOMAIN w
         /\ \A i \in DOMAIN w : c # "PEN" \/ q = NoText \/ w[i] # Empty => hydrateFieldsFromQr(c, q, w)[i] = w[i]
BY DEF hydrateFieldsFromQr

(* What the page finds in a stored id.                                     *)
Finds(c, s, q, typed) ==
  assignStoredPaymentIdToFieldValues(c, s) =
    hydrateFieldsFromQr(c, q, assignPaymentIdToFieldValues(PAYMENT_ID_FIELDS(c), typed))

LEMMA PackedIsFound ==
  ASSUME NEW c \in CURRENCY, NEW q, NEW p, ValidQr(c, q), IsList(q), IsList(p), Len(p) >= 1
  PROVE  getStoredQrPayload(c, q \o NoText \o p) = q /\ Finds(c, q \o NoText \o p, q, p)
<1>1. PICK s : s = q \o NoText \o p /\ unpackPackedPaymentId(s) = [qr |-> q, rest |-> p]
  BY Packed
<1>2. usesPackedPaymentId(c) /\ unpackForCurrency(c, s) = [qr |-> q, rest |-> p]
  BY <1>1, RightCode, StoresCodes DEF unpackForCurrency
<1>3. ~ValidQr(c, s)
  <2>1. Gaps(s) # {}
    BY <1>1, RightCode DEF unpackPackedPaymentId, HasPackSep
  <2> QED BY <2>1, RightCode
<1>4. getStoredQrPayload(c, s) = q
  BY <1>1, <1>2, <1>3 DEF getStoredQrPayload
<1>5. payQrCandidate(s) = q
  <2>1. HasPackSep(s)
    BY <1>1, RightCode DEF unpackPackedPaymentId
  <2> QED BY <1>1, <2>1 DEF payQrCandidate
<1>6. Finds(c, s, q, p)
  BY <1>2, <1>3, <1>5 DEF Finds, assignStoredPaymentIdToFieldValues
<1> QED BY <1>1, <1>4, <1>6

LEMMA CodeIsFound ==
  ASSUME NEW c \in CURRENCY, NEW q, ValidQr(c, q)
  PROVE  Finds(c, q, q, NoText)
<1>1. Gaps(q) = {} /\ q # NoText /\ ~ValidQr(c, NoText)
  BY RightCode
<1>2. unpackForCurrency(c, q) = [qr |-> NoText, rest |-> q] /\ payQrCandidate(q) = q
  BY <1>1, Alone DEF unpackForCurrency, payQrCandidate, HasPackSep
<1> QED BY <1>1, <1>2 DEF Finds, assignStoredPaymentIdToFieldValues

LEMMA TypedIsFound ==
  ASSUME NEW c \in CURRENCY, NEW v, DOMAIN v = DOMAIN PAYMENT_ID_FIELDS(c), NoneIsCode(c, v),
         NEW k \in DOMAIN v, ~IsBlank(v[k]), Fits(PAYMENT_ID_FIELDS(c), v)
  PROVE  getStoredQrPayload(c, Parts(v)) = NoText /\ Finds(c, Parts(v), NoText, Parts(v))
<1> DEFINE p == Parts(v)
<1>1. unpackForCurrency(c, p) = [qr |-> NoText, rest |-> p] /\ (usesPackedPaymentId(c) => Gaps(p) = {})
  BY TypedAlone
<1>2. ~ValidQr(c, p) /\ ~ValidQr(c, NoText) /\ ~Drawable(c, payQrCandidate(p))
  BY TypedHoldsNoCode, NothingDrawn, RightCode
<1> HIDE DEF p
<1>3. getStoredQrPayload(c, p) = NoText
  BY <1>1, <1>2, Alone DEF getStoredQrPayload
<1>4. Finds(c, p, NoText, p)
  BY <1>1, <1>2 DEF Finds, assignStoredPaymentIdToFieldValues
<1> QED BY <1>3, <1>4 DEF p

LEMMA NothingAssigned ==
  ASSUME NEW F
  PROVE  assignPaymentIdToFieldValues(F, NoText) = [i \in DOMAIN F |-> Empty]
<1>1. Gaps(NoText) = {}
  BY DEF Gaps, NoText
<1>2. unpackPackedPaymentId(NoText).rest = NoText
  BY <1>1, Alone
<1> QED BY <1>2 DEF assignPaymentIdToFieldValues

(* What was saved comes back.                                              *)
LEMMA ComesBack ==
  ASSUME NEW c \in CURRENCY, NEW q, NEW v, IsList(q), DOMAIN v = DOMAIN PAYMENT_ID_FIELDS(c), NoneIsCode(c, v),
         Whole(c, q, v),
         NEW s, s = packStoredPaymentId(c, q, v),
         NEW w, w = assignStoredPaymentIdToFieldValues(c, s)
  PROVE  /\ getStoredQrPayload(c, s) = IF ValidQr(c, q) THEN q ELSE NoText
         /\ DOMAIN w = DOMAIN v
         /\ \A i \in DOMAIN v :
              IF ~IsBlank(v[i]) THEN w[i] = v[i] ELSE w[i] # Empty => ValidQr(c, q) /\ c = "PEN"
<1> DEFINE F == PAYMENT_ID_FIELDS(c)
           p == Parts(v)
<1>1. IsList(F) /\ Len(F) \in Nat \ {0}
  BY FieldsAreList
<1>2. /\ IsList(p) /\ Len(p) = Len(F) /\ DOMAIN p = DOMAIN v
      /\ packedTypedRest(v) = IF \A i \in DOMAIN v : IsBlank(v[i]) THEN NoText ELSE p
      /\ \A i \in DOMAIN v : IF ~IsBlank(v[i]) THEN p[i] = v[i] /\ p[i] # Empty ELSE p[i] = Empty
  BY <1>1, PartsAreList, Trimmed DEF Parts
<1>3. CASE \A i \in DOMAIN v : IsBlank(v[i])
  <2>1. ValidQr(c, q) /\ s = q
    BY <1>2, <1>3, RightCode DEF packStoredPaymentId, Whole
  <2>2. w = hydrateFieldsFromQr(c, q, [i \in DOMAIN F |-> Empty]) /\ getStoredQrPayload(c, s) = q
    BY <2>1, CodeIsFound, CodeAlone, NothingAssigned DEF Finds
  <2>3. PICK w0 : w0 = [i \in DOMAIN F |-> Empty]
    OBVIOUS
  <2> QED BY <1>3, <2>1, <2>2, <2>3, Hydrated
<1>4. CASE \E i \in DOMAIN v : ~IsBlank(v[i])
  <2>1. PICK k \in DOMAIN v : ~IsBlank(v[k])
    BY <1>4
  <2>2. Fits(F, v) /\ packedTypedRest(v) = p /\ p # NoText /\ assignPaymentIdToFieldValues(F, p) = p
    BY <1>1, <1>2, <2>1, FormIsRead DEF Whole
  <2>3. CASE ValidQr(c, q)
    <3>1. s = q \o NoText \o p
      BY <2>2, <2>3, RightCode DEF packStoredPaymentId
    <3>2. w = hydrateFieldsFromQr(c, q, p) /\ getStoredQrPayload(c, s) = q
      BY <1>1, <1>2, <2>2, <2>3, <3>1, PackedIsFound DEF Finds
    <3> HIDE DEF p, F
    <3> QED BY <1>2, <2>3, <3>2, Hydrated
  <2>4. CASE ~ValidQr(c, q)
    <3>1. s = p
      BY <2>2, <2>4 DEF packStoredPaymentId
    <3>2. w = hydrateFieldsFromQr(c, NoText, p) /\ getStoredQrPayload(c, s) = NoText
      BY <2>1, <2>2, <3>1, TypedIsFound DEF Finds
    <3> HIDE DEF p, F
    <3> QED BY <1>2, <2>4, <3>2, Hydrated
  <2> QED BY <2>3, <2>4
<1> QED BY <1>3, <1>4

LEMMA SmallestExists ==
  ASSUME NEW S \in SUBSET Nat, S # {} PROVE \E m \in S : \A i \in S : m <= i
<1> DEFINE R == {ss \in Nat \X Nat : ss[1] < ss[2]}
<1>1. IsWellFoundedOn(R, Nat)
  BY NatLessThanWellFounded DEF OpToRel
<1> HIDE DEF R
<1>2. PICK m \in S : \A i \in S : <<i, m>> \notin R
  BY <1>1, WFMin
<1>3. ASSUME NEW i \in S PROVE m <= i
  <2>1. ~(i < m)
    BY <1>2 DEF R
  <2> QED BY <2>1
<1> QED BY <1>3

(* A function that follows h from x on, for L steps.                       *)
Follows(S, x, h, L) ==
  \E g \in [0..L -> S] : \A n \in 0..L : g[n] = IF n = 0 THEN x ELSE h[<<n, g[n - 1]>>]

LEMMA Recursion ==
  ASSUME NEW S, NEW x \in S, NEW h \in [Nat \X S -> S], NEW L \in Nat
  PROVE  Follows(S, x, h, L)
<1> USE DEF Follows
<1> DEFINE Bad == {m \in Nat : ~Follows(S, x, h, m)}
<1>1. SUFFICES ASSUME Bad # {} PROVE FALSE
  OBVIOUS
<1>2. Bad \in SUBSET Nat
  OBVIOUS
<1>3. PICK m \in Bad : \A i \in Bad : m <= i
  <2> HIDE DEF Bad
  <2> QED BY <1>1, <1>2, SmallestExists
<1>4. CASE m = 0
  <2> DEFINE g == [n \in 0..0 |-> x]
  <2>1. g \in [0..0 -> S] /\ \A n \in 0..0 : g[n] = IF n = 0 THEN x ELSE h[<<n, g[n - 1]>>]
    OBVIOUS
  <2>2. Follows(S, x, h, 0)
    <3> HIDE DEF g
    <3> QED BY <2>1
  <2> QED BY <1>3, <1>4, <2>2
<1>5. CASE m # 0
  <2>1. m \in Nat /\ m - 1 \in Nat /\ m - 1 \notin Bad
    <3>1. m \in Nat /\ m - 1 \in Nat /\ ~(m <= m - 1)
      BY <1>5
    <3> HIDE DEF Bad
    <3> QED BY <1>3, <3>1
  <2>2. PICK g \in [0..(m - 1) -> S] : \A n \in 0..(m - 1) : g[n] = IF n = 0 THEN x ELSE h[<<n, g[n - 1]>>]
    BY <2>1
  <2> DEFINE f == [n \in 0..m |-> IF n = m THEN h[<<m, g[m - 1]>>] ELSE g[n]]
  <2>3. \A n \in 0..m : n # m => n \in 0..(m - 1)
    BY <2>1
  <2>4. m - 1 \in 0..(m - 1) /\ <<m, g[m - 1]>> \in Nat \X S
    BY <2>1, <2>2
  <2>5. f \in [0..m -> S]
    BY <2>2, <2>3, <2>4
  <2>6. ASSUME NEW n \in 0..m PROVE f[n] = IF n = 0 THEN x ELSE h[<<n, f[n - 1]>>]
    <3>1. CASE n = m
      <4>1. m - 1 \in 0..m /\ m - 1 # m
        BY <2>1
      <4> QED BY <1>5, <3>1, <4>1
    <3>2. CASE n # m
      <4>1. n \in 0..(m - 1) /\ f[n] = g[n]
        BY <2>3, <3>2
      <4>2. n # 0 => n - 1 \in 0..m /\ n - 1 # m
        BY <2>1, <4>1
      <4>3. n # 0 => f[n - 1] = g[n - 1]
        BY <4>2
      <4> HIDE DEF f
      <4> QED BY <2>2, <4>1, <4>3
    <3> QED BY <3>1, <3>2
  <2>7. Follows(S, x, h, m)
    <3> HIDE DEF f
    <3> QED BY <2>5, <2>6
  <2> QED BY <1>3, <2>7
<1> QED BY <1>4, <1>5

(* Tokens are given to fields one after the other.                         *)
Given(F, s, n, r) ==
  LET free == {i \in DOMAIN F : r[i] = Empty /\ Valid(F[i].rule, s[n])}
  IN  [i \in DOMAIN F |-> IF i \in free /\ \A j \in free : i <= j THEN s[n] ELSE r[i]]
NothingGiven(F) == [i \in DOMAIN F |-> Empty]
ClaimRows(F, s) == [DOMAIN F -> {Empty} \cup {s[n] : n \in DOMAIN s}]

LEMMA GivenIsRow ==
  ASSUME NEW F, NEW s, NEW n \in DOMAIN s, NEW r \in ClaimRows(F, s)
  PROVE  Given(F, s, n, r) \in ClaimRows(F, s)
BY DEF Given, ClaimRows

LEMMA ClaimSteps ==
  ASSUME NEW F, NEW s, Len(s) \in Nat, DOMAIN s = 1..Len(s)
  PROVE  \E got : /\ Claim(F, s) = got[Len(s)]
                  /\ \A n \in 0..Len(s) : got[n] = IF n = 0 THEN NothingGiven(F) ELSE Given(F, s, n, got[n - 1])
<1> DEFINE L == Len(s)
           Rows == ClaimRows(F, s)
           Start == NothingGiven(F)
           Next1(n, r) == Given(F, s, n, r)
           Step(got) == [n \in 0..L |-> IF n = 0 THEN Start ELSE Next1(n, got[n - 1])]
<1>1. Claim(F, s) = (CHOOSE got : got = Step(got))[L]
  BY DEF Claim, Given, NothingGiven
<1>2. \A n \in 1..L : \A r \in Rows : Next1(n, r) \in Rows
  BY GivenIsRow
<1>3. Start \in Rows
  BY DEF NothingGiven, ClaimRows
<1> HIDE DEF Next1, Start, Rows
<1> DEFINE h == [t \in Nat \X Rows |-> IF t[1] \in 1..L THEN Next1(t[1], t[2]) ELSE Start]
<1>4. h \in [Nat \X Rows -> Rows] /\ \A n \in 1..L : \A r \in Rows : h[<<n, r>>] = Next1(n, r)
  BY <1>2, <1>3
<1> HIDE DEF h
<1>5. PICK g \in [0..L -> Rows] : \A n \in 0..L : g[n] = IF n = 0 THEN Start ELSE h[<<n, g[n - 1]>>]
  <2>1. L \in Nat /\ h \in [Nat \X Rows -> Rows]
    BY <1>4
  <2>2. Follows(Rows, Start, h, L)
    <3> HIDE DEF L
    <3> QED BY <1>3, <2>1, Recursion
  <2> QED BY <2>2 DEF Follows
<1>6. g = Step(g)
  <2>1. \A n \in 0..L : n # 0 => n \in 1..L /\ n - 1 \in 0..L
    OBVIOUS
  <2>2. \A n \in 0..L : g[n] = IF n = 0 THEN Start ELSE Next1(n, g[n - 1])
    BY <1>4, <1>5, <2>1
  <2> QED BY <1>5, <2>2
<1>7. PICK got : got = Step(got) /\ Claim(F, s) = got[L]
  BY <1>1, <1>6
<1>8. \A n \in 0..L : got[n] = IF n = 0 THEN Start ELSE Next1(n, got[n - 1])
  BY <1>7
<1> QED BY <1>7, <1>8 DEF Start, Next1

(* Tokens are put into fields as they are.                                 *)
LEMMA ClaimTakes ==
  ASSUME NEW F, NEW s, Len(s) \in Nat, DOMAIN s = 1..Len(s)
  PROVE  Claim(F, s) \in ClaimRows(F, s)
<1> DEFINE L == Len(s)
           Rows == ClaimRows(F, s)
<1>1. PICK got : /\ Claim(F, s) = got[L]
                 /\ \A n \in 0..L : got[n] = IF n = 0 THEN NothingGiven(F) ELSE Given(F, s, n, got[n - 1])
  BY ClaimSteps
<1>2. NothingGiven(F) \in Rows
  BY DEF NothingGiven, ClaimRows
<1> DEFINE Bad == {n \in 0..L : got[n] \notin Rows}
<1>3. Bad = {}
  <2>1. SUFFICES ASSUME Bad # {} PROVE FALSE
    OBVIOUS
  <2>2. PICK m \in Bad : \A i \in Bad : m <= i
    <3>1. Bad \in SUBSET Nat
      OBVIOUS
    <3> HIDE DEF Bad
    <3> QED BY <2>1, <3>1, SmallestExists
  <2>3. m # 0
    BY <1>1, <1>2
  <2>4. m - 1 \in 0..L /\ m \in DOMAIN s /\ ~(m <= m - 1)
    BY <2>3
  <2>5. got[m - 1] \in Rows
    BY <2>2, <2>4
  <2>6. got[m] = Given(F, s, m, got[m - 1])
    BY <1>1, <2>3
  <2> QED BY <2>4, <2>5, <2>6, GivenIsRow
<1>4. L \in 0..L
  OBVIOUS
<1> QED BY <1>1, <1>3, <1>4

(* An id comes apart at its first empty text.                              *)
LEMMA Apart ==
  ASSUME NEW s, IsList(s), Gaps(s) # {}
  PROVE  \E sep \in Gaps(s) : \E q, r :
           /\ unpackPackedPaymentId(s) = [qr |-> q, rest |-> r]
           /\ \A g \in Gaps(s) : sep <= g
           /\ sep \in 2..(Len(s) - 1) /\ IsList(q) /\ IsList(r) /\ Len(r) = Len(s) - sep
           /\ \A i \in DOMAIN r : r[i] = s[sep + i] /\ sep + i \in DOMAIN s
<1>1. Len(s) \in Nat /\ DOMAIN s = 1..Len(s)
  BY ListHas
<1>2. PICK S : s \in Seq(S)
  BY DEF IsList
<1>3. \A g \in Gaps(s) : g \in 2..(Len(s) - 1)
  BY DEF Gaps
<1>4. Gaps(s) \in SUBSET Nat
  BY <1>1, <1>3
<1>5. PICK sep \in Gaps(s) : \A g \in Gaps(s) : sep <= g
  BY <1>4, SmallestExists
<1>6. Min(Gaps(s)) = sep
  BY <1>4, <1>5 DEF Min
<1>7. PICK q : q = SubSeq(s, 1, sep - 1)
  OBVIOUS
<1>8. PICK r : r = SubSeq(s, sep + 1, Len(s))
  OBVIOUS
<1>9. unpackPackedPaymentId(s) = [qr |-> q, rest |-> r]
  BY <1>6, <1>7, <1>8 DEF unpackPackedPaymentId, HasPackSep
<1>10. sep \in 2..(Len(s) - 1) /\ sep \in Nat
  BY <1>3, <1>4
<1>11. q \in Seq(S)
  <2>1. sep - 1 \in Nat /\ sep - 1 <= Len(s) /\ 1 \in Nat \ {0}
    BY <1>1, <1>10
  <2> QED BY <1>2, <1>7, <2>1, SubLists
<1>12. r \in Seq(S) /\ Len(r) = Len(s) - sep /\ \A i \in DOMAIN r : r[i] = s[sep + i] /\ sep + i \in DOMAIN s
  <2>1. sep + 1 \in Nat \ {0} /\ sep + 1 <= Len(s) /\ Len(s) - (sep + 1) + 1 = Len(s) - sep
    BY <1>1, <1>10
  <2>2. r \in Seq(S) /\ Len(r) = Len(s) - sep /\ \A i \in 1..Len(r) : r[i] = s[sep + 1 + i - 1]
    BY <1>1, <1>2, <1>8, <2>1, SubLists
  <2>3. \A i \in 1..(Len(s) - sep) : sep + 1 + i - 1 = sep + i /\ sep + i \in 1..Len(s)
    BY <1>1, <1>10
  <2> QED BY <1>1, <2>2, <2>3
<1> QED BY <1>5, <1>9, <1>10, <1>11, <1>12, SeqIsList

LEMMA RestIsList ==
  ASSUME NEW s, IsList(s)
  PROVE  /\ IsList(unpackPackedPaymentId(s).qr) /\ IsList(unpackPackedPaymentId(s).rest)
         /\ \A i \in DOMAIN unpackPackedPaymentId(s).rest :
              \E j \in DOMAIN s : unpackPackedPaymentId(s).rest[i] = s[j]
<1>1. CASE Gaps(s) = {}
  <2>1. IsList(NoText)
    BY TuplesAreLists DEF NoText
  <2> QED BY <1>1, <2>1, Alone
<1>2. CASE Gaps(s) # {}
  BY <1>2, Apart
<1> QED BY <1>1, <1>2

(* Every field is left empty or takes a text of the string, trimmed.       *)
Takes(F, s, w) == DOMAIN w = DOMAIN F /\ \A i \in DOMAIN F : w[i] = Empty \/ \E j \in DOMAIN s : w[i] = Trim(s[j])

LEMMA AssignTakes ==
  ASSUME NEW F, NEW s, IsList(F), IsList(s)
  PROVE  Takes(F, s, assignPaymentIdToFieldValues(F, s))
<1>1. PICK r : r = IF Len(s) = Len(F) THEN s ELSE unpackPackedPaymentId(s).rest
  OBVIOUS
<1>2. IsList(r) /\ \A i \in DOMAIN r : \E j \in DOMAIN s : r[i] = s[j]
  BY <1>1, RestIsList
<1>3. Len(r) \in Nat /\ DOMAIN r = 1..Len(r) /\ Len(F) \in Nat /\ DOMAIN F = 1..Len(F)
  BY <1>2, ListHas
<1> DEFINE t == [i \in DOMAIN r |-> Trim(r[i])]
<1>4. IsList(t) /\ Len(t) = Len(r) /\ DOMAIN t = 1..Len(r)
  <2>1. DOMAIN t = 1..Len(r) /\ t = [i \in 1..Len(r) |-> t[i]]
    BY <1>3
  <2> HIDE DEF t
  <2> QED BY <1>3, <2>1, Lists
<1>5. \A n \in DOMAIN t : \E j \in DOMAIN s : t[n] = Trim(s[j])
  BY <1>2
<1>6. Takes(F, s, [i \in DOMAIN F |-> Empty])
  BY DEF Takes
<1>7. Takes(F, s, ByPosition(F, r))
  <2>1. ASSUME NEW i \in DOMAIN F, i <= Len(r) PROVE \E j \in DOMAIN s : Trim(r[i]) = Trim(s[j])
    <3>1. i \in DOMAIN r
      BY <1>3, <2>1
    <3> QED BY <1>2, <3>1
  <2> QED BY <2>1 DEF Takes, ByPosition
<1>8. Takes(F, s, ByClaim(F, t))
  <2> HIDE DEF t
  <2>1. PICK got : got = Claim(F, t)
    OBVIOUS
  <2>2. got \in [DOMAIN F -> {Empty} \cup {t[n] : n \in DOMAIN t}]
    BY <1>3, <1>4, <2>1, ClaimTakes DEF ClaimRows
  <2>3. Takes(F, s, got)
    BY <1>5, <2>2 DEF Takes
  <2>4. \A i : Token(t, i) = Empty \/ \E n \in DOMAIN t : Token(t, i) = t[n]
    BY DEF Token, Places
  <2>5. Takes(F, s, [i \in DOMAIN F |-> IF got[i] # Empty THEN got[i] ELSE Token(t, i)])
    BY <1>5, <2>3, <2>4 DEF Takes
  <2> QED BY <2>1, <2>3, <2>5 DEF ByClaim
<1> HIDE DEF t
<1> QED BY <1>1, <1>6, <1>7, <1>8 DEF assignPaymentIdToFieldValues, t

(* An id stored by an earlier version opens as a form of its currency, and *)
(* a code that stood first in it is not put into a field.                  *)
LEMMA OpensAsForm ==
  ASSUME NEW c \in CURRENCY, NEW s, IsList(s), c \in {"BOB", "VEN"} => CodeStandsFirst(c, s),
         NEW w, w = assignStoredPaymentIdToFieldValues(c, s)
  PROVE  DOMAIN w = DOMAIN PAYMENT_ID_FIELDS(c) /\ NoneIsCode(c, w) /\ IsList(getStoredQrPayload(c, s))
<1> DEFINE F == PAYMENT_ID_FIELDS(c)
<1>1. IsList(F) /\ IsList(NoText)
  BY FieldsAreList, TuplesAreLists DEF NoText
<1>2. PICK u : u = unpackPackedPaymentId(s)
  OBVIOUS
<1>3. IsList(u.qr) /\ IsList(u.rest) /\ \A i \in DOMAIN u.rest : \E j \in DOMAIN s : u.rest[i] = s[j]
  BY <1>2, RestIsList
<1>4. IsList(getStoredQrPayload(c, s))
  BY <1>1, <1>2, <1>3 DEF getStoredQrPayload
<1>5. PICK parts : parts = unpackForCurrency(c, s)
  OBVIOUS
<1>6. parts.rest \in {s, u.rest} /\ (usesPackedPaymentId(c) => parts = u)
  BY <1>2, <1>5 DEF unpackForCurrency
<1> DEFINE lone == Drawable(c, payQrCandidate(s)) /\ payQrCandidate(s) # NoText
<1>7. PICK q, typed : /\ Finds(c, s, q, typed) /\ typed \in {NoText, parts.rest}
                      /\ lone => typed = NoText \/ ValidQr(c, parts.qr) \/ payQrCandidate(s) = parts.qr
  BY <1>5 DEF Finds, assignStoredPaymentIdToFieldValues
<1>8. IsList(typed)
  BY <1>1, <1>3, <1>6, <1>7
<1>9. PICK a : a = assignPaymentIdToFieldValues(F, typed) /\ w = hydrateFieldsFromQr(c, q, a)
  BY <1>7 DEF Finds
<1>10. Takes(F, typed, a)
  BY <1>1, <1>8, <1>9, AssignTakes
<1>11. DOMAIN w = DOMAIN F
  BY <1>9, <1>10, Hydrated DEF Takes
<1>12. ASSUME c \in {"BOB", "VEN"}, NEW i \in DOMAIN w PROVE ~IsCode(w[i])
  <2>1. w[i] = a[i] /\ i \in DOMAIN a
    BY <1>9, <1>10, <1>11, <1>12, Hydrated DEF Takes
  <2>2. CASE a[i] = Empty
    BY <2>1, <2>2 DEF IsCode, Empty, Text
  <2>3. CASE a[i] # Empty
    <3>1. PICK j \in DOMAIN typed : a[i] = Trim(typed[j])
      BY <1>10, <2>1, <2>3 DEF Takes
    <3>2. ~IsCode(typed[j])
      <4>1. CASE typed = NoText
        <5>1. typed[j] = Empty
          BY <4>1 DEF NoText
        <5> QED BY <5>1 DEF IsCode, Empty, Text
      <4>2. CASE typed # NoText
        <5>1. typed = u.rest /\ parts = u
          BY <1>6, <1>7, <1>12, <4>2, StoresCodes
        <5>2. CASE Gaps(s) = {}
          <6>1. u = [qr |-> NoText, rest |-> s] /\ payQrCandidate(s) = s
            BY <1>2, <5>2, Alone DEF payQrCandidate, HasPackSep
          <6>2. typed = s /\ ~ValidQr(c, u.qr)
            BY <5>1, <6>1, RightCode
          <6>3. ~Drawable(c, s)
            BY <1>7, <4>2, <5>1, <6>1, <6>2
          <6> QED BY <1>12, <5>2, <6>2, <6>3 DEF CodeStandsFirst
        <5>3. CASE Gaps(s) # {}
          <6>1. PICK sep \in Gaps(s) :
                  /\ sep \in 2..(Len(s) - 1)
                  /\ \A n \in DOMAIN u.rest : u.rest[n] = s[sep + n] /\ sep + n \in DOMAIN s
            BY <1>2, <5>3, Apart
          <6>2. j \in DOMAIN u.rest /\ typed[j] = s[sep + j] /\ sep + j \in DOMAIN s
            BY <5>1, <6>1
          <6>3. j \in Nat /\ sep + j # 1
            BY <1>3, <6>1, <6>2, ListHas
          <6> QED BY <1>12, <6>2, <6>3 DEF CodeStandsFirst
        <5> QED BY <5>2, <5>3
      <4> QED BY <4>1, <4>2
    <3> QED BY <2>1, <2>3, <3>1, <3>2 DEF IsCode, Trim
  <2> QED BY <2>2, <2>3
<1> QED BY <1>4, <1>11, <1>12 DEF NoneIsCode

----------------------------------------------------------------------------
(* The page.                                                               *)

(* A form has a text for each field, no code among them where one may stand*)
(* for the id; a saved id is that of the form it was saved from.           *)
DraftInv ==
  /\ cur \in CURRENCY
  /\ DOMAIN values = DOMAIN Fields /\ NoneIsCode(cur, values) /\ IsList(qr)
  /\ phase = "saved" => stored = packStoredPaymentId(cur, qr, values) /\ Whole(cur, qr, values)
  /\ phase = "inherited" => stored \in Inherited[cur]

LEMMA DraftStarts == PayInit => DraftInv
<1> SUFFICES ASSUME PayInit PROVE DraftInv
  OBVIOUS
<1>1. IsList(NoText)
  BY TuplesAreLists DEF NoText
<1>2. ~IsCode(Empty)
  BY DEF IsCode, Empty, Text
<1> QED BY <1>1, <1>2 DEF PayInit, DraftInv, NoValues, NoneIsCode, Fields

LEMMA DraftStepKeeps == DraftInv /\ [PayNext]_payVars => DraftInv'
<1> SUFFICES ASSUME DraftInv, [PayNext]_payVars PROVE DraftInv'
  OBVIOUS
<1> USE DEF DraftInv, Fields
<1>1. ASSUME NEW i \in DOMAIN values, NEW t \in Typed[Fields[i].rule], Type(i, t) PROVE DraftInv'
  <2>1. cur' = cur /\ qr' = qr /\ phase' = "form" /\ values' = [values EXCEPT ![i] = t]
    BY <1>1 DEF Type, Edit
  <2>2. cur \in {"BOB", "VEN"} => ~IsCode(t)
    BY <1>1, CodesAreUploaded DEF CodesAreUploaded
  <2>3. NoneIsCode(cur, values')
    BY <2>1, <2>2 DEF NoneIsCode
  <2> QED BY <2>1, <2>3
<1>2. ASSUME NEW q \in Uploads[cur], Upload(q) PROVE DraftInv'
  <2>1. IsList(q)
    BY <1>2, IdsAreSequences DEF IdsAreSequences, IsList
  <2> QED BY <1>2, <2>1 DEF Upload, Edit
<1>3. CASE Save
  <2>1. Whole(cur, qr, values)
    BY <1>3, DraftIsJudged DEF Save
  <2> QED BY <1>3, <2>1 DEF Save
<1>4. ASSUME NEW s \in Inherited[cur], Inherit(s) PROVE DraftInv'
  BY <1>4 DEF Inherit
<1>5. CASE Load
  <2>1. cur' = cur /\ phase' = "loaded"
    BY <1>5 DEF Load
  <2>2. PICK w : w = values' /\ w = assignStoredPaymentIdToFieldValues(cur, stored)
    BY <1>5 DEF Load
  <2>3. PICK q : q = qr' /\ q = getStoredQrPayload(cur, stored)
    BY <1>5 DEF Load
  <2>4. DOMAIN w = DOMAIN Fields /\ NoneIsCode(cur, w) /\ IsList(q)
    <3>1. CASE phase = "saved"
      <4>1. stored = packStoredPaymentId(cur, qr, values) /\ Whole(cur, qr, values)
        BY <3>1
      <4>2. /\ q = IF ValidQr(cur, qr) THEN qr ELSE NoText
            /\ DOMAIN w = DOMAIN values
            /\ \A i \in DOMAIN values :
                 IF ~IsBlank(values[i]) THEN w[i] = values[i] ELSE w[i] # Empty => cur = "PEN"
        BY <2>2, <2>3, <4>1, ComesBack
      <4>3. IsList(q)
        BY <4>2, TuplesAreLists DEF NoText
      <4>4. NoneIsCode(cur, w)
        <5>1. ~IsCode(Empty)
          BY DEF IsCode, Empty, Text
        <5> QED BY <4>2, <5>1 DEF NoneIsCode
      <4> QED BY <4>2, <4>3, <4>4
    <3>2. CASE phase = "inherited"
      <4>1. IsList(stored)
        BY <3>2, IdsAreSequences DEF IdsAreSequences, IsList
      <4>2. cur \in {"BOB", "VEN"} => CodeStandsFirst(cur, stored)
        BY <3>2, CodesAreUploaded DEF CodesAreUploaded
      <4> QED BY <2>2, <2>3, <4>1, <4>2, OpensAsForm
    <3> QED BY <1>5, <3>1, <3>2 DEF Load
  <2> QED BY <2>1, <2>2, <2>3, <2>4
<1>6. ASSUME NEW code \in Scanned[cur], NEW price \in Prices, Scan(code, price) PROVE DraftInv'
  BY <1>6 DEF Scan
<1>7. ASSUME NEW answer \in Answers \cup {NoAmount}, Returned(answer) PROVE DraftInv'
  BY <1>7 DEF Returned
<1>8. CASE Place
  BY <1>8 DEF Place
<1>9. CASE UNCHANGED payVars
  BY <1>9 DEF payVars
<1> QED BY <1>1, <1>2, <1>3, <1>4, <1>5, <1>6, <1>7, <1>8, <1>9 DEF PayNext

LEMMA DraftJudged == DraftInv => AcceptsExactly
<1> SUFFICES ASSUME DraftInv PROVE validateCatalogPaymentDraft(cur, qr, values) <=> Complete
  BY DEF AcceptsExactly
<1>1. validateCatalogPaymentDraft(cur, qr, values) <=> Whole(cur, qr, values)
  BY DraftIsJudged DEF DraftInv, Fields
<1>2. Complete <=> Whole(cur, qr, values)
  BY DEF DraftInv, Complete, Whole, Fits, Filled, Fields
<1> QED BY <1>1, <1>2

LEMMA SavedOpens ==
  ASSUME DraftInv, [PayNext]_payVars, phase = "saved", phase' = "loaded"
  PROVE  /\ qr' = IF ValidQr(cur, qr) THEN qr ELSE NoText
         /\ \A i \in DOMAIN values : Filled(i) => values'[i] = values[i]
         /\ \A i \in DOMAIN values : ~Filled(i) /\ values'[i] # Empty => ValidQr(cur, qr)
<1>1. Load
  BY DEF PayNext, Type, Upload, Edit, Save, Blankpage, Inherit, Scan, Returned, Place, payVars
<1>2. PICK w : w = values' /\ w = assignStoredPaymentIdToFieldValues(cur, stored)
  BY <1>1 DEF Load
<1>3. /\ getStoredQrPayload(cur, stored) = IF ValidQr(cur, qr) THEN qr ELSE NoText
      /\ \A i \in DOMAIN values :
           IF ~IsBlank(values[i]) THEN w[i] = values[i] ELSE w[i] # Empty => ValidQr(cur, qr)
  BY <1>2, ComesBack DEF DraftInv, Fields
<1> QED BY <1>1, <1>2, <1>3 DEF Load, Filled

----------------------------------------------------------------------------
(* The older functions of Peru and Venezuela, and Indonesia's wallets.      *)

(* A Peruvian phone is no account, and both stay what they are when they   *)
(* are stored as digits.                                                   *)
LEMMA PeruvianKeys ==
  ASSUME NEW t
  PROVE  /\ ~(validatePeruvianPhone(t) /\ validatePeruvianCci(t))
         /\ validatePeruvianPhone(t) \/ validatePeruvianCci(t) =>
              t.form \in {"digits", "spaced", "plus"} /\ ~IsBlank(t)
         /\ \A n \in {normalizePeruvianPaymentKey(t)} :
              /\ validatePeruvianPhone(t) => validatePeruvianPhone(n) /\ normalizePeruvianPaymentKey(n) = n
              /\ validatePeruvianCci(t) => validatePeruvianCci(n) /\ normalizePeruvianPaymentKey(n) = n
<1>1. ASSUME NEW d, IsPrefix(<<5, 1>>, d) PROVE Len(d) >= 2 /\ d[1] = 5
  BY <1>1 DEF IsPrefix
<1>2. ASSUME validatePeruvianPhone(t), validatePeruvianCci(t) PROVE FALSE
  <2>1. Len(t.digits) = 20 /\ Len(Local(t)) = 9
    BY <1>2 DEF validatePeruvianPhone, validatePeruvianCci, Count
  <2>2. Len(SubSeq(t.digits, 3, 20)) = 18
    OBVIOUS
  <2> QED BY <2>1, <2>2 DEF Local, Count
<1>3. ASSUME validatePeruvianPhone(t) \/ validatePeruvianCci(t) PROVE t.form \in {"digits", "spaced", "plus"} /\ ~IsBlank(t)
  BY <1>3 DEF validatePeruvianPhone, validatePeruvianCci, BarSpaces, IsBlank
<1>4. ASSUME validatePeruvianPhone(t), NEW n, n = normalizePeruvianPaymentKey(t)
      PROVE  validatePeruvianPhone(n) /\ normalizePeruvianPaymentKey(n) = n
  <2>1. PICK d : d = Local(t) /\ Len(d) = 9 /\ d[1] = 9
    BY <1>4 DEF validatePeruvianPhone
  <2>2. n = Number(d) /\ n.form = "digits" /\ n.digits = d
    BY <1>4, <2>1 DEF normalizePeruvianPaymentKey, Number, Text
  <2>3. Local(n) = d
    <3>1. ~IsPrefix(<<5, 1>>, d)
      BY <1>1, <2>1
    <3> QED BY ONLY <2>2, <3>1 DEF Local, Leads
  <2>4. validatePeruvianPhone(n)
    BY <2>1, <2>2, <2>3 DEF validatePeruvianPhone, BarSpaces
  <2> QED BY <2>2, <2>3, <2>4 DEF normalizePeruvianPaymentKey
<1>5. ASSUME validatePeruvianCci(t), NEW n, n = normalizePeruvianPaymentKey(t)
      PROVE  validatePeruvianCci(n) /\ normalizePeruvianPaymentKey(n) = n
  <2>1. n = Number(t.digits) /\ Len(t.digits) = 20
    BY <1>2, <1>5 DEF normalizePeruvianPaymentKey, validatePeruvianCci, Count
  <2>2. n.form = "digits" /\ n.digits = t.digits
    BY <2>1 DEF Number, Text
  <2>3. validatePeruvianCci(n)
    BY <2>1, <2>2 DEF validatePeruvianCci, BarSpaces, Count
  <2>4. ~validatePeruvianPhone(n)
    <3>1. Len(SubSeq(n.digits, 3, 20)) = 18 /\ Len(n.digits) = 20
      BY <2>1, <2>2
    <3> QED BY <3>1 DEF validatePeruvianPhone, Local, Count
  <2> QED BY <2>1, <2>2, <2>3, <2>4 DEF normalizePeruvianPaymentKey, BarSpaces
<1> QED BY <1>2, <1>3, <1>4, <1>5

(* What a Peruvian code tells is a phone, as digits.                       *)
LEMMA PhoneInCode ==
  ASSUME NEW q
  PROVE  \/ extractPeruvianPhoneFromQr(q) = {}
         \/ \E t : /\ extractPeruvianPhoneFromQr(q) = {t} /\ validatePeruvianPhone(t)
                   /\ normalizePeruvianPaymentKey(t) = t
<1> DEFINE t == q[1].name
<1>1. CASE validatePeruvianPhone(t)
  <2> HIDE DEF t
  <2>1. PICK n : n = normalizePeruvianPaymentKey(t)
    OBVIOUS
  <2>2. validatePeruvianPhone(n) /\ normalizePeruvianPaymentKey(n) = n
    BY <1>1, <2>1, PeruvianKeys
  <2>3. t.form \notin {"hex", "glued"}
    BY <1>1, PeruvianKeys
  <2>4. phoneFromTlvValue(t) = {n}
    BY <1>1, <2>1, <2>3 DEF phoneFromTlvValue
  <2> QED BY <2>2, <2>4 DEF extractPeruvianPhoneFromQr, t
<1>2. CASE ~validatePeruvianPhone(t) /\ t.form = "glued" /\ Len(Local(t)) = 9 /\ Local(t)[1] = 9
  <2> HIDE DEF t
  <2>1. PICK d : d = Local(t) /\ Len(d) = 9 /\ d[1] = 9
    BY <1>2
  <2>2. PICK n : n = Number(d)
    OBVIOUS
  <2>3. n.form = "digits" /\ n.digits = d
    BY <2>2 DEF Number, Text
  <2>4. Local(n) = d
    <3>1. ~IsPrefix(<<5, 1>>, d)
      BY <2>1 DEF IsPrefix
    <3> QED BY <2>3, <3>1 DEF Local, Leads
  <2>5. validatePeruvianPhone(n) /\ normalizePeruvianPaymentKey(n) = n
    BY <2>1, <2>2, <2>3, <2>4 DEF validatePeruvianPhone, normalizePeruvianPaymentKey, BarSpaces
  <2>6. phoneFromTlvValue(t) = {n}
    BY <1>2, <2>1, <2>2 DEF phoneFromTlvValue
  <2> QED BY <2>5, <2>6 DEF extractPeruvianPhoneFromQr, t
<1>3. CASE ~validatePeruvianPhone(t) /\ ~(t.form = "glued" /\ Len(Local(t)) = 9 /\ Local(t)[1] = 9)
  <2> HIDE DEF t
  <2>1. phoneFromTlvValue(t) = {}
    BY <1>3 DEF phoneFromTlvValue
  <2> QED BY <2>1 DEF extractPeruvianPhoneFromQr, t
<1> QED BY <1>1, <1>2, <1>3

(* The first phone and the first account of at most two texts.             *)
First(a, b) == IF a # Empty THEN a ELSE b
Phone(t) == IF validatePeruvianPhone(t) THEN normalizePeruvianPaymentKey(t) ELSE Empty
Account(t) == IF validatePeruvianCci(t) THEN normalizePeruvianPaymentKey(t) ELSE Empty

LEMMA KeysAreTexts ==
  ASSUME NEW t
  PROVE  /\ validatePeruvianPhone(t) <=> Phone(t) # Empty
         /\ validatePeruvianCci(t) <=> Account(t) # Empty
<1>1. ~validatePeruvianPhone(Empty) /\ ~validatePeruvianCci(Empty)
  BY PeruvianKeys DEF Empty, Text
<1> QED BY <1>1, PeruvianKeys DEF Phone, Account

LEMMA LeastIs ==
  ASSUME NEW S \in SUBSET Int, NEW m \in S, \A y \in S : m <= y
  PROVE  Min(S) = m
<1>1. \E x \in S : \A y \in S : x <= y
  OBVIOUS
<1>2. PICK x : x = Min(S) /\ x \in S /\ \A y \in S : x <= y
  BY <1>1 DEF Min
<1> QED BY <1>2

LEMMA FirstFound ==
  ASSUME NEW s, Len(s) \in {1, 2}, DOMAIN s = 1..Len(s)
  PROVE  /\ FirstOf(s, validatePeruvianPhone) = First(Phone(s[1]), IF Len(s) = 2 THEN Phone(s[2]) ELSE Empty)
         /\ FirstOf(s, validatePeruvianCci) = First(Account(s[1]), IF Len(s) = 2 THEN Account(s[2]) ELSE Empty)
<1>1. (DOMAIN s = {1} /\ Len(s) = 1) \/ (DOMAIN s = {1, 2} /\ Len(s) = 2)
  OBVIOUS
<1>2. ASSUME NEW I, I \subseteq {1, 2}, 1 \in I PROVE Min(I) = 1
  <2>1. I \in SUBSET Int /\ \A y \in I : 1 <= y
    BY <1>2
  <2> QED BY <1>2, <2>1, LeastIs
<1>3. Min({2}) = 2
  BY LeastIs
<1>4. FirstOf(s, validatePeruvianPhone) = First(Phone(s[1]), IF Len(s) = 2 THEN Phone(s[2]) ELSE Empty)
  <2>1. PICK I : I = {i \in 1..Len(s) : validatePeruvianPhone(s[i])}
    OBVIOUS
  <2>2. FirstOf(s, validatePeruvianPhone) = IF I # {} THEN normalizePeruvianPaymentKey(s[Min(I)]) ELSE Empty
    BY <2>1 DEF FirstOf, SelectInSeq
  <2>3. CASE validatePeruvianPhone(s[1])
    <3>1. 1 \in I /\ I \subseteq {1, 2}
      BY <1>1, <2>1, <2>3
    <3> QED BY <1>2, <2>2, <2>3, <3>1, KeysAreTexts DEF First, Phone
  <2>4. CASE ~validatePeruvianPhone(s[1]) /\ Len(s) = 2 /\ validatePeruvianPhone(s[2])
    <3>1. I = {2}
      BY <1>1, <2>1, <2>4
    <3> QED BY <1>3, <2>2, <2>4, <3>1 DEF First, Phone
  <2>5. CASE ~validatePeruvianPhone(s[1]) /\ ~(Len(s) = 2 /\ validatePeruvianPhone(s[2]))
    <3>1. I = {}
      BY <1>1, <2>1, <2>5
    <3> QED BY <2>2, <2>5, <3>1 DEF First, Phone
  <2> QED BY <2>3, <2>4, <2>5
<1>5. FirstOf(s, validatePeruvianCci) = First(Account(s[1]), IF Len(s) = 2 THEN Account(s[2]) ELSE Empty)
  <2>1. PICK I : I = {i \in 1..Len(s) : validatePeruvianCci(s[i])}
    OBVIOUS
  <2>2. FirstOf(s, validatePeruvianCci) = IF I # {} THEN normalizePeruvianPaymentKey(s[Min(I)]) ELSE Empty
    BY <2>1 DEF FirstOf, SelectInSeq
  <2>3. CASE validatePeruvianCci(s[1])
    <3>1. 1 \in I /\ I \subseteq {1, 2}
      BY <1>1, <2>1, <2>3
    <3> QED BY <1>2, <2>2, <2>3, <3>1, KeysAreTexts DEF First, Account
  <2>4. CASE ~validatePeruvianCci(s[1]) /\ Len(s) = 2 /\ validatePeruvianCci(s[2])
    <3>1. I = {2}
      BY <1>1, <2>1, <2>4
    <3> QED BY <1>3, <2>2, <2>4, <3>1 DEF First, Account
  <2>5. CASE ~validatePeruvianCci(s[1]) /\ ~(Len(s) = 2 /\ validatePeruvianCci(s[2]))
    <3>1. I = {}
      BY <1>1, <2>1, <2>5
    <3> QED BY <2>2, <2>5, <3>1 DEF First, Account
  <2> QED BY <2>3, <2>4, <2>5
<1> QED BY <1>4, <1>5

(* A code and the typed texts stored with it, or one of them alone.        *)
Join(q, r) == IF q # NoText /\ r # NoText THEN q \o NoText \o r ELSE IF q # NoText THEN q ELSE r

(* What Peru stores beside a code, and what its own functions read of both.*)
PeruRest(r) ==
  /\ IsList(r) /\ Len(r) \in {1, 2} /\ Places(r) # {}
  /\ \A i \in DOMAIN r : r[i] # Empty => validatePeruvianPhone(r[i]) \/ validatePeruvianCci(r[i])
PhoneOf(q, r) ==
  First(FirstOf(r, validatePeruvianPhone),
        IF q # NoText /\ extractPeruvianPhoneFromQr(q) # {}
        THEN CHOOSE t \in extractPeruvianPhoneFromQr(q) : TRUE ELSE Empty)

LEMMA PeruAlone ==
  ASSUME NEW r, PeruRest(r)
  PROVE  r # NoText /\ Gaps(r) = {} /\ ~ValidQr("PEN", r)
<1>1. Len(r) \in {1, 2} /\ DOMAIN r = 1..Len(r)
  BY ListHas DEF PeruRest
<1>2. Gaps(r) = {}
  BY <1>1 DEF Gaps
<1>3. r # NoText
  BY DEF PeruRest, Places, NoText
<1>4. ~ValidQr("PEN", r)
  <2>1. SUFFICES ASSUME ValidQr("PEN", r) PROVE FALSE
    OBVIOUS
  <2>2. Len(r) = 1 /\ r[1].form = "emv"
    BY <2>1, Currencies, CodeHooks DEF ValidQr, validatePeruvianQr, validateEmvcoQr
  <2>3. r[1] # Empty /\ 1 \in DOMAIN r
    BY <1>1, <2>2 DEF Empty, Text
  <2>4. r[1].form \in {"digits", "spaced", "plus"}
    BY <2>3, PeruvianKeys DEF PeruRest
  <2> QED BY <2>2, <2>4
<1> QED BY <1>2, <1>3, <1>4

LEMMA PeruJoined ==
  ASSUME NEW q, q = NoText \/ (ValidQr("PEN", q) /\ IsList(q)),
         NEW r, r = NoText \/ PeruRest(r), q # NoText \/ r # NoText,
         NEW s, s = Join(q, r)
  PROVE  /\ validatePeruvianPaymentId(s)
         /\ parsePeruvianPaymentId(s) = [qr |-> q, cci |-> FirstOf(r, validatePeruvianCci), phone |-> PhoneOf(q, r)]
         /\ validateStoredPaymentId("PEN", s) <=> r = NoText \/ fieldsMatchStoredId(PAYMENT_ID_FIELDS("PEN"), r)
<1> DEFINE c == "PEN"
<1>1. c \in CURRENCY /\ usesPackedPaymentId(c) /\ ~ValidQr(c, NoText)
  BY Currencies, StoresCodes, RightCode
<1>2. r # NoText => isValidPeruvianTypedRest(r) /\ IsList(r) /\ Len(r) >= 1 /\ Gaps(r) = {} /\ ~ValidQr(c, r)
  BY PeruAlone DEF PeruRest, isValidPeruvianTypedRest
<1>3. CASE q # NoText /\ r # NoText
  <2>1. unpackPackedPaymentId(s) = [qr |-> q, rest |-> r] /\ s # NoText
    BY <1>1, <1>2, <1>3, Packed DEF Join
  <2>2. HasPackSep(s)
    BY <1>3, <2>1 DEF unpackPackedPaymentId
  <2>3. validatePeruvianPaymentId(s)
    BY <1>2, <1>3, <2>1, <2>2 DEF validatePeruvianPaymentId
  <2>4. parsePeruvianPaymentId(s) = [qr |-> q, cci |-> FirstOf(r, validatePeruvianCci), phone |-> PhoneOf(q, r)]
    <3>1. unpackPackedPaymentId(s).qr = q /\ unpackPackedPaymentId(s).rest = r /\ ValidQr("PEN", q)
      BY <1>3, <2>1
    <3> QED BY ONLY <1>3, <2>2, <3>1 DEF parsePeruvianPaymentId, PhoneOf, First
  <2>5. unpackForCurrency(c, s) = [qr |-> q, rest |-> r]
    BY <1>1, <2>1 DEF unpackForCurrency
  <2>6. validateStoredPaymentId(c, s) <=> r = NoText \/ fieldsMatchStoredId(PAYMENT_ID_FIELDS(c), r)
    BY <1>3, <2>1, <2>5 DEF validateStoredPaymentId
  <2> QED BY <2>3, <2>4, <2>6
<1>4. CASE q # NoText /\ r = NoText
  <2>1. s = q /\ Gaps(s) = {} /\ ValidQr(c, s)
    BY <1>1, <1>4, RightCode DEF Join
  <2>2. validatePeruvianPaymentId(s)
    BY <2>1 DEF validatePeruvianPaymentId, HasPackSep
  <2>3. parsePeruvianPaymentId(s) = [qr |-> q, cci |-> FirstOf(r, validatePeruvianCci), phone |-> PhoneOf(q, r)]
    BY <1>4, <2>1 DEF parsePeruvianPaymentId, PhoneOf, First, HasPackSep
  <2> QED BY <1>1, <1>4, <2>1, <2>2, <2>3, CodeAlone
<1>5. CASE q = NoText
  <2>1. s = r /\ Gaps(s) = {} /\ s # NoText /\ ~ValidQr(c, s)
    BY <1>2, <1>5 DEF Join
  <2>2. validatePeruvianPaymentId(s)
    BY <1>2, <2>1 DEF validatePeruvianPaymentId, HasPackSep
  <2>3. parsePeruvianPaymentId(s) = [qr |-> q, cci |-> FirstOf(r, validatePeruvianCci), phone |-> PhoneOf(q, r)]
    BY <1>1, <1>5, <2>1 DEF parsePeruvianPaymentId, PhoneOf, First, HasPackSep
  <2>4. unpackForCurrency(c, s) = [qr |-> NoText, rest |-> s]
    BY <1>1, <2>1, Alone DEF unpackForCurrency
  <2>5. validateStoredPaymentId(c, s) <=> r = NoText \/ fieldsMatchStoredId(PAYMENT_ID_FIELDS(c), r)
    BY <1>5, <2>1, <2>4 DEF validateStoredPaymentId
  <2> QED BY <2>2, <2>3, <2>5
<1> QED BY <1>3, <1>4, <1>5

(* One or two right texts are accepted, whichever they are.                *)
PeruTexts(a, b) == (IF a = Empty THEN <<>> ELSE <<a>>) \o (IF b = Empty THEN <<>> ELSE <<b>>)

LEMMA PeruTextsAre ==
  ASSUME NEW a, NEW b
  PROVE  /\ a # Empty /\ b # Empty => PeruTexts(a, b) = <<a, b>>
         /\ a # Empty /\ b = Empty => PeruTexts(a, b) = <<a>>
         /\ a = Empty /\ b # Empty => PeruTexts(a, b) = <<b>>
         /\ a = Empty /\ b = Empty => PeruTexts(a, b) = <<>>
<1>1. \A x : <<x>> \in Seq({a, b, x}) /\ Len(<<x>>) = 1 /\ <<x>>[1] = x
  OBVIOUS
<1>2. ASSUME NEW x \in {a, b} PROVE <<x>> \o <<>> = <<x>> /\ <<>> \o <<x>> = <<x>>
  <2>1. PICK s \in Seq({a, b, x}) : s = <<x>>
    BY <1>1
  <2>2. s \o <<>> = s /\ <<>> \o s = s
    OBVIOUS
  <2> QED BY <2>1, <2>2
<1>3. <<a>> \o <<b>> = <<a, b>>
  <2>1. PICK s \in Seq({a, b}) : s = <<a>> /\ Len(s) = 1 /\ s[1] = a
    BY <1>1
  <2>2. s \o <<b>> = Append(s, b)
    OBVIOUS
  <2>3. <<a, b>> \in Seq({a, b}) /\ Len(<<a, b>>) = 2 /\ <<a, b>>[1] = a /\ <<a, b>>[2] = b
    OBVIOUS
  <2>4. Append(s, b) \in Seq({a, b}) /\ Len(Append(s, b)) = 2 /\ Append(s, b)[1] = a /\ Append(s, b)[2] = b
    BY <2>1
  <2>5. PICK l \in Seq({a, b}) : l = <<a, b>> /\ Len(l) = 2 /\ l[1] = a /\ l[2] = b
    BY <2>3
  <2>6. PICK m \in Seq({a, b}) : m = Append(s, b) /\ Len(m) = 2 /\ m[1] = a /\ m[2] = b
    BY <2>4
  <2>7. \A i \in 1..2 : l[i] = m[i]
    BY ONLY <2>5, <2>6
  <2>8. l = m
    BY <2>5, <2>6, <2>7, SameList
  <2> QED BY <2>1, <2>2, <2>5, <2>6, <2>8
<1>4. <<>> \o <<>> = <<>>
  OBVIOUS
<1> QED BY ONLY <1>2, <1>3, <1>4, Zenon DEF PeruTexts

LEMMA PeruAccepts ==
  ASSUME NEW a, NEW b, a = Empty \/ validatePeruvianPhone(a), b = Empty \/ validatePeruvianCci(b),
         a # Empty \/ b # Empty,
         NEW r, r = PeruTexts(a, b)
  PROVE  /\ PeruRest(r) /\ fieldsMatchStoredId(PAYMENT_ID_FIELDS("PEN"), r)
         /\ FirstOf(r, validatePeruvianPhone) = Phone(a) /\ FirstOf(r, validatePeruvianCci) = Account(b)
<1> DEFINE F == PAYMENT_ID_FIELDS("PEN")
<1>1. /\ Len(F) = 2 /\ DOMAIN F = {1, 2} /\ F[1].optional /\ F[2].optional
      /\ F[1].requires = {} /\ F[2].requires = {} /\ F[1].rule = "peruvian" /\ F[2].rule = "cci"
  BY SomeForms DEF PEN_PAYMENT_FIELDS, May, Field
<1>2. \A t : Valid("peruvian", t) <=> validatePeruvianPhone(t)
  BY DEF Valid
<1>3. \A t : Valid("cci", t) <=> validatePeruvianCci(t)
  BY DEF Valid
<1> HIDE DEF F
<1>4. Phone(Empty) = Empty /\ Account(Empty) = Empty
  BY PeruvianKeys DEF Phone, Account, Empty, Text
<1>5. /\ Account(a) = Empty
      /\ Phone(b) = Empty
  BY <1>4, PeruvianKeys DEF Phone, Account
<1>6. CASE a # Empty /\ b # Empty
  <2>1. r = <<a, b>>
    BY <1>6, PeruTextsAre
  <2>2. IsList(r) /\ Len(r) = 2 /\ DOMAIN r = 1..2 /\ 1..2 = {1, 2} /\ r[1] = a /\ r[2] = b
    BY <2>1, TuplesAreLists
  <2>3. PeruRest(r)
    BY <1>6, <2>2 DEF PeruRest, Places
  <2>4. Trim(a) = a /\ Trim(b) = b
    BY <1>6, PeruvianKeys, Trimmed
  <2>5. ByPosition(F, r) = [i \in {1, 2} |-> r[i]]
    BY <1>1, <2>2, <2>4 DEF ByPosition
  <2>6. PICK w : w = ByPosition(F, r) /\ w[1] = a /\ w[2] = b
    BY <2>2, <2>5
  <2>7. fieldValuesValid(F, w)
    BY <1>1, <1>2, <1>3, <1>6, <2>6 DEF fieldValuesValid
  <2>8. r # NoText
    BY <2>3, PeruAlone
  <2>9. validatePaymentIdFields(F, r)
    BY <1>1, <1>6, <2>2, <2>6, <2>7, <2>8 DEF validatePaymentIdFields
  <2>10. FirstOf(r, validatePeruvianPhone) = First(Phone(a), Phone(b)) /\ FirstOf(r, validatePeruvianCci) = First(Account(a), Account(b))
    BY <2>2, FirstFound
  <2>11. First(Phone(a), Phone(b)) = Phone(a) /\ First(Account(a), Account(b)) = Account(b)
    BY <1>5 DEF First
  <2> QED BY <2>3, <2>9, <2>10, <2>11 DEF fieldsMatchStoredId, F
<1>7. CASE a = Empty \/ b = Empty
  <2>1. PICK t : t = IF a = Empty THEN b ELSE a
    OBVIOUS
  <2>2. r = <<t>> /\ t # Empty /\ (validatePeruvianPhone(t) \/ validatePeruvianCci(t))
    BY <1>7, <2>1, PeruTextsAre
  <2>3. IsList(r) /\ Len(r) = 1 /\ DOMAIN r = 1..1 /\ 1..1 = {1} /\ r[1] = t
    BY <2>2, TuplesAreLists
  <2>4. PeruRest(r)
    BY <2>2, <2>3 DEF PeruRest, Places
  <2>5. r # NoText
    BY <2>4, PeruAlone
  <2>6. validatePaymentIdFields(F, r)
    BY <1>1, <1>2, <1>3, <2>2, <2>3, <2>5 DEF validatePaymentIdFields
  <2>7. FirstOf(r, validatePeruvianPhone) = First(Phone(t), Empty) /\ FirstOf(r, validatePeruvianCci) = First(Account(t), Empty)
    BY <2>3, FirstFound
  <2>8. First(Phone(t), Empty) = Phone(a) /\ First(Account(t), Empty) = Account(b)
    BY <1>4, <1>5, <1>7, <2>1 DEF First
  <2> QED BY <2>4, <2>6, <2>7, <2>8 DEF fieldsMatchStoredId, F
<1> QED BY <1>6, <1>7

(* Peru's own functions accept what the form saved, and read and write it. *)
LEMMA PeruTwins ==
  ASSUME NEW q, q = NoText \/ (ValidQr("PEN", q) /\ IsList(q)),
         NEW v, DOMAIN v = {1, 2},
         IsBlank(v[1]) \/ validatePeruvianPhone(v[1]), IsBlank(v[2]) \/ validatePeruvianCci(v[2]),
         NEW r, r = IF IsBlank(v[1]) /\ IsBlank(v[2]) THEN NoText ELSE Parts(v), IsList(Parts(v)), Len(Parts(v)) = 2,
         q # NoText \/ r # NoText,
         NEW s, s = Join(q, r),
         NEW parts, parts = parsePeruvianPaymentId(s)
  PROVE  /\ validatePeruvianPaymentId(s) /\ parts.qr = q
         /\ ~IsBlank(v[1]) => parts.phone = normalizePeruvianPaymentKey(v[1])
         /\ ~IsBlank(v[2]) => parts.cci = normalizePeruvianPaymentKey(v[2])
         /\ \A again \in {serializePeruvianPaymentId(parts.qr, parts.phone, parts.cci)} :
              validateStoredPaymentId("PEN", again) /\ parsePeruvianPaymentId(again) = parts
<1>1. PICK p : p = Parts(v) /\ IsList(p) /\ Len(p) = 2 /\ DOMAIN p = 1..Len(p) /\ DOMAIN p = {1, 2}
  BY ListHas DEF Parts
<1>2. \A i \in {1, 2} : IF IsBlank(v[i]) THEN p[i] = Empty ELSE p[i] = v[i] /\ p[i] # Empty
  BY <1>1, Trimmed DEF Parts
<1>3. r = NoText \/ PeruRest(r)
  <2>1. ASSUME ~IsBlank(v[1]) \/ ~IsBlank(v[2]) PROVE PeruRest(p)
    <3>1. Places(p) # {}
      BY <1>1, <1>2, <2>1 DEF Places
    <3>2. \A i \in DOMAIN p : p[i] # Empty => validatePeruvianPhone(p[i]) \/ validatePeruvianCci(p[i])
      BY <1>1, <1>2
    <3> QED BY <1>1, <3>1, <3>2 DEF PeruRest
  <2> QED BY <1>1, <2>1
<1>4. PICK ph : ph = PhoneOf(q, r)
  OBVIOUS
<1>5. PICK cc : cc = FirstOf(r, validatePeruvianCci)
  OBVIOUS
<1>6. validatePeruvianPaymentId(s) /\ parts = [qr |-> q, cci |-> cc, phone |-> ph]
  BY <1>3, <1>4, <1>5, PeruJoined
<1>7. /\ Phone(Empty) = Empty /\ Account(Empty) = Empty
      /\ \A t : validatePeruvianPhone(t) => Account(t) = Empty /\ Phone(t) = normalizePeruvianPaymentKey(t)
      /\ \A t : validatePeruvianCci(t) => Phone(t) = Empty /\ Account(t) = normalizePeruvianPaymentKey(t)
  BY PeruvianKeys DEF Phone, Account, Empty, Text
<1>8. /\ FirstOf(r, validatePeruvianPhone) = IF IsBlank(v[1]) THEN Empty ELSE Phone(v[1])
      /\ cc = IF IsBlank(v[2]) THEN Empty ELSE Account(v[2])
  <2>1. CASE r = NoText
    <3>1. Len(r) = 1 /\ DOMAIN r = 1..1 /\ r[1] = Empty
      BY <2>1 DEF NoText
    <3>2. FirstOf(r, validatePeruvianPhone) = First(Phone(Empty), Empty) /\ cc = First(Account(Empty), Empty)
      BY <1>5, <3>1, FirstFound
    <3>3. IsBlank(v[1]) /\ IsBlank(v[2])
      <4>1. p # NoText
        BY <1>1 DEF NoText
      <4> QED BY <1>1, <2>1, <4>1
    <3> QED BY <1>7, <3>2, <3>3 DEF First
  <2>2. CASE r # NoText
    <3>1. r = p
      BY <1>1, <2>2
    <3>2. /\ FirstOf(r, validatePeruvianPhone) = First(Phone(p[1]), Phone(p[2]))
          /\ cc = First(Account(p[1]), Account(p[2]))
      BY <1>1, <1>5, <3>1, FirstFound
    <3>3. Phone(p[2]) = Empty /\ Account(p[1]) = Empty
      BY <1>2, <1>7
    <3>4. Phone(p[1]) = (IF IsBlank(v[1]) THEN Empty ELSE Phone(v[1])) /\ Account(p[2]) = IF IsBlank(v[2]) THEN Empty ELSE Account(v[2])
      BY <1>2, <1>7
    <3>5. \A x : First(Empty, x) = x /\ First(x, Empty) = x
      BY DEF First
    <3> QED BY <3>2, <3>3, <3>4, <3>5
  <2> QED BY <2>1, <2>2
<1>9. ph = Empty \/ (validatePeruvianPhone(ph) /\ Phone(ph) = ph)
  <2>1. CASE ~IsBlank(v[1])
    <3>1. ph = Phone(v[1]) /\ validatePeruvianPhone(v[1])
      BY <1>4, <1>8, <2>1, KeysAreTexts DEF PhoneOf, First
    <3> QED BY <3>1, PeruvianKeys DEF Phone
  <2>2. CASE IsBlank(v[1])
    <3>1. ph = IF q # NoText /\ extractPeruvianPhoneFromQr(q) # {}
               THEN CHOOSE t \in extractPeruvianPhoneFromQr(q) : TRUE ELSE Empty
      BY <1>4, <1>8, <2>2 DEF PhoneOf, First
    <3> QED BY <3>1, PhoneInCode DEF Phone
  <2> QED BY <2>1, <2>2
<1>10. cc = Empty \/ (validatePeruvianCci(cc) /\ Account(cc) = cc)
  BY <1>8, PeruvianKeys DEF Account
<1>11. PICK r2 : r2 = PeruTexts(ph, cc)
  OBVIOUS
<1>12. PICK again : again = serializePeruvianPaymentId(q, ph, cc)
  OBVIOUS
<1>13. ph # Empty \/ cc # Empty \/ q # NoText
  <2>1. CASE q = NoText
    <3>1. ~IsBlank(v[1]) \/ ~IsBlank(v[2])
      BY <2>1
    <3>2. ph = FirstOf(r, validatePeruvianPhone)
      BY <1>4, <2>1 DEF PhoneOf, First
    <3> QED BY <1>8, <3>1, <3>2, KeysAreTexts
  <2> QED BY <2>1
<1>14. /\ ValidQr("PEN", q) \/ q = NoText
       /\ ~ValidQr("PEN", NoText)
  BY Currencies, RightCode
<1>15. PICK rest : /\ rest = IF ph = Empty /\ cc = Empty THEN NoText ELSE r2
                   /\ again = Join(q, rest) /\ (rest = NoText \/ PeruRest(rest)) /\ (q # NoText \/ rest # NoText)
                   /\ rest = NoText \/ fieldsMatchStoredId(PAYMENT_ID_FIELDS("PEN"), rest)
                   /\ FirstOf(rest, validatePeruvianPhone) = ph /\ FirstOf(rest, validatePeruvianCci) = cc
  <2>1. again = IF r2 = <<>> THEN q ELSE IF q # NoText THEN q \o NoText \o r2 ELSE r2
    <3>1. (IF validatePeruvianPhone(ph) THEN <<normalizePeruvianPaymentKey(ph)>> ELSE <<>>) = IF ph = Empty THEN <<>> ELSE <<ph>>
      <4>1. ph = Empty \/ (validatePeruvianPhone(ph) /\ ph # Empty /\ normalizePeruvianPaymentKey(ph) = ph)
        BY <1>9, PeruvianKeys DEF Phone, IsBlank, Empty, Text
      <4>2. ~validatePeruvianPhone(Empty)
        BY PeruvianKeys DEF Empty, Text
      <4> QED BY ONLY <4>1, <4>2
    <3>2. (IF validatePeruvianCci(cc) THEN <<normalizePeruvianPaymentKey(cc)>> ELSE <<>>) = IF cc = Empty THEN <<>> ELSE <<cc>>
      <4>1. cc = Empty \/ (validatePeruvianCci(cc) /\ cc # Empty /\ normalizePeruvianPaymentKey(cc) = cc)
        BY <1>10, PeruvianKeys DEF Account, IsBlank, Empty, Text
      <4>2. ~validatePeruvianCci(Empty)
        BY PeruvianKeys DEF Empty, Text
      <4> QED BY ONLY <4>1, <4>2
    <3>3. (IF ValidQr("PEN", q) THEN q ELSE NoText) = q
      BY <1>14
    <3>4. r2 = (IF validatePeruvianPhone(ph) THEN <<normalizePeruvianPaymentKey(ph)>> ELSE <<>>)
                 \o (IF validatePeruvianCci(cc) THEN <<normalizePeruvianPaymentKey(cc)>> ELSE <<>>)
      BY ONLY <1>11, <3>1, <3>2, Zenon DEF PeruTexts
    <3> QED BY ONLY <1>12, <3>3, <3>4, Zenon DEF serializePeruvianPaymentId
  <2>2. CASE ph = Empty /\ cc = Empty
    <3>1. r2 = <<>>
      BY <1>11, <2>2, PeruTextsAre
    <3>2. again = Join(q, NoText) /\ q # NoText
      BY <1>13, <2>1, <2>2, <3>1 DEF Join
    <3>3. Len(NoText) = 1 /\ DOMAIN NoText = 1..1 /\ NoText[1] = Empty
      BY DEF NoText
    <3>4. FirstOf(NoText, validatePeruvianPhone) = First(Phone(Empty), Empty) /\ FirstOf(NoText, validatePeruvianCci) = First(Account(Empty), Empty)
      BY <3>3, FirstFound
    <3>5. FirstOf(NoText, validatePeruvianPhone) = Empty /\ FirstOf(NoText, validatePeruvianCci) = Empty
      BY <1>7, <3>4 DEF First
    <3> QED BY <2>2, <3>2, <3>5
  <2>3. CASE ph # Empty \/ cc # Empty
    <3>1. PeruRest(r2) /\ fieldsMatchStoredId(PAYMENT_ID_FIELDS("PEN"), r2)
      BY <1>9, <1>10, <1>11, <2>3, PeruAccepts
    <3>2. FirstOf(r2, validatePeruvianPhone) = Phone(ph) /\ FirstOf(r2, validatePeruvianCci) = Account(cc)
      BY <1>9, <1>10, <1>11, <2>3, PeruAccepts
    <3>3. Phone(ph) = ph /\ Account(cc) = cc
      BY <1>7, <1>9, <1>10
    <3>4. r2 # NoText
      BY <3>1, PeruAlone
    <3>5. r2 # <<>>
      BY <3>1 DEF PeruRest
    <3>6. again = Join(q, r2)
      BY <2>1, <3>4, <3>5 DEF Join
    <3> QED BY <2>3, <3>1, <3>2, <3>3, <3>4, <3>6
  <2> QED BY <2>2, <2>3
<1>16. PhoneOf(q, rest) = ph
  <2>1. CASE ph # Empty
    BY <1>15, <2>1 DEF PhoneOf, First
  <2>2. CASE ph = Empty
    <3>1. PhoneOf(q, rest) = First(ph, IF q # NoText /\ extractPeruvianPhoneFromQr(q) # {}
               THEN CHOOSE t \in extractPeruvianPhoneFromQr(q) : TRUE ELSE Empty)
      BY <1>15 DEF PhoneOf
    <3>2. FirstOf(r, validatePeruvianPhone) = Empty
      BY <1>4, <2>2 DEF PhoneOf, First
    <3> QED BY <1>4, <2>2, <3>1, <3>2 DEF PhoneOf
  <2> QED BY <2>1, <2>2
<1>17. validateStoredPaymentId("PEN", again) /\ parsePeruvianPaymentId(again) = [qr |-> q, cci |-> cc, phone |-> ph]
  BY <1>15, <1>16, PeruJoined
<1>18. parts.qr = q /\ parts.phone = ph /\ parts.cci = cc
  BY <1>6
<1>19. ~IsBlank(v[1]) => ph = normalizePeruvianPaymentKey(v[1])
  BY <1>4, <1>7, <1>8, KeysAreTexts DEF PhoneOf, First
<1>20. ~IsBlank(v[2]) => cc = normalizePeruvianPaymentKey(v[2])
  BY <1>7, <1>8
<1> QED BY <1>6, <1>12, <1>17, <1>18, <1>19, <1>20

(* So do Venezuela's.                                                      *)
LEMMA VenezuelanTwins ==
  ASSUME NEW q, q = NoText \/ (ValidQr("VEN", q) /\ IsList(q)),
         NEW r, r = NoText \/ (IsList(r) /\ isValidVenezuelanCompound(r)), q # NoText \/ r # NoText,
         NEW s, s = Join(q, r),
         NEW parts, parts = parseVenezuelanPaymentId(s)
  PROVE  /\ validateVenezuelanPaymentId(s) /\ parts.qr = q
         /\ serializeVenezuelanPaymentId(parts.qr, parts.compound) = s
<1> DEFINE c == "VEN"
<1>1. c \in CURRENCY /\ ~ValidQr(c, NoText)
  BY Currencies, RightCode
<1>2. ~isValidVenezuelanCompound(NoText)
  BY DEF isValidVenezuelanCompound, NoText
<1>3. ASSUME r # NoText PROVE IsList(r) /\ Len(r) >= 1 /\ Gaps(r) = {} /\ ~ValidQr(c, r) /\ isValidVenezuelanCompound(r)
  <2>1. Len(r) = 3 /\ r[2].form = "rif"
    BY <1>3 DEF isValidVenezuelanCompound, validateVenezuelanRif
  <2>2. Gaps(r) = {}
    <3>1. 2..(3 - 1) = {2}
      OBVIOUS
    <3> QED BY <2>1, <3>1 DEF Gaps, Empty, Text
  <2>3. ~ValidQr(c, r)
    BY <1>1, <2>1, CodeHooks DEF ValidQr, validateVenezuelanQr
  <2> QED BY <1>3, <2>1, <2>2, <2>3
<1>4. PICK k : k = IF r = NoText THEN NoText ELSE r
  OBVIOUS
<1>5. SUFFICES validateVenezuelanPaymentId(s) /\ parseVenezuelanPaymentId(s) = [qr |-> q, compound |-> r]
  <2>1. (IF ValidQr("VEN", q) THEN q ELSE NoText) = q
    BY <1>1
  <2> QED BY <1>5, <2>1 DEF serializeVenezuelanPaymentId, Join
<1>6. CASE q # NoText /\ r # NoText
  <2>1. unpackPackedPaymentId(s) = [qr |-> q, rest |-> r]
    BY <1>1, <1>3, <1>6, Packed DEF Join
  <2>2. unpackPackedPaymentId(s).qr = q /\ unpackPackedPaymentId(s).rest = r /\ ValidQr("VEN", q) /\ isValidVenezuelanCompound(r)
    BY <1>3, <1>6, <2>1
  <2>3. HasPackSep(s)
    BY <1>6, <2>1 DEF unpackPackedPaymentId
  <2>4. validateVenezuelanPaymentId(s)
    BY <2>2, <2>3 DEF validateVenezuelanPaymentId
  <2> QED BY <2>2, <2>3, <2>4 DEF parseVenezuelanPaymentId
<1>7. CASE q # NoText /\ r = NoText
  <2>1. s = q /\ Gaps(s) = {} /\ ValidQr(c, s)
    BY <1>1, <1>7, RightCode DEF Join
  <2> QED BY <1>2, <1>7, <2>1 DEF validateVenezuelanPaymentId, parseVenezuelanPaymentId, HasPackSep
<1>8. CASE q = NoText
  <2>1. s = r /\ Gaps(s) = {} /\ ~ValidQr(c, s) /\ isValidVenezuelanCompound(r)
    BY <1>3, <1>8 DEF Join
  <2> QED BY <1>1, <1>8, <2>1 DEF validateVenezuelanPaymentId, parseVenezuelanPaymentId, HasPackSep
<1> QED BY <1>6, <1>7, <1>8

(* Two tokens and one field: the first that fits takes it.                 *)
LEMMA ClaimOfTwo ==
  ASSUME NEW F, DOMAIN F = {1}, NEW t, Len(t) = 2, DOMAIN t = {1, 2}, t[2] # Empty, ~Valid(F[1].rule, t[1])
  PROVE  DOMAIN Claim(F, t) = {1} /\ Claim(F, t)[1] = IF Valid(F[1].rule, t[2]) THEN t[2] ELSE Empty
<1>1. 0..2 = {0, 1, 2} /\ 1..2 = {1, 2}
  OBVIOUS
<1>2. PICK got : /\ Claim(F, t) = got[2]
                 /\ \A n \in {0, 1, 2} : got[n] = IF n = 0 THEN NothingGiven(F) ELSE Given(F, t, n, got[n - 1])
  <2>1. Len(t) \in Nat /\ DOMAIN t = 1..Len(t)
    BY <1>1
  <2>2. PICK got : /\ Claim(F, t) = got[Len(t)]
                   /\ \A n \in 0..Len(t) : got[n] = IF n = 0 THEN NothingGiven(F) ELSE Given(F, t, n, got[n - 1])
    BY ONLY <2>1, ClaimSteps
  <2>3. 0..Len(t) = {0, 1, 2} /\ Len(t) = 2
    BY <1>1
  <2> QED BY ONLY <2>2, <2>3, Zenon
<1>3. got[0] = NothingGiven(F) /\ got[1] = Given(F, t, 1, got[0]) /\ got[2] = Given(F, t, 2, got[1])
  <2>1. 1 - 1 = 0 /\ 2 - 1 = 1
    OBVIOUS
  <2> QED BY <1>2, <2>1
<1>4. DOMAIN got[1] = {1} /\ got[1][1] = Empty
  BY <1>3 DEF NothingGiven, Given
<1>5. DOMAIN got[2] = {1} /\ got[2][1] = IF Valid(F[1].rule, t[2]) THEN t[2] ELSE Empty
  <2>1. PICK r : r = got[1] /\ r[1] = Empty
    BY <1>4
  <2>2. got[2] = Given(F, t, 2, r)
    BY <1>3, <2>1
  <2> QED BY <2>1, <2>2 DEF Given
<1> QED BY <1>2, <1>5

(* An Indonesian wallet's number is read the same way by both readers.     *)
LEMMA WalletTwins ==
  ASSUME NEW s, IsList(s), Len(s) \in {1, 2}, s[1].form = "wallet"
  PROVE  validateStoredPaymentId("IDR", s) <=> validateIndonesianStoredPaymentId(s)
<1> DEFINE F == PAYMENT_ID_FIELDS("IDR")
           Right(t) == validateIndonesianPhoneNumber(t)
<1>1. F = <<Must("phone", "indonesian")>>
  BY DEF PAYMENT_ID_FIELDS, COUNTRY_OPTIONS, Option, Plain, IDR_COUNTRY_OPTION, IDR_PAYMENT_FIELDS
<1> HIDE DEF F
<1>2. Len(F) = 1 /\ DOMAIN F = {1} /\ F[1].optional = FALSE /\ F[1].rule = "indonesian"
  BY <1>1 DEF Must, Field
<1>3. \A t : Valid(F[1].rule, t) <=> Right(t)
  BY <1>2 DEF Valid
<1>4. DOMAIN s = 1..Len(s) /\ s # NoText /\ 1 \in DOMAIN s
  BY ListHas DEF NoText, Empty, Text
<1>5. Gaps(s) = {} /\ unpackPackedPaymentId(s) = [qr |-> NoText, rest |-> s]
  <2>1. \A n \in {1, 2} : 2..(n - 1) = {}
    OBVIOUS
  <2>2. Gaps(s) = {}
    BY <2>1 DEF Gaps
  <2> QED BY <2>2, Alone
<1>6. ~ValidQr("IDR", s) /\ unpackForCurrency("IDR", s) = [qr |-> NoText, rest |-> s]
  BY <1>5, Currencies, RightCode DEF unpackForCurrency
<1>7. validateStoredPaymentId("IDR", s) <=> fieldsMatchStoredId(F, s)
  BY <1>4, <1>6 DEF validateStoredPaymentId, F
<1>8. ~Right(s[1]) /\ Trim(s[1]) = s[1] /\ s[1] # Empty
  BY DEF validateIndonesianPhoneNumber, Lettered, Trim, IsBlank, Empty, Text
<1>9. ~Right(Empty) /\ \A t : Right(t) => ~IsBlank(t) /\ t # Empty
  BY DEF validateIndonesianPhoneNumber, AnyText, IsBlank, Empty, Text
<1>10. ~Right(Glue(s))
  <2>1. CASE Len(s) = 1
    <3>1. Glue(s) = s[1]
      BY <2>1 DEF Glue
    <3> QED BY <1>8, <3>1
  <2>2. CASE Len(s) = 2
    <3>1. Lettered(s[1])
      BY DEF Lettered
    <3>2. Glue(s).form = "pipedtext"
      BY <1>4, <2>2, <3>1 DEF Glue, Text
    <3> HIDE DEF F
    <3> QED BY <3>2 DEF validateIndonesianPhoneNumber, Lettered
  <2> QED BY <2>1, <2>2
<1> HIDE DEF Right
<1>11. ~validatePaymentIdFields(F, s)
  BY <1>2, <1>3, <1>10 DEF validatePaymentIdFields
<1>12. PICK w : w = assignPaymentIdToFieldValues(F, s)
  OBVIOUS
<1>13. fieldsMatchStoredId(F, s) <=> Right(w[1])
  <2>1. fieldValuesValid(F, w) <=> Right(w[1])
    <3>1. isPaymentIdFieldRequired(F, 1, w)
      BY <1>2 DEF isPaymentIdFieldRequired
    <3> QED BY <1>2, <1>3, <1>9, <3>1 DEF fieldValuesValid
  <2> QED BY <1>2, <1>9, <1>11, <1>12, <2>1 DEF fieldsMatchStoredId
<1>14. CASE Len(s) = 1
  <2>1. w = ByPosition(F, s)
    BY <1>2, <1>4, <1>12, <1>14 DEF assignPaymentIdToFieldValues, isPositionalCompound
  <2>2. w[1] = s[1]
    BY <1>2, <1>8, <1>14, <2>1 DEF ByPosition
  <2>3. ~validateIndonesianStoredPaymentId(s)
    BY <1>14 DEF validateIndonesianStoredPaymentId, parseIndonesianPaymentId
  <2> QED BY <1>7, <1>8, <1>13, <2>2, <2>3
<1>15. CASE Len(s) = 2
  <2>1. PICK t : t = [i \in DOMAIN s |-> Trim(s[i])] /\ IsList(t) /\ Len(t) = 2 /\ DOMAIN t = {1, 2} /\ t[1] = s[1] /\ t[2] = Trim(s[2])
    <3>1. PICK t : t = [i \in DOMAIN s |-> Trim(s[i])]
      OBVIOUS
    <3>2. DOMAIN t = 1..2 /\ t = [i \in 1..2 |-> t[i]] /\ 1..2 = {1, 2}
      <4>1. DOMAIN s = 1..2
        BY <1>4, <1>15
      <4>2. 1..2 = {1, 2}
        OBVIOUS
      <4> QED BY ONLY <3>1, <4>1, <4>2
    <3>3. IsList(t) /\ Len(t) = 2
      BY <3>2, Lists
    <3>4. t[1] = s[1] /\ t[2] = Trim(s[2])
      BY <1>4, <1>8, <1>15, <3>1
    <3> QED BY <3>1, <3>2, <3>3, <3>4
  <2>2. w = ByClaim(F, t)
    <3>1. ~isPositionalCompound(F, 2)
      <4>1. 2..1 = {}
        OBVIOUS
      <4> QED BY <1>2, <4>1 DEF isPositionalCompound
    <3>2. unpackPackedPaymentId(s).rest = s
      BY <1>5
    <3> QED BY <1>2, <1>4, <1>12, <1>15, <2>1, <3>1, <3>2 DEF assignPaymentIdToFieldValues
  <2>3. validateIndonesianStoredPaymentId(s) <=> Right(s[2])
    <3>1. PICK x : x = s[2] /\ Glue(Tail(s)) = x
      <4>1. Len(Tail(s)) = 1 /\ Tail(s)[1] = s[2]
        BY <1>15 DEF IsList
      <4> QED BY <4>1 DEF Glue
    <3>2. getIndonesianPaymentProviderType(s[1]) = "e-wallet"
      BY DEF getIndonesianPaymentProviderType
    <3>3. parseIndonesianPaymentId(s) = IF ~IsBlank(x) THEN {[provider |-> s[1], value |-> x]} ELSE {}
      BY <1>15, <3>1, <3>2 DEF parseIndonesianPaymentId
    <3>4. validateIndonesianPaymentId(s[1], x) <=> Right(x)
      BY <3>2 DEF validateIndonesianPaymentId, Right
    <3>5. CASE IsBlank(x)
      <4>1. parseIndonesianPaymentId(s) = {}
        BY <3>3, <3>5
      <4> QED BY <1>9, <3>1, <3>5, <4>1 DEF validateIndonesianStoredPaymentId
    <3>6. CASE ~IsBlank(x)
      <4>1. PICK given : given = [provider |-> s[1], value |-> x]
        OBVIOUS
      <4>2. parseIndonesianPaymentId(s) = {given}
        BY <3>3, <3>6, <4>1
      <4>3. given.provider = s[1] /\ given.value = x
        BY <4>1
      <4>4. validateIndonesianStoredPaymentId(s) <=> validateIndonesianPaymentId(given.provider, given.value)
        BY ONLY <4>2, Zenon DEF validateIndonesianStoredPaymentId
      <4> QED BY <3>1, <3>4, <4>3, <4>4
    <3> QED BY <3>5, <3>6
  <2>4. Right(t[2]) <=> Right(s[2])
    BY <1>9, <2>1 DEF Trim
  <2>5. PICK got : got = Claim(F, t)
    OBVIOUS
  <2>6. CASE Right(t[2])
    <3>1. got[1] = t[2] /\ t[2] # Empty /\ DOMAIN got = {1}
      BY <1>2, <1>3, <1>8, <1>9, <2>1, <2>5, <2>6, ClaimOfTwo
    <3>2. w[1] = t[2]
      BY <1>2, <2>2, <2>5, <3>1 DEF ByClaim
    <3> QED BY <1>7, <1>13, <2>3, <2>4, <2>6, <3>2
  <2>7. CASE ~Right(t[2])
    <3>1. w[1] \in {got[1], Token(t, 1)}
      <4>1. DOMAIN got = {1}
        BY <1>4, <2>1, <2>5, ClaimTakes, <1>2 DEF ClaimRows
      <4> QED BY <1>2, <2>2, <2>5, <4>1 DEF ByClaim
    <3>2. Token(t, 1) \in {Empty, t[1], t[2]}
      BY <2>1 DEF Token, Places
    <3>3. got[1] \in {Empty, t[1], t[2]}
      BY <1>2, <2>1, <2>5, ClaimTakes DEF ClaimRows
    <3>4. ~Right(w[1])
      BY <1>8, <1>9, <2>1, <2>7, <3>1, <3>2, <3>3
    <3> QED BY <1>7, <1>13, <2>3, <2>4, <2>7, <3>4
  <2> QED BY <2>6, <2>7
<1> QED BY <1>14, <1>15

(* What DraftInv says of a saved or inherited id is enough for the twins.  *)
LEMMA SavedAgree == DraftInv => TwinsAgree
<1> SUFFICES ASSUME DraftInv PROVE TwinsAgree
  OBVIOUS
<1> DEFINE q == IF ValidQr(cur, qr) THEN qr ELSE NoText
           r == packedTypedRest(values)
           F == PAYMENT_ID_FIELDS(cur)
<1>1. cur \in CURRENCY /\ DOMAIN values = DOMAIN F /\ IsList(qr) /\ NoneIsCode(cur, values)
  BY DEF DraftInv, Fields
<1>2. IsList(F) /\ DOMAIN F = 1..Len(F) /\ Len(F) \in Nat \ {0}
  BY <1>1, FieldsAreList, ListHas
<1>3. /\ IsList(Parts(values)) /\ Len(Parts(values)) = Len(F)
      /\ r = IF \A i \in DOMAIN values : IsBlank(values[i]) THEN NoText ELSE Parts(values)
  BY <1>1, <1>2, PartsAreList
<1>4. ASSUME phase = "saved"
      PROVE  /\ stored = Join(q, r) /\ getStoredQrPayload(cur, stored) = q
             /\ q = NoText \/ (ValidQr(cur, q) /\ IsList(q))
             /\ ValidQr(cur, qr) \/ \E i \in DOMAIN values : ~IsBlank(values[i])
             /\ (\A i \in DOMAIN values : IsBlank(values[i])) \/ Fits(F, values)
  <2>1. stored = packStoredPaymentId(cur, qr, values) /\ Whole(cur, qr, values)
    BY <1>4 DEF DraftInv
  <2>2. stored = Join(q, r)
    BY <2>1, Zenon DEF packStoredPaymentId, Join
  <2>3. PICK w : w = assignStoredPaymentIdToFieldValues(cur, stored)
    OBVIOUS
  <2>4. getStoredQrPayload(cur, stored) = q
    BY <1>1, <2>1, <2>3, ComesBack
  <2> QED BY <1>1, <2>1, <2>2, <2>4 DEF Whole
<1>5. ASSUME phase = "saved", cur = "PEN"
      PROVE  validatePeruvianPaymentId(stored) /\ PeruAgrees(parsePeruvianPaymentId(stored))
  <2>1. /\ Len(F) = 2 /\ DOMAIN F = {1, 2} /\ F[1].rule = "peruvian" /\ F[2].rule = "cci"
    BY <1>5, SomeForms DEF PEN_PAYMENT_FIELDS, May, Field
  <2>2. \A t : (Valid("peruvian", t) <=> validatePeruvianPhone(t)) /\ (Valid("cci", t) <=> validatePeruvianCci(t))
    <3>1. \A t : Valid("peruvian", t) <=> validatePeruvianPhone(t)
      BY DEF Valid
    <3>2. \A t : Valid("cci", t) <=> validatePeruvianCci(t)
      BY DEF Valid
    <3> QED BY <3>1, <3>2
  <2>3. (IsBlank(values[1]) \/ validatePeruvianPhone(values[1])) /\ (IsBlank(values[2]) \/ validatePeruvianCci(values[2]))
    BY <1>1, <1>4, <1>5, <2>1, <2>2 DEF Fits
  <2>4. r = IF IsBlank(values[1]) /\ IsBlank(values[2]) THEN NoText ELSE Parts(values)
    BY <1>1, <1>3, <2>1
  <2>5. q # NoText \/ r # NoText
    <3>1. ValidQr(cur, qr) => q # NoText
      BY <1>1, RightCode
    <3>2. Parts(values) # NoText
      BY <1>3, <2>1 DEF NoText
    <3> QED BY <1>1, <1>4, <1>5, <2>1, <2>4, <3>1, <3>2
  <2>6. PICK parts : parts = parsePeruvianPaymentId(stored)
    OBVIOUS
  <2> HIDE DEF q, r
  <2>7. /\ validatePeruvianPaymentId(stored) /\ parts.qr = q
        /\ ~IsBlank(values[1]) => parts.phone = normalizePeruvianPaymentKey(values[1])
        /\ ~IsBlank(values[2]) => parts.cci = normalizePeruvianPaymentKey(values[2])
        /\ \A again \in {serializePeruvianPaymentId(parts.qr, parts.phone, parts.cci)} :
             validateStoredPaymentId("PEN", again) /\ parsePeruvianPaymentId(again) = parts
    BY <1>1, <1>3, <1>4, <1>5, <2>1, <2>3, <2>4, <2>5, <2>6, PeruTwins
  <2>8. getStoredQrPayload(cur, stored) = q
    BY <1>4, <1>5
  <2> QED BY <1>5, <2>6, <2>7, <2>8 DEF PeruAgrees, Filled
<1>6. ASSUME phase = "saved", cur = "VEN"
      PROVE  validateVenezuelanPaymentId(stored) /\ VenezuelaAgrees(parseVenezuelanPaymentId(stored))
  <2>1. Len(F) = 3 /\ F = VEN_PAYMENT_FIELDS /\ DOMAIN F = 1..3 /\ 1..3 = {1, 2, 3}
    <3>1. F = VEN_PAYMENT_FIELDS /\ Len(F) = 3
      BY <1>6, SomeForms
    <3>2. 1..3 = {1, 2, 3}
      OBVIOUS
    <3> HIDE DEF F
    <3> QED BY ONLY <1>2, <3>1, <3>2
  <2>2. /\ F[1].rule = "venezuelan" /\ F[2].rule = "rif" /\ F[3].rule = "any"
        /\ F[1].optional = FALSE /\ F[2].optional = FALSE /\ F[3].optional = FALSE
    BY <2>1 DEF VEN_PAYMENT_FIELDS, Must, Field
  <2>3. r = NoText \/ (IsList(r) /\ isValidVenezuelanCompound(r))
    <3>1. SUFFICES ASSUME r # NoText PROVE IsList(r) /\ isValidVenezuelanCompound(r)
      OBVIOUS
    <3>2. r = Parts(values) /\ Fits(F, values)
      BY <1>3, <1>4, <1>6, <3>1
    <3>3. \A i \in {1, 2, 3} : ~IsBlank(values[i]) /\ Valid(F[i].rule, values[i])
      BY <2>1, <2>2, <3>2 DEF Fits
    <3>4. validateVenezuelanPhoneNumber(values[1])
      <4>1. \A t : Valid("venezuelan", t) => validateVenezuelanPhoneNumber(t)
        BY DEF Valid
      <4> QED BY <2>2, <3>3, <4>1
    <3>5. validateVenezuelanRif(values[2])
      <4>1. \A t : Valid("rif", t) => validateVenezuelanRif(t)
        BY DEF Valid
      <4> QED BY <2>2, <3>3, <4>1
    <3>6. \A i \in {1, 2, 3} : Parts(values)[i] = values[i]
      BY <1>1, <2>1, <3>3, Trimmed DEF Parts
    <3>7. Len(Parts(values)) = 3 /\ IsList(Parts(values))
      BY <1>3, <2>1
    <3> HIDE DEF r
    <3> QED BY <3>2, <3>3, <3>4, <3>5, <3>6, <3>7 DEF isValidVenezuelanCompound
  <2>4. q # NoText \/ r # NoText
    <3>1. ValidQr(cur, qr) => q # NoText
      BY <1>1, RightCode
    <3>2. Parts(values) # NoText
      BY <1>3, <2>1 DEF NoText
    <3> QED BY <1>3, <1>4, <1>6, <3>1, <3>2
  <2>5. PICK parts : parts = parseVenezuelanPaymentId(stored)
    OBVIOUS
  <2> HIDE DEF q, r
  <2>6. /\ validateVenezuelanPaymentId(stored) /\ parts.qr = q
        /\ serializeVenezuelanPaymentId(parts.qr, parts.compound) = stored
    BY <1>4, <1>6, <2>3, <2>4, <2>5, VenezuelanTwins
  <2> QED BY <1>4, <1>6, <2>5, <2>6 DEF VenezuelaAgrees
<1>7. ASSUME phase = "inherited", cur = "IDR", getIndonesianPaymentProviderType(stored[1]) = "e-wallet"
      PROVE  validateStoredPaymentId(cur, stored) <=> validateIndonesianStoredPaymentId(stored)
  <2>1. stored \in Inherited["IDR"]
    BY <1>7 DEF DraftInv
  <2>2. IsList(stored) /\ Len(stored) \in {1, 2}
    BY <1>1, <1>7, <2>1, IdsAreSequences, WalletsHaveOneNumber DEF IdsAreSequences, WalletsHaveOneNumber, IsList
  <2>3. stored[1].form = "wallet"
    BY <1>7 DEF getIndonesianPaymentProviderType
  <2> QED BY <1>7, <2>2, <2>3, WalletTwins
<1> QED BY <1>5, <1>6, <1>7 DEF TwinsAgree

----------------------------------------------------------------------------
(* Ids that are opened again.                                              *)

Rules ==
  {"any", "argentine", "bolivian", "pix", "colombian", "cubanPhone", "cubanCard", "cedula", "ecuadorian",
   "ecuadorianName", "egyptian", "revolut", "indonesian", "upi", "kenyan", "till", "paybill", "paybillAccount",
   "mexican", "nuban", "nigerianName", "philippine", "venezuelan", "rif", "peruvian", "cci"}
OfCatalogue(F) == \A i \in DOMAIN F : F[i].rule \in Rules

(* Only Peru's and Kenya's fields may be left out.                         *)
LEMMA FieldsOfCatalogue ==
  ASSUME NEW c \in CURRENCY
  PROVE  /\ OfCatalogue(PAYMENT_ID_FIELDS(c))
         /\ c \notin {"PEN", "KES"} => \A i \in DOMAIN PAYMENT_ID_FIELDS(c) : ~PAYMENT_ID_FIELDS(c)[i].optional
<1> DEFINE MustAll(F) == OfCatalogue(F) /\ \A i \in DOMAIN F : ~F[i].optional
<1>1. \/ PAYMENT_ID_FIELDS(c) \in
           {ARS_PAYMENT_FIELDS, BOB_PAYMENT_FIELDS, BRL_PAYMENT_FIELDS, COP_PAYMENT_FIELDS, CUP_PAYMENT_FIELDS,
            ECU_PAYMENT_FIELDS, EGP_PAYMENT_FIELDS, EUR_PAYMENT_FIELDS, USD_PAYMENT_FIELDS, IDR_PAYMENT_FIELDS,
            INR_PAYMENT_FIELDS, MEX_PAYMENT_FIELDS, NGN_PAYMENT_FIELDS, PHP_PAYMENT_FIELDS, VEN_PAYMENT_FIELDS}
      \/ c = "KES" /\ PAYMENT_ID_FIELDS(c) = KES_PAYMENT_FIELDS
      \/ c = "PEN" /\ PAYMENT_ID_FIELDS(c) = PEN_PAYMENT_FIELDS
  <2>1. ASSUME c \notin {"PEN", "KES"}
        PROVE  PAYMENT_ID_FIELDS(c) \in
                 {ARS_PAYMENT_FIELDS, BOB_PAYMENT_FIELDS, BRL_PAYMENT_FIELDS, COP_PAYMENT_FIELDS, CUP_PAYMENT_FIELDS,
                  ECU_PAYMENT_FIELDS, EGP_PAYMENT_FIELDS, EUR_PAYMENT_FIELDS, USD_PAYMENT_FIELDS, IDR_PAYMENT_FIELDS,
                  INR_PAYMENT_FIELDS, MEX_PAYMENT_FIELDS, NGN_PAYMENT_FIELDS, PHP_PAYMENT_FIELDS, VEN_PAYMENT_FIELDS}
    BY <2>1, Currencies DEF PAYMENT_ID_FIELDS, COUNTRY_OPTIONS, Option, Plain, NoPay,
      ARS_COUNTRY_OPTION, BOB_COUNTRY_OPTION, BRL_COUNTRY_OPTION,
      COP_COUNTRY_OPTION, CUP_COUNTRY_OPTION, ECU_COUNTRY_OPTION, EGP_COUNTRY_OPTION, EUR_COUNTRY_OPTION,
      IDR_COUNTRY_OPTION, INR_COUNTRY_OPTION, MEX_COUNTRY_OPTION, NGN_COUNTRY_OPTION,
      PHP_COUNTRY_OPTION, USD_COUNTRY_OPTION, VEN_COUNTRY_OPTION
  <2>2. PAYMENT_ID_FIELDS("KES") = KES_PAYMENT_FIELDS
    BY DEF PAYMENT_ID_FIELDS, COUNTRY_OPTIONS, KES_COUNTRY_OPTION, NoPay, Option
  <2> QED BY <2>1, <2>2, SomeForms
<1> USE DEF OfCatalogue, Rules, Must, May, Field
<1>2. MustAll(ARS_PAYMENT_FIELDS) /\ MustAll(BOB_PAYMENT_FIELDS) /\ MustAll(BRL_PAYMENT_FIELDS)
  BY DEF ARS_PAYMENT_FIELDS, BOB_PAYMENT_FIELDS, BRL_PAYMENT_FIELDS
<1>3. MustAll(COP_PAYMENT_FIELDS) /\ MustAll(EGP_PAYMENT_FIELDS) /\ MustAll(EUR_PAYMENT_FIELDS) /\ MustAll(USD_PAYMENT_FIELDS)
  BY DEF COP_PAYMENT_FIELDS, EGP_PAYMENT_FIELDS, EUR_PAYMENT_FIELDS, USD_PAYMENT_FIELDS
<1>4. MustAll(IDR_PAYMENT_FIELDS) /\ MustAll(INR_PAYMENT_FIELDS) /\ MustAll(MEX_PAYMENT_FIELDS)
  BY DEF IDR_PAYMENT_FIELDS, INR_PAYMENT_FIELDS, MEX_PAYMENT_FIELDS
<1>5. MustAll(CUP_PAYMENT_FIELDS) /\ MustAll(PHP_PAYMENT_FIELDS)
  BY DEF CUP_PAYMENT_FIELDS, PHP_PAYMENT_FIELDS
<1>6. MustAll(NGN_PAYMENT_FIELDS) /\ MustAll(VEN_PAYMENT_FIELDS)
  BY DEF NGN_PAYMENT_FIELDS, VEN_PAYMENT_FIELDS
<1>7. MustAll(ECU_PAYMENT_FIELDS)
  BY DEF ECU_PAYMENT_FIELDS
<1>8. OfCatalogue(PEN_PAYMENT_FIELDS)
  BY DEF PEN_PAYMENT_FIELDS
<1>9. OfCatalogue(KES_PAYMENT_FIELDS)
  BY DEF KES_PAYMENT_FIELDS
<1> QED BY <1>1, <1>2, <1>3, <1>4, <1>5, <1>6, <1>7, <1>8, <1>9

(* No rule accepts a blank text.                                           *)
LEMMA RulesWantText ==
  ASSUME NEW rule \in Rules, NEW t, Valid(rule, t)
  PROVE  ~IsBlank(t)
<1> SUFFICES ASSUME t.form \in {"empty", "blank"} PROVE FALSE
  BY DEF IsBlank
<1> USE DEF Valid
<1>1. CASE rule \in {"argentine", "bolivian", "pix", "colombian"}
  BY <1>1 DEF validateArgentinePaymentId, validateBolivianAccount, validatePIXId, validateColombianPaymentId,
              JustLetters, BarDashes
<1>2. CASE rule \in {"any", "cubanPhone", "cubanCard", "cedula", "ecuadorian", "ecuadorianName"}
  BY <1>2 DEF validateCubanPhoneNumber, validateCubanCardNumber, validateEcuadorianCedula,
              validateEcuadorianAccountNumber, validateEcuadorianAccountName, JustLetters, BarDashes, AnyText, IsBlank
<1>3. CASE rule \in {"egyptian", "revolut", "indonesian", "upi"}
  BY <1>3 DEF validateEgyptianPhone, validateRevolutId, validateIndonesianPhoneNumber, validateUPIId,
              JustLetters, AnyText, IsBlank
<1>4. CASE rule \in {"kenyan", "till", "paybill", "paybillAccount", "mexican"}
  BY <1>4 DEF validateKenyanPhone, validateKenyanTill, validateKenyanPaybill, validateKenyanPaybillAccount,
              validateMexicanPaymentId, JustLetters, BarSpaces, AnyText, IsBlank
<1>5. CASE rule \in {"nuban", "nigerianName", "philippine", "venezuelan", "rif"}
  BY <1>5 DEF validateNigerianAccountNumber, validateNigerianAccountName, validatePhilippinePhoneNumber,
              validateVenezuelanPhoneNumber, validateVenezuelanRif, JustLetters, AnyText, IsBlank
<1>6. CASE rule \in {"peruvian", "cci"}
  BY <1>6 DEF validatePeruvianPhone, validatePeruvianCci, BarSpaces
<1> QED BY <1>1, <1>2, <1>3, <1>4, <1>5, <1>6 DEF Rules

(* What is read of an id is a form's texts: they are all right, and some   *)
(* text is there.                                                          *)
ReadRight(F, w) == fieldValuesValid(F, w) /\ \E i \in DOMAIN F : w[i] # Empty

(* The only token of an id goes to a field that asks for no other.         *)
LEMMA TokenIsTaken ==
  ASSUME NEW c \in {"PEN", "KES"}, NEW F, F = PAYMENT_ID_FIELDS(c), NEW t, t # Empty,
         \E i \in DOMAIN F : F[i].requires = {} /\ Valid(F[i].rule, t)
  PROVE  ReadRight(F, ByClaim(F, <<t>>))
<1>1. /\ DOMAIN F \in {1..2, 1..4} /\ Len(F) \in {2, 4}
      /\ \A i \in DOMAIN F : F[i].optional /\ (i <= 2 <=> F[i].requires = {})
  <2>1. CASE c = "PEN"
    BY <2>1, SomeForms DEF PEN_PAYMENT_FIELDS, May, Field
  <2>2. CASE c = "KES"
    <3>1. F = KES_PAYMENT_FIELDS
      BY <2>2 DEF PAYMENT_ID_FIELDS, COUNTRY_OPTIONS, KES_COUNTRY_OPTION, NoPay, Option
    <3> QED BY <3>1 DEF KES_PAYMENT_FIELDS, May, Field
  <2> QED BY <2>1, <2>2
<1> DEFINE free == {i \in DOMAIN F : Valid(F[i].rule, t)}
<1>2. PICK k \in free : \A i \in free : k <= i
  <2>1. free \in SUBSET Nat /\ free # {}
    BY <1>1
  <2> HIDE DEF free
  <2> QED BY <2>1, SmallestExists
<1>3. k <= 2 /\ F[k].requires = {} /\ k \in DOMAIN F
  <2>1. PICK i \in DOMAIN F : F[i].requires = {} /\ Valid(F[i].rule, t)
    OBVIOUS
  <2> QED BY <1>1, <1>2, <2>1
<1>4. PICK s : s = <<t>> /\ Len(s) = 1 /\ DOMAIN s = {1} /\ s[1] = t
  <2>1. PICK s : s = <<t>>
    OBVIOUS
  <2>2. Len(s) = 1 /\ DOMAIN s = 1..1 /\ s[1] = t
    BY <2>1
  <2>3. 1..1 = {1}
    OBVIOUS
  <2> QED BY <2>1, <2>2, <2>3
<1>5. PICK got : got = Claim(F, s)
  OBVIOUS
<1>6. got = [i \in DOMAIN F |-> IF i = k THEN t ELSE Empty]
  <2>1. got = Given(F, s, 1, NothingGiven(F))
    <3>1. Len(s) \in Nat /\ DOMAIN s = 1..Len(s) /\ 0..Len(s) = {0, 1} /\ Len(s) - 1 = 0
      BY <1>4
    <3>2. PICK row : /\ Claim(F, s) = row[Len(s)]
                     /\ \A n \in 0..Len(s) : row[n] = IF n = 0 THEN NothingGiven(F) ELSE Given(F, s, n, row[n - 1])
      BY <3>1, ClaimSteps
    <3>3. row[0] = NothingGiven(F) /\ row[1] = Given(F, s, 1, row[1 - 1])
      BY <3>1, <3>2
    <3> QED BY <1>4, <1>5, <3>2, <3>3
  <2>2. \A i \in DOMAIN F : NothingGiven(F)[i] = Empty
    BY DEF NothingGiven
  <2>3. \A i \in DOMAIN F : (i \in free /\ \A j \in free : i <= j) <=> i = k
    BY <1>1, <1>2
  <2> QED BY <1>4, <2>1, <2>2, <2>3 DEF Given
<1>7. ByClaim(F, s) = got
  <2>1. Places(got) = {k} /\ Places(s) = {1}
    BY <1>3, <1>4, <1>6 DEF Places
  <2>2. Cardinality({k}) = 1 /\ Cardinality({1}) = 1
    BY FS_Singleton
  <2>3. Min({1, Len(F)}) = 1
    BY <1>1, LeastIs
  <2>4. ~(Cardinality(Places(Claim(F, s))) < Min({Cardinality(Places(s)), Len(F)}))
    <3>1. Cardinality(Places(got)) = 1 /\ Cardinality(Places(s)) = 1
      BY <2>1, <2>2
    <3>2. Min({Cardinality(Places(s)), Len(F)}) = 1
      BY <2>3, <3>1
    <3> QED BY <1>5, <3>1, <3>2
  <2> QED BY <1>5, <2>4, Zenon DEF ByClaim
<1>8. fieldValuesValid(F, got)
  <2>1. ASSUME NEW i \in DOMAIN F, i # k PROVE ~isPaymentIdFieldRequired(F, i, got)
    <3>1. ASSUME NEW j \in DOMAIN F, F[i].key \in F[j].requires PROVE IsBlank(got[j])
      BY <1>3, <1>6, <3>1 DEF IsBlank, Empty, Text
    <3> QED BY <1>1, <3>1 DEF isPaymentIdFieldRequired
  <2> QED BY <1>2, <1>6, <2>1 DEF fieldValuesValid
<1> QED BY <1>3, <1>4, <1>6, <1>7, <1>8 DEF ReadRight

LEMMA OneText == ASSUME NEW s, IsList(s), Len(s) = 1 PROVE DOMAIN s = {1} /\ Gaps(s) = {} /\ (s[1] = Empty => s = NoText)
<1>1. DOMAIN s = 1..1 /\ 1..1 = {1}
  BY ListHas
<1>2. s = [i \in 1..1 |-> s[i]]
  BY ListHas
<1>3. NoText = [i \in 1..1 |-> Empty]
  BY DEF NoText
<1>4. ASSUME NEW x, x = s[1], x = Empty PROVE s = NoText
  <2>1. \A i \in 1..1 : s[i] = Empty
    BY <1>1, <1>4
  <2> QED BY <1>2, <1>3, <2>1
<1>5. Gaps(s) = {}
  BY DEF Gaps
<1> QED BY <1>1, <1>4, <1>5

(* An accepted id in a form's layout is read as right texts.               *)
LEMMA AcceptedIsRead ==
  ASSUME NEW c \in CURRENCY, NEW F, F = PAYMENT_ID_FIELDS(c), NEW s, IsList(s), s # NoText, LaidOut(c, s),
         fieldsMatchStoredId(F, s)
  PROVE  ReadRight(F, assignPaymentIdToFieldValues(F, s))
<1>1. IsList(F) /\ Len(F) \in Nat \ {0} /\ DOMAIN F = 1..Len(F) /\ Len(s) \in Nat /\ DOMAIN s = 1..Len(s) /\ OfCatalogue(F)
  BY FieldsAreList, FieldsOfCatalogue, ListHas
<1>2. CASE ~validatePaymentIdFields(F, s)
  BY <1>2 DEF fieldsMatchStoredId, ReadRight
<1> SUFFICES ASSUME validatePaymentIdFields(F, s) PROVE ReadRight(F, assignPaymentIdToFieldValues(F, s))
  BY <1>2
<1>3. ASSUME Len(s) = Len(F) \/ Gaps(s) = {}, isPositionalCompound(F, Len(s))
      PROVE  assignPaymentIdToFieldValues(F, s) = ByPosition(F, s)
  BY <1>3, Alone DEF assignPaymentIdToFieldValues
<1>4. CASE Len(F) = 1 /\ Len(s) = 1
  <2>1. assignPaymentIdToFieldValues(F, s) = ByPosition(F, s)
    BY <1>3, <1>4 DEF isPositionalCompound
  <2>2. Valid(F[1].rule, s[1])
    BY <1>4 DEF validatePaymentIdFields, Glue
  <2>3. F[1].rule \in Rules /\ DOMAIN F = {1}
    BY <1>1, <1>4 DEF OfCatalogue
  <2>4. ~IsBlank(s[1])
    BY <2>2, <2>3, RulesWantText
  <2>5. PICK w : w = ByPosition(F, s) /\ DOMAIN w = {1} /\ w[1] = s[1]
    <3>1. PICK w : w = ByPosition(F, s)
      OBVIOUS
    <3>2. DOMAIN w = {1} /\ w[1] = Trim(s[1])
      BY <1>4, <2>3, <3>1 DEF ByPosition
    <3> QED BY <2>4, <3>1, <3>2, Trimmed
  <2>6. w[1] # Empty
    BY <2>4, <2>5, Trimmed
  <2> QED BY <2>1, <2>2, <2>3, <2>5, <2>6 DEF ReadRight, fieldValuesValid
<1>5. CASE Len(F) = 1 /\ Len(s) # 1
  <2>1. c = "IDR" /\ Len(s) = 2 /\ Lettered(s[1])
    BY <1>1, <1>5 DEF LaidOut
  <2>2. F[1].rule = "indonesian"
    BY <2>1 DEF PAYMENT_ID_FIELDS, COUNTRY_OPTIONS, IDR_COUNTRY_OPTION, IDR_PAYMENT_FIELDS, Plain, Option, Must, Field
  <2>3. Glue(s).form = "pipedtext"
    <3>1. 1 \in DOMAIN s
      BY <1>1, <2>1
    <3> QED BY <2>1, <3>1 DEF Glue, Text
  <2>4. ~Valid("indonesian", Glue(s))
    <3>1. PICK t : t = Glue(s) /\ t.form = "pipedtext"
      BY <2>3
    <3> QED BY <3>1 DEF Valid, validateIndonesianPhoneNumber, Lettered
  <2> QED BY <1>5, <2>2, <2>4 DEF validatePaymentIdFields
<1>6. CASE Len(F) # 1 /\ Len(s) = 1
  <2>1. PICK t : t = s[1]
    OBVIOUS
  <2>2. /\ \E i \in DOMAIN F : F[i].optional
        /\ \E i \in DOMAIN F : F[i].requires = {} /\ Valid(F[i].rule, t)
    BY <1>6, <2>1 DEF validatePaymentIdFields
  <2>3. c \in {"PEN", "KES"}
    BY <2>2, FieldsOfCatalogue
  <2>4. ~IsBlank(t) /\ t # Empty /\ Trim(t) = t
    <3>1. ~IsBlank(t)
      BY <1>1, <2>2, RulesWantText DEF OfCatalogue
    <3> QED BY <3>1, Trimmed
  <2>5. ReadRight(F, ByClaim(F, <<t>>))
    BY <2>2, <2>3, <2>4, TokenIsTaken
  <2>6. [i \in DOMAIN s |-> Trim(s[i])] = <<t>>
    <3>1. DOMAIN s = {1} /\ 1..1 = {1}
      BY <1>6, OneText
    <3> QED BY <2>1, <2>4, <3>1
  <2>7. Gaps(s) = {} /\ ~isPositionalCompound(F, Len(s)) /\ Len(s) # Len(F)
    BY <1>1, <1>6, OneText DEF isPositionalCompound
  <2>8. assignPaymentIdToFieldValues(F, s) = ByClaim(F, <<t>>)
    BY <2>6, <2>7, Alone DEF assignPaymentIdToFieldValues
  <2> QED BY <2>5, <2>8
<1>7. CASE Len(F) # 1 /\ Len(s) # 1
  <2>1. PICK w : w = ByPosition(F, s)
    OBVIOUS
  <2>2. ReadRight(F, w)
    BY <1>7, <2>1 DEF validatePaymentIdFields, ReadRight
  <2>3. Len(s) = Len(F) \/ (Gaps(s) = {} /\ Len(s) \in 2..Len(F))
    <3>1. c # "IDR"
      <4>1. PAYMENT_ID_FIELDS("IDR") = IDR_PAYMENT_FIELDS /\ Len(IDR_PAYMENT_FIELDS) = 1
        BY DEF PAYMENT_ID_FIELDS, COUNTRY_OPTIONS, IDR_COUNTRY_OPTION, IDR_PAYMENT_FIELDS, Plain, Option
      <4> QED BY <1>7, <4>1
    <3>2. \A n \in Nat : \A m \in 1..n : m # 1 => m \in 2..n
      OBVIOUS
    <3>3. CASE Len(s) = Len(F)
      BY <3>3
    <3>4. CASE Gaps(s) = {} /\ Len(s) \in 1..Len(F)
      BY <1>1, <1>7, <3>2, <3>4
    <3> QED BY <3>1, <3>3, <3>4 DEF LaidOut
  <2>4. isPositionalCompound(F, Len(s))
    <3>1. ASSUME NEW i \in (Len(s) + 1)..Len(F) PROVE F[i].optional
      <4>1. i \in DOMAIN F /\ ~(i <= Len(s))
        BY <1>1
      <4>2. w[i] = Empty
        BY <2>1, <4>1 DEF ByPosition
      <4> QED BY <2>2, <4>1, <4>2 DEF ReadRight, fieldValuesValid, isPaymentIdFieldRequired
    <3> QED BY <2>3, <3>1 DEF isPositionalCompound
  <2> QED BY <1>3, <2>1, <2>2, <2>3, <2>4
<1> QED BY <1>1, <1>4, <1>5, <1>6, <1>7

(* What is read is trimmed, and a form that is saved as it was read.       *)
LEMMA ReadFits ==
  ASSUME NEW F, NEW s, IsList(F), IsList(s), NEW w, w = assignPaymentIdToFieldValues(F, s)
  PROVE  /\ DOMAIN w = DOMAIN F /\ \A i \in DOMAIN F : Trim(w[i]) = w[i]
         /\ fieldValuesValid(F, w) => Fits(F, w)
<1>1. DOMAIN w = DOMAIN F /\ \A i \in DOMAIN F : Trim(w[i]) = w[i]
  <2>1. Takes(F, s, w)
    BY AssignTakes
  <2>2. Trim(Empty) = Empty
    BY DEF Trim
  <2> QED BY <2>1, <2>2, Trimmed DEF Takes
<1>2. \A i \in DOMAIN F : IsBlank(w[i]) <=> w[i] = Empty
  BY <1>1, Trimmed
<1>3. ASSUME fieldValuesValid(F, w), NEW i \in DOMAIN F, IsBlank(w[i])
      PROVE  F[i].optional /\ \A j \in DOMAIN F : ~IsBlank(w[j]) => F[i].key \notin F[j].requires
  <2>1. ~isPaymentIdFieldRequired(F, i, w)
    BY <1>2, <1>3 DEF fieldValuesValid
  <2> QED BY <1>3, <2>1 DEF isPaymentIdFieldRequired
<1> QED BY <1>1, <1>2, <1>3 DEF fieldValuesValid, Fits


(* What is drawn again is no id of texts: a code fits no form.             *)
LEMMA ReadIsNotDrawn ==
  ASSUME NEW c \in CURRENCY, NEW F, F = PAYMENT_ID_FIELDS(c), NEW s, IsList(s), LaidOut(c, s),
         usesPackedPaymentId(c) => Gaps(s) = {},
         NEW w, w = assignPaymentIdToFieldValues(F, s), Fits(F, w), NEW k \in DOMAIN F, w[k] # Empty
  PROVE  ~Drawable(c, payQrCandidate(s))
<1>1. IsList(F) /\ DOMAIN F = 1..Len(F) /\ Len(F) \in Nat \ {0} /\ Takes(F, s, w) /\ \A i \in DOMAIN F : Trim(w[i]) = w[i]
  BY FieldsAreList, ListHas, AssignTakes, ReadFits
<1>2. CASE c \notin {"BOB", "PEN", "VEN", "PHP", "INR"}
  BY <1>2, CodeHooks DEF Drawable
<1> SUFFICES ASSUME c \in {"BOB", "PEN", "VEN", "PHP", "INR"}, Drawable(c, payQrCandidate(s)) PROVE FALSE
  BY <1>2
<1>3. Gaps(s) = {} /\ payQrCandidate(s) = s
  <2>1. CASE usesPackedPaymentId(c)
    BY <2>1 DEF payQrCandidate, HasPackSep
  <2>2. CASE ~usesPackedPaymentId(c)
    <3>1. c \in {"PHP", "INR"} /\ Len(F) \in {1, 2}
      BY <2>2, StoresCodes, SomeForms
    <3>2. Gaps(s) = {}
      <4>1. CASE Len(s) = Len(F)
        BY <3>1, <4>1 DEF Gaps
      <4> QED BY <3>1, <4>1 DEF LaidOut
    <3> QED BY <3>2 DEF payQrCandidate, HasPackSep
  <2> QED BY <2>1, <2>2
<1>4. /\ Len(s) = 1 \/ (c = "BOB" /\ Len(s) = 2)
      /\ Len(s) = 1 => s[1].form = IF c = "VEN" THEN "s7b" ELSE "emv"
  BY <1>3, CodeHooks DEF Drawable, isPeruvianPayQr, isPhilippinePayQr, isVenezuelanPayQr, isBolivianPayQr,
     isNepalFonepayQr, PayEmv
<1>5. Len(s) = 1
  <2>1. c = "BOB" => Len(F) = 1
    BY SomeForms
  <2> QED BY <1>4, <2>1 DEF LaidOut
<1>6. PICK t : t = s[1] /\ t.form = IF c = "VEN" THEN "s7b" ELSE "emv"
  BY <1>4, <1>5
<1>7. \A i \in DOMAIN F : w[i] = Empty \/ w[i] = t
  <2>1. DOMAIN s = {1} /\ Trim(t) = t
    BY <1>5, <1>6, OneText DEF Trim, IsBlank
  <2> QED BY <1>1, <1>6, <2>1 DEF Takes
<1>8. \A i \in DOMAIN F : w[i] # Empty => Valid(F[i].rule, t)
  <2>1. ~IsBlank(t)
    BY <1>6 DEF IsBlank
  <2> QED BY <1>7, <2>1 DEF Fits
<1>9. CASE c = "PEN"
  <2>1. F[k].rule \in {"peruvian", "cci"}
    BY <1>9, SomeForms DEF PEN_PAYMENT_FIELDS, May, Field
  <2>2. ~Valid(F[k].rule, t)
    BY <1>6, <1>9, <2>1 DEF Valid, validatePeruvianPhone, validatePeruvianCci, BarSpaces
  <2> QED BY <1>8, <2>2
<1>10. CASE c \in {"BOB", "INR"}
  <2>1. F[k].rule \in {"bolivian", "upi"}
    BY <1>10, SomeForms DEF BOB_PAYMENT_FIELDS, INR_PAYMENT_FIELDS, Must, Field
  <2>2. ~Valid(F[k].rule, t)
    BY <1>6, <1>10, <2>1 DEF Valid, validateBolivianAccount, BarDashes, validateUPIId
  <2> QED BY <1>8, <2>2
<1>11. CASE c \in {"PHP", "VEN"}
  <2>1. PICK i \in DOMAIN F : ~F[i].optional /\ F[i].rule = IF c = "PHP" THEN "philippine" ELSE "rif"
    <3>1. CASE c = "PHP"
      <4>1. 1 \in DOMAIN F /\ F[1].rule = "philippine" /\ ~F[1].optional
        BY <3>1, SomeForms DEF PHP_PAYMENT_FIELDS, Must, Field
      <4> QED BY <3>1, <4>1
    <3>2. CASE c = "VEN"
      <4>1. 2 \in DOMAIN F /\ F[2].rule = "rif" /\ ~F[2].optional
        BY <3>2, SomeForms DEF VEN_PAYMENT_FIELDS, Must, Field
      <4> QED BY <3>2, <4>1
    <3> QED BY <1>11, <3>1, <3>2
  <2>2. ~Valid(F[i].rule, t)
    BY <1>6, <1>11, <2>1 DEF Valid, validatePhilippinePhoneNumber, Lettered, validateVenezuelanRif
  <2>3. w[i] # Empty
    <3>1. IsBlank(Empty)
      BY DEF IsBlank, Empty, Text
    <3> QED BY <2>1, <3>1 DEF Fits
  <2> QED BY <1>8, <2>2, <2>3
<1> QED BY <1>9, <1>10, <1>11

(* Saved again as it was read, an id is accepted, draws the same code and  *)
(* is read as the same texts.                                              *)
SavedAsRead(c, s, w) ==
  LET again == packStoredPaymentId(c, getStoredQrPayload(c, s), w)
  IN  /\ validateStoredPaymentId(c, again)
      /\ getPayQrPayload(c, again) = getPayQrPayload(c, s)
      /\ assignStoredPaymentIdToFieldValues(c, again) = w

LEMMA TextsAreSavedAsRead ==
  ASSUME NEW c \in CURRENCY, NEW F, F = PAYMENT_ID_FIELDS(c), NEW s, NEW w, DOMAIN w = DOMAIN F,
         \A i \in DOMAIN F : Trim(w[i]) = w[i], w = [i \in DOMAIN F |-> w[i]], NoneIsCode(c, w), Fits(F, w),
         NEW k \in DOMAIN F, w[k] # Empty,
         getStoredQrPayload(c, s) = NoText, ~Drawable(c, payQrCandidate(s))
  PROVE  SavedAsRead(c, s, w)
<1>1. Parts(w) = w /\ ~IsBlank(w[k])
  BY Trimmed DEF Parts
<1>2. IsList(F) /\ Len(F) \in Nat \ {0}
  BY FieldsAreList
<1>3. packedTypedRest(w) = w /\ assignPaymentIdToFieldValues(F, w) = w /\ w # NoText
  <2>1. Parts(w) # NoText /\ assignPaymentIdToFieldValues(F, Parts(w)) = Parts(w)
    BY <1>1, <1>2, FormIsRead
  <2>2. packedTypedRest(w) = IF \A i \in DOMAIN w : IsBlank(w[i]) THEN NoText ELSE Parts(w)
    BY <1>2, PartsAreList
  <2>3. ~\A i \in DOMAIN w : IsBlank(w[i])
    BY <1>1
  <2> QED BY <1>1, <2>1, <2>2, <2>3
<1>4. packStoredPaymentId(c, NoText, w) = w
  BY <1>3, RightCode DEF packStoredPaymentId
<1>5. validateStoredPaymentId(c, w) /\ getStoredQrPayload(c, w) = NoText /\ Finds(c, w, NoText, w)
  BY <1>1, TypedAlone, TypedIsFound
<1>6. ~Drawable(c, payQrCandidate(w))
  BY <1>1, NothingDrawn
<1>7. assignStoredPaymentIdToFieldValues(c, w) = w
  <2>1. hydrateFieldsFromQr(c, NoText, w) = [i \in DOMAIN w |-> w[i]]
    BY DEF hydrateFieldsFromQr
  <2> QED BY <1>3, <1>5, <2>1 DEF Finds
<1>8. getPayQrPayload(c, w) = getPayQrPayload(c, s)
  BY <1>5, <1>6 DEF getPayQrPayload
<1> QED BY <1>4, <1>5, <1>7, <1>8 DEF SavedAsRead

(* Filling in Peru's phone twice fills it in once, and the form fits still.*)
LEMMA HydratedFits ==
  ASSUME NEW c \in CURRENCY, NEW F, F = PAYMENT_ID_FIELDS(c), NEW q, NEW x, DOMAIN x = DOMAIN F,
         \A i \in DOMAIN F : Trim(x[i]) = x[i], (\A i \in DOMAIN F : x[i] = Empty) \/ Fits(F, x),
         NEW w, w = hydrateFieldsFromQr(c, q, x)
  PROVE  /\ DOMAIN w = DOMAIN F /\ w = [i \in DOMAIN F |-> w[i]] /\ \A i \in DOMAIN F : Trim(w[i]) = w[i]
         /\ (\A i \in DOMAIN F : w[i] = Empty) \/ Fits(F, w)
         /\ hydrateFieldsFromQr(c, q, w) = w
<1>1. DOMAIN w = DOMAIN F /\ w = [i \in DOMAIN F |-> w[i]]
  BY DEF hydrateFieldsFromQr
<1>2. ASSUME c # "PEN" \/ q = NoText \/ extractPeruvianPhoneFromQr(q) = {}
      PROVE  /\ \A i \in DOMAIN F : w[i] = x[i]
             /\ hydrateFieldsFromQr(c, q, w) = w
  <2>1. \A i \in DOMAIN F : w[i] = x[i]
    BY <1>2 DEF hydrateFieldsFromQr
  <2>2. hydrateFieldsFromQr(c, q, w) = [i \in DOMAIN F |-> w[i]]
    BY <1>1, <1>2 DEF hydrateFieldsFromQr
  <2> QED BY <1>1, <2>1, <2>2
<1>3. CASE c # "PEN" \/ q = NoText \/ extractPeruvianPhoneFromQr(q) = {}
  <2>1. Fits(F, x) => Fits(F, w)
    BY <1>2, <1>3 DEF Fits
  <2> QED BY <1>1, <1>2, <1>3, <2>1
<1>4. CASE c = "PEN" /\ q # NoText /\ extractPeruvianPhoneFromQr(q) # {}
  <2>1. PICK p : extractPeruvianPhoneFromQr(q) = {p} /\ validatePeruvianPhone(p)
    BY <1>4, PhoneInCode
  <2>2. ~IsBlank(p) /\ Trim(p) = p /\ p # Empty
    BY <2>1, PeruvianKeys, Trimmed
  <2>3. \A i \in DOMAIN F : w[i] = IF F[i].key = "phone" /\ x[i] = Empty THEN p ELSE x[i]
    BY <1>4, <2>1 DEF hydrateFieldsFromQr
  <2>4. hydrateFieldsFromQr(c, q, w) = [i \in DOMAIN F |-> IF F[i].key = "phone" /\ w[i] = Empty THEN p ELSE w[i]]
    BY <1>1, <1>4, <2>1 DEF hydrateFieldsFromQr
  <2>5. hydrateFieldsFromQr(c, q, w) = w
    <3>1. \A i \in DOMAIN F : ~(F[i].key = "phone" /\ w[i] = Empty)
      BY <2>2, <2>3
    <3> QED BY <1>1, <2>4, <3>1
  <2>6. \A i \in DOMAIN F : Trim(w[i]) = w[i]
    BY <2>2, <2>3
  <2>7. /\ \A i \in DOMAIN F : F[i].optional /\ F[i].requires = {}
        /\ \A i \in DOMAIN F : F[i].key = "phone" => F[i].rule = "peruvian"
    BY <1>4, SomeForms DEF PEN_PAYMENT_FIELDS, May, Field
  <2>8. ASSUME NEW i \in DOMAIN F, ~IsBlank(w[i]) PROVE Valid(F[i].rule, w[i])
    <3>1. CASE F[i].key = "phone" /\ x[i] = Empty
      <4>1. Valid("peruvian", p)
        BY <2>1 DEF Valid
      <4> QED BY <2>3, <2>7, <3>1, <4>1
    <3>2. CASE ~(F[i].key = "phone" /\ x[i] = Empty)
      <4>1. w[i] = x[i] /\ ~IsBlank(x[i]) /\ x[i] # Empty
        BY <2>3, <2>8, <3>2, Trimmed
      <4> QED BY <4>1 DEF Fits
    <3> QED BY <3>1, <3>2
  <2>9. Fits(F, w)
    BY <2>7, <2>8 DEF Fits
  <2> QED BY <1>1, <2>5, <2>6, <2>9
<1> QED BY <1>3, <1>4

LEMMA CodeIsSavedAsRead ==
  ASSUME NEW c \in CURRENCY, NEW F, F = PAYMENT_ID_FIELDS(c), NEW s, NEW q, ValidQr(c, q), IsList(q),
         getStoredQrPayload(c, s) = q,
         NEW x, DOMAIN x = DOMAIN F, \A i \in DOMAIN F : Trim(x[i]) = x[i],
         (\A i \in DOMAIN F : x[i] = Empty) \/ Fits(F, x),
         NEW w, w = hydrateFieldsFromQr(c, q, x), NoneIsCode(c, w)
  PROVE  SavedAsRead(c, s, w)
<1>1. /\ DOMAIN w = DOMAIN F /\ w = [i \in DOMAIN F |-> w[i]] /\ \A i \in DOMAIN F : Trim(w[i]) = w[i]
      /\ (\A i \in DOMAIN F : w[i] = Empty) \/ Fits(F, w)
      /\ hydrateFieldsFromQr(c, q, w) = w
  BY HydratedFits
<1>2. \A i \in DOMAIN F : IsBlank(w[i]) <=> w[i] = Empty
  BY <1>1, Trimmed
<1>3. IsList(F) /\ Len(F) \in Nat \ {0} /\ Parts(w) = w /\ q # NoText
  BY <1>1, FieldsAreList, RightCode DEF Parts
<1> DEFINE rest == IF \A i \in DOMAIN F : w[i] = Empty THEN NoText ELSE w
<1>4. packedTypedRest(w) = rest /\ IsList(w) /\ Len(w) = Len(F)
  <2>1. /\ IsList(Parts(w)) /\ Len(Parts(w)) = Len(F)
        /\ packedTypedRest(w) = IF \A i \in DOMAIN w : IsBlank(w[i]) THEN NoText ELSE Parts(w)
    BY <1>1, <1>3, PartsAreList
  <2> QED BY <1>1, <1>2, <1>3, <2>1
<1>5. PICK again : again = packStoredPaymentId(c, q, w)
  OBVIOUS
<1>6. again = IF rest # NoText THEN q \o NoText \o rest ELSE q
  BY <1>3, <1>4, <1>5 DEF packStoredPaymentId
<1>7. validateStoredPaymentId(c, again)
  BY <1>1, <1>2, <1>5, DraftIsJudged DEF Whole, validateCatalogPaymentDraft
<1>8. getStoredQrPayload(c, again) = q /\ assignStoredPaymentIdToFieldValues(c, again) = w
  <2>1. CASE \A i \in DOMAIN F : w[i] = Empty
    <3>1. again = q
      BY <1>6, <2>1
    <3>2. w = [i \in DOMAIN F |-> Empty]
      BY <1>1, <2>1
    <3>3. Finds(c, q, q, NoText) /\ getStoredQrPayload(c, q) = q /\ assignPaymentIdToFieldValues(F, NoText) = w
      BY <3>2, CodeIsFound, CodeAlone, NothingAssigned
    <3> QED BY <1>1, <3>1, <3>3 DEF Finds
  <2>2. CASE \E i \in DOMAIN F : w[i] # Empty
    <3>1. PICK k \in DOMAIN F : w[k] # Empty /\ ~IsBlank(w[k])
      BY <1>2, <2>2
    <3>2. Parts(w) # NoText /\ assignPaymentIdToFieldValues(F, Parts(w)) = Parts(w)
      BY <1>1, <1>3, <3>1, FormIsRead
    <3>3. again = q \o NoText \o w
      BY <1>3, <1>6, <2>2, <3>2
    <3>4. getStoredQrPayload(c, q \o NoText \o w) = q /\ Finds(c, q \o NoText \o w, q, w)
      BY <1>3, <1>4, PackedIsFound
    <3> QED BY <1>1, <1>3, <3>2, <3>3, <3>4 DEF Finds
  <2> QED BY <2>1, <2>2
<1>9. getPayQrPayload(c, again) = q /\ getPayQrPayload(c, s) = q
  BY <1>3, <1>8 DEF getPayQrPayload
<1> QED BY <1>5, <1>7, <1>8, <1>9 DEF SavedAsRead


(* So is every accepted id in one of the layouts.                          *)
LEMMA OpenedIsSavedAsRead ==
  ASSUME NEW c \in CURRENCY, NEW s, IsList(s), WellLaid(c, s), validateStoredPaymentId(c, s),
         NEW w, w = assignStoredPaymentIdToFieldValues(c, s), NoneIsCode(c, w)
  PROVE  SavedAsRead(c, s, w)
<1> DEFINE F == PAYMENT_ID_FIELDS(c)
<1>1. IsList(F) /\ ~ValidQr(c, NoText)
  BY FieldsAreList, RightCode
<1>2. PICK u : u = unpackPackedPaymentId(s)
  OBVIOUS
<1>3. IsList(u.qr) /\ IsList(u.rest)
  BY <1>2, RestIsList
<1>4. CASE usesPackedPaymentId(c) /\ Gaps(s) # {}
  <2>1. unpackForCurrency(c, s) = u /\ u.qr # NoText /\ LaidOut(c, u.rest)
    BY <1>2, <1>4 DEF unpackForCurrency, WellLaid, HasPackSep
  <2>2. ValidQr(c, u.qr) /\ (u.rest = NoText \/ fieldsMatchStoredId(F, u.rest))
    BY <2>1 DEF validateStoredPaymentId
  <2>3. PICK q, r : q = u.qr /\ r = u.rest
    OBVIOUS
  <2>4. PICK x : x = assignPaymentIdToFieldValues(F, r)
    OBVIOUS
  <2>5. w = hydrateFieldsFromQr(c, q, x) /\ getStoredQrPayload(c, s) = q
    <3>1. unpackForCurrency(c, s).qr = q /\ unpackForCurrency(c, s).rest = r /\ ValidQr(c, q)
      BY <2>1, <2>2, <2>3
    <3>2. ~ValidQr(c, s) /\ payQrCandidate(s) = q
      BY <1>2, <1>4, <2>3, RightCode DEF payQrCandidate, HasPackSep
    <3>3. getStoredQrPayload(c, s) = q
      BY <1>2, <1>4, <2>2, <2>3, <3>2 DEF getStoredQrPayload
    <3>4. w = hydrateFieldsFromQr(c, q, x)
      BY <2>4, <3>1, <3>2 DEF assignStoredPaymentIdToFieldValues
    <3> QED BY <3>3, <3>4
  <2>6. DOMAIN x = DOMAIN F /\ \A i \in DOMAIN F : Trim(x[i]) = x[i]
    BY <1>1, <1>3, <2>3, <2>4, ReadFits
  <2>7. (\A i \in DOMAIN F : x[i] = Empty) \/ Fits(F, x)
    <3>1. CASE r = NoText
      BY <2>4, <3>1, NothingAssigned
    <3>2. CASE r # NoText
      <4>1. ReadRight(F, x)
        BY <1>3, <2>1, <2>2, <2>3, <2>4, <3>2, AcceptedIsRead
      <4> QED BY <1>1, <1>3, <2>3, <2>4, <4>1, ReadFits DEF ReadRight
    <3> QED BY <3>1, <3>2
  <2>8. ValidQr(c, q) /\ IsList(q)
    BY <1>3, <2>2, <2>3
  <2> HIDE DEF F
  <2> QED BY <2>5, <2>6, <2>7, <2>8, CodeIsSavedAsRead DEF F
<1>5. CASE ValidQr(c, s)
  <2>1. PICK x : x = [i \in DOMAIN F |-> Empty]
    OBVIOUS
  <2>2. w = hydrateFieldsFromQr(c, s, x) /\ getStoredQrPayload(c, s) = s
    BY <1>5, <2>1, CodeIsFound, CodeAlone, NothingAssigned DEF Finds
  <2>3. DOMAIN x = DOMAIN F /\ \A i \in DOMAIN F : x[i] = Empty /\ Trim(x[i]) = x[i]
    BY <2>1 DEF Trim
  <2> HIDE DEF F
  <2> QED BY <1>5, <2>2, <2>3, CodeIsSavedAsRead DEF F
<1>6. CASE ~ValidQr(c, s) /\ ~(usesPackedPaymentId(c) /\ Gaps(s) # {})
  <2>1. unpackForCurrency(c, s) = [qr |-> NoText, rest |-> s]
    BY <1>6, Alone DEF unpackForCurrency
  <2>2. s # NoText /\ fieldsMatchStoredId(F, s) /\ LaidOut(c, s)
    BY <1>6, <2>1 DEF validateStoredPaymentId, WellLaid, HasPackSep
  <2>3. getStoredQrPayload(c, s) = NoText
    BY <1>1, <1>6, Alone DEF getStoredQrPayload
  <2>4. PICK x : x = assignPaymentIdToFieldValues(F, s)
    OBVIOUS
  <2>5. ReadRight(F, x) /\ Fits(F, x) /\ DOMAIN x = DOMAIN F /\ \A i \in DOMAIN F : Trim(x[i]) = x[i]
    <3>1. ReadRight(F, x)
      BY <2>2, <2>4, AcceptedIsRead
    <3> QED BY <1>1, <2>4, <3>1, ReadFits DEF ReadRight
  <2>6. PICK k \in DOMAIN F : x[k] # Empty
    BY <2>5 DEF ReadRight
  <2>7. ~Drawable(c, payQrCandidate(s))
    BY <1>6, <2>2, <2>4, <2>5, <2>6, ReadIsNotDrawn
  <2>8. w = hydrateFieldsFromQr(c, NoText, x)
    BY <1>1, <1>6, <2>1, <2>4, <2>7 DEF assignStoredPaymentIdToFieldValues
  <2>9. w = [i \in DOMAIN F |-> w[i]] /\ DOMAIN w = DOMAIN F /\ \A i \in DOMAIN F : w[i] = x[i]
    BY <2>5, <2>8 DEF hydrateFieldsFromQr
  <2>10. Fits(F, w) /\ \A i \in DOMAIN F : Trim(w[i]) = w[i]
    BY <2>5, <2>9 DEF Fits
  <2> HIDE DEF F
  <2> QED BY <2>3, <2>6, <2>7, <2>9, <2>10, TextsAreSavedAsRead DEF F
<1> QED BY <1>4, <1>5, <1>6

(* A form stores all its texts, and its code before them.                  *)
LEMMA SavedIsWellLaid ==
  ASSUME NEW c \in CURRENCY, NEW q, NEW v, IsList(q), DOMAIN v = DOMAIN PAYMENT_ID_FIELDS(c), NoneIsCode(c, v),
         Whole(c, q, v),
         NEW s, s = packStoredPaymentId(c, q, v)
  PROVE  /\ IsList(s) /\ WellLaid(c, s) /\ validateStoredPaymentId(c, s)
<1> DEFINE F == PAYMENT_ID_FIELDS(c)
           p == Parts(v)
<1>1. IsList(F) /\ Len(F) \in Nat \ {0}
  BY FieldsAreList
<1>2. IsList(p) /\ Len(p) = Len(F) /\ packedTypedRest(v) = IF \A i \in DOMAIN v : IsBlank(v[i]) THEN NoText ELSE p
  BY <1>1, PartsAreList
<1>3. validateStoredPaymentId(c, s)
  BY DraftIsJudged DEF validateCatalogPaymentDraft
<1>4. CASE \A i \in DOMAIN v : IsBlank(v[i])
  <2>1. ValidQr(c, q) /\ s = q
    BY <1>2, <1>4, RightCode DEF packStoredPaymentId, Whole
  <2>2. Gaps(s) = {}
    BY <2>1, RightCode
  <2> QED BY <1>3, <2>1, <2>2 DEF WellLaid, HasPackSep
<1>5. CASE \E i \in DOMAIN v : ~IsBlank(v[i])
  <2>1. PICK k \in DOMAIN v : ~IsBlank(v[k])
    BY <1>5
  <2>2. Fits(F, v) /\ packedTypedRest(v) = p /\ p # NoText
    BY <1>1, <1>2, <2>1, FormIsRead DEF Whole
  <2>3. LaidOut(c, p)
    BY <1>2 DEF LaidOut
  <2> HIDE DEF p, F
  <2>4. CASE ValidQr(c, q)
    <3>1. q # NoText /\ usesPackedPaymentId(c)
      BY <2>4, RightCode, StoresCodes
    <3>2. s = q \o NoText \o p
      BY <2>2, <2>4, <3>1 DEF packStoredPaymentId
    <3>3. unpackPackedPaymentId(s) = [qr |-> q, rest |-> p] /\ IsList(s)
      BY <1>1, <1>2, <2>4, <3>2, Packed
    <3>4. HasPackSep(s)
      BY <3>1, <3>3 DEF unpackPackedPaymentId
    <3> QED BY <1>3, <2>3, <3>1, <3>3, <3>4 DEF WellLaid
  <2>5. CASE ~ValidQr(c, q)
    <3>1. s = p
      BY <2>2, <2>5 DEF packStoredPaymentId
    <3>2. usesPackedPaymentId(c) => Gaps(p) = {}
      BY <2>1, <2>2, TypedAlone DEF p, F
    <3> QED BY <1>2, <1>3, <2>3, <3>1, <3>2 DEF WellLaid, HasPackSep
  <2> QED BY <2>4, <2>5
<1> QED BY <1>4, <1>5

(* A loaded form is what was read of an id in one of the layouts.          *)
LoadInv ==
  /\ DraftInv
  /\ phase = "loaded" =>
       /\ IsList(stored) /\ WellLaid(cur, stored)
       /\ values = assignStoredPaymentIdToFieldValues(cur, stored)
       /\ qr = getStoredQrPayload(cur, stored)

LEMMA LoadStarts == PayInit => LoadInv
BY DraftStarts DEF LoadInv, PayInit

LEMMA LoadStepKeeps == ASSUME OldIdsAreWellLaid PROVE LoadInv /\ [PayNext]_payVars => LoadInv'
<1> SUFFICES ASSUME LoadInv, [PayNext]_payVars PROVE LoadInv'
  OBVIOUS
<1>1. DraftInv /\ DraftInv'
  BY DraftStepKeeps DEF LoadInv
<1>2. CASE Load
  <2>1. IsList(stored) /\ WellLaid(cur, stored)
    <3>1. CASE phase = "saved"
      BY <1>1, <3>1, SavedIsWellLaid DEF DraftInv, Fields
    <3>2. CASE phase = "inherited"
      <4>1. stored \in Inherited[cur] /\ cur \in CURRENCY
        BY <1>1, <3>2 DEF DraftInv
      <4>2. IsList(stored)
        BY <4>1, IdsAreSequences DEF IdsAreSequences, IsList
      <4> QED BY <4>1, <4>2 DEF OldIdsAreWellLaid
    <3> QED BY <1>2, <3>1, <3>2 DEF Load
  <2>2. PICK w, q : /\ w = assignStoredPaymentIdToFieldValues(cur, stored) /\ q = getStoredQrPayload(cur, stored)
                    /\ values' = w /\ qr' = q
    BY <1>2 DEF Load
  <2>3. cur' = cur /\ stored' = stored
    BY <1>2 DEF Load
  <2> QED BY <1>1, <2>1, <2>2, <2>3 DEF LoadInv
<1>3. CASE UNCHANGED payVars
  BY <1>1, <1>3 DEF LoadInv, payVars
<1>4. CASE ~Load /\ ~UNCHANGED payVars
  <2>1. phase' # "loaded"
    BY <1>4 DEF PayNext, Type, Upload, Edit, Save, Inherit, Scan, Returned, Place
  <2> QED BY <1>1, <2>1 DEF LoadInv
<1> QED BY <1>2, <1>3, <1>4

LEMMA LoadedIsKept == LoadInv => ReloadKeepsAccepted
<1> SUFFICES ASSUME LoadInv, phase = "loaded", validateStoredPaymentId(cur, stored),
                    NEW again, again = packStoredPaymentId(cur, qr, values)
             PROVE  validateStoredPaymentId(cur, again) /\ Shown(again) = Shown(stored)
  BY DEF ReloadKeepsAccepted
<1>1. SavedAsRead(cur, stored, values)
  BY OpenedIsSavedAsRead DEF LoadInv, DraftInv
<1>2. again = packStoredPaymentId(cur, getStoredQrPayload(cur, stored), values)
  BY DEF LoadInv
<1>3. /\ validateStoredPaymentId(cur, again)
      /\ getPayQrPayload(cur, again) = getPayQrPayload(cur, stored)
      /\ assignStoredPaymentIdToFieldValues(cur, again) = values
  BY <1>1, <1>2 DEF SavedAsRead
<1>4. formatStoredPaymentIdForDisplay(cur, again) = formatStoredPaymentIdForDisplay(cur, stored)
  BY <1>3 DEF LoadInv, formatStoredPaymentIdForDisplay
<1> QED BY <1>3, <1>4 DEF Shown


----------------------------------------------------------------------------
(* The amount a scan states is the one its maker asked for (AmountIsStated)*)
(* whatever codes are scanned, at whatever prices, with whatever answers.  *)
THEOREM AmountsAreStated == PaySpec => []AmountIsStated
<1>1. PaySpec => []ScanInv
  BY ScanStarts, ScanStepKeeps, PTL DEF PaySpec
<1> QED BY <1>1, ScanStates, PTL

(* What was scanned is drawn again as it was, and is accepted where it is  *)
(* also what a seller stores (ScannedIsUsable).                            *)
THEOREM ScansAreUsable == PaySpec => []ScannedIsUsable
<1>1. PaySpec => []ScanInv
  BY ScanStarts, ScanStepKeeps, PTL DEF PaySpec
<1> QED BY <1>1, ScanUsable, PTL

(* The form accepts exactly the complete drafts (AcceptsExactly), whatever *)
(* is typed and uploaded, also in a form opened from an id stored by the   *)
(* form or by an earlier version.                                          *)
THEOREM DraftsAreJudged == PaySpec => []AcceptsExactly
<1>1. PaySpec => []DraftInv
  BY DraftStarts, DraftStepKeeps, PTL DEF PaySpec
<1> QED BY <1>1, DraftJudged, PTL

(* A saved form opens with the texts and the code it was saved with        *)
(* (SavedComesBack).                                                       *)
THEOREM SavedFormsComeBack == PaySpec => SavedComesBack
<1>1. PaySpec => []DraftInv
  BY DraftStarts, DraftStepKeeps, PTL DEF PaySpec
<1>2. DraftInv /\ [PayNext]_payVars =>
        [phase = "saved" /\ phase' = "loaded" =>
           /\ qr' = IF ValidQr(cur, qr) THEN qr ELSE NoText
           /\ \A i \in DOMAIN values : Filled(i) => values'[i] = values[i]
           /\ \A i \in DOMAIN values : ~Filled(i) /\ values'[i] # Empty => ValidQr(cur, qr)]_payVars
  BY SavedOpens
<1> QED BY <1>1, <1>2, PTL DEF PaySpec, SavedComesBack

(* Peru's and Venezuela's older functions accept and read what the form    *)
(* saved, and both readers of Indonesia accept the same wallets' ids       *)
(* (TwinsAgree).                                                           *)
THEOREM TwinsAlwaysAgree == PaySpec => []TwinsAgree
<1>1. PaySpec => []DraftInv
  BY DraftStarts, DraftStepKeeps, PTL DEF PaySpec
<1> QED BY <1>1, SavedAgree, PTL

(* An accepted id that is opened and saved again as it was read stays      *)
(* accepted, draws the same code and shows the same details                *)
(* (ReloadKeepsAccepted): whatever the form saved, and whatever an earlier *)
(* version stored in one of the forms' layouts.                            *)
THEOREM AcceptedIdsSurvive ==
  ASSUME OldIdsAreWellLaid
  PROVE  PaySpec => []ReloadKeepsAccepted
<1>1. PaySpec => []LoadInv
  BY LoadStarts, LoadStepKeeps, PTL DEF PaySpec
<1> QED BY <1>1, LoadedIsKept, PTL
=============================================================================
