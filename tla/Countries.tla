------------------------------ MODULE Countries ------------------------------
(***************************************************************************)
(* The country catalogue (src/src/country): the rule of every payment field*)
(* and, per currency, its fields and what its payment forms and QR codes   *)
(* may do.  A text is the record of what the rules read from it: its form  *)
(* (the kind of characters it is made of), its digits and its length, not  *)
(* counting spaces.  Labels, flags, locales and links are left out.        *)
(***************************************************************************)
EXTENDS Integers, SequencesExt

Text(form, digits, len) == [form |-> form, digits |-> digits, len |-> len]
Number(d) == Text("digits", d, Len(d))
Empty == Text("empty", <<>>, 0)
Blank == Text("blank", <<>>, 2)

IsBlank(t) == t.form \in {"empty", "blank"}
Trim(t) == IF IsBlank(t) THEN Empty ELSE t

(* "bank" and "wallet" name a provider of IDR_PAYMENT_PROVIDERS, "alias"   *)
(* has dots or underscores, "word" mixes letters and digits, "piped" holds *)
(* a "|" and no letter, "pipedtext" letters too.                           *)
Lettered(t) == t.form \notin {"empty", "blank", "digits", "spaced", "dashed", "plus", "piped"}
JustLetters == {"letters", "bank", "wallet"}

(* What is left is digits only, once spaces, or spaces and dashes, go.     *)
BarSpaces(t) == t.form \in {"digits", "spaced"}
BarDashes(t) == t.form \in {"digits", "spaced", "dashed"}

Count(t) == Len(t.digits)
Leads(p, t) == IsPrefix(p, t.digits)

(* An account is a number, a name may be any text.                         *)
AnyText(t) == ~IsBlank(t)

----------------------------------------------------------------------------
(* Check digits: the sum of some digits, each with its weight.             *)
Weighted(d, from, w) == FoldLeftDomain(LAMBDA sum, i : sum + d[from + i] * w[i], 0, w)
AllSame(d) == \A i \in DOMAIN d : d[i] = d[1]

Tenth(sum) == (10 - (sum % 10)) % 10

validateCBU(d) ==
  /\ Len(d) = 22 /\ ~AllSame(d)
  /\ d[8] = Tenth(Weighted(d, 0, <<7, 1, 3, 9, 7, 1, 3>>))
  /\ d[22] = Tenth(Weighted(d, 8, <<3, 9, 7, 1, 3, 9, 7, 1, 3, 9, 7, 1, 3>>))

Eleven(sum) == IF sum % 11 < 2 THEN 0 ELSE 11 - (sum % 11)

validateCPF(d) ==
  /\ Len(d) = 11 /\ ~AllSame(d)
  /\ d[10] = Eleven(Weighted(d, 0, <<10, 9, 8, 7, 6, 5, 4, 3, 2>>))
  /\ d[11] = Eleven(Weighted(d, 0, <<11, 10, 9, 8, 7, 6, 5, 4, 3, 2>>))

validateCNPJ(d) ==
  /\ Len(d) = 14 /\ ~AllSame(d)
  /\ d[13] = Eleven(Weighted(d, 0, <<5, 4, 3, 2, 9, 8, 7, 6, 5, 4, 3, 2>>))
  /\ d[14] = Eleven(Weighted(d, 0, <<6, 5, 4, 3, 2, 9, 8, 7, 6, 5, 4, 3, 2>>))

----------------------------------------------------------------------------
(* One rule per validator of the catalogue.                                *)
validateArgentinePaymentId(t) ==
  IF t.form = "digits" /\ Count(t) = 22 THEN validateCBU(t.digits)
  ELSE t.form \in JustLetters \cup {"digits", "dashed", "word", "alias"} /\ t.len \in 6..20

validateBolivianAccount(t) == BarDashes(t) /\ Count(t) \in 8..20

validatePIXId(t) ==
  \/ t.form \in {"emv", "email", "uuid"}
  \/ /\ t.form = "digits"
     /\ \/ Count(t) = 11 /\ (validateCPF(t.digits) \/ (t.digits[1] > 0 /\ t.digits[2] > 0 /\ t.digits[3] = 9))
        \/ Count(t) = 14 /\ validateCNPJ(t.digits)
        \/ Count(t) \in {10, 11}

validateColombianPaymentId(t) ==
  t.form \in {"email", "handle"} \/ (t.form = "digits" /\ Count(t) = 10 /\ t.digits[1] = 3)

validateCubanPhoneNumber(t) == AnyText(t) /\ (Count(t) = 8 \/ (Count(t) = 10 /\ Leads(<<5, 3>>, t)))
validateCubanCardNumber(t) == BarDashes(t) /\ Count(t) = 16

validateEcuadorianCedula(t) == AnyText(t) /\ Count(t) \in 9..13
validateEcuadorianAccountNumber(t) == AnyText(t) /\ Count(t) \in 4..20
validateEcuadorianAccountName(t) == t.form \in JustLetters \cup {"name", "accented"} /\ t.len >= 2

validateEgyptianPhone(t) ==
  /\ AnyText(t) /\ ~Lettered(t)
  /\ \E p \in {<<2, 0, 1>>, <<0, 1>>, <<1>>}, op \in {0, 1, 2, 5} :
        Leads(p \o <<op>>, t) /\ Count(t) = Len(p) + 9

validateRevolutId(t) ==
  \/ t.form \in JustLetters \cup {"digits", "dashed", "word", "alias", "handle"} /\ t.len \in 3..30
  \/ t.form = "email"
  \/ t.form \in {"digits", "plus"} /\ Count(t) \in 7..15

validateIndonesianPhoneNumber(t) == AnyText(t) /\ ~Lettered(t) /\ Count(t) \in 9..12
validateIndonesianBankAccount(t) == BarDashes(t) /\ Count(t) \in 8..18

getIndonesianPaymentProviderType(t) ==
  CASE t.form = "bank" -> "bank" [] t.form = "wallet" -> "e-wallet" [] OTHER -> "null"
validateIndonesianPaymentId(provider, t) ==
  IF getIndonesianPaymentProviderType(provider) = "bank"
  THEN validateIndonesianBankAccount(t) ELSE validateIndonesianPhoneNumber(t)

validateUPIId(t) == t.form = "upi"

validateKenyanPhone(t) ==
  /\ AnyText(t)
  /\ \E p \in {<<2, 5, 4>>, <<0>>, <<>>}, x \in {1, 7} : Leads(p \o <<x>>, t) /\ Count(t) = Len(p) + 9
validateKenyanTill(t) == AnyText(t) /\ Count(t) \in 5..7
validateKenyanPaybill(t) == BarSpaces(t) /\ Count(t) \in 5..7
validateKenyanPaybillAccount(t) ==
  t.form \in JustLetters \cup {"digits", "spaced", "word", "rif", "name"} /\ t.len \in 1..20

validateMexicanPaymentId(t) == AnyText(t) /\ Count(t) \in {10, 16, 18}

validateNigerianAccountNumber(t) == AnyText(t) /\ Count(t) = 10
validateNigerianAccountName(t) == t.form \in JustLetters \cup {"name"} /\ t.len >= 2

validatePhilippinePhoneNumber(t) ==
  /\ AnyText(t) /\ ~Lettered(t)
  /\ \E p \in {<<>>, <<0>>, <<6, 3>>} : Leads(p \o <<9>>, t) /\ Count(t) = Len(p) + 10

validateVenezuelanPhoneNumber(t) ==
  AnyText(t) /\ \E p \in {<<0>>, <<>>} : Leads(p \o <<4>>, t) /\ Count(t) = Len(p) + 10
validateVenezuelanRif(t) == t.form = "rif"

(* A Peruvian phone and its digits once +51 or 51 is dropped.              *)
Local(t) == IF Leads(<<5, 1>>, t) THEN SubSeq(t.digits, 3, Count(t)) ELSE t.digits
validatePeruvianCci(t) == BarSpaces(t) /\ Count(t) = 20
validatePeruvianPhone(t) ==
  /\ BarSpaces(t) \/ (t.form = "plus" /\ Leads(<<5, 1>>, t))
  /\ Len(Local(t)) = 9 /\ Local(t)[1] = 9
normalizePeruvianPaymentKey(t) ==
  IF validatePeruvianPhone(t) THEN Number(Local(t))
  ELSE IF BarSpaces(t) THEN Number(t.digits) ELSE t

(* The rule a field names.                                                 *)
Valid(rule, t) ==
  CASE rule = "any" -> AnyText(t)
    [] rule = "argentine" -> validateArgentinePaymentId(t)
    [] rule = "bolivian" -> validateBolivianAccount(t)
    [] rule = "pix" -> validatePIXId(t)
    [] rule = "colombian" -> validateColombianPaymentId(t)
    [] rule = "cubanPhone" -> validateCubanPhoneNumber(t)
    [] rule = "cubanCard" -> validateCubanCardNumber(t)
    [] rule = "cedula" -> validateEcuadorianCedula(t)
    [] rule = "ecuadorian" -> validateEcuadorianAccountNumber(t)
    [] rule = "ecuadorianName" -> validateEcuadorianAccountName(t)
    [] rule = "egyptian" -> validateEgyptianPhone(t)
    [] rule = "revolut" -> validateRevolutId(t)
    [] rule = "indonesian" -> validateIndonesianPhoneNumber(t)
    [] rule = "upi" -> validateUPIId(t)
    [] rule = "kenyan" -> validateKenyanPhone(t)
    [] rule = "till" -> validateKenyanTill(t)
    [] rule = "paybill" -> validateKenyanPaybill(t)
    [] rule = "paybillAccount" -> validateKenyanPaybillAccount(t)
    [] rule = "mexican" -> validateMexicanPaymentId(t)
    [] rule = "nuban" -> validateNigerianAccountNumber(t)
    [] rule = "nigerianName" -> validateNigerianAccountName(t)
    [] rule = "philippine" -> validatePhilippinePhoneNumber(t)
    [] rule = "venezuelan" -> validateVenezuelanPhoneNumber(t)
    [] rule = "rif" -> validateVenezuelanRif(t)
    [] rule = "peruvian" -> validatePeruvianPhone(t)
    [] rule = "cci" -> validatePeruvianCci(t)

----------------------------------------------------------------------------
(* The catalogue: the fields of each currency, in the order they are stored*)
Field(key, rule, optional, requires) ==
  [key |-> key, rule |-> rule, optional |-> optional, requires |-> requires]
Must(key, rule) == Field(key, rule, FALSE, {})
May(key, rule) == Field(key, rule, TRUE, {})

ARS_PAYMENT_FIELDS == <<Must("alias", "argentine")>>
BOB_PAYMENT_FIELDS == <<Must("account", "bolivian")>>
BRL_PAYMENT_FIELDS == <<Must("pix", "pix")>>
COP_PAYMENT_FIELDS == <<Must("alias", "colombian")>>
CUP_PAYMENT_FIELDS == <<Must("phone", "cubanPhone"), Must("card", "cubanCard")>>
ECU_PAYMENT_FIELDS ==
  <<Must("bank-name", "any"), Must("account-type", "any"), Must("account-number", "ecuadorian"),
    Must("account-name", "ecuadorianName"), Must("cedula", "cedula")>>
EGP_PAYMENT_FIELDS == <<Must("phone", "egyptian")>>
EUR_PAYMENT_FIELDS == <<Must("revolut", "revolut")>>
USD_PAYMENT_FIELDS == EUR_PAYMENT_FIELDS
IDR_PAYMENT_FIELDS == <<Must("phone", "indonesian")>>
INR_PAYMENT_FIELDS == <<Must("upi", "upi")>>
KES_PAYMENT_FIELDS ==
  <<May("phone", "kenyan"), May("till", "till"),
    Field("paybill", "paybill", TRUE, {"paybillAccount"}),
    Field("paybillAccount", "paybillAccount", TRUE, {"paybill"})>>
MEX_PAYMENT_FIELDS == <<Must("clabe", "mexican")>>
NGN_PAYMENT_FIELDS ==
  <<Must("account", "nuban"), Must("bank-name", "any"), Must("account-name", "nigerianName")>>
PEN_PAYMENT_FIELDS == <<May("phone", "peruvian"), May("cci", "cci")>>
PHP_PAYMENT_FIELDS == <<Must("phone", "philippine"), Must("bank-name", "any")>>
VEN_PAYMENT_FIELDS == <<Must("phone", "venezuelan"), Must("rif", "rif"), Must("bank", "any")>>

(* What else the program asks of a country: the check and the redrawing of *)
(* its QR codes ("none" when it has no such hook), whether the seller      *)
(* uploads one, and whether PAY orders are disabled.                       *)
Option(fields, validateQr, payQr, uploads, noPay) ==
  [fields |-> fields, validateQr |-> validateQr, payQr |-> payQr, uploadPaymentQR |-> uploads,
   disabledPay |-> noPay]
Plain(fields) == Option(fields, "none", "none", FALSE, FALSE)
NoPay(fields) == Option(fields, "none", "none", FALSE, TRUE)

ARS_COUNTRY_OPTION == Plain(ARS_PAYMENT_FIELDS)
BOB_COUNTRY_OPTION == Option(BOB_PAYMENT_FIELDS, "bolivian", "bolivian", TRUE, FALSE)
BRL_COUNTRY_OPTION == Plain(BRL_PAYMENT_FIELDS)
COP_COUNTRY_OPTION == Plain(COP_PAYMENT_FIELDS)
CUP_COUNTRY_OPTION == Plain(CUP_PAYMENT_FIELDS)
ECU_COUNTRY_OPTION == Plain(ECU_PAYMENT_FIELDS)
EGP_COUNTRY_OPTION == NoPay(EGP_PAYMENT_FIELDS)
EUR_COUNTRY_OPTION == NoPay(EUR_PAYMENT_FIELDS)
IDR_COUNTRY_OPTION == Plain(IDR_PAYMENT_FIELDS)
INR_COUNTRY_OPTION == Option(INR_PAYMENT_FIELDS, "none", "fonepay", FALSE, FALSE)
KES_COUNTRY_OPTION == NoPay(KES_PAYMENT_FIELDS)
MEX_COUNTRY_OPTION == NoPay(MEX_PAYMENT_FIELDS)
NGN_COUNTRY_OPTION == Plain(NGN_PAYMENT_FIELDS)
PEN_COUNTRY_OPTION == Option(PEN_PAYMENT_FIELDS, "peruvian", "peruvian", TRUE, FALSE)
PHP_COUNTRY_OPTION == Option(PHP_PAYMENT_FIELDS, "none", "philippine", FALSE, FALSE)
USD_COUNTRY_OPTION == NoPay(USD_PAYMENT_FIELDS)
VEN_COUNTRY_OPTION == Option(VEN_PAYMENT_FIELDS, "venezuelan", "venezuelan", TRUE, FALSE)

COUNTRY_OPTIONS ==
  [ARS |-> ARS_COUNTRY_OPTION, BOB |-> BOB_COUNTRY_OPTION, BRL |-> BRL_COUNTRY_OPTION,
   COP |-> COP_COUNTRY_OPTION, CUP |-> CUP_COUNTRY_OPTION, ECU |-> ECU_COUNTRY_OPTION,
   EGP |-> EGP_COUNTRY_OPTION, EUR |-> EUR_COUNTRY_OPTION, IDR |-> IDR_COUNTRY_OPTION,
   INR |-> INR_COUNTRY_OPTION, KES |-> KES_COUNTRY_OPTION, MEX |-> MEX_COUNTRY_OPTION,
   NGN |-> NGN_COUNTRY_OPTION, PEN |-> PEN_COUNTRY_OPTION, PHP |-> PHP_COUNTRY_OPTION,
   USD |-> USD_COUNTRY_OPTION, VEN |-> VEN_COUNTRY_OPTION]

CURRENCY == DOMAIN COUNTRY_OPTIONS
PAYMENT_ID_FIELDS(c) == COUNTRY_OPTIONS[c].fields
SUPPORTED_QR_CURRENCIES == {c \in CURRENCY : ~COUNTRY_OPTIONS[c].disabledPay}
usesCatalogPaymentForm(c) == COUNTRY_OPTIONS[c].uploadPaymentQR \/ Len(PAYMENT_ID_FIELDS(c)) > 1
=============================================================================
