----------------------------- MODULE PaymentIds -----------------------------
(***************************************************************************)
(* Stored payment ids (src/src/country/validators.ts and the older         *)
(* functions of pen.ts, ven.ts and idr.ts): how a form's code and fields   *)
(* become one string, what the string must pass, and how it is taken apart.*)
(* A string is the sequence of the texts between its "|": joining two with *)
(* "|" appends one to the other, and "||" leaves an empty text inside.     *)
(* Typed texts hold no "|".                                                *)
(***************************************************************************)
EXTENDS QrCodes

NoText == <<Empty>>                      \* the empty string
Nonempty(s) == SelectSeq(s, LAMBDA t : t # Empty)

(* The text of a string: itself, or all its parts with the "|" between.    *)
WrittenLength(s) == Len(s) - 1 + FoldLeft(LAMBDA n, t : n + t.len, 0, s)
Glue(s) ==
  IF Len(s) = 1 THEN s[1]
  ELSE Text(IF \E i \in DOMAIN s : Lettered(s[i]) THEN "pipedtext" ELSE "piped",
            FlattenSeq([i \in DOMAIN s |-> s[i].digits]),
            WrittenLength(s))

Keys(c) == {PAYMENT_ID_FIELDS(c)[i].key : i \in DOMAIN PAYMENT_ID_FIELDS(c)}

isPaymentIdFieldRequired(fields, i, values) ==
  \/ ~fields[i].optional
  \/ \E j \in DOMAIN fields \ {i} : fields[i].key \in fields[j].requires /\ ~IsBlank(values[j])

fieldValuesValid(fields, values) ==
  \A i \in DOMAIN fields :
     IF values[i] = Empty THEN ~isPaymentIdFieldRequired(fields, i, values)
     ELSE Valid(fields[i].rule, values[i])

(* The parts of a string by position, short ones filled up.                *)
ByPosition(fields, s) == [i \in DOMAIN fields |-> IF i <= Len(s) THEN Trim(s[i]) ELSE Empty]

validatePaymentIdFields(fields, s) ==
  /\ s # NoText
  /\ IF Len(fields) = 1 THEN Valid(fields[1].rule, Glue(s))
     ELSE IF Len(s) = 1
     THEN /\ \E i \in DOMAIN fields : fields[i].optional
          /\ \E i \in DOMAIN fields : fields[i].requires = {} /\ Valid(fields[i].rule, s[1])
     ELSE /\ fieldValuesValid(fields, ByPosition(fields, s))
          /\ \E i \in DOMAIN fields : ByPosition(fields, s)[i] # Empty

----------------------------------------------------------------------------
(* indexOf("||"): the first empty text inside.                             *)
unpackPackedPaymentId(s) ==
  IF ~HasPackSep(s) THEN [qr |-> NoText, rest |-> s]
  ELSE LET sep == Min(Gaps(s))
       IN  [qr |-> SubSeq(s, 1, sep - 1), rest |-> SubSeq(s, sep + 1, Len(s))]

(* Mutant: every country's ids are taken apart at the first "||".          *)
MutUnpackAlways(c, s) == unpackPackedPaymentId(s)

unpackForCurrency(c, s) ==
  IF usesPackedPaymentId(c) THEN unpackPackedPaymentId(s) ELSE [qr |-> NoText, rest |-> s]

payQrCandidate(s) == IF HasPackSep(s) THEN unpackPackedPaymentId(s).qr ELSE s

isPositionalCompound(fields, n) ==
  \/ n = Len(fields)
  \/ n \in 2..Len(fields) /\ \A i \in (n + 1)..Len(fields) : fields[i].optional

(* Tokens in no position go, one after the other, to the first field that  *)
(* accepts them and is still free; an empty text is no token.              *)
Claim(fields, s) ==
  LET got[n \in 0..Len(s)] ==
        IF n = 0 THEN [i \in DOMAIN fields |-> Empty]
        ELSE LET free == {i \in DOMAIN fields : got[n - 1][i] = Empty /\ Valid(fields[i].rule, s[n])}
             IN  [i \in DOMAIN fields |->
                    IF i \in free /\ \A j \in free : i <= j THEN s[n] ELSE got[n - 1][i]]
  IN  got[Len(s)]

(* The places of the tokens, and the i-th token if there are so many.      *)
Places(s) == {p \in DOMAIN s : s[p] # Empty}
Token(s, i) ==
  LET at == {p \in Places(s) : Cardinality(Places(s) \cap 1..p) = i}
  IN  IF at = {} THEN Empty ELSE s[CHOOSE p \in at : TRUE]

(* When some token found no field, fields left empty take the token of     *)
(* their own number.                                                       *)
ByClaim(fields, s) ==
  LET got == Claim(fields, s)
  IN  IF Cardinality(Places(got)) < Min({Cardinality(Places(s)), Len(fields)})
      THEN [i \in DOMAIN fields |-> IF got[i] # Empty THEN got[i] ELSE Token(s, i)]
      ELSE got

(* Mutant: a full id too is taken apart at its first "||".                 *)
MutAssignUnpacksFull(fields, s) ==
  LET rest == unpackPackedPaymentId(s).rest
  IN  IF rest = NoText THEN [i \in DOMAIN fields |-> Empty]
      ELSE IF isPositionalCompound(fields, Len(rest)) THEN ByPosition(fields, rest)
      ELSE ByClaim(fields, [i \in DOMAIN rest |-> Trim(rest[i])])

assignPaymentIdToFieldValues(fields, s) ==
  LET rest == IF Len(s) = Len(fields) THEN s ELSE unpackPackedPaymentId(s).rest
  IN  IF rest = NoText THEN [i \in DOMAIN fields |-> Empty]
      ELSE IF isPositionalCompound(fields, Len(rest)) THEN ByPosition(fields, rest)
      ELSE ByClaim(fields, [i \in DOMAIN rest |-> Trim(rest[i])])

fieldsMatchStoredId(fields, s) ==
  \/ validatePaymentIdFields(fields, s)
  \/ LET values == assignPaymentIdToFieldValues(fields, s)
     IN  (\E i \in DOMAIN fields : values[i] # Empty) /\ fieldValuesValid(fields, values)

----------------------------------------------------------------------------
(* A form's values, one per field, and its code make the stored id.        *)
packedTypedRest(values) ==
  LET parts == [i \in DOMAIN values |-> Trim(values[i])]
  IN  IF Places(parts) = {} THEN NoText ELSE parts

packStoredPaymentId(c, qr, values) ==
  LET q == IF ValidQr(c, qr) THEN qr ELSE NoText
      rest == packedTypedRest(values)
  IN  IF q # NoText /\ rest # NoText THEN q \o NoText \o rest
      ELSE IF q # NoText THEN q ELSE rest

validateStoredPaymentId(c, s) ==
  LET fields == PAYMENT_ID_FIELDS(c)
      parts == unpackForCurrency(c, s)
  IN  CASE s = NoText -> FALSE
        [] parts.qr # NoText ->
             /\ ValidQr(c, parts.qr)
             /\ parts.rest = NoText \/ fieldsMatchStoredId(fields, parts.rest)
        [] OTHER -> ValidQr(c, s) \/ fieldsMatchStoredId(fields, s)

validateCatalogPaymentDraft(c, qr, values) ==
  validateStoredPaymentId(c, packStoredPaymentId(c, qr, values))

(* Mutant: only a packed code is found, not one that stands alone.         *)
MutStoredQrPackedOnly(c, s) ==
  IF usesPackedPaymentId(c) /\ ValidQr(c, unpackPackedPaymentId(s).qr) THEN unpackPackedPaymentId(s).qr ELSE NoText

(* The code of a stored id, and what a PAY order draws: NoText is none.    *)
getStoredQrPayload(c, s) ==
  CASE usesPackedPaymentId(c) /\ ValidQr(c, unpackPackedPaymentId(s).qr) -> unpackPackedPaymentId(s).qr
    [] usesPackedPaymentId(c) /\ ValidQr(c, s) -> s
    [] OTHER -> NoText

getPayQrPayload(c, s) ==
  IF getStoredQrPayload(c, s) # NoText THEN getStoredQrPayload(c, s)
  ELSE IF Drawable(c, payQrCandidate(s)) THEN payQrCandidate(s) ELSE NoText

(* Peru's phone is filled in from the code when none was stored.           *)
hydrateFieldsFromQr(c, qr, values) ==
  [i \in DOMAIN values |->
     IF c = "PEN" /\ PAYMENT_ID_FIELDS(c)[i].key = "phone" /\ values[i] = Empty /\ qr # NoText
     THEN (IF extractPeruvianPhoneFromQr(qr) = {} THEN Empty
           ELSE CHOOSE t \in extractPeruvianPhoneFromQr(qr) : TRUE)
     ELSE values[i]]

assignStoredPaymentIdToFieldValues(c, s) ==
  LET parts == unpackForCurrency(c, s)
      drawn == IF Drawable(c, payQrCandidate(s)) THEN payQrCandidate(s) ELSE NoText
      found == CASE ValidQr(c, parts.qr) -> [qr |-> parts.qr, typed |-> parts.rest]
                 [] ValidQr(c, s) -> [qr |-> s, typed |-> NoText]
                 [] drawn # NoText -> [qr |-> drawn, typed |-> IF drawn = parts.qr THEN parts.rest ELSE NoText]
                 [] OTHER -> [qr |-> NoText, typed |-> parts.rest]
  IN  hydrateFieldsFromQr(c, found.qr, assignPaymentIdToFieldValues(PAYMENT_ID_FIELDS(c), found.typed))

(* What an order's page shows: the fields that are filled, no code.        *)
formatStoredPaymentIdForDisplay(c, s) == Nonempty(assignStoredPaymentIdToFieldValues(c, s))

----------------------------------------------------------------------------
(* The older functions of three countries, which state the rules again.    *)
isValidVenezuelanCompound(s) ==
  Len(s) = 3 /\ validateVenezuelanPhoneNumber(s[1]) /\ validateVenezuelanRif(s[2]) /\ ~IsBlank(s[3])

validateVenezuelanPaymentId(s) ==
  LET parts == unpackPackedPaymentId(s)
  IN  IF HasPackSep(s)
      THEN ValidQr("VEN", parts.qr) /\ (parts.rest = NoText \/ isValidVenezuelanCompound(parts.rest))
      ELSE ValidQr("VEN", s) \/ isValidVenezuelanCompound(s)

parseVenezuelanPaymentId(s) ==
  LET parts == IF HasPackSep(s) THEN unpackPackedPaymentId(s)
               ELSE IF ValidQr("VEN", s) THEN [qr |-> s, rest |-> NoText] ELSE [qr |-> NoText, rest |-> s]
  IN  [qr |-> IF ValidQr("VEN", parts.qr) THEN parts.qr ELSE NoText,
       compound |-> IF isValidVenezuelanCompound(parts.rest) THEN parts.rest ELSE NoText]

serializeVenezuelanPaymentId(qr, compound) ==
  LET q == IF ValidQr("VEN", qr) THEN qr ELSE NoText
  IN  IF q # NoText /\ compound # NoText THEN q \o NoText \o compound
      ELSE IF q # NoText THEN q ELSE compound

(* Mutant: every part must be a phone or an account, also an empty one.    *)
MutTypedRestNoGap(s) ==
  /\ Places(s) # {}
  /\ \A i \in DOMAIN s : validatePeruvianPhone(s[i]) \/ validatePeruvianCci(s[i])

isValidPeruvianTypedRest(s) ==
  /\ Places(s) # {}
  /\ \A i \in DOMAIN s : s[i] # Empty => validatePeruvianPhone(s[i]) \/ validatePeruvianCci(s[i])

validatePeruvianPaymentId(s) ==
  LET parts == unpackPackedPaymentId(s)
  IN  IF HasPackSep(s)
      THEN ValidQr("PEN", parts.qr) /\ (parts.rest = NoText \/ isValidPeruvianTypedRest(parts.rest))
      ELSE ValidQr("PEN", s) \/ isValidPeruvianTypedRest(s)

(* The first phone and the first account among the tokens.                 *)
FirstOf(s, Test(_)) ==
  IF \E i \in DOMAIN s : Test(s[i]) THEN normalizePeruvianPaymentKey(s[SelectInSeq(s, Test)]) ELSE Empty

parsePeruvianPaymentId(s) ==
  LET parts == IF HasPackSep(s) THEN unpackPackedPaymentId(s)
               ELSE IF ValidQr("PEN", s) THEN [qr |-> s, rest |-> NoText] ELSE [qr |-> NoText, rest |-> s]
      qr == IF ValidQr("PEN", parts.qr) THEN parts.qr ELSE NoText
      phone == FirstOf(parts.rest, validatePeruvianPhone)
  IN  [qr |-> qr, cci |-> FirstOf(parts.rest, validatePeruvianCci),
       phone |-> IF phone # Empty THEN phone
                 ELSE IF qr # NoText /\ extractPeruvianPhoneFromQr(qr) # {}
                      THEN CHOOSE t \in extractPeruvianPhoneFromQr(qr) : TRUE ELSE Empty]

serializePeruvianPaymentId(qr, phone, cci) ==
  LET q == IF ValidQr("PEN", qr) THEN qr ELSE NoText
      rest == (IF validatePeruvianPhone(phone) THEN <<normalizePeruvianPaymentKey(phone)>> ELSE <<>>)
              \o (IF validatePeruvianCci(cci) THEN <<normalizePeruvianPaymentKey(cci)>> ELSE <<>>)
  IN  IF rest = <<>> THEN q ELSE IF q # NoText THEN q \o NoText \o rest ELSE rest

parseIndonesianPaymentId(s) ==
  IF Len(s) > 1 /\ getIndonesianPaymentProviderType(s[1]) # "null" /\ ~IsBlank(Glue(Tail(s)))
  THEN {[provider |-> s[1], value |-> Glue(Tail(s))]} ELSE {}
validateIndonesianStoredPaymentId(s) ==
  \E parsed \in parseIndonesianPaymentId(s) : validateIndonesianPaymentId(parsed.provider, parsed.value)
=============================================================================
