------------------------------- MODULE EmvCode -------------------------------
(***************************************************************************)
(* An EMVCo code character by character: printed with its checksum, read   *)
(* off a screen with a character wrong or its end cut off, and checked by  *)
(* the two checks of the program, the reader's (qr-parsers/utils) and the  *)
(* catalogue's (country/qr-validator.ts), each with a CRC-16 and a walk    *)
(* over the tags of its own.  A character is its code, a code a sequence.  *)
(* The ...Text operators are the functions of that name that QrCodes has   *)
(* over codes in outline.                                                  *)
(***************************************************************************)
EXTENDS Integers, SequencesExt

CONSTANTS
  Objects,    \* the data objects a code is printed from, each a sequence
  MaxObjects, \* how many one code has at most
  Wrong       \* the characters a wrong one is read as

VARIABLES
  body,   \* what was printed before the checksum
  count,  \* of how many objects
  text,   \* what was read off the code, or <<>>
  harm    \* "printing", "none", "wrong" or "cut"

emvVars == <<body, count, text, harm>>

CrcTag == <<54, 51, 48, 52>>    \* "6304"
Digit == 48..57
HexDigit == Digit \cup 65..70 \cup 97..102
Upper(c) == IF c \in 97..102 THEN c - 32 ELSE c
UpperCase(s) == [i \in DOMAIN s |-> Upper(s[i])]

----------------------------------------------------------------------------
(* Exclusive or, of a byte and of the constant 0x1021 (bits 0, 5 and 12).  *)
Xor8(a, b) ==
  LET Differ(p) == p * ((a \div p + b \div p) % 2)
  IN  Differ(1) + Differ(2) + Differ(4) + Differ(8) + Differ(16) + Differ(32) + Differ(64) + Differ(128)
Below(n) == 0..(n - 1)
Byte == Below(256)
Register == Below(65536)
Flip(n, bit) == IF (n \div bit) % 2 = 0 THEN n + bit ELSE n - bit
XorPoly(n) == Flip(Flip(Flip(n, 1), 32), 4096)

(* Each byte goes into the high half of the register, which then takes     *)
(* eight steps; a table says where from each of its values.                *)
Mix(crc, c) == 256 * Xor8(crc \div 256, c) + (crc % 256)
EightTimes(step(_)) ==
  LET Two(crc) == step(step(crc))
      Four(crc) == Two(Two(crc))
  IN  [crc \in Register |-> Four(Four(crc))]
Fed(table, s) ==
  LET crc[n \in 0..Len(s)] == IF n = 0 THEN 65535 ELSE table[Mix(crc[n - 1], s[n])]
  IN  crc[Len(s)]

(* qr-validator.ts looks at bit 15 and then shifts.                        *)
Shift15(crc) == IF crc >= 32768 THEN XorPoly((2 * crc) % 65536) ELSE 2 * crc
crc16ccitt(s) == Fed(EightTimes(Shift15), s)

(* Mutant: the carry is looked for after the register is cut to 16 bits.   *)
MutShift16Cut(crc) == IF (2 * crc) % 65536 >= 32768 THEN XorPoly((2 * crc) % 65536) ELSE (2 * crc) % 65536

(* crc16.ts shifts and then looks at bit 16.                               *)
Shift16(crc) == (IF 2 * crc >= 65536 THEN XorPoly(2 * crc) ELSE 2 * crc) % 65536
calculateCRC16(data) == Fed(EightTimes(Shift16), data \o CrcTag)

HexChar(n) == IF n < 10 THEN 48 + n ELSE 55 + n
Hex4(n) == <<HexChar(n \div 4096), HexChar((n \div 256) % 16), HexChar((n \div 16) % 16), HexChar(n % 16)>>

(* The objects of a code, until a tag or a length is no number or the value*)
(* runs past the end.                                                      *)
parseTLV(s) ==
  LET Length(pos) == 10 * (s[pos + 2] - 48) + (s[pos + 3] - 48)
      Object(pos) == /\ pos + 3 <= Len(s) /\ \A i \in pos..(pos + 3) : s[i] \in Digit
                     /\ pos + 3 + Length(pos) <= Len(s)
      From[pos \in 1..(Len(s) + 1)] ==
        IF ~Object(pos) THEN <<>>
        ELSE <<[tag |-> SubSeq(s, pos, pos + 1), value |-> SubSeq(s, pos + 4, pos + 3 + Length(pos))]>>
             \o From[pos + 4 + Length(pos)]
  IN  From[1]

(* The last value of a tag, or none.                                       *)
TagValue(s, tag) ==
  LET objects == parseTLV(s)
      at == {i \in DOMAIN objects : objects[i].tag = tag}
  IN  IF at = {} THEN <<>> ELSE objects[Max(at)].value

(* Mutant: the value of the checksum is not compared.                      *)
MutVerifyNoCompare(s) ==
  /\ Len(s) >= 8
  /\ SubSeq(s, Len(s) - 7, Len(s) - 4) = CrcTag
  /\ \A i \in (Len(s) - 3)..Len(s) : s[i] \in HexDigit

(* Mutant: the checksum is looked for at the first "6304".                 *)
MutVerifyFirstMarker(s) ==
  LET at == {i \in 1..(Len(s) - 3) : SubSeq(s, i, i + 3) = CrcTag}
  IN  at # {} /\ LET i == CHOOSE i \in at : \A j \in at : i <= j
                 IN  Hex4(calculateCRC16(SubSeq(s, 1, i - 1))) = UpperCase(SubSeq(s, i + 4, Len(s)))

(* The reader: the checksum is the last object, at its place from the end. *)
verifyCRC16Text(s) ==
  /\ Len(s) >= 8
  /\ SubSeq(s, Len(s) - 7, Len(s) - 4) = CrcTag
  /\ \A i \in (Len(s) - 3)..Len(s) : s[i] \in HexDigit
  /\ Hex4(calculateCRC16(SubSeq(s, 1, Len(s) - 8))) = UpperCase(SubSeq(s, Len(s) - 3, Len(s)))

(* The catalogue: the checksum is what follows the last "6304".            *)
LastMarker(s) ==
  LET at == {i \in 1..(Len(s) - 3) : SubSeq(s, i, i + 3) = CrcTag}
  IN  IF at = {} THEN 0 ELSE CHOOSE i \in at : \A j \in at : j <= i

validateEmvcoText(s, country, currency) ==
  /\ TagValue(s, <<53, 56>>) = country /\ TagValue(s, <<53, 51>>) = currency
  /\ TagValue(s, <<54, 51>>) # <<>> /\ LastMarker(s) > 0
  /\ Hex4(crc16ccitt(SubSeq(s, 1, LastMarker(s) + 3))) = UpperCase(TagValue(s, <<54, 51>>))

PE == <<80, 69>>
Soles == <<54, 48, 52>>
validatePeruvianText(s) == validateEmvcoText(s, PE, Soles)

----------------------------------------------------------------------------
EmvInit == body = <<>> /\ count = 0 /\ text = <<>> /\ harm = "printing"

(* Two digits of tag, two of length, and as many characters.               *)
WellFormed(o) ==
  /\ Len(o) >= 4 /\ \A i \in 1..4 : o[i] \in Digit
  /\ Len(o) = 4 + 10 * (o[3] - 48) + (o[4] - 48)

AddObject(o) ==
  /\ harm = "printing" /\ count < MaxObjects
  /\ body' = body \o o /\ count' = count + 1 /\ UNCHANGED <<text, harm>>

(* The issuer's checksum is the standard's.                                *)
Issued(s) == s \o CrcTag \o Hex4(crc16ccitt(s \o CrcTag))

Show ==
  /\ harm = "printing" /\ count > 0
  /\ harm' = "none" /\ text' = Issued(body) /\ UNCHANGED <<body, count>>

(* A wrong character, and not just another case of a checksum's letter.    *)
ReadWrong(i, c) ==
  /\ harm = "none" /\ Upper(c) # Upper(text[i])
  /\ harm' = "wrong" /\ text' = [text EXCEPT ![i] = c] /\ UNCHANGED <<body, count>>

CutOff(n) ==
  /\ harm = "none" /\ harm' = "cut"
  /\ text' = SubSeq(text, 1, Len(text) - n) /\ UNCHANGED <<body, count>>

EmvNext ==
  \/ \E o \in Objects : AddObject(o)
  \/ Show
  \/ harm = "none" /\ \E i \in DOMAIN text, c \in Wrong : ReadWrong(i, c)
  \/ harm = "none" /\ \E n \in 1..Len(text) : CutOff(n)

EmvSpec == EmvInit /\ [][EmvNext]_emvVars

----------------------------------------------------------------------------
(* Invariant: the two implementations of the checksum agree on what is     *)
(* printed, and both leave nothing over when they are fed their own result *)
(* (the property that defines a CRC).                                      *)
ChecksumsAgree ==
  harm = "printing" =>
    LET crc == crc16ccitt(body \o CrcTag)
    IN  /\ calculateCRC16(body) = crc
        /\ crc16ccitt(body \o CrcTag \o <<crc \div 256, crc % 256>>) = 0

(* A code read wrong in one character or cut short passes neither of the   *)
(* two checks, whose walks and ways to find the checksum differ.           *)
MisreadIsRefused == harm \in {"wrong", "cut"} => ~verifyCRC16Text(text) /\ ~validatePeruvianText(text)

(* A code read as it was printed passes the reader's check, and the        *)
(* catalogue's when it names Peru and its money; but the catalogue's takes *)
(* a checksum that is 6304 itself for the tag (qr-validator.ts:57).        *)
Peruvian == TagValue(text, <<53, 56>>) = PE /\ TagValue(text, <<53, 51>>) = Soles
GenuineIsRead ==
  harm = "none" =>
    /\ verifyCRC16Text(text)
    /\ Peruvian /\ SubSeq(text, Len(text) - 3, Len(text)) # CrcTag => validatePeruvianText(text)

(* Invariant: the two checks tell a code read as printed from a misread.   *)
(* qr-parsers/utils/crc16.ts:32-60, country/qr-validator.ts:35-62.         *)
GenuineOrRefused == MisreadIsRefused /\ GenuineIsRead

(* What qr-validator.ts:30-33 says of the upload check: country, currency  *)
(* and a matching checksum are all it asks.                                *)
GenuineIsStored == harm = "none" /\ Peruvian => validatePeruvianText(text)
=============================================================================
