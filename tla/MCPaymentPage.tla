---------------------------- MODULE MCPaymentPage ----------------------------
(* Texts, codes and prices for PaymentPage: for every rule at least one    *)
(* text it accepts and one it refuses, and texts that pass the rule of a   *)
(* neighbouring field.                                                     *)
EXTENDS PaymentPage

Nines(n) == [i \in 1..n |-> 9]
Run(d, n) == [i \in 1..n |-> IF i <= Len(d) THEN d[i] ELSE i % 10]   \* n digits that begin with d
Spaced(d) == Text("spaced", d, Len(d))
Dashed(d) == Text("dashed", d, Len(d) + 2)
Plus(d) == Text("plus", d, Len(d) + 1)
Letters == Text("letters", <<>>, 6)
Name == Text("name", <<>>, 9)
Word == Text("word", <<4>>, 6)
Email == Text("email", <<>>, 12)
Handle == Text("handle", <<>>, 7)
Upi == Text("upi", <<1, 2>>, 9)
Rif == Text("rif", Run(<<1>>, 8), 9)
Bank == Text("bank", <<>>, 3)
Wallet == Text("wallet", <<>>, 3)

CBU == Number(<<0,1,7,0,0,9,9,2,2,0,0,0,0,0,6,7,7,9,7,3,7,0>>)
CPF == Number(<<5,2,9,9,8,2,2,4,7,2,5>>)
CNPJ == Number(<<1,1,2,2,2,3,3,3,0,0,0,1,8,1>>)
MCTyped ==
  [argentine |-> {CBU, Number(Run(<<3>>, 22)), Email, Word, Letters},
   bolivian |-> {Blank, Number(Run(<<1>>, 8)), Dashed(Run(<<1>>, 20)), Word},
   pix |-> {CPF, Number(Nines(11)), Number(Run(<<1, 0>>, 11)), CNPJ, Number(Run(<<1>>, 14)), Email, Letters},
   colombian |-> {Number(Run(<<3>>, 10)), Number(Run(<<4>>, 10)), Handle, Letters},
   cubanPhone |-> {Empty, Blank, Number(Run(<<5>>, 8)), Plus(Run(<<5, 3>>, 10)), Number(Run(<<9>>, 16))},
   cubanCard |-> {Empty, Number(Run(<<5>>, 8)), Spaced(Run(<<9>>, 16))},
   any |-> {Empty, Blank, Letters, Number(Run(<<1>>, 10))},
   ecuadorian |-> {Empty, Number(Run(<<2>>, 10)), Letters},
   ecuadorianName |-> {Empty, Name, Number(Run(<<2>>, 10))},
   cedula |-> {Empty, Number(Run(<<1, 7>>, 10)), Number(Run(<<1, 7>>, 4))},
   egyptian |-> {Number(Run(<<0, 1, 0>>, 11)), Plus(Run(<<2, 0, 1, 5>>, 12)), Number(Run(<<0, 1, 3>>, 11))},
   revolut |-> {Handle, Email, Plus(Run(<<4>>, 12)), Text("letters", <<>>, 2), Name},
   indonesian |-> {Number(Run(<<8>>, 10)), Dashed(Run(<<8>>, 12)), Number(Run(<<8>>, 13)), Word},
   upi |-> {Upi, Email, Handle},
   kenyan |-> {Empty, Number(Run(<<0, 7>>, 10)), Number(Run(<<1>>, 7))},
   till |-> {Empty, Number(Run(<<1>>, 6)), Number(Run(<<0, 7>>, 10))},
   paybill |-> {Empty, Blank, Number(Run(<<2>>, 6)), Dashed(Run(<<2>>, 6))},
   paybillAccount |-> {Empty, Number(Run(<<3>>, 10)), Word, Email},
   mexican |-> {Number(Run(<<0>>, 18)), Spaced(Run(<<4>>, 16)), Number(Run(<<5>>, 11))},
   nuban |-> {Empty, Number(Run(<<0>>, 10)), Number(Run(<<0>>, 9))},
   nigerianName |-> {Empty, Name, Number(Run(<<0>>, 10))},
   philippine |-> {Empty, Number(Run(<<9>>, 10)), Plus(Run(<<6, 3, 9>>, 12)), Word},
   venezuelan |-> {Empty, Number(Run(<<0, 4>>, 11)), Dashed(Run(<<4>>, 10)), Rif},
   rif |-> {Empty, Rif, Number(Run(<<1>>, 8))},
   peruvian |-> {Empty, Blank, Number(Run(<<9>>, 9)), Plus(Run(<<5, 1, 9>>, 11)), Spaced(Run(<<8>>, 20))},
   cci |-> {Empty, Number(Run(<<8>>, 20)), Number(Run(<<9>>, 9))}]

(* EMVCo codes of a country, with and without what a reader looks for.     *)
EmvCodes(country, currency, account) ==
  {<<Emv(country, currency, amount, name, crc, account)>> :
      amount \in {"", "12.50", "0", "12abc"}, name \in {Empty, Letters}, crc \in {"good", "bad", "6304", "tailed"}}
Foreign == {<<Emv("AR", "032", "", Letters, "good", "")>>, <<Letters>>}

Yape(phone, crc) == <<Emv("PE", "604", "12.50", phone, crc, "")>>
Simple(n, hex) == <<Base64(n), Hex(hex)>>
MCUploads ==
  [c \in CURRENCY |->
     CASE c = "PEN" -> {NoText, Yape(Number(Run(<<9>>, 9)), "good"), Yape(Text("hex", Run(<<9>>, 9), 12), "good"),
                        Yape(Empty, "bad"), Yape(Text("glued", Run(<<5, 1, 9>>, 11), 20), "tailed")}
       [] c = "BOB" -> {NoText, Simple(44, 32), Simple(44, 20), <<Emv("BO", "068", "", Letters, "good", "")>>,
                        <<Emv("BO", "068", "", Letters, "none", "")>>}
       [] c = "VEN" -> {NoText, <<S7b(44, TRUE)>>, <<S7b(44, FALSE)>>, <<S7b(20, TRUE)>>}
       [] OTHER -> {}]

Link(pa, amount) == [form |-> "link", digits |-> <<>>, len |-> 30, pa |-> pa, amount |-> amount]
Spd(acc, amount) == [form |-> "spd", digits |-> <<1>>, len |-> 30, acc |-> acc, amount |-> amount]
Dian(cufe, numFac) == [form |-> "dian", digits |-> <<1>>, len |-> 60, cufe |-> cufe, numFac |-> numFac]
Url(host, id) == [form |-> "url", digits |-> <<>>, len |-> 40, host |-> host, id |-> id]
Movil(card, phone, amount) ==
  [form |-> "transfermovil", digits |-> <<1>>, len |-> 50, card |-> card, phone |-> phone, amount |-> amount]

Amount == {"", "12.50", "0", "12abc"}
MCScanned ==
  [c \in CURRENCY |->
     Foreign \cup
     CASE c = "INR" -> EmvCodes("NP", "524", "fonepay.com") \cup
                       {<<Link(pa, a)>> : pa \in {Upi, Letters}, a \in Amount \cup {"undefined", "null"}}
       [] c = "IDR" -> EmvCodes("ID", "360", "")
       [] c = "BRL" -> EmvCodes("BR", "986", "key") \cup EmvCodes("BR", "986", "location")
       [] c = "ARS" -> EmvCodes("AR", "999", "")
       [] c = "VEN" -> MCUploads["VEN"] \ {NoText}
       [] c = "BOB" -> (MCUploads["BOB"] \ {NoText}) \cup EmvCodes("BO", "068", "")
       [] c = "NGN" -> EmvCodes("NG", "566", "NG.COM.NIBSSPLC.QR") \cup
                       {<<Spd(acc, a)>> : acc \in {Empty, Number(Run(<<0>>, 10))}, a \in Amount \cup {Grouped}}
       [] c = "COP" -> EmvCodes("CO", "170", "") \cup EmvCodes("CO", "840", "") \cup
                       {<<Dian(x, y)>> : x, y \in {Empty, Word}}
       [] c = "CUP" -> {<<Movil(card, phone, a)>> : card \in {Spaced(Run(<<9>>, 16)), Word},
                            phone \in {Plus(Run(<<5, 3>>, 10)), Number(Run(<<5>>, 8)), Letters}, a \in Amount}
       [] c = "ECU" -> {<<Url(h, x)>> : h \in {"pagar.deuna.app", "other"}, x \in {Empty, Word}}
       [] c = "PEN" -> EmvCodes("PE", "604", "") \cup (MCUploads["PEN"] \ {NoText})
       [] c = "PHP" -> EmvCodes("PH", "608", "") \cup EmvCodes("PH", "840", "")
       [] OTHER -> {}]

(* One-token and shorter ids of the first versions, old PAY codes, and the *)
(* ids an older Indonesian form stored.                                    *)
MCInherited ==
  [c \in CURRENCY |->
     CASE c = "PEN" -> {<<t>> : t \in (MCTyped.peruvian \cup MCTyped.cci) \ {Empty, Blank}} \cup
                       {Yape(Number(Run(<<9>>, 9)), "bad"), Yape(Number(Run(<<9>>, 9)), "good") \o NoText \o <<Number(Run(<<8>>, 20))>>}
       [] c = "VEN" -> {<<S7b(44, FALSE)>>, <<S7b(44, FALSE)>> \o NoText \o <<Number(Run(<<0, 4>>, 11)), Rif, Letters>>,
                        <<Rif, Letters>>}
       [] c = "KES" -> {<<t>> : t \in (MCTyped.kenyan \cup MCTyped.till \cup MCTyped.paybillAccount) \ {Empty}} \cup
                       ({<<x, y>> : x \in MCTyped.kenyan, y \in MCTyped.till} \ {<<Empty, Empty>>})
       [] c = "IDR" -> {<<p, t>> : p \in {Bank, Wallet}, t \in MCTyped.indonesian} \cup {<<t>> : t \in MCTyped.indonesian}
       [] c = "CUP" -> {<<Number(Run(<<5>>, 8))>>, <<Spaced(Run(<<9>>, 16)), Number(Run(<<5>>, 8))>>}
       [] c = "PHP" -> {<<Emv("PH", "608", "", Letters, "bad", "")>>}
       [] c = "INR" -> {<<Emv("NP", "524", "", Letters, "bad", "fonepay.com")>>}
       [] OTHER -> {}]

(* All of them are laid out as one of the forms has laid them out.         *)
ASSUME MCInheritedAreWellLaid == OldIdsAreWellLaid
=============================================================================
