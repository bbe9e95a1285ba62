---------------------------- MODULE EmvCodeProofs ----------------------------
(***************************************************************************)
(* What the two checks make of any code an issuer prints, of any length and*)
(* characters: their checksums are the same function, both pass the code as*)
(* printed and refuse it with one character wrong or its end cut off.  A   *)
(* step of the register loses nothing, so neither does the table (Tables); *)
(* two texts that differ once leave different registers (OneWrong); the    *)
(* walk over whole objects finds the checksum last (ChecksumIsLast).  EmvInv*)
(* is inductive and says where the text that is checked comes from.        *)
(***************************************************************************)
EXTENDS EmvCode, WellFoundedInduction, SequenceTheorems, TLAPS

----------------------------------------------------------------------------
(* The register.                                                           *)

LEMMA Between == \A n \in Int : \A x : x \in Below(n) <=> x \in Nat /\ x < n
BY DEF Below

LEMMA Words == \A x : x \in Register <=> x \in Nat /\ x < 65536
BY Between DEF Register

LEMMA Bytes == \A x : x \in Byte <=> x \in Nat /\ x < 256
BY Between DEF Byte

(* A bit turned over is the only one that changes, and comes back when it  *)
(* is turned over again; a carry beyond the register is left alone.        *)
LEMMA Flips ==
  ASSUME NEW n \in Register
  PROVE  /\ Flip(n, 1) \in Register /\ Flip(n, 32) \in Register /\ Flip(n, 4096) \in Register
         /\ Flip(Flip(n, 1), 1) = n /\ Flip(Flip(n, 32), 32) = n /\ Flip(Flip(n, 4096), 4096) = n
         /\ Flip(n + 65536, 1) = Flip(n, 1) + 65536
         /\ Flip(n + 65536, 32) = Flip(n, 32) + 65536
         /\ Flip(n + 65536, 4096) = Flip(n, 4096) + 65536
         /\ Flip(n, 1) % 2 = 1 - (n % 2) /\ Flip(n, 32) % 2 = n % 2 /\ Flip(n, 4096) % 2 = n % 2
<1>1. /\ Flip(n, 1) \in Register /\ Flip(Flip(n, 1), 1) = n /\ Flip(n + 65536, 1) = Flip(n, 1) + 65536
      /\ Flip(n, 1) % 2 = 1 - (n % 2)
  BY Words DEF Flip
<1>2. /\ Flip(n, 32) \in Register /\ Flip(Flip(n, 32), 32) = n /\ Flip(n + 65536, 32) = Flip(n, 32) + 65536
      /\ Flip(n, 32) % 2 = n % 2
  BY Words DEF Flip
<1>3. /\ Flip(n, 4096) \in Register /\ Flip(Flip(n, 4096), 4096) = n /\ Flip(n + 65536, 4096) = Flip(n, 4096) + 65536
      /\ Flip(n, 4096) % 2 = n % 2
  BY Words DEF Flip
<1> QED BY <1>1, <1>2, <1>3

LEMMA Polynomial ==
  ASSUME NEW n \in Register
  PROVE  /\ XorPoly(n) \in Register /\ XorPoly(n) % 2 = 1 - (n % 2)
         /\ XorPoly(n + 65536) = XorPoly(n) + 65536
         /\ \A m \in Register : XorPoly(n) = XorPoly(m) => n = m
<1> DEFINE a == Flip(n, 1)
           b == Flip(a, 32)
<1>1. a \in Register /\ b \in Register /\ XorPoly(n) = Flip(b, 4096)
  BY Flips DEF XorPoly
<1>2. XorPoly(n) \in Register /\ XorPoly(n) % 2 = 1 - (n % 2)
  BY <1>1, Flips
<1>3. XorPoly(n + 65536) = XorPoly(n) + 65536
  BY <1>1, Flips DEF XorPoly
<1>4. ASSUME NEW m \in Register, XorPoly(n) = XorPoly(m) PROVE n = m
  <2> DEFINE c == Flip(m, 1)
             d == Flip(c, 32)
  <2>1. c \in Register /\ d \in Register /\ XorPoly(m) = Flip(d, 4096)
    BY Flips DEF XorPoly
  <2>2. b = d
    <3> HIDE DEF b, d
    <3> QED BY <1>1, <1>4, <2>1, Flips
  <2>3. a = c
    <3> HIDE DEF a, c
    <3> QED BY <1>1, <2>1, <2>2, Flips
  <2> QED BY <2>3, Flips
<1> QED BY <1>2, <1>3, <1>4

(* The two ways to step are one, and lose nothing.                         *)
LEMMA Steps ==
  ASSUME NEW n \in Register
  PROVE  /\ Shift15(n) \in Register /\ Shift16(n) = Shift15(n)
         /\ n < 32768 => Shift15(n) = 2 * n
         /\ \A m \in Register : Shift15(n) = Shift15(m) => n = m
<1> DEFINE Cut(k) == (2 * k) % 65536
<1>1. \A k \in Register : Cut(k) \in Register /\ Cut(k) % 2 = 0 /\ (k >= 32768 => 2 * k = Cut(k) + 65536 /\ Cut(k) = 2 * k - 65536)
  BY Words
<1>2. \A k \in Register : k < 32768 => 2 * k \in Register /\ (2 * k) % 2 = 0 /\ (2 * k) % 65536 = 2 * k
  BY Words
<1>3. \A k \in Register : k >= 32768 => Shift15(k) = XorPoly(Cut(k)) /\ Shift15(k) \in Register /\ Shift15(k) % 2 = 1
  BY <1>1, Polynomial DEF Shift15
<1>4. \A k \in Register : k < 32768 => Shift15(k) = 2 * k /\ Shift15(k) \in Register /\ Shift15(k) % 2 = 0
  BY <1>2, Words DEF Shift15
<1>5. CASE n >= 32768
  <2>1. XorPoly(2 * n) = XorPoly(Cut(n)) + 65536
    BY <1>1, <1>5, Polynomial
  <2>2. (XorPoly(Cut(n)) + 65536) % 65536 = XorPoly(Cut(n))
    <3>1. XorPoly(Cut(n)) \in Register
      BY <1>1, Polynomial
    <3>2. \A x \in Register : (x + 65536) % 65536 = x
      BY Words
    <3> QED BY <3>1, <3>2
  <2>3. Shift16(n) = Shift15(n)
    <3>1. 2 * n >= 65536
      BY <1>5, Words
    <3> QED BY <1>3, <1>5, <2>1, <2>2, <3>1 DEF Shift16
  <2>4. ASSUME NEW m \in Register, Shift15(n) = Shift15(m) PROVE n = m
    <3>1. m >= 32768
      BY <1>3, <1>4, <1>5, <2>4, Words
    <3>2. Cut(n) = Cut(m)
      BY <1>1, <1>3, <1>5, <2>4, <3>1, Polynomial
    <3>3. n \in Nat /\ m \in Nat
      BY Words
    <3>4. 2 * n = Cut(n) + 65536 /\ 2 * m = Cut(m) + 65536
      BY <1>1, <1>5, <3>1
    <3>5. Cut(n) \in Nat
      BY <1>1, Words
    <3> HIDE DEF Cut
    <3> QED BY <3>2, <3>3, <3>4, <3>5
  <2> QED BY <1>3, <1>5, <2>3, <2>4, Words
<1>6. CASE n < 32768
  <2>1. Shift16(n) = Shift15(n)
    <3>1. ~(2 * n >= 65536)
      BY <1>6, Words
    <3> QED BY <1>2, <1>4, <1>6, <3>1 DEF Shift16
  <2>2. ASSUME NEW m \in Register, Shift15(n) = Shift15(m) PROVE n = m
    <3>1. m < 32768
      BY <1>3, <1>4, <1>6, <2>2, Words
    <3> QED BY <1>4, <1>6, <2>2, <3>1, Words
  <2> QED BY <1>4, <1>6, <2>1, <2>2
<1> QED BY <1>5, <1>6, Words

(* The table of the catalogue's check is the reader's, loses nothing, and  *)
(* lifts what is in the low half of the register to the high half.         *)
Table == EightTimes(Shift15)

LEMMA Tables ==
  /\ EightTimes(Shift16) = Table /\ Table \in [Register -> Register]
  /\ \A n, m \in Register : Table[n] = Table[m] => n = m
  /\ \A b \in Byte : b \in Register /\ Table[b] = 256 * b
<1> DEFINE Two(n) == Shift15(Shift15(n))
           Four(n) == Two(Two(n))
           Two16(n) == Shift16(Shift16(n))
           Four16(n) == Two16(Two16(n))
<1>1. Table = [n \in Register |-> Four(Four(n))] /\ EightTimes(Shift16) = [n \in Register |-> Four16(Four16(n))]
  BY DEF Table, EightTimes
<1>2. \A n \in Register : Two(n) \in Register /\ Two16(n) = Two(n)
  BY Steps
<1>3. \A n, m \in Register : Two(n) = Two(m) => n = m
  BY Steps
<1>4. \A b \in Register : b < 16384 => Two(b) = 4 * b /\ 4 * b \in Register
  <2>1. ASSUME NEW b \in Register, b < 16384 PROVE Two(b) = 4 * b /\ 4 * b \in Register
    <3>1. 2 * b \in Register /\ 2 * b < 32768 /\ b < 32768 /\ 2 * (2 * b) = 4 * b /\ 4 * b \in Register
      BY <2>1, Words
    <3>2. Shift15(b) = 2 * b /\ Shift15(2 * b) = 2 * (2 * b)
      BY <3>1, Steps
    <3> QED BY <3>1, <3>2
  <2> QED BY <2>1
<1> HIDE DEF Two, Two16
<1>5. \A n \in Register : Four(n) \in Register /\ Four16(n) = Four(n)
  BY <1>2
<1>6. \A n, m \in Register : Four(n) = Four(m) => n = m
  BY <1>2, <1>3
<1>7. \A b \in Register : b < 4096 => Four(b) = 16 * b /\ 16 * b \in Register
  <2>1. ASSUME NEW b \in Register, b < 4096 PROVE Four(b) = 16 * b /\ 16 * b \in Register
    <3>1. 4 * b \in Register /\ 4 * b < 16384 /\ b < 16384 /\ 4 * (4 * b) = 16 * b /\ 16 * b \in Register
      BY <2>1, Words
    <3>2. Two(b) = 4 * b /\ Two(4 * b) = 4 * (4 * b)
      BY <1>4, <3>1
    <3> QED BY <3>1, <3>2
  <2> QED BY <2>1
<1> HIDE DEF Four, Four16
<1>8. \A n \in Register : Four(Four(n)) \in Register /\ Four16(Four16(n)) = Four(Four(n))
  BY <1>5
<1>9. \A n \in Register : Table[n] = Four(Four(n))
  BY <1>1
<1>10. \A n, m \in Register : Table[n] = Table[m] => n = m
  BY <1>5, <1>6, <1>9
<1>11. ASSUME NEW b \in Byte PROVE b \in Register /\ Table[b] = 256 * b
  <2>1. b \in Register /\ 16 * b \in Register /\ 16 * b < 4096 /\ b < 4096 /\ 16 * (16 * b) = 256 * b
    BY Bytes, Words
  <2>2. Four(b) = 16 * b /\ Four(16 * b) = 16 * (16 * b)
    BY <1>7, <2>1
  <2> QED BY <1>9, <2>1, <2>2
<1>12. Table \in [Register -> Register] /\ EightTimes(Shift16) = Table
  <2> HIDE DEF Table
  <2> QED BY <1>1, <1>8
<1> QED BY <1>10, <1>11, <1>12

(* A byte is the sum of its bits, and a sum of bits has one way to be made.*)
Powers == {1, 2, 4, 8, 16, 32, 64, 128}
Quot(a, p) == a \div p
Bit(a, p) == Quot(a, p) % 2
Sum8(d1, d2, d4, d8, d16, d32, d64, d128) ==
  1 * d1 + 2 * d2 + 4 * d4 + 8 * d8 + 16 * d16 + 32 * d32 + 64 * d64 + 128 * d128

LEMMA Quotients == \A a \in Byte, p \in Powers : Quot(a, p) \in Nat
<1> SUFFICES ASSUME NEW a \in Byte, NEW p \in Powers PROVE a \div p \in Nat
  BY DEF Quot
<1>1. a \in Nat
  BY Bytes
<1> QED BY <1>1 DEF Powers

LEMMA Bits ==
  ASSUME NEW a \in Byte
  PROVE  a = Sum8(Bit(a, 1), Bit(a, 2), Bit(a, 4), Bit(a, 8), Bit(a, 16), Bit(a, 32), Bit(a, 64), Bit(a, 128))
<1>1. a \in Nat /\ a < 256
  BY Bytes
<1>2. /\ a = 2 * (a \div 2) + Bit(a, 1) /\ a \div 2 = 2 * (a \div 4) + Bit(a, 2)
      /\ a \div 4 = 2 * (a \div 8) + Bit(a, 4) /\ a \div 8 = 2 * (a \div 16) + Bit(a, 8)
  BY <1>1 DEF Bit, Quot
<1>3. /\ a \div 16 = 2 * (a \div 32) + Bit(a, 16) /\ a \div 32 = 2 * (a \div 64) + Bit(a, 32)
      /\ a \div 64 = 2 * (a \div 128) + Bit(a, 64) /\ a \div 128 = Bit(a, 128)
  BY <1>1 DEF Bit, Quot
<1>4. \A p \in {1, 2, 4, 8, 16, 32, 64, 128} : Bit(a, p) \in Int
  BY <1>1 DEF Bit, Quot
<1> QED BY <1>1, <1>2, <1>3, <1>4 DEF Sum8

(* Exclusive or with either operand loses nothing.                         *)
LEMMA Exclusive ==
  ASSUME NEW a \in Byte, NEW b \in Byte
  PROVE  /\ Xor8(a, b) \in Byte /\ Xor8(a, b) = Xor8(b, a) /\ Xor8(a, a) = 0
         /\ \A c \in Byte : Xor8(a, b) = Xor8(a, c) => b = c
<1> DEFINE D(x, y, p) == (Quot(x, p) + Quot(y, p)) % 2
           Sum(x, y) == Sum8(D(x, y, 1), D(x, y, 2), D(x, y, 4), D(x, y, 8),
                             D(x, y, 16), D(x, y, 32), D(x, y, 64), D(x, y, 128))
<1>1. \A x, y \in Nat : (x + y) % 2 \in 0..1 /\ (x + y) % 2 = (y + x) % 2 /\ (x + x) % 2 = 0
  OBVIOUS
<1>2. \A x, y, z \in Nat : (x + y) % 2 = (x + z) % 2 => y % 2 = z % 2
  OBVIOUS
<1>3. \A x, y : Xor8(x, y) = Sum(x, y)
  BY DEF Xor8, Sum8, Quot
<1>4. \A x, y \in Byte : \A p \in Powers : D(x, y, p) \in 0..1 /\ D(x, y, p) = D(y, x, p) /\ D(x, x, p) = 0
  BY <1>1, Quotients
<1>5. \A x, y, z \in Byte : \A p \in Powers : D(x, y, p) = D(x, z, p) => Bit(y, p) = Bit(z, p)
  BY <1>2, Quotients DEF Bit
<1> HIDE DEF D
<1>6. \A p : p \in Powers <=> p = 1 \/ p = 2 \/ p = 4 \/ p = 8 \/ p = 16 \/ p = 32 \/ p = 64 \/ p = 128
  BY DEF Powers
<1>7. ASSUME NEW x \in Byte, NEW y \in Byte
      PROVE  /\ D(x, y, 1) \in 0..1 /\ D(x, y, 2) \in 0..1 /\ D(x, y, 4) \in 0..1 /\ D(x, y, 8) \in 0..1
             /\ D(x, y, 16) \in 0..1 /\ D(x, y, 32) \in 0..1 /\ D(x, y, 64) \in 0..1 /\ D(x, y, 128) \in 0..1
  BY <1>4, <1>6
<1>8. Xor8(a, b) \in Byte
  <2>1. /\ D(a, b, 1) \in 0..1 /\ D(a, b, 2) \in 0..1 /\ D(a, b, 4) \in 0..1 /\ D(a, b, 8) \in 0..1
        /\ D(a, b, 16) \in 0..1 /\ D(a, b, 32) \in 0..1 /\ D(a, b, 64) \in 0..1 /\ D(a, b, 128) \in 0..1
    BY <1>7
  <2>2. Sum(a, b) \in Nat /\ Sum(a, b) < 256
    BY <2>1 DEF Sum8
  <2> HIDE DEF Sum
  <2> QED BY <1>3, <2>2, Bytes
<1>9. Xor8(a, b) = Xor8(b, a)
  BY <1>3, <1>4, <1>6
<1>10. Xor8(a, a) = 0
  <2>1. /\ D(a, a, 1) = 0 /\ D(a, a, 2) = 0 /\ D(a, a, 4) = 0 /\ D(a, a, 8) = 0
        /\ D(a, a, 16) = 0 /\ D(a, a, 32) = 0 /\ D(a, a, 64) = 0 /\ D(a, a, 128) = 0
    BY <1>4, <1>6
  <2>2. Sum(a, a) = 0
    BY <2>1 DEF Sum8
  <2> QED BY <1>3, <2>2
<1>11. ASSUME NEW c \in Byte, Xor8(a, b) = Xor8(a, c) PROVE b = c
  <2>1. Sum(a, b) = Sum(a, c)
    BY <1>3, <1>11
  <2>2. /\ D(a, b, 1) \in 0..1 /\ D(a, b, 2) \in 0..1 /\ D(a, b, 4) \in 0..1 /\ D(a, b, 8) \in 0..1
        /\ D(a, b, 16) \in 0..1 /\ D(a, b, 32) \in 0..1 /\ D(a, b, 64) \in 0..1 /\ D(a, b, 128) \in 0..1
    BY <1>7
  <2>3. /\ D(a, c, 1) \in 0..1 /\ D(a, c, 2) \in 0..1 /\ D(a, c, 4) \in 0..1 /\ D(a, c, 8) \in 0..1
        /\ D(a, c, 16) \in 0..1 /\ D(a, c, 32) \in 0..1 /\ D(a, c, 64) \in 0..1 /\ D(a, c, 128) \in 0..1
    BY <1>7
  <2>4. /\ D(a, b, 1) = D(a, c, 1) /\ D(a, b, 2) = D(a, c, 2) /\ D(a, b, 4) = D(a, c, 4)
        /\ D(a, b, 8) = D(a, c, 8) /\ D(a, b, 16) = D(a, c, 16) /\ D(a, b, 32) = D(a, c, 32)
        /\ D(a, b, 64) = D(a, c, 64) /\ D(a, b, 128) = D(a, c, 128)
    BY <2>1, <2>2, <2>3, SMTT(60) DEF Sum8
  <2>5. \A p \in Powers : Bit(b, p) = Bit(c, p)
    BY <1>5, <1>6, <2>4
  <2> QED BY <1>6, <2>5, Bits
<1> QED BY <1>8, <1>9, <1>10, <1>11

(* A byte goes into the register without loss.                             *)
LEMMA Mixes ==
  ASSUME NEW n \in Register, NEW c \in Byte
  PROVE  /\ Mix(n, c) \in Register
         /\ \A d \in Byte : Mix(n, c) = Mix(n, d) => c = d
         /\ \A m \in Register : Mix(n, c) = Mix(m, c) => n = m
<1>1. ASSUME NEW k \in Register
      PROVE  k \div 256 \in Byte /\ k % 256 \in Byte /\ k = 256 * (k \div 256) + (k % 256)
  <2>1. k \in Nat /\ k < 65536
    BY Words
  <2>2. k \div 256 \in Nat /\ k \div 256 < 256 /\ k % 256 \in Nat /\ k % 256 < 256
        /\ k = 256 * (k \div 256) + (k % 256)
    BY <2>1
  <2> QED BY <2>2, Bytes
<1>2. \A x, y \in Byte : 256 * x + y \in Register
  BY Words, Bytes
<1>3. \A x, y, z, w \in Byte : 256 * x + y = 256 * z + w => x = z /\ y = w
  BY Bytes
<1>4. \A k \in Register, d \in Byte : Xor8(k \div 256, d) \in Byte
  BY <1>1, Exclusive
<1>5. Mix(n, c) \in Register
  BY <1>1, <1>2, <1>4 DEF Mix
<1>6. ASSUME NEW d \in Byte, Mix(n, c) = Mix(n, d) PROVE c = d
  <2>1. Xor8(n \div 256, c) = Xor8(n \div 256, d)
    BY <1>1, <1>3, <1>4, <1>6 DEF Mix
  <2> QED BY <1>1, <2>1, Exclusive
<1>7. ASSUME NEW m \in Register, Mix(n, c) = Mix(m, c) PROVE n = m
  <2>1. Xor8(n \div 256, c) = Xor8(m \div 256, c) /\ n % 256 = m % 256
    BY <1>1, <1>3, <1>4, <1>7 DEF Mix
  <2>2. n \div 256 = m \div 256
    BY <1>1, <2>1, Exclusive
  <2> DEFINE High(k) == k \div 256
             Low(k) == k % 256
  <2>3. n = 256 * High(n) + Low(n) /\ m = 256 * High(m) + Low(m) /\ High(n) = High(m) /\ Low(n) = Low(m)
    BY <1>1, <2>1, <2>2
  <2> HIDE DEF High, Low
  <2> QED BY <2>3
<1> QED BY <1>5, <1>6, <1>7

(* The two halves of the register, fed to it one after the other.          *)
LEMMA HighHalf ==
  ASSUME NEW n \in Register
  PROVE  n \div 256 \in Byte /\ n % 256 \in Byte /\ Mix(n, n \div 256) = n % 256
<1>1. n \in Nat /\ n < 65536
  BY Words
<1>2. n \div 256 \in Nat /\ n \div 256 < 256 /\ n % 256 \in Nat /\ n % 256 < 256
  BY <1>1
<1>3. n \div 256 \in Byte /\ n % 256 \in Byte
  BY <1>2, Bytes
<1>4. Xor8(n \div 256, n \div 256) = 0
  BY <1>3, Exclusive
<1>5. Mix(n, n \div 256) = n % 256
  BY <1>2, <1>4 DEF Mix
<1> QED BY <1>3, <1>5

LEMMA LowHalf ==
  ASSUME NEW c \in Byte PROVE 256 * c \in Register /\ Mix(256 * c, c) = 0
<1>1. (256 * c) \div 256 = c /\ (256 * c) % 256 = 0 /\ 256 * c \in Register
  BY Words, Bytes
<1>2. Xor8(c, c) = 0
  BY Exclusive
<1> QED BY <1>1, <1>2 DEF Mix

----------------------------------------------------------------------------
(* The register along a text.                                              *)

LEMMA SmallestExists ==
  ASSUME NEW S \in SUBSET Nat, S # {} PROVE \E m \in S : \A i \in S : m <= i
<1> DEFINE R == {ss \in Nat \X Nat : ss[1] < ss[2]}
<1>1. IsWellFoundedOn(R, Nat)
  BY NatLessThanWellFounded DEF OpToRel
<1> HIDE DEF R
<1>2. PICK m \in S : \A i \in S : <<i, m>> \notin R
  BY <1>1, WFMin
<1>3. ASSUME NEW i \in S PROVE m <= i
  <2>1. ~(i < m)
    BY <1>2 DEF R
  <2> QED BY <2>1
<1> QED BY <1>3

(* What the register becomes with one character.                           *)
Feed(n, c) == Table[Mix(n, c)]

LEMMA Feeds ==
  ASSUME NEW n \in Register, NEW c \in Byte
  PROVE  /\ Feed(n, c) \in Register
         /\ \A d \in Byte : Feed(n, c) = Feed(n, d) => c = d
         /\ \A m \in Register : Feed(n, c) = Feed(m, c) => n = m
<1>1. \A m \in Register, d \in Byte : Mix(m, d) \in Register
  BY Mixes
<1>2. (\A d \in Byte : Mix(n, c) = Mix(n, d) => c = d) /\ (\A m \in Register : Mix(n, c) = Mix(m, c) => n = m)
  BY Mixes
<1> QED BY <1>1, <1>2, Tables DEF Feed

(* What the register holds after each of the first n characters.           *)
Runs(s, n, g) ==
  /\ g \in [0..n -> Register]
  /\ g[0] = 65535 /\ \A k \in 1..n : g[k] = Feed(g[k - 1], s[k])

LEMMA Run ==
  ASSUME NEW s \in Seq(Byte), NEW n \in 0..Len(s)
  PROVE  \E g : Runs(s, n, g)
<1> DEFINE Bad == {m \in 0..Len(s) : ~\E g : Runs(s, m, g)}
<1>1. SUFFICES ASSUME Bad # {} PROVE FALSE
  OBVIOUS
<1>2. Bad \in SUBSET Nat /\ Len(s) \in Nat
  OBVIOUS
<1>3. PICK m \in Bad : \A i \in Bad : m <= i
  <2> HIDE DEF Bad
  <2> QED BY <1>1, <1>2, SmallestExists
<1>4. m \in Nat /\ m <= Len(s) /\ ~\E g : Runs(s, m, g)
  BY <1>2
<1>5. CASE m = 0
  <2> DEFINE g == [k \in 0..0 |-> 65535]
  <2>1. 65535 \in Register
    BY Words
  <2>2. g \in [0..0 -> Register] /\ g[0] = 65535 /\ 1..0 = {}
    BY <2>1
  <2> HIDE DEF g
  <2> QED BY <1>4, <1>5, <2>2 DEF Runs
<1>6. CASE m # 0
  <2>1. m - 1 \in 0..Len(s) /\ ~(m <= m - 1) /\ m \in 1..Len(s) /\ m - 1 \in Nat
    BY <1>2, <1>4, <1>6
  <2>2. PICK g : Runs(s, m - 1, g)
    BY <1>3, <2>1
  <2> DEFINE f == [k \in 0..m |-> IF k = m THEN Feed(g[m - 1], s[m]) ELSE g[k]]
  <2>3. g \in [0..(m - 1) -> Register] /\ g[0] = 65535 /\ \A k \in 1..(m - 1) : g[k] = Feed(g[k - 1], s[k])
    BY <2>2 DEF Runs
  <2>4. /\ \A k \in 0..m : k # m => k \in 0..(m - 1)
        /\ \A k \in 1..m : k # m => k \in 1..(m - 1)
        /\ \A k \in 1..m : k - 1 \in 0..m /\ k - 1 # m /\ k \in 0..m
        /\ 0 \in 0..m /\ m \in 0..m /\ m - 1 \in 0..(m - 1)
    BY <1>4, <2>1
  <2>5. Feed(g[m - 1], s[m]) \in Register
    <3>1. g[m - 1] \in Register /\ s[m] \in Byte
      BY <2>1, <2>3, <2>4
    <3> QED BY <3>1, Feeds
  <2>6. f \in [0..m -> Register]
    BY <2>3, <2>4, <2>5
  <2>7. f[0] = 65535
    BY <1>6, <2>3, <2>4
  <2>8. ASSUME NEW k \in 1..m PROVE f[k] = Feed(f[k - 1], s[k])
    <3>1. k - 1 \in 0..m /\ k - 1 # m /\ k \in 0..m
      BY <2>4
    <3>2. f[k - 1] = g[k - 1]
      BY <3>1
    <3>3. CASE k = m
      BY <3>1, <3>2, <3>3
    <3>4. CASE k # m
      <4>1. k \in 1..(m - 1)
        BY <2>4, <3>4
      <4> QED BY <2>3, <3>1, <3>2, <3>4, <4>1
    <3> QED BY <3>3, <3>4
  <2>9. Runs(s, m, f)
    <3> HIDE DEF f
    <3> QED BY <2>6, <2>7, <2>8 DEF Runs
  <2> QED BY <1>4, <2>9
<1> QED BY <1>5, <1>6

(* The checksum of a text is what the register holds at its end.           *)
LEMMA FedRuns ==
  ASSUME NEW s \in Seq(Byte)
  PROVE  \E g : Runs(s, Len(s), g) /\ Fed(Table, s) = g[Len(s)]
<1> DEFINE L == Len(s)
           Value(crc, n) == IF n = 0 THEN 65535 ELSE Feed(crc[n - 1], s[n])
           Step(crc) == [n \in 0..L |-> Value(crc, n)]
<1>1. Fed(Table, s) = (CHOOSE crc : crc = Step(crc))[L]
  BY DEF Fed, Feed
<1>2. L \in Nat /\ L \in 0..Len(s)
  OBVIOUS
<1>3. PICK g : Runs(s, L, g)
  BY <1>2, Run
<1>4. g = Step(g)
  <2>1. g \in [0..L -> Register] /\ g[0] = 65535 /\ \A k \in 1..L : g[k] = Feed(g[k - 1], s[k])
    BY <1>3 DEF Runs
  <2>2. \A n \in 0..L : n # 0 => n \in 1..L
    BY <1>2
  <2> HIDE DEF L
  <2> QED BY <2>1, <2>2
<1>5. PICK crc : crc = Step(crc) /\ Fed(Table, s) = crc[L]
  <2> HIDE DEF Step, L
  <2> QED BY <1>1, <1>4
<1>6. crc[0] = 65535 /\ \A k \in 1..L : crc[k] = Feed(crc[k - 1], s[k])
  <2>1. 0 \in 0..L /\ \A k \in 1..L : k \in 0..L /\ k # 0
    BY <1>2
  <2>2. \A n \in 0..L : Step(crc)[n] = Value(crc, n)
    <3> HIDE DEF Value
    <3> QED OBVIOUS
  <2>3. Value(crc, 0) = 65535 /\ \A k \in 1..L : Value(crc, k) = Feed(crc[k - 1], s[k])
    BY <2>1
  <2> HIDE DEF Step, Value, L
  <2> QED BY <1>5, <2>1, <2>2, <2>3
<1> DEFINE Bad == {n \in 0..L : crc[n] \notin Register}
<1>7. Bad = {}
  <2>1. SUFFICES ASSUME Bad # {} PROVE FALSE
    OBVIOUS
  <2>2. PICK m \in Bad : \A i \in Bad : m <= i
    <3>1. Bad \in SUBSET Nat
      BY <1>2
    <3> HIDE DEF Bad
    <3> QED BY <2>1, <3>1, SmallestExists
  <2>3. m # 0
    <3>1. 65535 \in Register
      BY Words
    <3> QED BY <1>6, <3>1
  <2>4. m - 1 \in 0..L /\ m \in 1..L /\ ~(m <= m - 1)
    BY <1>2, <2>3
  <2>5. crc[m - 1] \in Register /\ s[m] \in Byte
    BY <2>2, <2>4
  <2> QED BY <1>6, <2>4, <2>5, Feeds
<1>8. Runs(s, L, crc)
  <2>1. \A n \in 0..L : crc[n] \in Register
    BY <1>7
  <2>2. \A n \in 0..L : Step(crc)[n] = Value(crc, n)
    <3> HIDE DEF Value
    <3> QED OBVIOUS
  <2>3. \A n \in 0..L : Value(crc, n) \in Register
    <3> HIDE DEF Step, Value, L
    <3> QED BY <1>5, <2>1, <2>2
  <2>4. Step(crc) \in [0..L -> Register]
    <3> HIDE DEF Value, L
    <3> QED BY <2>3
  <2>5. crc \in [0..L -> Register]
    <3> HIDE DEF Step, L
    <3> QED BY <1>5, <2>4
  <2> HIDE DEF L, Step
  <2> QED BY <1>6, <2>5 DEF Runs
<1> QED BY <1>5, <1>8

(* Texts that are the same so far leave the same in the register.          *)
LEMMA SameSoFar ==
  ASSUME NEW s \in Seq(Byte), NEW t \in Seq(Byte), NEW n \in Nat, NEW m \in Nat, NEW g, NEW h,
         Runs(s, n, g), Runs(t, m, h), NEW i \in 0..n, i <= m, \A k \in 1..i : s[k] = t[k]
  PROVE  g[i] = h[i]
<1> DEFINE Bad == {k \in 0..i : g[k] # h[k]}
<1>1. SUFFICES ASSUME Bad # {} PROVE FALSE
  OBVIOUS
<1>2. PICK j \in Bad : \A k \in Bad : j <= k
  <2>1. Bad \in SUBSET Nat
    OBVIOUS
  <2> HIDE DEF Bad
  <2> QED BY <1>1, <2>1, SmallestExists
<1>3. j # 0
  BY DEF Runs
<1>4. j - 1 \in 0..i /\ j \in 1..i /\ j \in 1..n /\ j \in 1..m /\ ~(j <= j - 1)
  BY <1>3
<1>5. g[j - 1] = h[j - 1]
  BY <1>2, <1>4
<1>6. g[j] = Feed(g[j - 1], s[j]) /\ h[j] = Feed(h[j - 1], t[j])
  BY <1>4 DEF Runs
<1> QED BY <1>4, <1>5, <1>6

(* One more character.                                                     *)
LEMMA FedOne ==
  ASSUME NEW s \in Seq(Byte), NEW c \in Byte
  PROVE  /\ Fed(Table, s) \in Register /\ Append(s, c) \in Seq(Byte)
         /\ Fed(Table, Append(s, c)) = Feed(Fed(Table, s), c)
<1> DEFINE L == Len(s)
<1>1. PICK t : t = Append(s, c)
  OBVIOUS
<1>2. t \in Seq(Byte) /\ L \in Nat /\ Len(t) = L + 1 /\ t[L + 1] = c /\ \A k \in 1..L : s[k] = t[k]
  BY <1>1
<1>3. PICK g : Runs(s, L, g) /\ Fed(Table, s) = g[L]
  BY FedRuns
<1>4. PICK h : Runs(t, L + 1, h) /\ Fed(Table, t) = h[L + 1]
  BY <1>2, FedRuns
<1> HIDE DEF L
<1>5. L \in 0..L /\ L + 1 \in 1..(L + 1) /\ L + 1 - 1 = L /\ L + 1 \in Nat /\ L <= L + 1
  BY <1>2
<1>6. g[L] = h[L]
  BY <1>2, <1>3, <1>4, <1>5, SameSoFar
<1>7. h[L + 1] = Feed(h[L], t[L + 1])
  BY <1>4, <1>5 DEF Runs
<1>8. g[L] \in Register
  BY <1>3, <1>5 DEF Runs
<1> QED BY <1>1, <1>2, <1>3, <1>4, <1>6, <1>7, <1>8

(* Texts of one length that differ in one character have other checksums.  *)
LEMMA OneWrong ==
  ASSUME NEW s \in Seq(Byte), NEW t \in Seq(Byte), Len(s) = Len(t), NEW i \in DOMAIN s, s[i] # t[i],
         \A k \in DOMAIN s : k # i => s[k] = t[k]
  PROVE  Fed(Table, s) # Fed(Table, t)
<1> DEFINE L == Len(s)
<1>1. L \in Nat /\ DOMAIN s = 1..L /\ i \in 1..L /\ L \in i..L /\ i \in Nat
  OBVIOUS
<1>2. PICK g : Runs(s, L, g) /\ Fed(Table, s) = g[L]
  BY FedRuns
<1>3. PICK h : Runs(t, L, h) /\ Fed(Table, t) = h[L]
  BY FedRuns
<1>4. \A k \in 1..L : s[k] \in Byte /\ t[k] \in Byte
  OBVIOUS
<1> HIDE DEF L
<1> DEFINE Bad == {k \in i..L : g[k] = h[k]}
<1>5. SUFFICES ASSUME Bad # {} PROVE FALSE
  BY <1>1, <1>2, <1>3
<1>6. PICK j \in Bad : \A k \in Bad : j <= k
  <2>1. Bad \in SUBSET Nat
    BY <1>1
  <2> HIDE DEF Bad
  <2> QED BY <1>5, <2>1, SmallestExists
<1>7. j \in 1..L /\ j - 1 \in 0..L /\ ~(j <= j - 1)
  BY <1>1
<1>8. /\ g[j] = Feed(g[j - 1], s[j]) /\ h[j] = Feed(h[j - 1], t[j]) /\ g[j] = h[j]
      /\ g[j - 1] \in Register /\ h[j - 1] \in Register
  BY <1>2, <1>3, <1>7 DEF Runs
<1>9. s[j] \in Byte /\ t[j] \in Byte /\ Feed(g[j - 1], s[j]) = Feed(h[j - 1], t[j])
  BY <1>4, <1>7, <1>8
<1>10. CASE j = i
  <2>1. g[i - 1] = h[i - 1]
    <3>1. i - 1 \in 0..L /\ i - 1 <= L /\ \A k \in 1..(i - 1) : k \in 1..L /\ k # i
      BY <1>1
    <3>2. \A k \in 1..(i - 1) : s[k] = t[k]
      BY <1>1, <3>1
    <3> QED BY <1>1, <1>2, <1>3, <3>1, <3>2, SameSoFar, SMTT(30)
  <2>2. s[j] = t[j]
    BY ONLY <1>8, <1>9, <1>10, <2>1, Feeds
  <2> QED BY <1>10, <2>2
<1>11. CASE j # i
  <2>1. j - 1 \in i..L
    BY <1>1, <1>11
  <2>2. g[j - 1] # h[j - 1]
    BY <1>6, <1>7, <2>1
  <2>3. s[j] = t[j]
    BY <1>1, <1>7, <1>11
  <2>4. g[j - 1] = h[j - 1]
    BY ONLY <1>8, <1>9, <2>3, Feeds
  <2> QED BY <2>2, <2>4
<1> QED BY <1>10, <1>11

----------------------------------------------------------------------------
(* Hexadecimal digits.                                                     *)

(* A register has one way to be written, in capitals.                      *)
LEMMA Written ==
  ASSUME NEW n \in Register
  PROVE  /\ Hex4(n) = <<Hex4(n)[1], Hex4(n)[2], Hex4(n)[3], Hex4(n)[4]>>
         /\ \A k \in 1..4 : Hex4(n)[k] \in 48..57 \cup 65..70 /\ Upper(Hex4(n)[k]) = Hex4(n)[k]
         /\ \A m \in Register : (\A k \in 1..4 : Hex4(n)[k] = Hex4(m)[k]) => n = m
<1> DEFINE A(x) == x \div 4096
           B(x) == (x \div 256) % 16
           C(x) == (x \div 16) % 16
           D(x) == x % 16
<1>1. ASSUME NEW x \in Register
      PROVE  A(x) \in 0..15 /\ B(x) \in 0..15 /\ C(x) \in 0..15 /\ D(x) \in 0..15
             /\ x = 4096 * A(x) + 256 * B(x) + 16 * C(x) + D(x)
  <2>1. x \in Nat /\ x < 65536
    BY Words
  <2> DEFINE F == x \div 16
             G == x \div 256
  <2>2. F = 16 * G + C(x) /\ G = 16 * A(x) + B(x) /\ x = 16 * F + D(x)
    BY <2>1
  <2>3. A(x) \in 0..15 /\ B(x) \in 0..15 /\ C(x) \in 0..15 /\ D(x) \in 0..15 /\ F \in Nat /\ G \in Nat
    BY <2>1
  <2>4. A(x) \in Int /\ B(x) \in Int /\ C(x) \in Int /\ D(x) \in Int
    BY <2>3
  <2> HIDE DEF A, B, C, D, F, G
  <2>5. F = 256 * A(x) + 16 * B(x) + C(x)
    BY <2>2, <2>3, <2>4
  <2>6. x = 4096 * A(x) + 256 * B(x) + 16 * C(x) + D(x)
    BY <2>2, <2>4, <2>5
  <2> QED BY <2>3, <2>6
<1>2. \A x : Hex4(x) = <<HexChar(A(x)), HexChar(B(x)), HexChar(C(x)), HexChar(D(x))>>
  BY DEF Hex4
<1> HIDE DEF A, B, C, D
<1>3. \A x : /\ Hex4(x)[1] = HexChar(A(x)) /\ Hex4(x)[2] = HexChar(B(x))
             /\ Hex4(x)[3] = HexChar(C(x)) /\ Hex4(x)[4] = HexChar(D(x))
  BY <1>2
<1>4. \A d \in 0..15 : HexChar(d) \in 48..57 \cup 65..70 /\ Upper(HexChar(d)) = HexChar(d)
  BY DEF HexChar, Upper
<1>5. \A d, e \in 0..15 : HexChar(d) = HexChar(e) => d = e
  BY DEF HexChar
<1>6. ASSUME NEW k \in 1..4 PROVE Hex4(n)[k] \in 48..57 \cup 65..70 /\ Upper(Hex4(n)[k]) = Hex4(n)[k]
  <2>1. k = 1 \/ k = 2 \/ k = 3 \/ k = 4
    OBVIOUS
  <2> QED BY <1>1, <1>3, <1>4, <2>1
<1>7. ASSUME NEW m \in Register, \A k \in 1..4 : Hex4(n)[k] = Hex4(m)[k] PROVE n = m
  <2>1. A(n) = A(m) /\ B(n) = B(m) /\ C(n) = C(m) /\ D(n) = D(m)
    <3>1. /\ Hex4(n)[1] = Hex4(m)[1] /\ Hex4(n)[2] = Hex4(m)[2]
          /\ Hex4(n)[3] = Hex4(m)[3] /\ Hex4(n)[4] = Hex4(m)[4]
      BY <1>7
    <3> QED BY <1>1, <1>3, <1>5, <3>1
  <2> QED BY <1>1, <2>1
<1>8. Hex4(n) = <<Hex4(n)[1], Hex4(n)[2], Hex4(n)[3], Hex4(n)[4]>>
  BY <1>2, <1>3
<1> QED BY <1>6, <1>7, <1>8

----------------------------------------------------------------------------
(* Printed codes.                                                          *)

Ascii == 0..127

LEMMA AsciiIsBytes == \A S \in SUBSET Ascii : \A s \in Seq(S) : s \in Seq(Ascii) /\ s \in Seq(Byte)
<1>1. Ascii \subseteq Byte
  BY Bytes DEF Ascii
<1> QED BY <1>1

(* A printed code: the body, the tag, the checksum.                        *)
Printout(b, t, crc) ==
  /\ t \in Seq(Ascii) /\ Len(t) = Len(b) + 8
  /\ \A i \in 1..Len(b) : t[i] = b[i]
  /\ \A k \in 1..4 : t[Len(b) + k] = CrcTag[k]
  /\ \A k \in 1..4 : t[Len(b) + 4 + k] = Hex4(crc)[k]

LEMMA Joined ==
  ASSUME NEW S, NEW s \in Seq(S), NEW t \in Seq(S), Len(t) = 4
  PROVE  /\ s \o t \in Seq(S) /\ Len(s \o t) = Len(s) + 4
         /\ \A i \in 1..Len(s) : (s \o t)[i] = s[i]
         /\ \A k \in 1..4 : (s \o t)[Len(s) + k] = t[k]
<1>1. /\ s \o t \in Seq(S) /\ Len(s \o t) = Len(s) + Len(t)
      /\ \A i \in 1..(Len(s) + Len(t)) : (s \o t)[i] = IF i <= Len(s) THEN s[i] ELSE t[i - Len(s)]
  BY ConcatProperties, Zenon
<1>2. PICK w : w = s \o t
  OBVIOUS
<1>3. PICK n \in Nat : n = Len(s)
  OBVIOUS
<1>4. w \in Seq(S) /\ Len(w) = n + 4 /\ \A i \in 1..(n + 4) : w[i] = IF i <= n THEN s[i] ELSE t[i - n]
  BY ONLY <1>1, <1>2, <1>3, Len(t) = 4, Zenon
<1>5. \A i \in 1..n : i \in 1..(n + 4) /\ i <= n
  OBVIOUS
<1>6. \A k \in 1..4 : n + k \in 1..(n + 4) /\ ~(n + k <= n) /\ n + k - n = k
  OBVIOUS
<1>7. (\A i \in 1..n : w[i] = s[i]) /\ (\A k \in 1..4 : w[n + k] = t[k])
  BY ONLY <1>4, <1>5, <1>6
<1> QED BY ONLY <1>2, <1>3, <1>4, <1>7, Zenon

LEMMA Tagged ==
  ASSUME NEW b \in Seq(Ascii)
  PROVE  /\ b \o CrcTag \in Seq(Ascii) /\ b \o CrcTag \in Seq(Byte) /\ Len(b \o CrcTag) = Len(b) + 4
         /\ \A i \in 1..Len(b) : (b \o CrcTag)[i] = b[i]
         /\ \A k \in 1..4 : (b \o CrcTag)[Len(b) + k] = CrcTag[k]
<1>1. CrcTag \in Seq(Ascii) /\ Len(CrcTag) = 4
  BY DEF CrcTag, Ascii
<1>2. PICK tag \in Seq(Ascii) : tag = CrcTag
  BY <1>1
<1>3. /\ b \o tag \in Seq(Ascii) /\ Len(b \o tag) = Len(b) + 4
      /\ \A i \in 1..Len(b) : (b \o tag)[i] = b[i]
      /\ \A k \in 1..4 : (b \o tag)[Len(b) + k] = tag[k]
  BY <1>1, <1>2, Joined
<1> QED BY <1>2, <1>3, AsciiIsBytes

LEMMA Checksum ==
  ASSUME NEW b \in Seq(Ascii)
  PROVE  /\ crc16ccitt(b \o CrcTag) = Fed(Table, b \o CrcTag) /\ calculateCRC16(b) = Fed(Table, b \o CrcTag)
         /\ Fed(Table, b \o CrcTag) \in Register
<1>1. Fed(Table, b \o CrcTag) \in Register
  <2>1. PICK p \in Seq(Byte) : p = b \o CrcTag
    BY Tagged
  <2>2. 0 \in Byte
    BY Bytes
  <2> QED BY <2>1, <2>2, FedOne
<1> QED BY <1>1, Tables DEF crc16ccitt, calculateCRC16, Table

LEMMA IssuedIsPrintout ==
  ASSUME NEW b \in Seq(Ascii)
  PROVE  Printout(b, Issued(b), Fed(Table, b \o CrcTag))
<1>1. PICK crc \in Register : crc = Fed(Table, b \o CrcTag)
  BY Checksum
<1>2. PICK p \in Seq(Ascii) : p = b \o CrcTag
  BY Tagged
<1>3. PICK h : h = Hex4(crc)
  OBVIOUS
<1>4. h \in Seq(Ascii) /\ Len(h) = 4
  <2>1. h = <<h[1], h[2], h[3], h[4]>> /\ \A k \in 1..4 : h[k] \in Ascii
    <3>1. \A x \in 48..57 \cup 65..70 : x \in Ascii
      BY DEF Ascii
    <3> QED BY <1>3, <3>1, Written
  <2>2. h[1] \in Ascii /\ h[2] \in Ascii /\ h[3] \in Ascii /\ h[4] \in Ascii
    BY <2>1
  <2>3. <<h[1], h[2], h[3], h[4]>> \in Seq(Ascii) /\ Len(<<h[1], h[2], h[3], h[4]>>) = 4
    BY <2>2
  <2> QED BY <2>1, <2>3
<1>5. Issued(b) = p \o h
  BY <1>1, <1>2, <1>3, Checksum DEF Issued
<1>6. PICK t : t = p \o h
  OBVIOUS
<1>7. Len(p) = Len(b) + 4 /\ (\A i \in 1..Len(b) : p[i] = b[i]) /\ (\A k \in 1..4 : p[Len(b) + k] = CrcTag[k])
  BY <1>2, Tagged
<1>8. t \in Seq(Ascii) /\ Len(t) = Len(p) + 4 /\ (\A i \in 1..Len(p) : t[i] = p[i])
      /\ (\A k \in 1..4 : t[Len(p) + k] = h[k])
  BY <1>4, <1>6, Joined
<1>9. Len(b) \in Nat
  OBVIOUS
<1>10. /\ \A i \in 1..Len(b) : i \in 1..(Len(b) + 4)
       /\ \A k \in 1..4 : Len(b) + k \in 1..(Len(b) + 4)
       /\ Len(b) + 4 + 4 = Len(b) + 8
  BY <1>9
<1> QED BY <1>1, <1>3, <1>5, <1>6, <1>7, <1>8, <1>10 DEF Printout

(* What the reader's check comes to on a text long enough.                 *)
LEMMA SubLists ==
  ASSUME NEW S, NEW s \in Seq(S), NEW a \in Nat \ {0}, NEW z \in Nat, a <= z + 1, z <= Len(s)
  PROVE  /\ SubSeq(s, a, z) \in Seq(S) /\ Len(SubSeq(s, a, z)) = z - a + 1
         /\ \A i \in 1..(z - a + 1) : SubSeq(s, a, z)[i] = s[a + i - 1]
OBVIOUS

LEMMA Quads ==
  ASSUME NEW S, NEW f \in Seq(S), NEW g \in Seq(S), Len(f) = 4, Len(g) = 4
  PROVE  f = g <=> \A k \in 1..4 : f[k] = g[k]
OBVIOUS

LEMMA ReaderChecks ==
  ASSUME NEW s \in Seq(Ascii), NEW L \in Nat, Len(s) = L + 8
  PROVE  /\ SubSeq(s, 1, L) \in Seq(Ascii) /\ Len(SubSeq(s, 1, L)) = L
         /\ \A i \in 1..L : SubSeq(s, 1, L)[i] = s[i]
         /\ verifyCRC16Text(s) <=>
              /\ \A k \in 1..4 : s[L + k] = CrcTag[k]
              /\ \A k \in 1..4 : s[L + 4 + k] \in HexDigit
              /\ \A k \in 1..4 : Upper(s[L + 4 + k]) = Hex4(Fed(Table, SubSeq(s, 1, L) \o CrcTag))[k]
<1>1. Len(s) - 7 = L + 1 /\ Len(s) - 4 = L + 4 /\ Len(s) - 3 = L + 5 /\ Len(s) - 8 = L /\ Len(s) >= 8
  OBVIOUS
<1>2. PICK p : p = SubSeq(s, 1, L)
  OBVIOUS
<1>3. p \in Seq(Ascii) /\ Len(p) = L /\ \A i \in 1..L : p[i] = s[i]
  <2>1. L <= Len(s) /\ 1 <= L + 1 /\ L - 1 + 1 = L /\ (\A i \in 1..L : 1 + i - 1 = i) /\ 1 \in Nat \ {0}
    OBVIOUS
  <2> QED BY <1>2, <2>1, SubLists
<1>4. PICK tag : tag = SubSeq(s, L + 1, L + 4)
  OBVIOUS
<1>5. tag \in Seq(Ascii) /\ Len(tag) = 4 /\ \A k \in 1..4 : tag[k] = s[L + k]
  <2>1. L + 4 <= Len(s) /\ L + 1 <= L + 4 + 1 /\ L + 4 - (L + 1) + 1 = 4 /\ (\A k \in 1..4 : L + 1 + k - 1 = L + k)
        /\ L + 1 \in Nat \ {0} /\ L + 4 \in Nat
    OBVIOUS
  <2> QED BY <1>4, <2>1, SubLists
<1>6. tag = CrcTag <=> \A k \in 1..4 : s[L + k] = CrcTag[k]
  <2>1. CrcTag \in Seq(Ascii) /\ Len(CrcTag) = 4
    BY DEF CrcTag, Ascii
  <2> QED BY <1>5, <2>1, Quads, SMTT(30)
<1>7. PICK sum : sum = SubSeq(s, L + 5, L + 8)
  OBVIOUS
<1>8. sum \in Seq(Ascii) /\ Len(sum) = 4 /\ \A k \in 1..4 : sum[k] = s[L + 4 + k]
  <2>1. L + 8 <= Len(s) /\ L + 5 <= L + 8 + 1 /\ L + 8 - (L + 5) + 1 = 4 /\ (\A k \in 1..4 : L + 5 + k - 1 = L + 4 + k)
        /\ L + 5 \in Nat \ {0} /\ L + 8 \in Nat
    OBVIOUS
  <2> QED BY <1>7, <2>1, SubLists
<1>9. PICK crc \in Register : crc = calculateCRC16(p) /\ crc = Fed(Table, p \o CrcTag)
  BY <1>3, Checksum
<1>10. Hex4(crc) = UpperCase(sum) <=> \A k \in 1..4 : Upper(s[L + 4 + k]) = Hex4(crc)[k]
  <2>1. UpperCase(sum) \in Seq(Int) /\ Len(UpperCase(sum)) = 4 /\ \A k \in 1..4 : UpperCase(sum)[k] = Upper(sum[k])
    <3>1. \A x \in Ascii : Upper(x) \in Int
      BY DEF Ascii, Upper
    <3>2. DOMAIN sum = 1..4 /\ \A k \in 1..4 : sum[k] \in Ascii
      BY <1>8
    <3>3. UpperCase(sum) = [k \in 1..4 |-> Upper(sum[k])]
      BY <3>2 DEF UpperCase
    <3>4. \A k \in 1..4 : Upper(sum[k]) \in Int
      BY <3>1, <3>2
    <3> QED BY <3>3, <3>4
  <2>2. Hex4(crc) \in Seq(Int) /\ Len(Hex4(crc)) = 4
    <3>1. PICK h : h = Hex4(crc)
      OBVIOUS
    <3>2. h = <<h[1], h[2], h[3], h[4]>> /\ h[1] \in Int /\ h[2] \in Int /\ h[3] \in Int /\ h[4] \in Int
      BY <3>1, Written, SMTT(30)
    <3>3. <<h[1], h[2], h[3], h[4]>> \in Seq(Int) /\ Len(<<h[1], h[2], h[3], h[4]>>) = 4
      BY <3>2
    <3> QED BY <3>1, <3>2, <3>3
  <2>3. Hex4(crc) = UpperCase(sum) <=> \A k \in 1..4 : Hex4(crc)[k] = UpperCase(sum)[k]
    BY <2>1, <2>2, Quads
  <2> QED BY <1>8, <2>1, <2>3
<1>11. (\A i \in (L + 5)..(L + 8) : s[i] \in HexDigit) <=> \A k \in 1..4 : s[L + 4 + k] \in HexDigit
  <2>1. \A k \in 1..4 : L + 4 + k \in (L + 5)..(L + 8)
    OBVIOUS
  <2>2. \A i \in (L + 5)..(L + 8) : i - L - 4 \in 1..4 /\ L + 4 + (i - L - 4) = i
    OBVIOUS
  <2> QED BY <2>1, <2>2
<1>12. verifyCRC16Text(s) <=>
         /\ tag = CrcTag /\ (\A i \in (L + 5)..(L + 8) : s[i] \in HexDigit) /\ Hex4(crc) = UpperCase(sum)
  BY <1>1, <1>2, <1>4, <1>7, <1>9 DEF verifyCRC16Text
<1> QED BY <1>2, <1>3, <1>6, <1>9, <1>10, <1>11, <1>12

(* A printed code passes the reader's check, with either case of letters.  *)
LEMMA PrintoutIsRead ==
  ASSUME NEW b \in Seq(Ascii), NEW t, Printout(b, t, Fed(Table, b \o CrcTag))
  PROVE  verifyCRC16Text(t)
<1> DEFINE L == Len(b)
           p == SubSeq(t, 1, L)
<1>1. PICK crc \in Register : crc = Fed(Table, b \o CrcTag)
  BY Checksum
<1>2. /\ t \in Seq(Ascii) /\ L \in Nat /\ Len(t) = L + 8 /\ (\A i \in 1..L : t[i] = b[i])
      /\ \A k \in 1..4 : t[L + k] = CrcTag[k] /\ t[L + 4 + k] = Hex4(crc)[k]
  BY <1>1 DEF Printout
<1>3. p \in Seq(Ascii) /\ Len(p) = L /\ \A i \in 1..L : p[i] = t[i]
  BY <1>2, ReaderChecks
<1>4. p = b
  <2>1. \A i \in 1..L : p[i] = b[i]
    BY <1>2, <1>3
  <2> HIDE DEF p
  <2> QED BY <1>3, <2>1
<1>5. \A x \in 48..57 \cup 65..70 : x \in HexDigit
  BY DEF HexDigit, Digit
<1>6. \A k \in 1..4 : t[L + 4 + k] \in HexDigit /\ Upper(t[L + 4 + k]) = Hex4(crc)[k]
  <2>1. PICK h : h = Hex4(crc)
    OBVIOUS
  <2>2. \A k \in 1..4 : h[k] \in HexDigit /\ Upper(h[k]) = h[k]
    BY <1>5, <2>1, Written
  <2>3. \A k \in 1..4 : t[L + 4 + k] = h[k]
    BY <1>2, <2>1
  <2> HIDE DEF L
  <2> QED BY <2>1, <2>2, <2>3
<1> HIDE DEF L
<1>7. verifyCRC16Text(t) <=>
        /\ \A k \in 1..4 : t[L + k] = CrcTag[k]
        /\ \A k \in 1..4 : t[L + 4 + k] \in HexDigit
        /\ \A k \in 1..4 : Upper(t[L + 4 + k]) = Hex4(Fed(Table, p \o CrcTag))[k]
  BY <1>2, ReaderChecks
<1> HIDE DEF p
<1> QED BY <1>1, <1>2, <1>4, <1>6, <1>7

(* A printed code with one character wrong does not.                       *)
LEMMA WrongIsRefused ==
  ASSUME NEW b \in Seq(Ascii), NEW t, Printout(b, t, Fed(Table, b \o CrcTag)),
         NEW i \in DOMAIN t, NEW c \in Ascii, Upper(c) # Upper(t[i])
  PROVE  ~verifyCRC16Text([t EXCEPT ![i] = c])
<1> DEFINE L == Len(b)
<1>1. PICK w : w = [t EXCEPT ![i] = c]
  OBVIOUS
<1>2. PICK crc \in Register : crc = Fed(Table, b \o CrcTag)
  BY Checksum
<1>3. /\ t \in Seq(Ascii) /\ L \in Nat /\ Len(t) = L + 8 /\ (\A j \in 1..L : t[j] = b[j])
      /\ \A k \in 1..4 : t[L + k] = CrcTag[k] /\ t[L + 4 + k] = Hex4(crc)[k]
  BY <1>2 DEF Printout
<1>4. w \in Seq(Ascii) /\ Len(w) = L + 8 /\ w[i] = c /\ \A j \in 1..(L + 8) : j # i => w[j] = t[j]
  BY <1>1, <1>3
<1>5. PICK p : p = SubSeq(w, 1, L)
  OBVIOUS
<1>6. p \in Seq(Ascii) /\ Len(p) = L /\ \A j \in 1..L : p[j] = w[j]
  BY <1>3, <1>4, <1>5, ReaderChecks
<1>7. PICK sum \in Register : sum = Fed(Table, p \o CrcTag)
  BY <1>6, Checksum
<1>8. SUFFICES ASSUME verifyCRC16Text(w) PROVE FALSE
  BY <1>1
<1>9. /\ \A k \in 1..4 : w[L + k] = CrcTag[k]
      /\ \A k \in 1..4 : Upper(w[L + 4 + k]) = Hex4(sum)[k]
  <2> HIDE DEF L
  <2> QED BY <1>3, <1>4, <1>5, <1>7, <1>8, ReaderChecks
<1>10. i \in 1..(L + 8) /\ c # t[i]
  BY <1>3
<1> HIDE DEF L
<1>11. CASE i \in 1..L
  <2>1. \A k \in 1..4 : Upper(w[L + 4 + k]) = Hex4(crc)[k]
    <3>1. \A k \in 1..4 : L + 4 + k \in 1..(L + 8) /\ L + 4 + k # i
      BY <1>3, <1>11
    <3> QED BY <1>2, <1>3, <1>4, <3>1, Written, SMTT(30)
  <2>2. sum = crc
    BY <1>9, <2>1, Written
  <2>3. PICK f \in Seq(Byte) :
          f = p \o CrcTag /\ Len(f) = L + 4 /\ (\A j \in 1..L : f[j] = p[j]) /\ \A k \in 1..4 : f[L + k] = CrcTag[k]
    BY <1>6, Tagged
  <2>4. PICK g \in Seq(Byte) :
          g = b \o CrcTag /\ Len(g) = L + 4 /\ (\A j \in 1..L : g[j] = b[j]) /\ \A k \in 1..4 : g[L + k] = CrcTag[k]
    BY Tagged DEF L
  <2>5. DOMAIN f = 1..(L + 4) /\ i \in DOMAIN f
    BY <1>3, <1>11, <2>3, SMTT(30)
  <2>6. f[i] # g[i]
    BY <1>3, <1>4, <1>6, <1>10, <1>11, <2>3, <2>4
  <2>7. ASSUME NEW j \in 1..(L + 4), j # i PROVE f[j] = g[j]
    <3>1. CASE j \in 1..L
      <4>1. j \in 1..(L + 8)
        BY <1>3, <3>1
      <4> QED BY <1>3, <1>4, <1>6, <2>3, <2>4, <2>7, <3>1, <4>1, SMTT(30)
    <3>2. CASE j \notin 1..L
      <4>1. j - L \in 1..4 /\ j = L + (j - L)
        BY <1>3, <3>2
      <4> QED BY <2>3, <2>4, <4>1
    <3> QED BY <3>1, <3>2
  <2>8. Fed(Table, f) # Fed(Table, g)
    <3>1. Len(f) = Len(g) /\ \A k \in DOMAIN f : k # i => f[k] = g[k]
      BY <2>3, <2>4, <2>5, <2>7
    <3> QED BY ONLY f \in Seq(Byte), g \in Seq(Byte), <2>5, <2>6, <3>1, OneWrong
  <2> QED BY <1>2, <1>7, <2>2, <2>3, <2>4, <2>8
<1>12. CASE i \in (L + 1)..(L + 4)
  <2>1. i - L \in 1..4 /\ i = L + (i - L)
    <3>1. L \in Nat
      BY <1>3
    <3> QED BY ONLY <1>12, <3>1
  <2>2. t[i] = CrcTag[i - L] /\ w[i] = CrcTag[i - L]
    BY <1>3, <1>9, <2>1
  <2> QED BY <1>4, <1>10, <2>2
<1>13. CASE i \in (L + 5)..(L + 8)
  <2>1. i - L - 4 \in 1..4 /\ i = L + 4 + (i - L - 4)
    <3>1. L \in Nat
      BY <1>3
    <3> QED BY ONLY <1>13, <3>1
  <2>2. p = b
    <3>1. \A j \in 1..L : j \in 1..(L + 8) /\ j # i
      BY <1>3, <1>13
    <3>2. Len(p) = Len(b) /\ \A j \in 1..Len(b) : p[j] = b[j]
      BY <1>3, <1>4, <1>6, <3>1 DEF L
    <3> QED BY <1>6, <3>2
  <2>3. sum = crc
    BY <1>2, <1>7, <2>2
  <2>4. Upper(t[i]) = Hex4(crc)[i - L - 4] /\ Upper(w[i]) = Hex4(sum)[i - L - 4]
    <3>1. t[i] = Hex4(crc)[i - L - 4]
      BY <1>3, <2>1
    <3>2. Upper(w[i]) = Hex4(sum)[i - L - 4]
      BY <1>9, <2>1
    <3> QED BY <2>1, <3>1, <3>2, Written
  <2> QED BY <1>4, <2>3, <2>4
<1> QED BY <1>3, <1>10, <1>11, <1>12, <1>13

(* The register is empty once it has been fed what it held.                *)
LEMMA NothingLeft ==
  ASSUME NEW s \in Seq(Byte)
  PROVE  Fed(Table, s \o <<Fed(Table, s) \div 256, Fed(Table, s) % 256>>) = 0
<1>1. PICK crc \in Register : crc = Fed(Table, s)
  <2>1. 0 \in Byte
    BY Bytes
  <2> QED BY <2>1, FedOne
<1>2. PICK hi \in Byte, lo \in Byte : hi = crc \div 256 /\ lo = crc % 256
  BY HighHalf
<1>3. Mix(crc, hi) = lo /\ Mix(256 * lo, lo) = 0 /\ 256 * lo \in Register
  BY <1>2, HighHalf, LowHalf
<1>4. PICK one : one = Append(s, hi)
  OBVIOUS
<1>5. one \in Seq(Byte) /\ Fed(Table, one) = 256 * lo
  <2>1. one \in Seq(Byte) /\ Fed(Table, one) = Feed(crc, hi)
    BY <1>1, <1>4, FedOne
  <2>2. Feed(crc, hi) = Table[lo]
    BY <1>3 DEF Feed
  <2> QED BY <2>1, <2>2, Tables
<1>6. Fed(Table, Append(one, lo)) = Table[0]
  <2>1. Fed(Table, Append(one, lo)) = Feed(256 * lo, lo)
    BY <1>5, FedOne
  <2> QED BY <1>3, <2>1 DEF Feed
<1>7. Table[0] = 0
  <2>1. 0 \in Byte /\ 256 * 0 = 0
    BY Bytes
  <2> QED BY <2>1, Tables
<1>8. s \o <<hi, lo>> = Append(one, lo)
  BY <1>4
<1> QED BY <1>1, <1>2, <1>6, <1>7, <1>8, ZenonT(60)

----------------------------------------------------------------------------
(* The walk over the objects of a text.                                    *)

SizeAt(s, pos) == 10 * (s[pos + 2] - 48) + (s[pos + 3] - 48)
ObjectAt(s, pos) ==
  /\ pos + 3 <= Len(s) /\ \A i \in pos..(pos + 3) : s[i] \in Digit
  /\ pos + 3 + SizeAt(s, pos) <= Len(s)
EntryAt(s, pos) ==
  [tag |-> SubSeq(s, pos, pos + 1), value |-> SubSeq(s, pos + 4, pos + 3 + SizeAt(s, pos))]
After(s, pos) == pos + 4 + SizeAt(s, pos)
Starts(s) == {pos \in 1..Len(s) : ObjectAt(s, pos)}
Entries(s) == {EntryAt(s, pos) : pos \in Starts(s)}

(* What is found from each place of a text on.                             *)
Found(s, n, g) ==
  /\ g \in [n..(Len(s) + 1) -> Seq(Entries(s))]
  /\ \A pos \in n..(Len(s) + 1) : ~ObjectAt(s, pos) => g[pos] = <<>>
  /\ \A pos \in n..(Len(s) + 1) : ObjectAt(s, pos) => g[pos] = <<EntryAt(s, pos)>> \o g[After(s, pos)]

(* An object has at least its tag and its length.                          *)
LEMMA Onward ==
  ASSUME NEW s \in Seq(Ascii), NEW pos \in Nat \ {0}, ObjectAt(s, pos)
  PROVE  /\ pos \in Starts(s) /\ EntryAt(s, pos) \in Entries(s) /\ SizeAt(s, pos) \in 0..99
         /\ After(s, pos) \in (pos + 1)..(Len(s) + 1)
<1>1. pos + 3 <= Len(s) /\ pos + 3 + SizeAt(s, pos) <= Len(s) /\ s[pos + 2] \in Digit /\ s[pos + 3] \in Digit
  BY DEF ObjectAt
<1>2. SizeAt(s, pos) \in 0..99
  <2>1. \A c, d \in Digit : 10 * (c - 48) + (d - 48) \in 0..99
    BY DEF Digit
  <2> QED BY <1>1, <2>1 DEF SizeAt
<1>3. pos \in 1..Len(s) /\ pos + 4 + SizeAt(s, pos) \in (pos + 1)..(Len(s) + 1)
  <2>1. PICK n \in Nat, k \in 0..99 : n = Len(s) /\ k = SizeAt(s, pos)
    BY <1>2
  <2>2. pos + 3 <= n /\ pos + 3 + k <= n
    BY <1>1, <2>1
  <2>3. pos \in 1..n /\ pos + 4 + k \in (pos + 1)..(n + 1)
    BY ONLY n \in Nat, k \in 0..99, <2>2, pos \in Nat \ {0}
  <2> QED BY <2>1, <2>3
<1> QED BY <1>2, <1>3 DEF Starts, Entries, After

LEMMA Prepended ==
  ASSUME NEW S, NEW e \in S, NEW q \in Seq(S)
  PROVE  /\ <<e>> \o q \in Seq(S) /\ Len(<<e>> \o q) = Len(q) + 1
         /\ q # <<>> => (<<e>> \o q)[Len(q) + 1] = q[Len(q)]
         /\ (<<e>> \o <<>>)[1] = e
<1>1. <<e>> \in Seq(S) /\ Len(<<e>>) = 1 /\ <<e>>[1] = e /\ Len(<<>>) = 0 /\ <<>> \in Seq(S) /\ Len(q) \in Nat
  OBVIOUS
<1>2. \A r \in Seq(S) :
        /\ <<e>> \o r \in Seq(S) /\ Len(<<e>> \o r) = Len(<<e>>) + Len(r)
        /\ \A i \in 1..(Len(<<e>>) + Len(r)) :
             (<<e>> \o r)[i] = IF i <= Len(<<e>>) THEN <<e>>[i] ELSE r[i - Len(<<e>>)]
  BY <1>1, ConcatProperties, Zenon
<1>3. PICK w : w = <<e>> \o q
  OBVIOUS
<1>4. PICK u : u = <<e>> \o <<>>
  OBVIOUS
<1>5. w \in Seq(S) /\ Len(w) = 1 + Len(q) /\ \A i \in 1..(1 + Len(q)) : w[i] = IF i <= 1 THEN <<e>>[i] ELSE q[i - 1]
  BY ONLY <1>1, <1>2, <1>3, q \in Seq(S), Zenon
<1>6. \A i \in 1..(1 + Len(<<>>)) : u[i] = IF i <= 1 THEN <<e>>[i] ELSE <<>>[i - 1]
  BY ONLY <1>1, <1>2, <1>4, ZenonT(60)
<1>7. u[1] = e
  BY ONLY <1>1, <1>6
<1>8. ASSUME q # <<>> PROVE w[Len(q) + 1] = q[Len(q)]
  <2>1. Len(q) # 0
    BY <1>8
  <2>2. Len(q) + 1 \in 1..(1 + Len(q)) /\ ~(Len(q) + 1 <= 1) /\ Len(q) + 1 - 1 = Len(q)
    BY ONLY <1>1, <2>1
  <2> QED BY ONLY <1>5, <2>2
<1>9. Len(w) = Len(q) + 1
  BY ONLY <1>1, <1>5
<1> QED BY ONLY <1>3, <1>4, <1>5, <1>7, <1>8, <1>9, Zenon

(* The walk exists, from the last place back to the first.                 *)
LEMMA Walk ==
  ASSUME NEW s \in Seq(Ascii), NEW n \in 1..(Len(s) + 1)
  PROVE  \E g : Found(s, n, g)
<1> DEFINE L == Len(s)
           Bad == {k \in 0..L : ~\E g : Found(s, L + 1 - k, g)}
<1>1. L \in Nat /\ L + 1 - n \in 0..L /\ L + 1 - (L + 1 - n) = n
  OBVIOUS
<1>2. SUFFICES ASSUME Bad # {} PROVE FALSE
  BY <1>1
<1>3. PICK m \in Bad : \A i \in Bad : m <= i
  <2>1. Bad \in SUBSET Nat
    BY <1>1
  <2> HIDE DEF Bad
  <2> QED BY <1>2, <2>1, SmallestExists
<1>4. m \in 0..L /\ ~\E g : Found(s, L + 1 - m, g)
  OBVIOUS
<1> DEFINE p == L + 1 - m
<1>5. p \in Nat \ {0} /\ p \in 1..(L + 1) /\ p \in p..(L + 1) /\ \A i \in p..(L + 1) : i # p => i \in (p + 1)..(L + 1)
  BY <1>1, <1>4
<1>6. PICK g : /\ g \in [(p + 1)..(L + 1) -> Seq(Entries(s))]
               /\ \A i \in (p + 1)..(L + 1) : ~ObjectAt(s, i) => g[i] = <<>>
               /\ \A i \in (p + 1)..(L + 1) : ObjectAt(s, i) => g[i] = <<EntryAt(s, i)>> \o g[After(s, i)]
  <2>1. CASE m = 0
    <3>1. (p + 1)..(L + 1) = {}
      BY <1>1, <2>1
    <3> DEFINE e == [i \in (p + 1)..(L + 1) |-> <<>>]
    <3>2. e \in [(p + 1)..(L + 1) -> Seq(Entries(s))]
      BY <3>1
    <3> HIDE DEF e, p, L
    <3> QED BY <3>1, <3>2
  <2>2. CASE m # 0
    <3>1. m - 1 \in 0..L /\ ~(m <= m - 1) /\ L + 1 - (m - 1) = p + 1
      BY <1>1, <1>4, <2>2
    <3>2. PICK h : Found(s, p + 1, h)
      BY <1>3, <3>1
    <3> QED BY <3>2 DEF Found
  <2> QED BY <2>1, <2>2
<1> HIDE DEF p
<1>7. \A i \in p..(L + 1) : i \in Nat \ {0}
  BY <1>5
<1> HIDE DEF L
<1> DEFINE new == IF ObjectAt(s, p) THEN <<EntryAt(s, p)>> \o g[After(s, p)] ELSE <<>>
           f == [i \in p..(L + 1) |-> IF i = p THEN new ELSE g[i]]
<1>8. \A i \in p..(L + 1) : ObjectAt(s, i) => After(s, i) \in (p + 1)..(L + 1) /\ EntryAt(s, i) \in Entries(s)
  <2>1. ASSUME NEW i \in p..(L + 1), ObjectAt(s, i)
        PROVE  After(s, i) \in (p + 1)..(L + 1) /\ EntryAt(s, i) \in Entries(s)
    <3>1. After(s, i) \in (i + 1)..(L + 1) /\ EntryAt(s, i) \in Entries(s)
      BY <1>7, <2>1, Onward DEF L
    <3>2. \A j \in (i + 1)..(L + 1) : j \in (p + 1)..(L + 1)
      BY <1>1, <1>5
    <3> QED BY <3>1, <3>2
  <2> QED BY <2>1
<1>9. new \in Seq(Entries(s))
  <2>1. CASE ObjectAt(s, p)
    <3>1. g[After(s, p)] \in Seq(Entries(s)) /\ EntryAt(s, p) \in Entries(s)
      BY <1>5, <1>6, <1>8, <2>1
    <3>2. <<EntryAt(s, p)>> \o g[After(s, p)] \in Seq(Entries(s))
      BY <3>1, Prepended
    <3> QED BY <2>1, <3>2
  <2>2. CASE ~ObjectAt(s, p)
    BY <2>2
  <2> QED BY <2>1, <2>2
<1>10. f \in [p..(L + 1) -> Seq(Entries(s))]
  <2> HIDE DEF new
  <2> QED BY <1>5, <1>6, <1>9
<1>11. \A i \in p..(L + 1) : ~ObjectAt(s, i) => f[i] = <<>>
  BY <1>5, <1>6
<1>12. ASSUME NEW i \in p..(L + 1), ObjectAt(s, i) PROVE f[i] = <<EntryAt(s, i)>> \o f[After(s, i)]
  <2>1. After(s, i) \in (p + 1)..(L + 1) /\ \A j \in (p + 1)..(L + 1) : j # p /\ j \in p..(L + 1)
    BY <1>1, <1>5, <1>8, <1>12
  <2>2. f[After(s, i)] = g[After(s, i)]
    <3> HIDE DEF new
    <3> QED BY <2>1
  <2>3. CASE i = p
    <3>1. f[p] = new
      <4> HIDE DEF new
      <4> QED BY <1>5
    <3>2. new = <<EntryAt(s, p)>> \o g[After(s, p)]
      BY <1>12, <2>3, Zenon
    <3> HIDE DEF f, new
    <3> QED BY <2>2, <2>3, <3>1, <3>2, Zenon
  <2>4. CASE i # p
    <3>1. f[i] = g[i]
      <4> HIDE DEF new
      <4> QED BY <2>4
    <3>2. g[i] = <<EntryAt(s, i)>> \o g[After(s, i)]
      BY <1>5, <1>6, <1>12, <2>4
    <3> HIDE DEF f, new
    <3> QED BY <2>2, <3>1, <3>2, Zenon
  <2> QED BY <2>3, <2>4
<1>13. Found(s, p, f)
  <2> HIDE DEF f
  <2> QED BY <1>10, <1>11, <1>12 DEF Found, L
<1> QED BY <1>4, <1>13 DEF p, L

(* parseTLV is what the walk finds from the first place on.                *)
LEMMA Parsed ==
  ASSUME NEW s \in Seq(Ascii)
  PROVE  \E g : Found(s, 1, g) /\ parseTLV(s) = g[1]
<1> DEFINE N == Len(s) + 1
           Value(f, i) == IF ~ObjectAt(s, i) THEN <<>> ELSE <<EntryAt(s, i)>> \o f[After(s, i)]
           Step(f) == [i \in 1..N |-> Value(f, i)]
<1>1. N \in Nat /\ 1 \in 1..N /\ 1 \in 1..(Len(s) + 1) /\ \A i \in 1..N : i \in Nat \ {0}
  OBVIOUS
<1>2. parseTLV(s) = (CHOOSE f : f = Step(f))[1]
  BY DEF parseTLV, ObjectAt, EntryAt, After, SizeAt
<1>3. PICK g : Found(s, 1, g)
  BY <1>1, Walk
<1>4. g = Step(g)
  <2>1. /\ g \in [1..N -> Seq(Entries(s))]
        /\ \A i \in 1..N : ~ObjectAt(s, i) => g[i] = <<>>
        /\ \A i \in 1..N : ObjectAt(s, i) => g[i] = <<EntryAt(s, i)>> \o g[After(s, i)]
    BY <1>3 DEF Found
  <2>2. \A i \in 1..N : g[i] = Value(g, i)
    BY <2>1, Zenon
  <2> HIDE DEF Value, N
  <2> QED BY <2>1, <2>2
<1>5. PICK f : f = Step(f) /\ parseTLV(s) = f[1]
  <2> HIDE DEF Step, N
  <2> QED BY <1>2, <1>4
<1>6. \A i \in 1..N : f[i] = Value(f, i)
  <2>1. \A i \in 1..N : Step(f)[i] = Value(f, i)
    <3> HIDE DEF Value, N
    <3> QED OBVIOUS
  <2> HIDE DEF Value, N, Step
  <2> QED BY <1>5, <2>1
<1>7. /\ \A i \in 1..N : ~ObjectAt(s, i) => f[i] = <<>>
      /\ \A i \in 1..N : ObjectAt(s, i) => f[i] = <<EntryAt(s, i)>> \o f[After(s, i)]
  BY <1>6, Zenon
<1>8. \A i \in 1..N : ObjectAt(s, i) => After(s, i) \in (i + 1)..N /\ EntryAt(s, i) \in Entries(s)
  BY <1>1, Onward
<1> DEFINE Bad == {k \in 0..(N - 1) : f[N - k] \notin Seq(Entries(s))}
<1>9. Bad = {}
  <2>1. SUFFICES ASSUME Bad # {} PROVE FALSE
    OBVIOUS
  <2>2. PICK m \in Bad : \A k \in Bad : m <= k
    <3>1. Bad \in SUBSET Nat
      BY <1>1
    <3> HIDE DEF Bad
    <3> QED BY <2>1, <3>1, SmallestExists
  <2>3. m \in 0..(N - 1) /\ f[N - m] \notin Seq(Entries(s))
    OBVIOUS
  <2> HIDE DEF N
  <2>4. PICK i \in 1..N : i = N - m
    BY <1>1, <2>3
  <2>5. ObjectAt(s, i)
    <3>1. <<>> \in Seq(Entries(s))
      OBVIOUS
    <3> QED BY <1>7, <2>3, <2>4, <3>1
  <2>6. After(s, i) \in (i + 1)..N /\ EntryAt(s, i) \in Entries(s)
    BY <1>8, <2>5
  <2>7. N - After(s, i) \in 0..(N - 1) /\ ~(m <= N - After(s, i)) /\ N - (N - After(s, i)) = After(s, i)
    BY <1>1, <2>3, <2>4, <2>6
  <2>8. f[After(s, i)] \in Seq(Entries(s))
    BY <2>2, <2>7
  <2>9. f[i] \in Seq(Entries(s))
    <3>1. <<EntryAt(s, i)>> \o f[After(s, i)] \in Seq(Entries(s))
      BY <2>6, <2>8, Prepended
    <3> QED BY <1>7, <2>5, <3>1
  <2> QED BY <2>3, <2>4, <2>9
<1>10. f \in [1..N -> Seq(Entries(s))]
  <2>1. ASSUME NEW i \in 1..N PROVE f[i] \in Seq(Entries(s))
    <3>1. N - i \in 0..(N - 1) /\ N - (N - i) = i
      BY <1>1
    <3> QED BY <1>9, <3>1
  <2>2. f = [i \in 1..N |-> f[i]]
    <3>1. DOMAIN f = 1..N /\ f = [i \in DOMAIN f |-> f[i]]
      <4>1. DOMAIN Step(f) = 1..N /\ Step(f) = [i \in DOMAIN Step(f) |-> Step(f)[i]]
        <5> HIDE DEF Value, N
        <5> QED OBVIOUS
      <4> HIDE DEF Step, N
      <4> QED BY <1>5, <4>1, Zenon
    <3> HIDE DEF N, Step
    <3> QED BY <3>1, Zenon
  <2> HIDE DEF N, Step
  <2> QED BY <2>1, <2>2
<1> QED BY <1>5, <1>7, <1>10 DEF Found

(* Each object that is found stands somewhere in the text.                 *)
LEMMA Stands ==
  ASSUME NEW s \in Seq(Ascii), NEW tag, TagValue(s, tag) # <<>>
  PROVE  \E pos \in Starts(s) : SubSeq(s, pos, pos + 1) = tag
                                /\ TagValue(s, tag) = SubSeq(s, pos + 4, pos + 3 + SizeAt(s, pos))
<1>1. PICK objects \in Seq(Entries(s)) : objects = parseTLV(s)
  <2>1. PICK g : Found(s, 1, g) /\ parseTLV(s) = g[1]
    BY Parsed
  <2>2. 1 \in 1..(Len(s) + 1)
    OBVIOUS
  <2> QED BY <2>1, <2>2 DEF Found
<1>2. PICK at : at = {i \in DOMAIN objects : objects[i].tag = tag}
  OBVIOUS
<1>3. at # {} /\ TagValue(s, tag) = objects[Max(at)].value
  BY <1>1, <1>2 DEF TagValue
<1>4. Max(at) \in at
  <2>1. \E i \in at : \A j \in at : i >= j
    <3>1. PICK N \in Nat : at \subseteq 1..N
      <4>1. Len(objects) \in Nat /\ DOMAIN objects = 1..Len(objects)
        OBVIOUS
      <4> QED BY <1>2, <4>1
    <3> DEFINE Rest == {k \in 0..N : N - k \in at}
    <3>2. \A j \in at : j \in Nat /\ N - j \in 0..N /\ N - (N - j) = j
      BY <3>1
    <3>3. Rest \in SUBSET Nat /\ Rest # {} /\ \A j \in at : N - j \in Rest
      <4>1. \A j \in at : N - j \in Rest
        BY <3>2
      <4>2. \E j \in at : TRUE
        BY <1>3
      <4>3. Rest \in SUBSET Nat
        OBVIOUS
      <4> HIDE DEF Rest
      <4> QED BY <4>1, <4>2, <4>3
    <3>4. PICK r \in Rest : \A k \in Rest : r <= k
      <4> HIDE DEF Rest
      <4> QED BY <3>3, SmallestExists
    <3>5. N - r \in at /\ r \in Nat
      BY <3>1
    <3>6. \A j \in at : N - r >= j
      <4> HIDE DEF Rest
      <4> QED BY <3>2, <3>3, <3>4, <3>5
    <3> QED BY <3>5, <3>6
  <2> QED BY <2>1 DEF Max
<1>5. PICK e \in Entries(s) : e.tag = tag /\ TagValue(s, tag) = e.value
  <2>1. PICK i \in at : i = Max(at)
    BY <1>4
  <2>2. i \in DOMAIN objects /\ objects[i].tag = tag /\ objects[i] \in Entries(s)
    BY <1>2
  <2> QED BY <1>3, <2>1, <2>2
<1>6. PICK pos \in Starts(s) : e = EntryAt(s, pos)
  BY DEF Entries
<1> QED BY <1>5, <1>6 DEF EntryAt

----------------------------------------------------------------------------
(* The catalogue's check.                                                  *)

LEMMA Same ==
  ASSUME NEW S, NEW f \in Seq(S), NEW g \in Seq(S), Len(f) = Len(g), \A i \in 1..Len(f) : f[i] = g[i]
  PROVE  f = g
OBVIOUS

LEMMA Window ==
  ASSUME NEW S, NEW s \in Seq(S), NEW m \in Nat, NEW n \in Nat, NEW a, NEW z,
         a = m + 1, z = m + n, m + n <= Len(s)
  PROVE  SubSeq(s, a, z) \in Seq(S) /\ Len(SubSeq(s, a, z)) = n /\ \A k \in 1..n : SubSeq(s, a, z)[k] = s[m + k]
<1>1. a \in Nat \ {0} /\ z \in Nat /\ a <= z + 1 /\ z <= Len(s) /\ z - a + 1 = n /\ \A k \in 1..n : a + k - 1 = m + k
  OBVIOUS
<1>2. /\ SubSeq(s, a, z) \in Seq(S) /\ Len(SubSeq(s, a, z)) = z - a + 1
      /\ \A i \in 1..(z - a + 1) : SubSeq(s, a, z)[i] = s[a + i - 1]
  BY <1>1, SubLists
<1> QED BY <1>1, <1>2

(* The tag of the checksum, and an object of tag 63 and four characters.   *)
LEMMA Markers ==
  ASSUME NEW s \in Seq(Ascii), NEW i \in Nat \ {0}, i + 3 <= Len(s)
  PROVE  SubSeq(s, i, i + 3) = CrcTag <=> s[i] = 54 /\ s[i + 1] = 51 /\ s[i + 2] = 48 /\ s[i + 3] = 52
<1>1. PICK f : f = SubSeq(s, i, i + 3)
  OBVIOUS
<1>2. i <= i + 3 + 1 /\ i + 3 - i + 1 = 4 /\ i + 3 \in Nat /\ i + 1 - 1 = i /\ i + 2 - 1 = i + 1 /\ i + 3 - 1 = i + 2
      /\ i + 4 - 1 = i + 3
  OBVIOUS
<1>3. f \in Seq(Ascii) /\ Len(f) = 4 /\ \A k \in 1..4 : f[k] = s[i + k - 1]
  BY <1>1, <1>2, SubLists
<1>4. f[1] = s[i] /\ f[2] = s[i + 1] /\ f[3] = s[i + 2] /\ f[4] = s[i + 3]
  <2>1. 1 \in 1..4 /\ 2 \in 1..4 /\ 3 \in 1..4 /\ 4 \in 1..4
    OBVIOUS
  <2> QED BY <1>2, <1>3, <2>1
<1>5. CrcTag \in Seq(Ascii) /\ Len(CrcTag) = 4 /\ CrcTag[1] = 54 /\ CrcTag[2] = 51 /\ CrcTag[3] = 48 /\ CrcTag[4] = 52
  BY DEF CrcTag, Ascii
<1>6. f = CrcTag <=> f[1] = CrcTag[1] /\ f[2] = CrcTag[2] /\ f[3] = CrcTag[3] /\ f[4] = CrcTag[4]
  <2>1. f = CrcTag <=> \A k \in 1..4 : f[k] = CrcTag[k]
    <3>1. PICK tag \in Seq(Ascii) : tag = CrcTag /\ Len(tag) = 4
      BY <1>5
    <3>2. f = tag <=> \A k \in 1..4 : f[k] = tag[k]
      BY ONLY <1>3, tag \in Seq(Ascii), <3>1, Quads
    <3> QED BY <3>1, <3>2
  <2>2. \A k \in 1..4 : k = 1 \/ k = 2 \/ k = 3 \/ k = 4
    OBVIOUS
  <2> QED BY <2>1, <2>2
<1> QED BY <1>1, <1>4, <1>5, <1>6

LEMMA FourOf63 ==
  ASSUME NEW s \in Seq(Ascii), NEW pos \in Starts(s), SubSeq(s, pos, pos + 1) = <<54, 51>>,
         Len(SubSeq(s, pos + 4, pos + 3 + SizeAt(s, pos))) = 4
  PROVE  /\ pos \in 1..(Len(s) - 3) /\ SubSeq(s, pos, pos + 3) = CrcTag /\ pos + 7 <= Len(s)
         /\ SizeAt(s, pos) = 4
<1>1. pos \in 1..Len(s) /\ ObjectAt(s, pos) /\ pos \in Nat \ {0} /\ Len(s) \in Nat
  BY DEF Starts
<1>2. pos + 3 <= Len(s) /\ pos + 3 + SizeAt(s, pos) <= Len(s) /\ s[pos + 2] \in Digit /\ s[pos + 3] \in Digit
  BY <1>1 DEF ObjectAt
<1>3. PICK k \in 0..99 : k = SizeAt(s, pos)
  BY <1>1, Onward
<1>4. k = 4
  <2>1. pos + 3 \in Nat /\ pos + 4 = pos + 3 + 1 /\ k \in Nat /\ pos + 3 + k <= Len(s)
    BY <1>1, <1>2, <1>3, SMTT(60)
  <2>2. Len(SubSeq(s, pos + 4, pos + 3 + k)) = k
    BY <2>1, Window
  <2> QED BY <1>3, <2>2
<1>5. s[pos + 2] = 48 /\ s[pos + 3] = 52
  <2>1. \A c, d \in Digit : 10 * (c - 48) + (d - 48) = 4 => c = 48 /\ d = 52
    BY DEF Digit
  <2> QED BY <1>2, <1>3, <1>4, <2>1 DEF SizeAt
<1>6. s[pos] = 54 /\ s[pos + 1] = 51
  <2>1. pos <= pos + 1 + 1 /\ pos + 1 \in Nat /\ pos + 1 <= Len(s) /\ pos + 1 - pos + 1 = 2
        /\ pos + 1 - 1 = pos /\ pos + 2 - 1 = pos + 1
    BY <1>1, <1>2
  <2>2. PICK f : f = SubSeq(s, pos, pos + 1)
    OBVIOUS
  <2>3. \A i \in 1..2 : f[i] = s[pos + i - 1]
    BY <1>1, <2>1, <2>2, SubLists
  <2>4. f[1] = s[pos] /\ f[2] = s[pos + 1]
    <3>1. 1 \in 1..2 /\ 2 \in 1..2
      OBVIOUS
    <3> QED BY <2>1, <2>3, <3>1
  <2>5. f = <<54, 51>> /\ <<54, 51>>[1] = 54 /\ <<54, 51>>[2] = 51
    BY <2>2
  <2> QED BY <2>4, <2>5
<1>7. pos \in 1..(Len(s) - 3) /\ pos + 7 <= Len(s)
  <2>1. pos + 3 + 4 <= Len(s)
    BY <1>2, <1>3, <1>4
  <2> QED BY <1>1, <2>1
<1> QED BY <1>1, <1>2, <1>3, <1>4, <1>5, <1>6, <1>7, Markers

(* The tag of the checksum stands nowhere but after the body of length L.  *)
Once(s, L) == \A i \in 1..(Len(s) - 3) : SubSeq(s, i, i + 3) = CrcTag => i = L + 1

(* The catalogue then compares what the reader compares.                   *)
LEMMA CatalogueAsReader ==
  ASSUME NEW s \in Seq(Ascii), NEW L \in Nat, Once(s, L), validatePeruvianText(s)
  PROVE  Len(s) >= L + 8 /\ (Len(s) = L + 8 => verifyCRC16Text(s))
<1>1. PICK v : v = TagValue(s, <<54, 51>>)
  OBVIOUS
<1>2. v # <<>> /\ LastMarker(s) > 0 /\ Hex4(crc16ccitt(SubSeq(s, 1, LastMarker(s) + 3))) = UpperCase(v)
  BY <1>1 DEF validatePeruvianText, validateEmvcoText
<1>3. PICK pos \in Starts(s) : SubSeq(s, pos, pos + 1) = <<54, 51>> /\ v = SubSeq(s, pos + 4, pos + 3 + SizeAt(s, pos))
  BY <1>1, <1>2, Stands
<1>4. PICK a : a = {i \in 1..(Len(s) - 3) : SubSeq(s, i, i + 3) = CrcTag}
  OBVIOUS
<1>5. LastMarker(s) = IF a = {} THEN 0 ELSE CHOOSE i \in a : \A j \in a : j <= i
  BY <1>4 DEF LastMarker
<1>6. a = {L + 1} /\ LastMarker(s) = L + 1
  <2>1. a # {}
    BY <1>2, <1>5
  <2>2. a = {L + 1}
    BY <1>4, <2>1 DEF Once
  <2>3. (CHOOSE i \in a : \A j \in a : j <= i) = L + 1
    <3>1. \A j \in {L + 1} : j <= L + 1
      OBVIOUS
    <3> QED BY <2>2, <3>1
  <2> QED BY <1>5, <2>1, <2>2, <2>3
<1>7. v \in Seq(Ascii)
  <2>1. pos \in Nat \ {0} /\ ObjectAt(s, pos)
    BY DEF Starts
  <2>2. PICK k \in 0..99 : k = SizeAt(s, pos)
    BY <2>1, Onward
  <2>3. pos + 3 \in Nat /\ pos + 4 = pos + 3 + 1 /\ k \in Nat
    BY <2>1
  <2>4. pos + 3 + k <= Len(s)
    BY <2>1, <2>2, Zenon DEF ObjectAt
  <2>5. SubSeq(s, pos + 4, pos + 3 + k) \in Seq(Ascii)
    BY <2>3, <2>4, Window
  <2> QED BY <1>3, <2>2, <2>5
<1>8. Len(v) = 4
  <2>1. PICK h : h = Hex4(crc16ccitt(SubSeq(s, 1, LastMarker(s) + 3)))
    OBVIOUS
  <2>2. DOMAIN h = 1..4
    <3>1. \E x1, x2, x3, x4 : h = <<x1, x2, x3, x4>>
      BY <2>1 DEF Hex4
    <3> QED BY <3>1
  <2>3. DOMAIN h = DOMAIN v
    BY <1>2, <2>1 DEF UpperCase
  <2> QED BY <1>7, <2>2, <2>3
<1>9. pos = L + 1 /\ pos + 7 <= Len(s) /\ SizeAt(s, pos) = 4
  BY <1>3, <1>8, FourOf63 DEF Once
<1>10. Len(s) >= L + 8
  BY <1>9
<1>11. ASSUME Len(s) = L + 8 PROVE verifyCRC16Text(s)
  <2>1. s[L + 1] = 54 /\ s[L + 2] = 51 /\ s[L + 3] = 48 /\ s[L + 4] = 52
    <3>1. L + 1 \in Nat \ {0} /\ L + 1 + 3 <= Len(s) /\ L + 1 + 1 = L + 2 /\ L + 1 + 2 = L + 3 /\ L + 1 + 3 = L + 4
      BY <1>11
    <3>2. SubSeq(s, L + 1, L + 1 + 3) = CrcTag
      BY <1>4, <1>6
    <3> QED BY <3>1, <3>2, Markers
  <2>2. \A k \in 1..4 : s[L + k] = CrcTag[k]
    <3>1. CrcTag[1] = 54 /\ CrcTag[2] = 51 /\ CrcTag[3] = 48 /\ CrcTag[4] = 52
      BY DEF CrcTag
    <3>2. \A k \in 1..4 : k = 1 \/ k = 2 \/ k = 3 \/ k = 4
      OBVIOUS
    <3> QED BY <2>1, <3>1, <3>2
  <2>3. PICK p \in Seq(Ascii) : p = SubSeq(s, 1, L) /\ Len(p) = L /\ \A i \in 1..L : p[i] = s[i]
    BY <1>11, ReaderChecks
  <2>4. SubSeq(s, 1, L + 4) = p \o CrcTag
    <3>1. PICK q \in Seq(Ascii) : q = SubSeq(s, 1, L + 4) /\ Len(q) = L + 4 /\ \A i \in 1..(L + 4) : q[i] = s[i]
      <4>1. 0 \in Nat /\ L + 4 \in Nat /\ 1 = 0 + 1 /\ L + 4 = 0 + (L + 4) /\ 0 + (L + 4) <= Len(s)
            /\ \A i \in 1..(L + 4) : 0 + i = i
        BY <1>11
      <4>2. PICK q : q = SubSeq(s, 1, L + 4)
        OBVIOUS
      <4>3. q \in Seq(Ascii) /\ Len(q) = L + 4 /\ \A k \in 1..(L + 4) : q[k] = s[0 + k]
        BY <4>1, <4>2, Window
      <4>4. \A i \in 1..(L + 4) : q[i] = s[i]
        BY <4>1, <4>3
      <4> QED BY <4>2, <4>3, <4>4
    <3>2. PICK r \in Seq(Ascii) : r = p \o CrcTag /\ Len(r) = L + 4 /\ (\A i \in 1..L : r[i] = p[i])
                                  /\ \A k \in 1..4 : r[L + k] = CrcTag[k]
      <4>1. PICK r : r = p \o CrcTag
        OBVIOUS
      <4>2. r \in Seq(Ascii) /\ Len(r) = Len(p) + 4 /\ (\A i \in 1..Len(p) : r[i] = p[i])
            /\ \A k \in 1..4 : r[Len(p) + k] = CrcTag[k]
        BY <4>1, Tagged
      <4>3. Len(p) = L
        BY <2>3
      <4>4. Len(r) = L + 4 /\ (\A i \in 1..L : r[i] = p[i]) /\ \A k \in 1..4 : r[L + k] = CrcTag[k]
        BY <4>2, <4>3
      <4> QED BY <4>1, <4>2, <4>4, Zenon
    <3>3. ASSUME NEW i \in 1..(L + 4) PROVE q[i] = r[i]
      <4>1. CASE i \in 1..L
        BY <2>3, <3>1, <3>2, <4>1
      <4>2. CASE i \notin 1..L
        <5>1. i - L \in 1..4 /\ L + (i - L) = i
          BY <4>2
        <5> QED BY <2>2, <3>1, <3>2, <5>1
      <4> QED BY <4>1, <4>2
    <3>4. q = r
      BY <3>1, <3>2, <3>3, Same
    <3> QED BY <3>1, <3>2, <3>4
  <2>5. PICK crc \in Register : crc = Fed(Table, p \o CrcTag) /\ crc = crc16ccitt(p \o CrcTag)
    BY <2>3, Checksum
  <2>6. Hex4(crc) = UpperCase(v)
    <3>1. L + 1 + 3 = L + 4
      OBVIOUS
    <3> QED BY <1>2, <1>6, <2>4, <2>5, <3>1
  <2>7. \A k \in 1..4 : v[k] = s[L + 4 + k]
    <3>1. L + 4 \in Nat /\ L + 5 = L + 4 + 1 /\ L + 8 = L + 4 + 4 /\ L + 4 + 4 <= Len(s) /\ 4 \in Nat
          /\ L + 1 + 4 = L + 5 /\ L + 1 + 3 + 4 = L + 8
      BY <1>11
    <3>2. v = SubSeq(s, L + 5, L + 8)
      BY <1>3, <1>9, <3>1
    <3>3. \A k \in 1..4 : SubSeq(s, L + 5, L + 8)[k] = s[L + 4 + k]
      BY <3>1, Window
    <3> QED BY <3>2, <3>3
  <2>8. \A k \in 1..4 : Upper(s[L + 4 + k]) = Hex4(crc)[k]
    <3>1. v \in Seq(Ascii) /\ DOMAIN v = 1..4
      BY <1>8, <1>7
    <3>2. \A k \in 1..4 : UpperCase(v)[k] = Upper(v[k])
      BY <3>1 DEF UpperCase
    <3> QED BY <2>6, <2>7, <3>2
  <2>9. \A k \in 1..4 : s[L + 4 + k] \in HexDigit
    <3>1. \A c \in Ascii : Upper(c) \in 48..57 \cup 65..70 => c \in HexDigit
      BY DEF Ascii, Upper, HexDigit, Digit
    <3>2. \A k \in 1..4 : s[L + 4 + k] \in Ascii
      <4>1. \A k \in 1..4 : L + 4 + k \in 1..Len(s)
        BY <1>11
      <4> QED BY <4>1
    <3>3. \A k \in 1..4 : Upper(s[L + 4 + k]) \in 48..57 \cup 65..70
      <4>1. \A k \in 1..4 : Hex4(crc)[k] \in 48..57 \cup 65..70
        BY Written
      <4> QED BY ONLY <2>8, <4>1, Zenon
    <3> QED BY <3>1, <3>2, <3>3
  <2>10. verifyCRC16Text(s) <=>
           /\ \A k \in 1..4 : s[L + k] = CrcTag[k]
           /\ \A k \in 1..4 : s[L + 4 + k] \in HexDigit
           /\ \A k \in 1..4 : Upper(s[L + 4 + k]) = Hex4(Fed(Table, p \o CrcTag))[k]
    BY <1>11, <2>3, ReaderChecks
  <2> QED BY <2>2, <2>5, <2>8, <2>9, <2>10
<1> QED BY <1>10, <1>11

(* A body of whole objects: the places where they start.                   *)
Whole(b) ==
  \E P \in SUBSET (1..(Len(b) + 1)) :
    /\ 1 \in P /\ Len(b) + 1 \in P
    /\ \A pos \in P : pos # Len(b) + 1 => ObjectAt(b, pos) /\ After(b, pos) \in P

(* What follows a body does not change its objects.                        *)
LEMMA Extended ==
  ASSUME NEW b \in Seq(Ascii), NEW t \in Seq(Ascii), Len(b) <= Len(t), \A i \in 1..Len(b) : t[i] = b[i],
         NEW pos \in Nat \ {0}, ObjectAt(b, pos)
  PROVE  ObjectAt(t, pos) /\ After(t, pos) = After(b, pos)
<1>1. PICK n \in Nat, m \in Nat, k \in 0..99 : n = Len(b) /\ m = Len(t) /\ k = SizeAt(b, pos)
  BY Onward
<1>2. n <= m /\ pos + 3 <= n /\ pos + 3 + k <= n /\ (\A i \in 1..n : t[i] = b[i]) /\ \A i \in pos..(pos + 3) : b[i] \in Digit
  BY <1>1 DEF ObjectAt
<1>3. \A i \in pos..(pos + 3) : i \in 1..n
  BY <1>2
<1>4. pos + 2 \in 1..n /\ pos + 3 \in 1..n /\ pos + 3 <= m /\ pos + 3 + k <= m
  BY <1>2
<1>5. SizeAt(t, pos) = k
  BY <1>1, <1>2, <1>4 DEF SizeAt
<1>6. \A i \in pos..(pos + 3) : t[i] \in Digit
  BY <1>2, <1>3
<1> QED BY <1>1, <1>4, <1>5, <1>6 DEF ObjectAt, After

(* One more object.                                                        *)
LEMMA WholeGrows ==
  ASSUME NEW b \in Seq(Ascii), Whole(b), NEW o \in Seq(Ascii), WellFormed(o)
  PROVE  Whole(b \o o)
<1>1. PICK t : t = b \o o
  OBVIOUS
<1>2. PICK L \in Nat, M \in Nat : L = Len(b) /\ M = Len(o)
  OBVIOUS
<1>3. t \in Seq(Ascii) /\ Len(t) = L + M /\ \A i \in 1..(L + M) : t[i] = IF i <= L THEN b[i] ELSE o[i - L]
  <2>1. /\ b \o o \in Seq(Ascii) /\ Len(b \o o) = Len(b) + Len(o)
        /\ \A i \in 1..(Len(b) + Len(o)) : (b \o o)[i] = IF i <= Len(b) THEN b[i] ELSE o[i - Len(b)]
    BY ConcatProperties, Zenon
  <2> QED BY ONLY <1>1, <1>2, <2>1, Zenon
<1>4. (\A i \in 1..L : t[i] = b[i]) /\ \A i \in 1..M : t[L + i] = o[i]
  <2>1. (\A i \in 1..L : i \in 1..(L + M) /\ i <= L)
        /\ \A i \in 1..M : L + i \in 1..(L + M) /\ ~(L + i <= L) /\ L + i - L = i
    OBVIOUS
  <2> QED BY ONLY <1>3, <2>1
<1>5. PICK P \in SUBSET (1..(L + 1)) :
        1 \in P /\ L + 1 \in P /\ \A pos \in P : pos # L + 1 => ObjectAt(b, pos) /\ After(b, pos) \in P
  BY <1>2 DEF Whole
<1> DEFINE Q == P \cup {L + M + 1}
<1>6. M >= 4 /\ (\A i \in 1..4 : o[i] \in Digit) /\ M = 4 + 10 * (o[3] - 48) + (o[4] - 48)
  BY <1>2 DEF WellFormed
<1>7. ObjectAt(t, L + 1) /\ After(t, L + 1) = L + M + 1
  <2>1. L + 1 + 2 = L + 3 /\ L + 1 + 3 = L + 4 /\ 3 \in 1..M /\ 4 \in 1..M /\ \A i \in 1..4 : i \in 1..M
    BY <1>6
  <2>2. t[L + 3] = o[3] /\ t[L + 4] = o[4] /\ \A i \in 1..4 : t[L + i] \in Digit
    BY <1>4, <1>6, <2>1
  <2>3. PICK c \in Int, d \in Int : c = o[3] /\ d = o[4]
    <3>1. \A x \in Digit : x \in Int
      BY DEF Digit
    <3>2. o[3] \in Digit /\ o[4] \in Digit
      BY <1>6
    <3> QED BY <3>1, <3>2
  <2>4. SizeAt(t, L + 1) = M - 4
    <3>1. SizeAt(t, L + 1) = 10 * (c - 48) + (d - 48)
      BY <2>1, <2>2, <2>3 DEF SizeAt
    <3>2. M = 4 + 10 * (c - 48) + (d - 48)
      BY <1>6, <2>3
    <3> QED BY <3>1, <3>2
  <2>5. \A i \in (L + 1)..(L + 4) : i - L \in 1..4 /\ L + (i - L) = i
    OBVIOUS
  <2>6. \A i \in (L + 1)..(L + 4) : t[i] \in Digit
    BY <2>2, <2>5
  <2>7. L + 4 <= L + M /\ L + 4 + (M - 4) <= L + M /\ L + 1 + 4 + (M - 4) = L + M + 1
    BY <1>6
  <2> QED BY <1>3, <2>1, <2>4, <2>6, <2>7 DEF ObjectAt, After
<1>8. ASSUME NEW pos \in P, pos # L + 1 PROVE ObjectAt(t, pos) /\ After(t, pos) \in P
  <2>1. pos \in Nat \ {0} /\ ObjectAt(b, pos) /\ After(b, pos) \in P
    BY <1>5, <1>8
  <2>2. Len(b) <= Len(t)
    BY <1>2, <1>3
  <2>3. \A i \in 1..Len(b) : t[i] = b[i]
    BY <1>2, <1>4
  <2>4. ObjectAt(t, pos) /\ After(t, pos) = After(b, pos)
    BY <1>3, <2>1, <2>2, <2>3, Extended
  <2> QED BY <2>1, <2>4
<1>9. Q \in SUBSET (1..(Len(t) + 1)) /\ 1 \in Q /\ Len(t) + 1 \in Q
  <2>1. \A i \in 1..(L + 1) : i \in 1..(L + M + 1)
    OBVIOUS
  <2> QED BY <1>3, <1>5, <2>1
<1>10. \A pos \in Q : pos # Len(t) + 1 => ObjectAt(t, pos) /\ After(t, pos) \in Q
  BY <1>3, <1>7, <1>8
<1> HIDE DEF Q
<1> QED BY <1>1, <1>9, <1>10 DEF Whole

(* The walk over a code of whole objects ends with its checksum.           *)
LEMMA ChecksumIsLast ==
  ASSUME NEW b \in Seq(Ascii), Whole(b), NEW t, NEW crc \in Register, Printout(b, t, crc)
  PROVE  TagValue(t, <<54, 51>>) = Hex4(crc)
<1>1. PICK L \in Nat : L = Len(b)
  OBVIOUS
<1>2. /\ t \in Seq(Ascii) /\ Len(t) = L + 8 /\ (\A i \in 1..L : t[i] = b[i])
      /\ (\A k \in 1..4 : t[L + k] = CrcTag[k]) /\ \A k \in 1..4 : t[L + 4 + k] = Hex4(crc)[k]
  BY <1>1 DEF Printout
<1>3. PICK P \in SUBSET (1..(L + 1)) :
        1 \in P /\ L + 1 \in P /\ \A pos \in P : pos # L + 1 => ObjectAt(b, pos) /\ After(b, pos) \in P
  BY <1>1 DEF Whole
<1>4. PICK g : Found(t, 1, g) /\ parseTLV(t) = g[1]
  BY <1>2, Parsed
<1>5. /\ g \in [1..(L + 9) -> Seq(Entries(t))]
      /\ \A i \in 1..(L + 9) : ~ObjectAt(t, i) => g[i] = <<>>
      /\ \A i \in 1..(L + 9) : ObjectAt(t, i) => g[i] = <<EntryAt(t, i)>> \o g[After(t, i)]
  <2>1. Len(t) + 1 = L + 9
    BY <1>2
  <2> QED BY <1>4, <2>1 DEF Found
<1> DEFINE last == EntryAt(t, L + 1)
<1>6. ObjectAt(t, L + 1) /\ After(t, L + 1) = L + 9 /\ last.tag = <<54, 51>> /\ last.value = Hex4(crc)
  <2>1. t[L + 1] = 54 /\ t[L + 2] = 51 /\ t[L + 3] = 48 /\ t[L + 4] = 52
    BY <1>2 DEF CrcTag
  <2>2. L + 1 + 2 = L + 3 /\ L + 1 + 3 = L + 4 /\ L + 1 + 1 = L + 2 /\ L + 1 + 4 = L + 5 /\ L + 1 + 3 + 4 = L + 8
        /\ L + 1 + 4 + 4 = L + 9
    OBVIOUS
  <2>3. SizeAt(t, L + 1) = 4
    BY <2>1, <2>2 DEF SizeAt
  <2>4. ObjectAt(t, L + 1) /\ After(t, L + 1) = L + 9
    <3>1. \A i \in (L + 1)..(L + 4) : i = L + 1 \/ i = L + 2 \/ i = L + 3 \/ i = L + 4
      OBVIOUS
    <3>2. \A i \in (L + 1)..(L + 4) : t[i] \in Digit
      <4>1. 54 \in Digit /\ 51 \in Digit /\ 48 \in Digit /\ 52 \in Digit
        BY DEF Digit
      <4> QED BY <2>1, <3>1, <4>1
    <3>3. L + 4 <= Len(t) /\ L + 8 <= Len(t)
      BY <1>2
    <3> QED BY <2>2, <2>3, <3>2, <3>3 DEF ObjectAt, After
  <2>5. last.tag = SubSeq(t, L + 1, L + 2) /\ last.value = SubSeq(t, L + 5, L + 8)
    BY <2>2, <2>3 DEF EntryAt
  <2>6. SubSeq(t, L + 1, L + 2) = <<54, 51>>
    <3>1. PICK f : f = SubSeq(t, L + 1, L + 2)
      OBVIOUS
    <3>2. f \in Seq(Ascii) /\ Len(f) = 2 /\ \A k \in 1..2 : f[k] = t[L + k]
      <4>1. 2 \in Nat /\ L + 2 <= Len(t)
        BY <1>2
      <4>2. \A a, z : a = L + 1 /\ z = L + 2 =>
              SubSeq(t, a, z) \in Seq(Ascii) /\ Len(SubSeq(t, a, z)) = 2 /\ \A k \in 1..2 : SubSeq(t, a, z)[k] = t[L + k]
        BY <1>2, <4>1, Window
      <4> QED BY <3>1, <4>2
    <3>3. f[1] = 54 /\ f[2] = 51
      BY <2>1, <3>2
    <3>4. f = <<f[1], f[2]>>
      BY <3>2
    <3> QED BY <3>1, <3>3, <3>4
  <2>7. SubSeq(t, L + 5, L + 8) = Hex4(crc)
    <3>1. PICK f : f = SubSeq(t, L + 5, L + 8)
      OBVIOUS
    <3>2. f \in Seq(Ascii) /\ Len(f) = 4 /\ \A k \in 1..4 : f[k] = t[L + 4 + k]
      <4>1. 4 \in Nat /\ L + 4 \in Nat /\ L + 4 + 4 <= Len(t) /\ L + 5 = L + 4 + 1 /\ L + 8 = L + 4 + 4
        BY <1>2
      <4>2. PICK d \in Nat : d = L + 4 /\ d + 4 <= Len(t)
        BY <4>1
      <4>3. \A a, z : a = d + 1 /\ z = d + 4 =>
              SubSeq(t, a, z) \in Seq(Ascii) /\ Len(SubSeq(t, a, z)) = 4 /\ \A k \in 1..4 : SubSeq(t, a, z)[k] = t[d + k]
        BY ONLY <1>2, <4>2, 4 \in Nat, Window
      <4>4. L + 5 = d + 1 /\ L + 8 = d + 4
        BY <4>2
      <4>5. f \in Seq(Ascii) /\ Len(f) = 4 /\ \A k \in 1..4 : f[k] = t[d + k]
        BY <3>1, <4>3, <4>4, ZenonT(60)
      <4> QED BY <4>2, <4>5
    <3>3. PICK h : h = Hex4(crc)
      OBVIOUS
    <3>4. h = <<h[1], h[2], h[3], h[4]>> /\ \A k \in 1..4 : f[k] = h[k]
      BY <1>2, <3>2, <3>3, Written
    <3>5. f = <<f[1], f[2], f[3], f[4]>>
      BY <3>2
    <3>6. f[1] = h[1] /\ f[2] = h[2] /\ f[3] = h[3] /\ f[4] = h[4]
      BY <3>4
    <3> QED BY <3>1, <3>3, <3>4, <3>5, <3>6
  <2> QED BY <2>4, <2>5, <2>6, <2>7
<1>7. \A pos \in P : pos \in 1..(L + 9) /\ pos \in Nat \ {0}
  OBVIOUS
<1>8. \A pos \in P : pos # L + 1 => ObjectAt(t, pos) /\ After(t, pos) \in P /\ After(t, pos) \in (pos + 1)..(L + 9)
  <2>1. ASSUME NEW pos \in P, pos # L + 1
        PROVE  ObjectAt(t, pos) /\ After(t, pos) \in P /\ After(t, pos) \in (pos + 1)..(L + 9)
    <3>1. ObjectAt(b, pos) /\ After(b, pos) \in P
      BY <1>3, <2>1
    <3>2. Len(b) <= Len(t) /\ \A i \in 1..Len(b) : t[i] = b[i]
      BY <1>1, <1>2
    <3>3. ObjectAt(t, pos) /\ After(t, pos) = After(b, pos)
      BY <1>2, <1>7, <3>1, <3>2, Extended
    <3>4. After(t, pos) \in (pos + 1)..(Len(t) + 1)
      BY <1>2, <1>7, <3>3, Onward
    <3> QED BY <1>2, <3>1, <3>3, <3>4
  <2> QED BY <2>1
<1> HIDE DEF last
<1> DEFINE Good(pos) == g[pos] # <<>> /\ g[pos][Len(g[pos])] = last
           Bad == {k \in 0..(L + 1) : L + 1 - k \in P /\ ~Good(L + 1 - k)}
<1>9. Good(L + 1)
  <2>1. L + 9 \in 1..(L + 9) /\ L + 9 \in Nat \ {0} /\ ~(L + 9 + 3 <= L + 8) /\ L + 1 \in 1..(L + 9)
    OBVIOUS
  <2>2. g[L + 9] = <<>>
    <3>1. ~ObjectAt(t, L + 9)
      BY <1>2, <2>1 DEF ObjectAt
    <3> QED BY <1>5, <2>1, <3>1
  <2>3. g[L + 1] = <<last>> \o <<>>
    BY <1>5, <1>6, <2>1, <2>2 DEF last
  <2>4. last \in Entries(t)
    <3>1. L + 1 \in Nat \ {0}
      OBVIOUS
    <3> QED BY <1>2, <1>6, <3>1, Onward DEF last
  <2>5. PICK q : q = <<last>> \o <<>>
    OBVIOUS
  <2>6. Len(q) = 1 /\ q[1] = last
    <3>1. <<>> \in Seq(Entries(t)) /\ Len(<<>>) = 0
      OBVIOUS
    <3>2. Len(<<last>> \o <<>>) = Len(<<>>) + 1 /\ (<<last>> \o <<>>)[1] = last
      BY <2>4, <3>1, Prepended, Zenon
    <3>3. Len(q) = Len(<<>>) + 1 /\ q[1] = last
      BY ONLY <2>5, <3>2, Zenon
    <3> QED BY <3>1, <3>3
  <2>7. g[L + 1] = q /\ q # <<>> /\ q[Len(q)] = last
    BY <2>3, <2>5, <2>6
  <2> QED BY <2>7
<1>10. ASSUME NEW pos \in P, pos # L + 1, Good(After(t, pos)) PROVE Good(pos)
  <2>1. PICK q \in Seq(Entries(t)) : q = g[After(t, pos)] /\ q # <<>> /\ q[Len(q)] = last
    <3>1. After(t, pos) \in 1..(L + 9)
      BY <1>7, <1>8, <1>10
    <3>2. g[After(t, pos)] \in Seq(Entries(t))
      BY <1>5, <3>1
    <3> QED BY <1>10, <3>2
  <2>2. g[pos] = <<EntryAt(t, pos)>> \o q /\ EntryAt(t, pos) \in Entries(t)
    <3>1. ObjectAt(t, pos) /\ pos \in 1..(L + 9) /\ pos \in Nat \ {0}
      BY <1>7, <1>8, <1>10
    <3>2. g[pos] = <<EntryAt(t, pos)>> \o g[After(t, pos)]
      BY <1>5, <3>1
    <3>3. EntryAt(t, pos) \in Entries(t)
      BY <1>2, <3>1, Onward
    <3> QED BY <2>1, <3>2, <3>3, Zenon
  <2>3. PICK w : w = <<EntryAt(t, pos)>> \o q
    OBVIOUS
  <2>4. w \in Seq(Entries(t)) /\ Len(w) = Len(q) + 1 /\ w[Len(q) + 1] = q[Len(q)]
    BY <2>1, <2>2, <2>3, Prepended
  <2>5. w # <<>> /\ w[Len(w)] = last
    BY <2>1, <2>4
  <2>6. g[pos] = w
    BY <2>2, <2>3, Zenon
  <2> QED BY <2>5, <2>6
<1>11. Bad = {}
  <2>1. SUFFICES ASSUME Bad # {} PROVE FALSE
    OBVIOUS
  <2>2. PICK m \in Bad : \A k \in Bad : m <= k
    <3>1. Bad \in SUBSET Nat
      OBVIOUS
    <3> HIDE DEF Bad
    <3> QED BY <2>1, <3>1, SmallestExists
  <2>3. m \in 0..(L + 1) /\ L + 1 - m \in P /\ ~Good(L + 1 - m)
    OBVIOUS
  <2> HIDE DEF Good
  <2>4. PICK pos \in P : pos = L + 1 - m /\ pos # L + 1 /\ ~Good(pos)
    BY <1>9, <2>3
  <2>5. PICK next \in P : next = After(t, pos) /\ next > pos /\ next <= L + 1
    BY <1>7, <1>8, <2>4
  <2>6. L + 1 - next \in 0..(L + 1) /\ ~(m <= L + 1 - next) /\ L + 1 - (L + 1 - next) = next
    BY <1>7, <2>3, <2>4, <2>5
  <2>7. Good(next)
    BY <2>2, <2>6
  <2> QED BY <1>10, <2>4, <2>5, <2>7
<1>12. Good(1)
  <2>1. L \in 0..(L + 1) /\ L + 1 - L = 1
    OBVIOUS
  <2> HIDE DEF Good
  <2> QED BY <1>3, <1>11, <2>1
<1>13. PICK objects \in Seq(Entries(t)) : objects = parseTLV(t) /\ objects # <<>> /\ objects[Len(objects)] = last
  <2>1. 1 \in 1..(L + 9)
    OBVIOUS
  <2> QED BY <1>4, <1>5, <1>12, <2>1
<1>14. PICK at : at = {i \in DOMAIN objects : objects[i].tag = <<54, 51>>}
  OBVIOUS
<1>15. at # {} /\ Max(at) = Len(objects)
  <2>1. PICK n \in Nat : n = Len(objects) /\ DOMAIN objects = 1..n /\ n # 0
    BY <1>13
  <2>2. n \in at /\ \A i \in at : i \in 1..n
    BY <1>6, <1>13, <1>14, <2>1
  <2>3. (\A i \in at : n >= i) /\ \A m \in at : (\A i \in at : m >= i) => m = n
    BY <2>2
  <2>4. Max(at) = n
    BY <2>2, <2>3 DEF Max
  <2> QED BY <2>1, <2>2, <2>4
<1> QED BY <1>6, <1>13, <1>14, <1>15 DEF TagValue

(* A Peruvian code as printed passes the catalogue's check, unless its     *)
(* checksum is 6304.                                                       *)
LEMMA PrintoutIsStored ==
  ASSUME NEW b \in Seq(Ascii), Whole(b), NEW t, Printout(b, t, Fed(Table, b \o CrcTag)),
         TagValue(t, <<53, 56>>) = PE, TagValue(t, <<53, 51>>) = Soles, SubSeq(t, Len(t) - 3, Len(t)) # CrcTag
  PROVE  validatePeruvianText(t)
<1>1. PICK crc \in Register : crc = Fed(Table, b \o CrcTag) /\ crc = crc16ccitt(b \o CrcTag)
  BY Checksum
<1>2. PICK L \in Nat : L = Len(b)
  OBVIOUS
<1>3. /\ t \in Seq(Ascii) /\ Len(t) = L + 8 /\ (\A i \in 1..L : t[i] = b[i])
      /\ (\A k \in 1..4 : t[L + k] = CrcTag[k]) /\ \A k \in 1..4 : t[L + 4 + k] = Hex4(crc)[k]
  BY <1>1, <1>2 DEF Printout
<1> t \in Seq(Ascii)
  BY <1>3
<1>4. PICK h : h = Hex4(crc)
  OBVIOUS
<1>5. h = <<h[1], h[2], h[3], h[4]>> /\ h # <<>> /\ UpperCase(h) = h
  <2>1. h = <<h[1], h[2], h[3], h[4]>> /\ \A k \in 1..4 : Upper(h[k]) = h[k]
    BY <1>4, Written
  <2>2. DOMAIN h = 1..4 /\ h # <<>> /\ h = [i \in DOMAIN h |-> h[i]]
    BY <2>1, SMTT(60)
  <2>3. UpperCase(h) = [i \in DOMAIN h |-> h[i]]
    BY <2>1, <2>2 DEF UpperCase
  <2> QED BY <2>1, <2>2, <2>3
<1>6. TagValue(t, <<54, 51>>) = h
  BY <1>1, <1>4, ChecksumIsLast
<1>7. LastMarker(t) = L + 1
  <2>1. PICK a : a = {i \in 1..(Len(t) - 3) : SubSeq(t, i, i + 3) = CrcTag}
    OBVIOUS
  <2>2. LastMarker(t) = IF a = {} THEN 0 ELSE CHOOSE i \in a : \A j \in a : j <= i
    BY <2>1 DEF LastMarker
  <2>3. t[L + 1] = 54 /\ t[L + 2] = 51 /\ t[L + 3] = 48 /\ t[L + 4] = 52
    BY <1>3 DEF CrcTag
  <2>4. L + 1 \in a
    <3>1. L + 1 \in Nat \ {0} /\ L + 1 + 3 <= Len(t) /\ L + 1 + 1 = L + 2 /\ L + 1 + 2 = L + 3 /\ L + 1 + 3 = L + 4
          /\ L + 1 \in 1..(Len(t) - 3)
      BY <1>3
    <3>2. PICK i \in Nat \ {0} : i = L + 1 /\ i + 3 <= Len(t)
      BY <3>1
    <3>3. t[i] = 54 /\ t[i + 1] = 51 /\ t[i + 2] = 48 /\ t[i + 3] = 52
      BY <2>3, <3>1, <3>2
    <3>4. SubSeq(t, i, i + 3) = CrcTag
      BY ONLY t \in Seq(Ascii), i \in Nat \ {0}, <3>2, <3>3, Markers
    <3> QED BY <2>1, <3>1, <3>2, <3>4
  <2>5. ASSUME NEW j \in a PROVE j <= L + 1
    <3>1. j \in Nat \ {0} /\ j + 3 <= L + 8 /\ j + 3 <= Len(t) /\ SubSeq(t, j, j + 3) = CrcTag
      <4>1. j \in 1..(Len(t) - 3) /\ SubSeq(t, j, j + 3) = CrcTag
        BY <2>1
      <4>2. Len(t) = L + 8
        BY <1>3
      <4>3. j \in Nat \ {0} /\ j + 3 <= L + 8
        BY ONLY <4>1, <4>2, L \in Nat
      <4> QED BY <4>1, <4>2, <4>3
    <3>2. t[j] = 54 /\ t[j + 1] = 51
      <4>1. j \in Nat \ {0}
        BY <3>1
      <4> QED BY ONLY t \in Seq(Ascii), <3>1, <4>1, Markers
    <3>3. j # L + 2 /\ j # L + 3 /\ j # L + 4
      <4>1. CASE j = L + 3
        BY <2>3, <3>2, <4>1
      <4>2. CASE j = L + 2
        BY <2>3, <3>2, <4>2
      <4>3. CASE j = L + 4
        BY <2>3, <3>2, <4>3
      <4> QED BY <4>1, <4>2, <4>3
    <3>4. j # L + 5
      <4>1. SubSeq(t, Len(t) - 3, Len(t)) = SubSeq(t, L + 5, L + 5 + 3)
        <5>1. Len(t) - 3 = L + 5 /\ Len(t) = L + 5 + 3
          BY <1>3
        <5> QED BY <5>1
      <4> QED BY <3>1, <4>1
    <3> QED BY <3>1, <3>3, <3>4
  <2>6. a # {} /\ (CHOOSE i \in a : \A j \in a : j <= i) = L + 1
    <3>1. \A i \in a : i \in Nat
      BY <2>1
    <3>2. \A i \in a : (\A j \in a : j <= i) => i = L + 1
      BY <2>4, <2>5, <3>1
    <3> QED BY <2>4, <2>5, <3>2
  <2> QED BY <2>2, <2>6
<1>8. SubSeq(t, 1, L + 1 + 3) = b \o CrcTag
  <2>1. PICK q : q = SubSeq(t, 1, L + 1 + 3)
    OBVIOUS
  <2>2. q \in Seq(Ascii) /\ Len(q) = L + 4 /\ \A i \in 1..(L + 4) : q[i] = t[i]
    <3>1. 0 \in Nat /\ L + 4 \in Nat /\ 1 = 0 + 1 /\ L + 1 + 3 = 0 + (L + 4) /\ 0 + (L + 4) <= Len(t)
          /\ \A i \in 1..(L + 4) : 0 + i = i
      BY <1>3
    <3>2. q \in Seq(Ascii) /\ Len(q) = L + 4 /\ \A k \in 1..(L + 4) : q[k] = t[0 + k]
      BY <1>3, <2>1, <3>1, Window, SMTT(60)
    <3> QED BY <3>1, <3>2
  <2>3. PICK r : r = b \o CrcTag
    OBVIOUS
  <2>4. r \in Seq(Ascii) /\ Len(r) = L + 4 /\ (\A i \in 1..L : r[i] = b[i]) /\ \A k \in 1..4 : r[L + k] = CrcTag[k]
    BY <1>2, <2>3, Tagged
  <2>5. ASSUME NEW i \in 1..(L + 4) PROVE q[i] = r[i]
    <3>1. CASE i \in 1..L
      BY <1>3, <2>2, <2>4, <3>1
    <3>2. CASE i \notin 1..L
      <4>1. i - L \in 1..4 /\ L + (i - L) = i
        BY <3>2
      <4> QED BY <1>3, <2>2, <2>4, <4>1, SMTT(60)
    <3> QED BY <3>1, <3>2
  <2>6. q = r
    BY <2>2, <2>4, <2>5, Same
  <2> QED BY <2>1, <2>3, <2>6
<1>9. LastMarker(t) > 0
  BY <1>7
<1>10. Hex4(crc16ccitt(SubSeq(t, 1, LastMarker(t) + 3))) = UpperCase(TagValue(t, <<54, 51>>))
  BY <1>1, <1>4, <1>5, <1>6, <1>7, <1>8
<1> QED BY <1>5, <1>6, <1>9, <1>10 DEF validatePeruvianText, validateEmvcoText

----------------------------------------------------------------------------
(* A code of ASCII characters; what was read off it is the code, the code  *)
(* with one character wrong, or its beginning.                             *)
EmvInv ==
  /\ body \in Seq(Ascii)
  /\ harm = "none" => text = Issued(body)
  /\ harm = "wrong" =>
       \E i \in DOMAIN Issued(body), c \in Ascii :
         Upper(c) # Upper(Issued(body)[i]) /\ text = [Issued(body) EXCEPT ![i] = c]
  /\ harm = "cut" =>
       \E n \in 1..Len(Issued(body)) : text = SubSeq(Issued(body), 1, Len(Issued(body)) - n)

LEMMA EmvStarts == EmvInit => EmvInv
BY DEF EmvInit, EmvInv

LEMMA EmvStepKeeps ==
  ASSUME Objects \subseteq Seq(0..127), Wrong \subseteq 0..127
  PROVE  EmvInv /\ [EmvNext]_emvVars => EmvInv'
<1> SUFFICES ASSUME EmvInv, [EmvNext]_emvVars PROVE EmvInv'
  OBVIOUS
<1>1. ASSUME NEW o \in Objects, AddObject(o) PROVE EmvInv'
  <2>1. body' \in Seq(Ascii)
    BY <1>1 DEF AddObject, EmvInv, Ascii
  <2> QED BY <1>1, <2>1 DEF AddObject, EmvInv
<1>2. CASE Show
  BY <1>2 DEF Show, EmvInv
<1>3. ASSUME NEW i \in DOMAIN text, NEW c \in Wrong, ReadWrong(i, c) PROVE EmvInv'
  <2>1. text = Issued(body) /\ c \in Ascii /\ body' = body /\ harm' = "wrong"
    BY <1>3 DEF ReadWrong, EmvInv, Ascii
  <2>2. Upper(c) # Upper(Issued(body)[i]) /\ text' = [Issued(body) EXCEPT ![i] = c] /\ i \in DOMAIN Issued(body)
    BY <1>3, <2>1 DEF ReadWrong
  <2>3. PICK t : t = Issued(body) /\ t = Issued(body')
    BY <2>1
  <2> QED BY <2>1, <2>2, <2>3 DEF EmvInv
<1>4. ASSUME NEW n \in 1..Len(text), CutOff(n) PROVE EmvInv'
  <2>1. PICK t : t = Issued(body)
    OBVIOUS
  <2>2. text = t /\ body' = body /\ harm' = "cut" /\ text' = SubSeq(text, 1, Len(text) - n) /\ body \in Seq(Ascii)
    BY <1>4, <2>1 DEF CutOff, EmvInv
  <2>3. Issued(body)' = t
    BY <2>1, <2>2 DEF Issued
  <2>4. \E m \in 1..Len(t) : text' = SubSeq(t, 1, Len(t) - m)
    BY <2>2
  <2> QED BY <2>2, <2>3, <2>4 DEF EmvInv
<1>5. CASE UNCHANGED emvVars
  <2>1. body' = body /\ text' = text /\ harm' = harm
    BY <1>5 DEF emvVars
  <2>2. Issued(body)' = Issued(body)
    BY <2>1 DEF Issued
  <2> QED BY <2>1, <2>2 DEF EmvInv
<1> QED BY <1>1, <1>2, <1>3, <1>4, <1>5 DEF EmvNext

(* The reader's check, of a code read as printed and of a misread one.     *)
ReaderTells == (harm = "none" => verifyCRC16Text(text)) /\ (harm = "wrong" => ~verifyCRC16Text(text))

(* The two implementations of the checksum agree on every code an issuer   *)
(* prints, and the checksum cancels what it was computed from              *)
(* (ChecksumsAgree): crc16.ts shifts before it looks at the carry,         *)
(* qr-validator.ts after.                                                  *)
THEOREM ChecksumsAlwaysAgree ==
  ASSUME Objects \subseteq Seq(0..127), Wrong \subseteq 0..127
  PROVE  EmvSpec => []ChecksumsAgree
<1>1. EmvInv => ChecksumsAgree
  <2> SUFFICES ASSUME EmvInv PROVE ChecksumsAgree
    OBVIOUS
  <2>1. PICK s \in Seq(Byte) : s = body \o CrcTag
    BY Tagged DEF EmvInv
  <2>2. PICK crc \in Register : crc = Fed(Table, s)
    BY <2>1, Checksum DEF EmvInv
  <2>3. crc16ccitt(body \o CrcTag) = crc /\ calculateCRC16(body) = crc
    BY <2>1, <2>2, Checksum DEF EmvInv
  <2>4. crc16ccitt(s \o <<crc \div 256, crc % 256>>) = 0
    BY <2>2, NothingLeft DEF crc16ccitt, Table
  <2> QED BY <2>1, <2>3, <2>4 DEF ChecksumsAgree
<1>2. EmvSpec => []EmvInv
  BY EmvStarts, EmvStepKeeps, PTL DEF EmvSpec
<1> QED BY <1>1, <1>2, PTL

(* The reader's check passes every code as it was printed and refuses it   *)
(* with any one character wrong, of the body, the tag or the checksum (the *)
(* reader's half of GenuineOrRefused, without what was cut off).           *)
THEOREM ReaderTellsMisreads ==
  ASSUME Objects \subseteq Seq(0..127), Wrong \subseteq 0..127
  PROVE  EmvSpec => []ReaderTells
<1>1. EmvInv => ReaderTells
  <2> SUFFICES ASSUME EmvInv PROVE ReaderTells
    OBVIOUS
  <2>1. body \in Seq(Ascii) /\ Printout(body, Issued(body), Fed(Table, body \o CrcTag))
    BY IssuedIsPrintout DEF EmvInv
  <2>2. verifyCRC16Text(Issued(body))
    BY <2>1, PrintoutIsRead
  <2>3. \A i \in DOMAIN Issued(body), c \in Ascii :
          Upper(c) # Upper(Issued(body)[i]) => ~verifyCRC16Text([Issued(body) EXCEPT ![i] = c])
    BY <2>1, WrongIsRefused
  <2> QED BY <2>2, <2>3 DEF ReaderTells, EmvInv
<1>2. EmvSpec => []EmvInv
  BY EmvStarts, EmvStepKeeps, PTL DEF EmvSpec
<1> QED BY <1>1, <1>2, PTL

(* The end of a code cut off: the checksum is not where the checks look.   *)
LEMMA CutIsRefused ==
  ASSUME NEW b \in Seq(Ascii), NEW t, Printout(b, t, Fed(Table, b \o CrcTag)),
         NEW n \in 1..Len(t), NEW s, s = SubSeq(t, 1, Len(t) - n), Once(s, Len(b))
  PROVE  ~verifyCRC16Text(s) /\ ~validatePeruvianText(s)
<1>1. PICK L \in Nat : L = Len(b)
  OBVIOUS
<1>2. t \in Seq(Ascii) /\ Len(t) = L + 8
  BY <1>1 DEF Printout
<1>3. PICK m \in Nat : m = L + 8 - n /\ m < L + 8
  BY <1>2
<1>4. s \in Seq(Ascii) /\ Len(s) = m
  <2>1. 0 \in Nat /\ 1 = 0 + 1 /\ Len(t) - n = 0 + m /\ 0 + m <= Len(t)
    BY <1>2, <1>3
  <2> QED BY <1>2, <2>1, Window
<1>5. ASSUME validatePeruvianText(s) PROVE FALSE
  <2>1. Once(s, L)
    BY <1>1
  <2>2. Len(s) >= L + 8
    BY ONLY <1>4, <1>5, <2>1, L \in Nat, CatalogueAsReader
  <2> QED BY <1>3, <1>4, <2>2
<1>6. ASSUME verifyCRC16Text(s) PROVE FALSE
  <2>1. Len(s) >= 8 /\ SubSeq(s, Len(s) - 7, Len(s) - 4) = CrcTag
    BY <1>6 DEF verifyCRC16Text
  <2>2. m - 7 \in 1..(m - 3) /\ m - 7 + 3 = m - 4
    BY <1>4, <2>1
  <2>3. m - 7 = L + 1
    BY <1>1, <1>4, <2>1, <2>2 DEF Once
  <2> QED BY <1>3, <2>3
<1> QED BY <1>5, <1>6

(* Where a code that was read wrong or cut off holds its checksum's tag    *)
(* "6304" at its place and nowhere else, neither check passes it.          *)
LEMMA MisreadsAreRefused == EmvInv /\ Once(text, Len(body)) => MisreadIsRefused
<1> SUFFICES ASSUME EmvInv, Once(text, Len(body)), harm \in {"wrong", "cut"}
             PROVE  ~verifyCRC16Text(text) /\ ~validatePeruvianText(text)
  BY DEF MisreadIsRefused
<1>1. PICK t : t = Issued(body)
  OBVIOUS
<1>2. body \in Seq(Ascii) /\ Printout(body, t, Fed(Table, body \o CrcTag))
  BY <1>1, IssuedIsPrintout DEF EmvInv
<1>3. CASE harm = "wrong"
  <2>1. PICK i \in DOMAIN t, c \in Ascii : Upper(c) # Upper(t[i]) /\ text = [t EXCEPT ![i] = c]
    BY <1>1, <1>3 DEF EmvInv
  <2>2. ~verifyCRC16Text(text)
    BY <1>2, <2>1, WrongIsRefused
  <2>3. text \in Seq(Ascii) /\ Len(text) = Len(body) + 8
    <3>1. t \in Seq(Ascii) /\ Len(t) = Len(body) + 8
      BY <1>2 DEF Printout
    <3> QED BY <2>1, <3>1
  <2>4. Len(body) \in Nat
    BY <1>2
  <2> QED BY <2>2, <2>3, <2>4, CatalogueAsReader
<1>4. CASE harm = "cut"
  <2>1. PICK n \in 1..Len(t) : text = SubSeq(t, 1, Len(t) - n)
    BY <1>1, <1>4 DEF EmvInv
  <2> QED BY <1>2, <2>1, CutIsRefused
<1> QED BY <1>3, <1>4

(* A body is made of whole objects.                                        *)
LEMMA BodyIsWhole ==
  ASSUME Objects \subseteq Seq(0..127), Wrong \subseteq 0..127, \A o \in Objects : WellFormed(o)
  PROVE  EmvSpec => [](EmvInv /\ Whole(body))
<1>1. EmvInit => Whole(body)
  <2> SUFFICES ASSUME EmvInit PROVE Whole(<<>>)
    BY DEF EmvInit
  <2>1. Len(<<>>) = 0
    OBVIOUS
  <2>2. 1 \in {1} /\ Len(<<>>) + 1 \in {1} /\ {1} \in SUBSET (1..(Len(<<>>) + 1)) /\ \A pos \in {1} : pos = Len(<<>>) + 1
    BY <2>1
  <2> QED BY <2>2 DEF Whole
<1>2. EmvInv /\ Whole(body) /\ [EmvNext]_emvVars => Whole(body)'
  <2> SUFFICES ASSUME EmvInv, Whole(body), [EmvNext]_emvVars PROVE Whole(body')
    OBVIOUS
  <2>1. ASSUME NEW o \in Objects, AddObject(o) PROVE Whole(body')
    <3>1. o \in Seq(Ascii) /\ WellFormed(o) /\ body' = body \o o /\ body \in Seq(Ascii)
      BY <2>1 DEF AddObject, EmvInv, Ascii
    <3>2. Whole(body \o o)
      BY <3>1, WholeGrows
    <3> QED BY <3>1, <3>2, Zenon
  <2>2. ASSUME body' = body PROVE Whole(body')
    BY <2>2
  <2> QED BY <2>1, <2>2 DEF EmvNext, Show, ReadWrong, CutOff, emvVars
<1>3. EmvSpec => []EmvInv
  BY EmvStarts, EmvStepKeeps, PTL DEF EmvSpec
<1> QED BY <1>1, <1>2, <1>3, PTL DEF EmvSpec

(* A code read as it was printed passes the reader's check, whatever its   *)
(* objects, and the catalogue's when it is Peruvian and its checksum is not*)
(* 6304 (GenuineIsRead, the other half of GenuineOrRefused): a walk over   *)
(* whole objects reaches the checksum and finds it last, even behind values*)
(* that hold "6304".                                                       *)
THEOREM GenuineIsAlwaysRead ==
  ASSUME Objects \subseteq Seq(0..127), Wrong \subseteq 0..127, \A o \in Objects : WellFormed(o)
  PROVE  EmvSpec => []GenuineIsRead
<1>1. EmvInv /\ Whole(body) => GenuineIsRead
  <2> SUFFICES ASSUME EmvInv, Whole(body), harm = "none"
               PROVE  /\ verifyCRC16Text(text)
                      /\ Peruvian /\ SubSeq(text, Len(text) - 3, Len(text)) # CrcTag => validatePeruvianText(text)
    BY DEF GenuineIsRead
  <2>1. body \in Seq(Ascii) /\ Printout(body, text, Fed(Table, body \o CrcTag))
    BY IssuedIsPrintout DEF EmvInv
  <2>2. verifyCRC16Text(text)
    BY <2>1, PrintoutIsRead
  <2>3. Peruvian /\ SubSeq(text, Len(text) - 3, Len(text)) # CrcTag => validatePeruvianText(text)
    BY <2>1, PrintoutIsStored DEF Peruvian
  <2> QED BY <2>2, <2>3
<1> QED BY <1>1, BodyIsWhole, PTL

(* The two checks tell a code read as printed from a misread               *)
(* (GenuineOrRefused) whenever what was read holds "6304" where the code's *)
(* tag was printed and nowhere else.  The condition is the code's own: cut *)
(* after a value that holds "6304" and the matching four characters, a code*)
(* is one that was printed that way.                                       *)
THEOREM GenuineOrAlwaysRefused ==
  ASSUME Objects \subseteq Seq(0..127), Wrong \subseteq 0..127, \A o \in Objects : WellFormed(o)
  PROVE  EmvSpec => [](Once(text, Len(body)) => GenuineOrRefused)
<1>1. EmvInv /\ GenuineIsRead => (Once(text, Len(body)) => GenuineOrRefused)
  BY MisreadsAreRefused DEF GenuineOrRefused
<1> QED BY <1>1, BodyIsWhole, GenuineIsAlwaysRead, PTL
=============================================================================
