--------------------------- MODULE HelpersProofs ---------------------------
(***************************************************************************)
(* The codings undo each other and the suffix is the right one, for texts  *)
(* of every length: base64 for all bytes, the blocks, padding and rounds   *)
(* of des.c for every key with all of its round keys, get_file_suffix for  *)
(* every name; and the ends of a value in a query and of an upload's       *)
(* content are found.                                                      *)
(***************************************************************************)
EXTENDS Helpers, SequenceTheorems, WellFoundedInduction, TLAPS

(* a leaf is left to Zenon unless it cites another prover *)
USE Zenon

TextInv == kind \in DOMAIN Alphabet /\ text \in Seq(Alphabet[kind])

(* a text is spelt with the characters of its kind *)
LEMMA TextType == Spec => []TextInv
<1>1. Init => TextInv
  BY EmptySeq DEF Init, TextInv
<1>2. TextInv /\ [Next]_vars => TextInv'
  BY SMT DEF TextInv, Next, Spell, Done, vars
<1> QED
  BY <1>1, <1>2, PTL DEF Spec

(* the length of a sequence that is written as a function *)
LEMMA LengthIs ==
    ASSUME NEW k \in Nat, NEW s, DOMAIN s = 1 .. k
    PROVE  Len(s) = k
  BY SMT
-----------------------------------------------------------------------------
(* base64.c *)

Byte == 0 .. 255

(* a byte is what it is made of *)
LEMMA ByteParts ==
    ASSUME NEW x \in Byte
    PROVE  /\ x \div 4 \in 0 .. 63 /\ x % 4 \in 0 .. 3 /\ (x \div 4) * 4 + (x % 4) = x
           /\ x \div 16 \in 0 .. 15 /\ x % 16 \in 0 .. 15
           /\ (x \div 16) * 16 + (x % 16) = x
           /\ x \div 64 \in 0 .. 3 /\ x % 64 \in 0 .. 63
           /\ (x \div 64) * 64 + (x % 64) = x
<1>1. /\ x \div 4 \in 0 .. 63 /\ x % 4 \in 0 .. 3
      /\ x \div 16 \in 0 .. 15 /\ x % 16 \in 0 .. 15
      /\ x \div 64 \in 0 .. 3 /\ x % 64 \in 0 .. 63
  BY SMT DEF Byte
<1>2. ASSUME NEW d \in Nat, NEW m \in Nat
      PROVE  /\ d = x \div 4 /\ m = x % 4 => d * 4 + m = x
             /\ d = x \div 16 /\ m = x % 16 => d * 16 + m = x
             /\ d = x \div 64 /\ m = x % 64 => d * 64 + m = x
  BY SMT DEF Byte
<1>3. /\ x \div 4 \in Nat /\ x % 4 \in Nat /\ x \div 16 \in Nat
      /\ x % 16 \in Nat /\ x \div 64 \in Nat /\ x % 64 \in Nat
  BY SMT, <1>1
<1> QED
  BY ZenonT(30), <1>1, <1>2, <1>3

(* two numbers side by side in a digit *)
LEMMA SecondDigit ==
    ASSUME NEW a \in 0 .. 3, NEW c \in 0 .. 15
    PROVE  /\ a * 16 + c \in 0 .. 63 /\ ((a * 16 + c) \div 16) % 4 = a
           /\ (a * 16 + c) % 16 = c
  BY SMT

(* the same for the digit that has four bits of one byte and two of the next *)
LEMMA ThirdDigit ==
    ASSUME NEW a \in 0 .. 15, NEW c \in 0 .. 3
    PROVE  /\ a * 4 + c \in 0 .. 63 /\ ((a * 4 + c) \div 4) % 16 = a
           /\ (a * 4 + c) % 4 = c
  BY SMT

(* three bytes, four digits of six bits and back *)
LEMMA ThreeBytes ==
    ASSUME NEW x \in Byte, NEW y \in Byte, NEW z \in Byte
    PROVE  LET p == x \div 4
               q == (x % 4) * 16 + y \div 16
               r == (y % 16) * 4 + z \div 64
               s == z % 64
           IN  /\ p \in 0 .. 63 /\ q \in 0 .. 63 /\ r \in 0 .. 63 /\ s \in 0 .. 63
               /\ ((p * 4) % 256) + ((q \div 16) % 4) = x
               /\ (q % 16) * 16 + ((r \div 4) % 16) = y
               /\ (r % 4) * 64 + (s % 64) = z
<1> DEFINE p == x \div 4
           q == (x % 4) * 16 + y \div 16
           r == (y % 16) * 4 + z \div 64
           s == z % 64
<1>1. p \in 0 .. 63 /\ (p * 4) % 256 = p * 4
  BY SMT, ByteParts
<1>2. q \in 0 .. 63 /\ (q \div 16) % 4 = x % 4 /\ q % 16 = y \div 16
  BY ByteParts, SecondDigit
<1>3. r \in 0 .. 63 /\ (r \div 4) % 16 = y % 16 /\ r % 4 = z \div 64
  BY ZenonT(30), ByteParts, ThirdDigit
<1>4. s \in 0 .. 63 /\ s % 64 = z % 64
  <2>1. \A a \in 0 .. 63 : a % 64 = a
    BY SMT
  <2> QED
    BY ZenonT(30), <2>1, ByteParts
<1>5. ((p * 4) % 256) + ((q \div 16) % 4) = x
  BY <1>1, <1>2, ByteParts
<1>6. (q % 16) * 16 + ((r \div 4) % 16) = y
  BY <1>2, <1>3, ByteParts
<1>7. (r % 4) * 64 + (s % 64) = z
  BY <1>3, <1>4, ByteParts
<1> QED
  BY <1>1, <1>2, <1>3, <1>4, <1>5, <1>6, <1>7

(* the digits of group g *)
LEMMA GroupDigits ==
    ASSUME NEW b \in Seq(Byte), NEW g \in 1 .. (Len(b) + 2) \div 3
    PROVE  LET t == base64_encode(b)
               i == 3 * (g - 1)
               y == IF i + 1 < Len(b) THEN b[i + 2] ELSE 0
               z == IF i + 2 < Len(b) THEN b[i + 3] ELSE 0
           IN  /\ i \in Nat /\ i < Len(b)
               /\ b[i + 1] \in Byte /\ y \in Byte /\ z \in Byte
               /\ t[4 * g - 3] = b[i + 1] \div 4
               /\ t[4 * g - 2] = (b[i + 1] % 4) * 16 + y \div 16
               /\ t[4 * g - 1] = IF i + 1 < Len(b) THEN (y % 16) * 4 + z \div 64 ELSE 64
               /\ t[4 * g] = IF i + 2 < Len(b) THEN z % 64 ELSE 64
<1> DEFINE G == (Len(b) + 2) \div 3
           i == 3 * (g - 1)
           y == IF i + 1 < Len(b) THEN b[i + 2] ELSE 0
           z == IF i + 2 < Len(b) THEN b[i + 3] ELSE 0
           E(k, j) ==
              LET yj == IF j + 1 < Len(b) THEN b[j + 2] ELSE 0
                  zj == IF j + 2 < Len(b) THEN b[j + 3] ELSE 0
              IN  CASE k = 1 -> b[j + 1] \div 4
                    [] k = 2 -> (b[j + 1] % 4) * 16 + yj \div 16
                    [] k = 3 -> IF j + 1 < Len(b) THEN (yj % 16) * 4 + zj \div 64
                                ELSE 64
                    [] k = 0 -> IF j + 2 < Len(b) THEN zj % 64 ELSE 64
           e(n) == E(n % 4, 3 * ((n - 1) \div 4))
<1>1. Len(b) \in Nat /\ \A k \in 1 .. Len(b) : b[k] \in Byte
  BY LenProperties, ElementOfSeq
<1>2. G \in Nat /\ g \in Nat /\ g >= 1 /\ g <= G /\ i \in Nat /\ i < Len(b)
  <2>1. PICK l \in Nat : l = Len(b)
    BY <1>1
  <2>2. g \in 1 .. (l + 2) \div 3
    BY <2>1
  <2>3. (l + 2) \div 3 \in Nat /\ 3 * (g - 1) < l
    BY SMT, <2>2
  <2>4. g \in Nat /\ g >= 1 /\ g <= (l + 2) \div 3 /\ 3 * (g - 1) \in Nat
    BY SMT, <2>2, <2>3
  <2> QED
    BY <2>1, <2>3, <2>4
<1>3. b[i + 1] \in Byte /\ y \in Byte /\ z \in Byte
  <2>1. /\ i + 1 \in 1 .. Len(b)
        /\ i + 1 < Len(b) => i + 2 \in 1 .. Len(b)
        /\ i + 2 < Len(b) => i + 3 \in 1 .. Len(b)
    BY SMT, <1>1, <1>2
  <2>2. 0 \in Byte
    BY SMT DEF Byte
  <2> QED
    BY <1>1, <2>1, <2>2
<1>4. base64_encode(b) = [n \in 1 .. 4 * G |-> e(n)]
  BY DEF base64_encode
<1>5. \A n \in {4 * g - 3, 4 * g - 2, 4 * g - 1, 4 * g} :
         n \in 1 .. 4 * G /\ 3 * ((n - 1) \div 4) = i
  BY SMT, <1>2
<1>6. (4 * g - 3) % 4 = 1 /\ (4 * g - 2) % 4 = 2 /\ (4 * g - 1) % 4 = 3
      /\ (4 * g) % 4 = 0
  BY SMT, <1>2
<1>7. \A n \in {4 * g - 3, 4 * g - 2, 4 * g - 1, 4 * g} :
         base64_encode(b)[n] = e(n)
  BY <1>4, <1>5
<1>8. /\ e(4 * g - 3) = b[i + 1] \div 4
      /\ e(4 * g - 2) = (b[i + 1] % 4) * 16 + y \div 16
      /\ e(4 * g - 1) = IF i + 1 < Len(b) THEN (y % 16) * 4 + z \div 64 ELSE 64
      /\ e(4 * g) = IF i + 2 < Len(b) THEN z % 64 ELSE 64
  <2>1. /\ e(4 * g - 3) = E(1, i) /\ e(4 * g - 2) = E(2, i)
        /\ e(4 * g - 1) = E(3, i) /\ e(4 * g) = E(0, i)
    BY <1>5, <1>6
  <2>2. /\ E(1, i) = b[i + 1] \div 4
        /\ E(2, i) = (b[i + 1] % 4) * 16 + y \div 16
        /\ E(3, i) = IF i + 1 < Len(b) THEN (y % 16) * 4 + z \div 64 ELSE 64
        /\ E(0, i) = IF i + 2 < Len(b) THEN z % 64 ELSE 64
    <3> HIDE DEF i
    <3> QED
      BY SMT
  <2> QED
    BY <2>1, <2>2
<1> QED
  BY ZenonT(30), <1>2, <1>3, <1>7, <1>8

(* how many groups of three there are *)
LEMMA GroupCount ==
    ASSUME NEW l \in Nat
    PROVE  LET G == (l + 2) \div 3 IN
           /\ G \in Nat /\ l <= 3 * G /\ 3 * G <= l + 2
           /\ 4 * G \in Nat /\ (4 * G) \div 4 = G
<1>1. PICK G \in Nat : G = (l + 2) \div 3
  BY SMT
<1>2. l <= 3 * G /\ 3 * G <= l + 2 /\ 4 * G \in Nat /\ (4 * G) \div 4 = G
  BY SMT, <1>1
<1> QED
  BY <1>1, <1>2

(* four digits for every three bytes begun *)
LEMMA EncodedLength ==
    ASSUME NEW b \in Seq(Byte)
    PROVE  Len(base64_encode(b)) = 4 * ((Len(b) + 2) \div 3)
<1>1. DOMAIN base64_encode(b) = 1 .. 4 * ((Len(b) + 2) \div 3)
  BY DEF base64_encode
<1>2. 4 * ((Len(b) + 2) \div 3) \in Nat
  BY LenProperties, GroupCount
<1> QED
  BY <1>1, <1>2, LengthIs

(* a "=" is in the last group only, one for each byte that is missing *)
LEMMA PaddedLast ==
    ASSUME NEW b \in Seq(Byte), NEW g \in 1 .. (Len(b) + 2) \div 3
    PROVE  LET t == base64_encode(b) IN
           /\ t[4 * g - 1] = 64 <=> 3 * g - 1 > Len(b)
           /\ t[4 * g] = 64 <=> 3 * g > Len(b)
<1> DEFINE t == base64_encode(b)
           i == 3 * (g - 1)
           y == IF i + 1 < Len(b) THEN b[i + 2] ELSE 0
           z == IF i + 2 < Len(b) THEN b[i + 3] ELSE 0
<1>1. /\ b[i + 1] \in Byte /\ y \in Byte /\ z \in Byte
      /\ t[4 * g - 1] = IF i + 1 < Len(b) THEN (y % 16) * 4 + z \div 64 ELSE 64
      /\ t[4 * g] = IF i + 2 < Len(b) THEN z % 64 ELSE 64
  BY GroupDigits
<1>2. (y % 16) * 4 + z \div 64 \in 0 .. 63 /\ z % 64 \in 0 .. 63
  <2> HIDE DEF y, z
  <2> QED
    BY SMT, <1>1, ThreeBytes
<1>3. 64 \notin 0 .. 63
  BY SMT
<1>4. (i + 1 < Len(b) <=> ~(3 * g - 1 > Len(b))) /\ (i + 2 < Len(b) <=> ~(3 * g > Len(b)))
  <2>1. Len(b) \in Nat /\ g \in Int
    BY SMT, LenProperties
  <2> QED
    BY SMT, <2>1
<1> HIDE DEF i, y, z
<1>5. t[4 * g - 1] = 64 <=> ~(i + 1 < Len(b))
  <2>1. CASE i + 1 < Len(b)
    BY <1>1, <1>2, <1>3, <2>1
  <2>2. CASE ~(i + 1 < Len(b))
    BY <1>1, <2>2
  <2> QED
    BY <2>1, <2>2
<1>6. t[4 * g] = 64 <=> ~(i + 2 < Len(b))
  <2>1. CASE i + 2 < Len(b)
    <3>1. t[4 * g] = z % 64
      BY <1>1, <2>1
    <3>2. t[4 * g] \in 0 .. 63
      BY <1>2, <3>1
    <3> QED
      BY <1>3, <2>1, <3>2
  <2>2. CASE ~(i + 2 < Len(b))
    BY <1>1, <2>2
  <2> QED
    BY <2>1, <2>2
<1> QED
  BY <1>4, <1>5, <1>6

(* place m of the bytes is the first, the second or the third of group g *)
LEMMA PlaceInGroup ==
    ASSUME NEW l \in Nat, NEW m \in 1 .. l
    PROVE  \E g \in 1 .. (l + 2) \div 3 :
              /\ 4 * ((m - 1) \div 3) = 4 * g - 4
              /\ \/ m % 3 = 1 /\ m = 3 * (g - 1) + 1
                 \/ m % 3 = 2 /\ m = 3 * (g - 1) + 2 /\ 3 * (g - 1) + 1 < l
                 \/ m % 3 = 0 /\ m = 3 * (g - 1) + 3 /\ 3 * (g - 1) + 2 < l
<1>1. PICK d \in Nat : d = (m - 1) \div 3
  BY SMT
<1>2. PICK e \in Nat : e = (l + 2) \div 3
  BY SMT
<1>3. m - 1 >= 3 * d /\ m - 1 < 3 * d + 3 /\ d + 1 <= e
  BY SMT, <1>1, <1>2
<1>4. d + 1 \in 1 .. (l + 2) \div 3
  BY SMT, <1>2, <1>3
<1>5. /\ 4 * ((m - 1) \div 3) = 4 * (d + 1) - 4
      /\ \/ m % 3 = 1 /\ m = 3 * ((d + 1) - 1) + 1
         \/ m % 3 = 2 /\ m = 3 * ((d + 1) - 1) + 2 /\ 3 * ((d + 1) - 1) + 1 < l
         \/ m % 3 = 0 /\ m = 3 * ((d + 1) - 1) + 3 /\ 3 * ((d + 1) - 1) + 2 < l
  BY SMT, <1>1, <1>3
<1> QED
  BY <1>4, <1>5

(* what is decoded at place m *)
LEMMA DecodedByte ==
    ASSUME NEW b \in Seq(Byte), NEW m \in 1 .. Len(b)
    PROVE  Decoded(base64_encode(b), m) = b[m]
<1> DEFINE t == base64_encode(b)
<1>1. PICK g \in 1 .. (Len(b) + 2) \div 3 :
         /\ 4 * ((m - 1) \div 3) = 4 * g - 4
         /\ \/ m % 3 = 1 /\ m = 3 * (g - 1) + 1
            \/ m % 3 = 2 /\ m = 3 * (g - 1) + 2 /\ 3 * (g - 1) + 1 < Len(b)
            \/ m % 3 = 0 /\ m = 3 * (g - 1) + 3 /\ 3 * (g - 1) + 2 < Len(b)
  BY LenProperties, PlaceInGroup
<1> DEFINE i == 3 * (g - 1)
           x == b[i + 1]
           y == IF i + 1 < Len(b) THEN b[i + 2] ELSE 0
           z == IF i + 2 < Len(b) THEN b[i + 3] ELSE 0
           p == x \div 4
           q == (x % 4) * 16 + y \div 16
           r == (y % 16) * 4 + z \div 64
           s == z % 64
           D(j, n) == IF t[j + n] = 64 THEN 255 ELSE t[j + n]
           V(j) == CASE m % 3 = 1 -> ((D(j, 1) * 4) % 256) + ((D(j, 2) \div 16) % 4)
                     [] m % 3 = 2 -> (D(j, 2) % 16) * 16 + ((D(j, 3) \div 4) % 16)
                     [] m % 3 = 0 -> (D(j, 3) % 4) * 64 + (D(j, 4) % 64)
           d(n) == D(4 * g - 4, n)
<1>2. /\ i \in Nat /\ x \in Byte /\ y \in Byte /\ z \in Byte
      /\ t[4 * g - 3] = p /\ t[4 * g - 2] = q
      /\ t[4 * g - 1] = IF i + 1 < Len(b) THEN r ELSE 64
      /\ t[4 * g] = IF i + 2 < Len(b) THEN s ELSE 64
  BY ZenonT(30), GroupDigits
<1>3. /\ 4 * g - 4 + 1 = 4 * g - 3 /\ 4 * g - 4 + 2 = 4 * g - 2
      /\ 4 * g - 4 + 3 = 4 * g - 1 /\ 4 * g - 4 + 4 = 4 * g
  BY SMT
<1>4. Decoded(t, m) = V(4 * g - 4)
  <2>1. Decoded(t, m) = V(4 * ((m - 1) \div 3))
    BY DEF Decoded
  <2> HIDE DEF V
  <2> QED
    BY <1>1, <2>1
<1>5. /\ p \in 0 .. 63 /\ q \in 0 .. 63 /\ r \in 0 .. 63 /\ s \in 0 .. 63
      /\ ((p * 4) % 256) + ((q \div 16) % 4) = x
      /\ (q % 16) * 16 + ((r \div 4) % 16) = y
      /\ (r % 4) * 64 + (s % 64) = z
  <2>1. x \in Byte /\ y \in Byte /\ z \in Byte
    BY <1>2
  <2> HIDE DEF x, y, z
  <2> QED
    BY SMT, <2>1, ThreeBytes
<1>6. \A n \in 0 .. 63 : n # 64
  BY SMT
<1> HIDE DEF i, x, y, z, p, q, r, s, t
<1>7. d(1) = p /\ d(2) = q
  <2>1. t[4 * g - 4 + 1] = p /\ t[4 * g - 4 + 2] = q /\ p # 64 /\ q # 64
    BY <1>2, <1>3, <1>5, <1>6
  <2> QED
    BY <2>1
<1>8. i + 1 < Len(b) => d(3) = r
  <2>1. i + 1 < Len(b) => t[4 * g - 4 + 3] = r /\ r # 64
    BY ZenonT(30), <1>2, <1>3, <1>5, <1>6
  <2> QED
    BY <2>1
<1>9. i + 2 < Len(b) => d(4) = s /\ i + 1 < Len(b)
  <2>1. Len(b) \in Nat
    BY LenProperties
  <2>2. i + 2 < Len(b) => i + 1 < Len(b)
    BY SMT, <1>2, <2>1
  <2>3. i + 2 < Len(b) => t[4 * g - 4 + 4] = s /\ s # 64
    BY <1>2, <1>3, <1>5, <1>6
  <2> QED
    BY <2>2, <2>3
<1> HIDE DEF D
<1>10. CASE m % 3 = 1
  <2>1. V(4 * g - 4) = ((d(1) * 4) % 256) + ((d(2) \div 16) % 4)
    BY SMT, <1>10
  <2>2. Decoded(t, m) = x
    BY <1>4, <1>5, <1>7, <2>1
  <2>3. m = i + 1
    BY SMT, <1>1, <1>10 DEF i
  <2> QED
    BY <2>2, <2>3 DEF x, t
<1>11. CASE m % 3 = 2
  <2>1. m = i + 2 /\ i + 1 < Len(b)
    BY SMT, <1>1, <1>11 DEF i
  <2>2. V(4 * g - 4) = (d(2) % 16) * 16 + ((d(3) \div 4) % 16)
    BY SMT, <1>11
  <2>3. Decoded(t, m) = y
    BY <1>4, <1>5, <1>7, <1>8, <2>1, <2>2
  <2> QED
    BY <2>1, <2>3 DEF y, t
<1>12. CASE m % 3 = 0
  <2>1. m = i + 3 /\ i + 2 < Len(b)
    BY SMT, <1>1, <1>12 DEF i
  <2>2. V(4 * g - 4) = (d(3) % 4) * 64 + (d(4) % 64)
    BY SMT, <1>12
  <2>3. Decoded(t, m) = z
    BY <1>4, <1>5, <1>8, <1>9, <2>1, <2>2
  <2> QED
    BY <2>1, <2>3 DEF z, t
<1> QED
  BY <1>1, <1>10, <1>11, <1>12

(***************************************************************************)
(* base64_decode undoes base64_encode, for every sequence of bytes.        *)
(***************************************************************************)
THEOREM Base64Inverts ==
    ASSUME NEW b \in Seq(Byte)
    PROVE  base64_decode(base64_encode(b)) = b
<1> DEFINE t == base64_encode(b)
           G == (Len(b) + 2) \div 3
           S == {g \in 1 .. G : 64 \in {t[4 * g - 1], t[4 * g]}} \cup {G}
           less == IF G = 0 THEN 0
                   ELSE IF t[4 * G - 1] = 64 THEN 2
                   ELSE IF t[4 * G] = 64 THEN 1 ELSE 0
<1>1. /\ Len(b) \in Nat /\ G \in Nat /\ Len(b) <= 3 * G /\ 3 * G <= Len(b) + 2
      /\ Len(t) \div 4 = G
  BY LenProperties, GroupCount, EncodedLength
<1>2. \A g \in 1 .. G : /\ t[4 * g - 1] = 64 <=> 3 * g - 1 > Len(b)
                        /\ t[4 * g] = 64 <=> 3 * g > Len(b)
  BY PaddedLast
<1> HIDE DEF t, G
<1>3. S = {G}
  <2>1. ASSUME NEW g \in 1 .. G, 64 \in {t[4 * g - 1], t[4 * g]}
        PROVE  g = G
    <3>1. 3 * g > Len(b)
      BY SMT, <1>1, <1>2, <2>1
    <3> QED
      BY SMT, <1>1, <3>1
  <2> QED
    BY <2>1
<1>4. Min(S) = G
  <2>1. \A x \in S : x <= x
    BY SMT, <1>1, <1>3
  <2> QED
    BY <1>3, <2>1 DEF Min
<1>5. 3 * G - less = Len(b)
  <2>1. CASE G = 0
    BY SMT, <1>1, <2>1
  <2>2. CASE G # 0
    <3>1. G \in 1 .. G
      BY SMT, <1>1, <2>2
    <3>2. /\ t[4 * G - 1] = 64 <=> 3 * G - 1 > Len(b)
          /\ t[4 * G] = 64 <=> 3 * G > Len(b)
      BY <1>2, <3>1
    <3> QED
      BY SMT, <1>1, <2>2, <3>2
  <2> QED
    BY <2>1, <2>2
<1>6. base64_decode(t) = [m \in 1 .. 3 * G - less |-> Decoded(t, m)]
  BY <1>1, <1>4 DEF base64_decode
<1>7. base64_decode(t) = [m \in 1 .. Len(b) |-> b[m]]
  <2>1. \A m \in 1 .. Len(b) : Decoded(t, m) = b[m]
    BY DecodedByte DEF t
  <2> HIDE DEF less
  <2> QED
    BY <1>5, <1>6, <2>1
<1>8. b = [m \in 1 .. Len(b) |-> b[m]]
  BY LenProperties
<1> QED
  BY <1>7, <1>8 DEF t

(***************************************************************************)
(* For all texts that can be spelled out, of any length: base64_decode     *)
(* returns the bytes base64_encode was given, from four digits for every   *)
(* three bytes begun.                                                      *)
(***************************************************************************)
THEOREM Base64Correct == Spec => []Base64RoundTrip
<1>1. ASSUME TextInv, kind = "bytes" PROVE text \in Seq(Byte)
  <2>1. text \in Seq({0, 65, 150, 255})
    BY <1>1 DEF TextInv, Alphabet
  <2>2. {0, 65, 150, 255} \subseteq Byte
    BY SMT DEF Byte
  <2> QED
    BY SMT, <2>1, <2>2, SeqMonotonic
<1>2. TextInv => Base64RoundTrip
  BY <1>1, Base64Inverts, EncodedLength DEF Base64RoundTrip
<1> QED
  BY <1>2, TextType, PTL
-----------------------------------------------------------------------------
(* des.c *)

(* xor twice with the same word changes nothing *)
LEMMA XorUndone ==
    ASSUME NEW a \in Word, NEW b \in Word
    PROVE  /\ Xor(a, b) \in Word /\ Xor(Xor(a, b), b) = a
           /\ Xor(Xor(a, b), a) = b /\ Xor(b, Xor(a, b)) = a
<1>1. a \in {0, 1, 2, 3} /\ b \in {0, 1, 2, 3}
  BY SMT DEF Word
<1> QED
  BY SMT, <1>1 DEF Xor, Word

(* what the S-boxes return is a word *)
LEMMA FWord ==
    ASSUME NEW w \in Word, NEW k \in Int, NEW l \in Int
    PROVE  F(w, k, l) \in Word
<1>1. \A n \in Int : n % 4 \in Word
  BY SMT DEF Word
<1>2. w * w + 3 * k + w * l \in Int
  BY SMT DEF Word
<1> QED
  BY <1>1, <1>2 DEF F

(* IP and FP undo each other *)
LEMMA InversePermutations ==
    ASSUME NEW x \in Word, NEW y \in Word
    PROVE  /\ IP(<<x, y>>) \in Halves /\ FP(<<x, y>>) \in Halves
           /\ IP(FP(<<x, y>>)) = <<x, y>> /\ FP(IP(<<x, y>>)) = <<x, y>>
<1>1. \A u, v : IP(<<u, v>>) = <<v, Xor(u, v)>> /\ FP(<<u, v>>) = <<Xor(u, v), u>>
  BY SMT DEF IP, FP
<1>2. IP(<<x, y>>) \in Halves /\ FP(<<x, y>>) \in Halves
  BY SMT, <1>1, XorUndone DEF Halves
<1> QED
  BY SMT, <1>1, <1>2, XorUndone

(* kd holds, turn by turn, the keys of ke in the opposite order *)
Reversed(ke, kd) ==
    \A m \in 0 .. 7 : /\ kd[4 * m] = ke[4 * (7 - m) + 2]
                      /\ kd[4 * m + 1] = ke[4 * (7 - m) + 3]
                      /\ kd[4 * m + 2] = ke[4 * (7 - m)]
                      /\ kd[4 * m + 3] = ke[4 * (7 - m) + 1]

(* a turn of the loop of desfunc, by its two intermediate words *)
LEMMA TurnIs ==
    ASSUME NEW w \in Halves, NEW k, NEW n, NEW a, NEW b,
           a = Xor(w[1], F(w[2], k[4 * n], k[4 * n + 1])),
           b = Xor(w[2], F(a, k[4 * n + 2], k[4 * n + 3]))
    PROVE  Turn(k, n)[w] = <<a, b>>
  BY DEF Turn

(* a turn makes two words of two words *)
LEMMA TurnHalves ==
    ASSUME NEW w \in Halves, NEW ke \in [0 .. 31 -> Int], NEW n \in 0 .. 7
    PROVE  Turn(ke, n)[w] \in Halves
<1>1. /\ ke[4 * n] \in Int /\ ke[4 * n + 1] \in Int
      /\ ke[4 * n + 2] \in Int /\ ke[4 * n + 3] \in Int
  BY SMT
<1>2. w[1] \in Word /\ w[2] \in Word
  BY DEF Halves
<1>3. PICK a \in Word : a = Xor(w[1], F(w[2], ke[4 * n], ke[4 * n + 1]))
  BY <1>1, <1>2, FWord, XorUndone
<1>4. PICK b \in Word : b = Xor(w[2], F(a, ke[4 * n + 2], ke[4 * n + 3]))
  BY <1>1, <1>2, FWord, XorUndone
<1>5. Turn(ke, n)[w] = <<a, b>>
  BY SMT, <1>3, <1>4, TurnIs
<1> QED
  BY SMT, <1>5 DEF Halves

(* a turn with the keys of turn 7 - m undoes that turn, the halves swapped *)
LEMMA TurnUndone ==
    ASSUME NEW w \in Halves, NEW ke \in [0 .. 31 -> Int], NEW kd,
           Reversed(ke, kd), NEW m \in 0 .. 7, NEW n \in 0 .. 7, 7 - m = n
    PROVE  Turn(kd, m)[Swap(Turn(ke, n)[w])] = Swap(w)
<1>2. /\ ke[4 * n] \in Int /\ ke[4 * n + 1] \in Int
      /\ ke[4 * n + 2] \in Int /\ ke[4 * n + 3] \in Int
  BY SMT
<1>3. w[1] \in Word /\ w[2] \in Word /\ w = <<w[1], w[2]>>
  BY SMT DEF Halves
<1>4. F(w[2], ke[4 * n], ke[4 * n + 1]) \in Word
  BY <1>2, <1>3, FWord
<1>5. PICK a \in Word : a = Xor(w[1], F(w[2], ke[4 * n], ke[4 * n + 1]))
  BY <1>3, <1>4, XorUndone
<1>6. Xor(a, F(w[2], ke[4 * n], ke[4 * n + 1])) = w[1]
  BY <1>3, <1>4, <1>5, XorUndone
<1>7. F(a, ke[4 * n + 2], ke[4 * n + 3]) \in Word
  BY <1>2, FWord
<1>8. PICK b \in Word : b = Xor(w[2], F(a, ke[4 * n + 2], ke[4 * n + 3]))
  BY ZenonT(30), <1>3, <1>7, XorUndone
<1>9. Xor(b, F(a, ke[4 * n + 2], ke[4 * n + 3])) = w[2]
  BY <1>3, <1>7, <1>8, XorUndone
<1>10. Swap(Turn(ke, n)[w]) = <<b, a>>
  <2>1. Turn(ke, n)[w] = <<a, b>>
    BY SMT, <1>5, <1>8, TurnIs
  <2> QED
    BY SMT, <2>1 DEF Swap
<1>11. /\ kd[4 * m] = ke[4 * n + 2] /\ kd[4 * m + 1] = ke[4 * n + 3]
       /\ kd[4 * m + 2] = ke[4 * n] /\ kd[4 * m + 3] = ke[4 * n + 1]
  BY DEF Reversed
<1>12. Turn(kd, m)[<<b, a>>] = <<w[2], w[1]>>
  <2> DEFINE v == <<b, a>>
  <2>1. v \in Halves /\ v[1] = b /\ v[2] = a
    BY SMT DEF Halves
  <2> HIDE DEF v
  <2>2. w[2] = Xor(v[1], F(v[2], kd[4 * m], kd[4 * m + 1]))
    BY <1>9, <1>11, <2>1
  <2>3. w[1] = Xor(v[2], F(w[2], kd[4 * m + 2], kd[4 * m + 3]))
    BY <1>6, <1>11, <2>1
  <2>4. Turn(kd, m)[v] = <<w[2], w[1]>>
    BY <2>1, <2>2, <2>3 DEF Turn
  <2> QED
    BY <2>4 DEF v
<1> QED
  BY <1>10, <1>12 DEF Swap

(* changing places twice changes nothing *)
LEMMA SwapHalves ==
    ASSUME NEW w \in Halves
    PROVE  Swap(w) \in Halves /\ Swap(Swap(w)) = w /\ w = <<w[1], w[2]>>
           /\ w[1] \in Word /\ w[2] \in Word
  BY SMT DEF Swap, Halves

(* a block is what it was behind the rounds of ke and those of kd *)
LEMMA BlockUndone ==
    ASSUME NEW x \in Word, NEW y \in Word, NEW ke \in [0 .. 31 -> Int],
           NEW kd, Reversed(ke, kd)
    PROVE  /\ desfunc(<<x, y>>, ke) \in Halves
           /\ desfunc(desfunc(<<x, y>>, ke), kd) = <<x, y>>
<1>0. /\ 0 \in 0 .. 7 /\ 1 \in 0 .. 7 /\ 2 \in 0 .. 7 /\ 3 \in 0 .. 7
      /\ 4 \in 0 .. 7 /\ 5 \in 0 .. 7 /\ 6 \in 0 .. 7 /\ 7 \in 0 .. 7
      /\ 7 - 0 = 7 /\ 7 - 1 = 6 /\ 7 - 2 = 5 /\ 7 - 3 = 4 /\ 7 - 4 = 3
      /\ 7 - 5 = 2 /\ 7 - 6 = 1 /\ 7 - 7 = 0
  BY SMT
<1>1. PICK w0 \in Halves : w0 = IP(<<x, y>>)
  BY InversePermutations
<1>2. PICK w1 \in Halves : w1 = Turn(ke, 0)[w0]
  BY <1>0, TurnHalves
<1>3. PICK w2 \in Halves : w2 = Turn(ke, 1)[w1]
  BY <1>0, TurnHalves
<1>4. PICK w3 \in Halves : w3 = Turn(ke, 2)[w2]
  BY <1>0, TurnHalves
<1>5. PICK w4 \in Halves : w4 = Turn(ke, 3)[w3]
  BY <1>0, TurnHalves
<1>6. PICK w5 \in Halves : w5 = Turn(ke, 4)[w4]
  BY <1>0, TurnHalves
<1>7. PICK w6 \in Halves : w6 = Turn(ke, 5)[w5]
  BY <1>0, TurnHalves
<1>8. PICK w7 \in Halves : w7 = Turn(ke, 6)[w6]
  BY <1>0, TurnHalves
<1>9. PICK w8 \in Halves : w8 = Turn(ke, 7)[w7]
  BY <1>0, TurnHalves
<1>10. desfunc(<<x, y>>, ke) = FP(Swap(w8))
  BY <1>1, <1>2, <1>3, <1>4, <1>5, <1>6, <1>7, <1>8, <1>9 DEF desfunc
<1>11. PICK v \in Halves : v = Swap(w8) /\ v = <<v[1], v[2]>>
                           /\ v[1] \in Word /\ v[2] \in Word
  BY SwapHalves
<1>12. IP(FP(v)) = v /\ FP(v) \in Halves
  BY ZenonT(30), <1>11, InversePermutations
<1>13. Turn(kd, 0)[Swap(w8)] = Swap(w7)
  BY SMT, <1>9, TurnUndone
<1>14. Turn(kd, 1)[Swap(w7)] = Swap(w6)
  BY SMT, <1>8, TurnUndone
<1>15. Turn(kd, 2)[Swap(w6)] = Swap(w5)
  BY SMT, <1>7, TurnUndone
<1>16. Turn(kd, 3)[Swap(w5)] = Swap(w4)
  BY SMT, <1>6, TurnUndone
<1>17. Turn(kd, 4)[Swap(w4)] = Swap(w3)
  BY SMT, <1>5, TurnUndone
<1>18. Turn(kd, 5)[Swap(w3)] = Swap(w2)
  BY SMT, <1>4, TurnUndone
<1>19. Turn(kd, 6)[Swap(w2)] = Swap(w1)
  BY SMT, <1>3, TurnUndone
<1>20. Turn(kd, 7)[Swap(w1)] = Swap(w0)
  BY SMT, <1>2, TurnUndone
<1>21. desfunc(FP(v), kd) = FP(Swap(Swap(w0)))
  BY <1>11, <1>12, <1>13, <1>14, <1>15, <1>16, <1>17, <1>18, <1>19, <1>20
     DEF desfunc
<1>22. FP(Swap(Swap(w0))) = <<x, y>>
  <2>1. Swap(Swap(w0)) = w0
    BY SwapHalves
  <2> QED
    BY <1>1, <2>1, InversePermutations
<1> QED
  BY <1>10, <1>11, <1>12, <1>21, <1>22

(* the keys of DE1 are those of EN0 backwards *)
LEMMA KeysReversed ==
    ASSUME NEW key \in Int
    PROVE  LET ke == deskey(key, "EN0")
               kd == deskey(key, "DE1")
           IN  ke \in [0 .. 31 -> Int] /\ Reversed(ke, kd)
<1> DEFINE ke == deskey(key, "EN0")
           kd == deskey(key, "DE1")
<1>2. \A n \in 0 .. 31 : /\ ke[n] = RoundKey(key, n \div 2, n % 2)
                         /\ kd[n] = RoundKey(key, 15 - n \div 2, n % 2)
  BY DEF deskey
<1>3. ke \in [0 .. 31 -> Int]
  <2>1. DOMAIN ke = 0 .. 31 /\ ke = [n \in 0 .. 31 |-> ke[n]]
    BY DEF deskey
  <2>2. \A i, half \in Int : RoundKey(key, i, half) \in Int
    BY SMT DEF RoundKey
  <2>3. \A n \in 0 .. 31 : n \div 2 \in Int /\ n % 2 \in Int
    BY SMT
  <2> HIDE DEF ke
  <2>4. \A n \in 0 .. 31 : ke[n] \in Int
    BY <1>2, <2>2, <2>3
  <2> QED
    BY SMT, <2>1, <2>4
<1>4. ASSUME NEW m \in 0 .. 7
      PROVE  /\ kd[4 * m] = ke[4 * (7 - m) + 2]
             /\ kd[4 * m + 1] = ke[4 * (7 - m) + 3]
             /\ kd[4 * m + 2] = ke[4 * (7 - m)]
             /\ kd[4 * m + 3] = ke[4 * (7 - m) + 1]
  <2>1. /\ 4 * m \in 0 .. 31 /\ 4 * m + 1 \in 0 .. 31
        /\ 4 * m + 2 \in 0 .. 31 /\ 4 * m + 3 \in 0 .. 31
        /\ 4 * (7 - m) \in 0 .. 31 /\ 4 * (7 - m) + 1 \in 0 .. 31
        /\ 4 * (7 - m) + 2 \in 0 .. 31 /\ 4 * (7 - m) + 3 \in 0 .. 31
    BY SMT
  <2>2. /\ (4 * (7 - m) + 2) \div 2 = 15 - (4 * m) \div 2
        /\ (4 * (7 - m) + 3) \div 2 = 15 - (4 * m + 1) \div 2
        /\ (4 * (7 - m)) \div 2 = 15 - (4 * m + 2) \div 2
        /\ (4 * (7 - m) + 1) \div 2 = 15 - (4 * m + 3) \div 2
    BY SMT
  <2>3. /\ (4 * (7 - m) + 2) % 2 = (4 * m) % 2
        /\ (4 * (7 - m) + 3) % 2 = (4 * m + 1) % 2
        /\ (4 * (7 - m)) % 2 = (4 * m + 2) % 2
        /\ (4 * (7 - m) + 1) % 2 = (4 * m + 3) % 2
    BY SMT
  <2> HIDE DEF ke, kd
  <2> QED
    BY ZenonT(30), <1>2, <2>1, <2>2, <2>3
<1> QED
  BY <1>3, <1>4 DEF Reversed

(* a text of even length keeps its length *)
LEMMA LengthKept ==
    ASSUME NEW data, NEW h \in Nat, Len(data) = 2 * h, NEW keys
    PROVE  LET e == myic_DES(data, keys) IN
           DOMAIN e = 1 .. 2 * h /\ Len(e) = 2 * h /\ e = [n \in 1 .. 2 * h |-> e[n]]
<1> DEFINE e == myic_DES(data, keys)
<1>1. Block * (Len(data) \div Block) = 2 * h /\ 2 * h \in Nat
  BY SMT DEF Block
<1>2. DOMAIN e = 1 .. 2 * h /\ e = [n \in 1 .. 2 * h |-> e[n]]
  BY <1>1 DEF myic_DES
<1> HIDE DEF e
<1>3. Len(e) = 2 * h
  BY <1>1, <1>2, LengthIs
<1> QED
  BY <1>2, <1>3 DEF e

(* its blocks, one by one *)
LEMMA BlockByBlock ==
    ASSUME NEW data, NEW h \in Nat, Len(data) = 2 * h, NEW keys,
           NEW d \in 0 .. h - 1
    PROVE  LET v == desfunc(<<data[2 * d + 1], data[2 * d + 2]>>, keys) IN
           /\ myic_DES(data, keys)[2 * d + 1] = v[1]
           /\ myic_DES(data, keys)[2 * d + 2] = v[2]
<1> DEFINE e == myic_DES(data, keys)
           V(b) == desfunc(<<data[b + 1], data[b + 2]>>, keys)
<1>1. Block * (Len(data) \div Block) = 2 * h
  BY SMT DEF Block
<1>2. \A n \in 1 .. 2 * h :
         e[n] = V(2 * ((n - 1) \div 2))[n - 2 * ((n - 1) \div 2)]
  BY <1>1 DEF myic_DES, Block
<1>3. 2 * d + 1 \in 1 .. 2 * h /\ 2 * d + 2 \in 1 .. 2 * h
  BY SMT
<1>4. /\ 2 * (((2 * d + 1) - 1) \div 2) = 2 * d
      /\ 2 * (((2 * d + 2) - 1) \div 2) = 2 * d
      /\ (2 * d + 1) - 2 * d = 1 /\ (2 * d + 2) - 2 * d = 2
  BY SMT
<1> HIDE DEF e, V
<1>5. e[2 * d + 1] = V(2 * d)[1] /\ e[2 * d + 2] = V(2 * d)[2]
  BY <1>2, <1>3, <1>4
<1> QED
  BY <1>5 DEF e, V

(* a place is the first or the second of its block *)
LEMMA PlaceInBlock ==
    ASSUME NEW h \in Nat, NEW n \in 1 .. 2 * h
    PROVE  \E d \in 0 .. h - 1 : n = 2 * d + 1 \/ n = 2 * d + 2
<1>1. PICK d \in Nat : d = (n - 1) \div 2
  BY SMT
<1>2. n \in Int /\ 2 * d <= n - 1 /\ n - 1 < 2 * d + 2
  BY SMT, <1>1
<1>3. d \in 0 .. h - 1 /\ (n = 2 * d + 1 \/ n = 2 * d + 2)
  BY SMT, <1>2
<1> QED
  BY <1>3

(* all blocks come back when each one does *)
LEMMA DataUndone ==
    ASSUME NEW data \in Seq(Word), NEW h \in Nat, Len(data) = 2 * h,
           NEW ke \in [0 .. 31 -> Int], NEW kd, Reversed(ke, kd)
    PROVE  myic_DES(myic_DES(data, ke), kd) = data
<1> DEFINE e == myic_DES(data, ke)
           f == myic_DES(e, kd)
<1>1. Len(e) = 2 * h
  BY LengthKept
<1>2. f = [n \in 1 .. 2 * h |-> f[n]]
  <2> HIDE DEF e
  <2> QED
    BY <1>1, LengthKept
<1>3. ASSUME NEW d \in 0 .. h - 1
      PROVE  f[2 * d + 1] = data[2 * d + 1] /\ f[2 * d + 2] = data[2 * d + 2]
  <2>1. 2 * d + 1 \in 1 .. 2 * h /\ 2 * d + 2 \in 1 .. 2 * h
    BY SMT
  <2>2. PICK x \in Word, y \in Word : x = data[2 * d + 1] /\ y = data[2 * d + 2]
    BY <2>1, ElementOfSeq
  <2>3. PICK v : v = desfunc(<<x, y>>, ke)
    OBVIOUS
  <2>4. v \in Halves /\ desfunc(v, kd) = <<x, y>>
    BY <2>3, BlockUndone
  <2>5. e[2 * d + 1] = v[1] /\ e[2 * d + 2] = v[2]
    <3> DEFINE w == desfunc(<<data[2 * d + 1], data[2 * d + 2]>>, ke)
    <3>1. e[2 * d + 1] = w[1] /\ e[2 * d + 2] = w[2]
      BY ZenonT(30), BlockByBlock
    <3>2. w = v
      BY <2>2, <2>3
    <3> HIDE DEF w
    <3> QED
      BY <3>1, <3>2
  <2>6. <<e[2 * d + 1], e[2 * d + 2]>> = v
    BY <2>4, <2>5, SwapHalves
  <2> HIDE DEF e
  <2>7. PICK u : u = <<x, y>>
    OBVIOUS
  <2>8. u = desfunc(<<e[2 * d + 1], e[2 * d + 2]>>, kd)
    BY <2>4, <2>6, <2>7
  <2>9. f[2 * d + 1] = u[1] /\ f[2 * d + 2] = u[2]
    <3> DEFINE w == desfunc(<<e[2 * d + 1], e[2 * d + 2]>>, kd)
    <3>1. f[2 * d + 1] = w[1] /\ f[2 * d + 2] = w[2]
      BY <1>1, BlockByBlock
    <3> QED
      BY <2>8, <3>1
  <2>10. u[1] = x /\ u[2] = y
    BY SMT, <2>7
  <2> QED
    BY <2>2, <2>9, <2>10
<1> HIDE DEF f
<1>4. ASSUME NEW n \in 1 .. 2 * h
      PROVE  f[n] = data[n]
  BY <1>3, PlaceInBlock
<1>5. data = [n \in 1 .. 2 * h |-> data[n]]
  BY LenProperties
<1>6. f = data
  BY <1>2, <1>4, <1>5
<1> QED
  BY <1>6 DEF f
-----------------------------------------------------------------------------
(* the padding: one or two bytes that hold their number *)
LEMMA Padded ==
    ASSUME NEW s \in Seq(Word)
    PROVE  LET p == CW_dataPadAdd(s) IN
           \E c \in 1 .. Block, h \in Nat :
              /\ p \in Seq(Word) /\ Len(p) = 2 * h /\ Len(p) = Len(s) + c
              /\ Last(p) = c /\ SubSeq(p, 1, Len(p) - c) = s
<1> DEFINE p == CW_dataPadAdd(s)
<1>1. PICK l \in Nat : l = Len(s)
  BY LenProperties
<1>2. PICK c \in 1 .. Block : c = Block - (l % Block)
  BY SMT DEF Block
<1>3. c \in {1, 2} /\ c \in Word /\ c \in Nat /\ c >= 1
  BY SMT DEF Block, Word
<1>4. PICK h \in Nat : l + c = 2 * h
  <2>1. PICK d \in Nat : d = l \div 2
    BY SMT
  <2>2. l + c = 2 * (d + 1)
    BY SMT, <1>2, <2>1 DEF Block
  <2>3. d + 1 \in Nat
    BY SMT
  <2> QED
    BY <2>2, <2>3
<1> DEFINE pad == [i \in 1 .. c |-> c]
<1>5. p = s \o pad
  BY <1>1, <1>2 DEF CW_dataPadAdd
<1>6. pad \in Seq(Word) /\ Len(pad) = c /\ \A i \in 1 .. c : pad[i] = c
  <2>1. Len(pad) = c
    BY <1>3, LengthIs
  <2>2. pad \in [1 .. c -> Word]
    BY <1>3
  <2> QED
    BY SMT, <1>3, <2>1, <2>2
<1> HIDE DEF p, pad
<1>7. /\ p \in Seq(Word) /\ Len(p) = l + c
      /\ \A i \in 1 .. l + c : p[i] = IF i <= l THEN s[i] ELSE pad[i - l]
  BY ZenonT(30), <1>1, <1>5, <1>6, ConcatProperties
<1>8. Last(p) = c
  <2>1. l + c \in 1 .. l + c /\ ~(l + c <= l) /\ (l + c) - l = c /\ c \in 1 .. c
    BY SMT, <1>3
  <2>2. p[l + c] = pad[c]
    BY <1>7, <2>1
  <2> QED
    BY <1>6, <1>7, <2>1, <2>2 DEF Last
<1>9. SubSeq(p, 1, l) = s
  <2>1. \A i \in 1 .. l : i \in 1 .. l + c /\ i <= l /\ 1 + i - 1 = i
    BY SMT, <1>3
  <2>2. \A i \in 1 .. l : p[i] = s[i] /\ s[i] \in Word
    BY <1>1, <1>7, <2>1, ElementOfSeq
  <2>3. 1 \in Int /\ l \in Int /\ l - 1 + 1 = l /\ (IF 1 <= l THEN l - 1 + 1 ELSE 0) = l
    BY SMT
  <2>4. /\ SubSeq(p, 1, l) \in Seq(Word)
        /\ Len(SubSeq(p, 1, l)) = IF 1 <= l THEN l - 1 + 1 ELSE 0
        /\ \A i \in 1 .. l - 1 + 1 : SubSeq(p, 1, l)[i] = p[1 + i - 1]
    BY SMT, <2>2, <2>3, SubSeqProperties
  <2>5. Len(SubSeq(p, 1, l)) = Len(s) /\ \A i \in 1 .. l : SubSeq(p, 1, l)[i] = s[i]
    BY <1>1, <2>1, <2>2, <2>3, <2>4
  <2> QED
    BY <1>1, <2>4, <2>5, SeqEqual
<1>10. Len(p) - c = l
  BY SMT, <1>3, <1>7
<1>11. /\ p \in Seq(Word) /\ Len(p) = 2 * h /\ Len(p) = Len(s) + c
       /\ Last(p) = c /\ SubSeq(p, 1, Len(p) - c) = s
  BY <1>1, <1>4, <1>7, <1>8, <1>9, <1>10
<1> QED
  BY <1>11 DEF p

(***************************************************************************)
(* des.c: the rounds with the keys of DE1 undo those with the keys of EN0, *)
(* and the last byte tells the padding, for every text of whole bytes of   *)
(* any length and every key.  These are the keys as deskey makes them, all *)
(* 32; what DesEnc and DesDec copy of them is DesInverts' matter.          *)
(***************************************************************************)
THEOREM CipherReadBack ==
    ASSUME NEW s \in Seq(Word), NEW key \in Int
    PROVE  LET e == myic_DES(CW_dataPadAdd(s), deskey(key, "EN0"))
               plain == myic_DES(e, deskey(key, "DE1"))
           IN  /\ Len(e) % Block = 0
               /\ Last(plain) \in 1 .. Block
               /\ SubSeq(plain, 1, Len(plain) - Last(plain)) = s
<1> DEFINE ke == deskey(key, "EN0")
           kd == deskey(key, "DE1")
           p == CW_dataPadAdd(s)
           e == myic_DES(p, ke)
<1>1. PICK c \in 1 .. Block, h \in Nat :
         /\ p \in Seq(Word) /\ Len(p) = 2 * h /\ Last(p) = c
         /\ SubSeq(p, 1, Len(p) - c) = s
  BY Padded
<1>2. ke \in [0 .. 31 -> Int] /\ Reversed(ke, kd)
  BY KeysReversed
<1> HIDE DEF ke, kd, p
<1>3. myic_DES(e, kd) = p
  BY <1>1, <1>2, DataUndone
<1>4. Len(e) = 2 * h
  BY <1>1, LengthKept
<1>5. Len(e) % Block = 0
  BY SMT, <1>4 DEF Block
<1> QED
  BY <1>1, <1>3, <1>5 DEF ke, kd, p
-----------------------------------------------------------------------------
(* get_file_suffix *)

(* a set of numbers up to n has a greatest one *)
LEMMA GreatestOf ==
    ASSUME NEW n \in Nat, NEW D \in SUBSET (0 .. n), D # {}
    PROVE  Max(D) \in D /\ \A y \in D : Max(D) >= y
<1> DEFINE T == {n - x : x \in D}
<1>0. \A x \in D : n - x \in Nat
  BY SMT
<1>1. T \in SUBSET Nat /\ T # {}
  BY <1>0
<1>2. PICK t \in T : \A u \in T : <<u, t>> \notin OpToRel(<, Nat)
  BY <1>1, NatLessThanWellFounded, WFMin
<1>3. \A u \in T : ~(u < t)
  BY <1>1, <1>2 DEF OpToRel
<1>4. PICK x \in D : t = n - x
  OBVIOUS
<1>5. \A y \in D : x >= y
  <2> SUFFICES ASSUME NEW y \in D PROVE x >= y
    OBVIOUS
  <2>1. ~(n - y < n - x)
    BY <1>3, <1>4
  <2> QED
    BY SMT, <2>1
<1> QED
  BY <1>5 DEF Max

(* what k, the place get_file_suffix runs back to, says of the name s *)
LastDot(s) == Max({i \in 0 .. Len(s) : at(s, i) = "." \/ i = 0})

(* no dot of the name is behind k, and k is at a dot where there is one *)
LEMMA DotFound ==
    ASSUME NEW S, "." \in S, NUL \notin S, NEW s \in Seq(S)
    PROVE  LET k == LastDot(s) IN
           /\ k \in Nat /\ k <= Len(s)
           /\ at(s, k) = "." => k < Len(s) /\ s[k + 1] = "."
           /\ \A j \in 1 .. Len(s) : s[j] = "." => at(s, k) = "." /\ j <= k + 1
<1> DEFINE D == {i \in 0 .. Len(s) : at(s, i) = "." \/ i = 0}
           k == LastDot(s)
<1>1. Len(s) \in Nat
  BY LenProperties
<1>2. D \in SUBSET (0 .. Len(s)) /\ 0 \in D
  BY SMT, <1>1
<1>3. k \in D /\ \A y \in D : k >= y
  <2> HIDE DEF D
  <2> QED
    BY <1>1, <1>2, GreatestOf DEF LastDot, D
<1> HIDE DEF k
<1>4. k \in Nat /\ k <= Len(s) /\ (at(s, k) = "." \/ k = 0)
  BY SMT, <1>1, <1>3
<1>5. at(s, k) = "." => k < Len(s) /\ s[k + 1] = "."
  BY DEF at, NUL
<1>6. ASSUME NEW j \in 1 .. Len(s), s[j] = "."
      PROVE  at(s, k) = "." /\ j <= k + 1
  <2>1. j - 1 \in 0 .. Len(s) /\ j - 1 < Len(s) /\ (j - 1) + 1 = j
    BY SMT, <1>1
  <2>2. at(s, j - 1) = "."
    BY <1>6, <2>1 DEF at
  <2>3. k >= j - 1
    BY <1>3, <2>1, <2>2
  <2>4. j <= k + 1
    BY SMT, <1>1, <1>4, <2>3
  <2>5. k = 0 => j - 1 = k
    BY SMT, <1>1, <1>4, <2>3
  <2> QED
    BY <1>4, <2>2, <2>4, <2>5
<1> QED
  BY <1>4, <1>5, <1>6 DEF k

(* What get_file_suffix answers for a name of any length: what follows the    *)
(* last dot, when something does; else "null", and then the name has no dot   *)
(* or ends with one.                                                          *)
THEOREM SuffixOf ==
    ASSUME NEW S, "." \in S, NUL \notin S, "null" \notin S, NEW s \in Seq(S)
    PROVE  LET suf == get_file_suffix(s) IN
           IF suf # <<"null">>
           THEN "." \notin ToSet(suf) /\ IsSuffix(<<".">> \o suf, s)
           ELSE "." \in ToSet(s) => Last(s) = "."
<1> DEFINE k == LastDot(s)
           suf == Cut(s, k + 1, Len(s))
           q == <<".">> \o suf
<1>1. Len(s) \in Nat
  BY LenProperties
<1>2. /\ k \in Nat /\ k <= Len(s)
      /\ at(s, k) = "." => k < Len(s) /\ s[k + 1] = "."
      /\ \A j \in 1 .. Len(s) : s[j] = "." => at(s, k) = "." /\ j <= k + 1
  BY DotFound
<1>3. get_file_suffix(s) = IF at(s, k) = "." /\ suf # <<>> THEN suf ELSE <<"null">>
  BY DEF get_file_suffix, LastDot
<1> HIDE DEF k
<1>4. CASE at(s, k) = "." /\ suf # <<>>
  <2>1. k < Len(s) /\ s[k + 1] = "."
    BY <1>2, <1>4
  <2>2. /\ suf \in Seq(S) /\ Len(suf) = (Len(s) - k) - 1
        /\ \A i \in 1 .. Len(suf) : suf[i] = s[(k + 1) + i] /\ (k + 1) + i \in 1 .. Len(s)
    BY SMT, <1>1, <1>2, <2>1 DEF Cut
  <2>3. Len(suf) \in Nat /\ Len(suf) # 0
    BY <1>4, <2>2, EmptySeq, LenProperties
  <2> HIDE DEF suf
  <2>4. suf # <<"null">>
    <3>1. 1 \in 1 .. Len(suf)
      BY SMT, <2>3
    <3>2. suf[1] \in S
      BY <2>2, <3>1, ElementOfSeq
    <3> QED
      BY SMT, <3>2
  <2>5. "." \notin ToSet(suf)
    <3> SUFFICES ASSUME NEW i \in 1 .. Len(suf), suf[i] = "." PROVE FALSE
      BY <2>2, LenProperties DEF ToSet
    <3>1. (k + 1) + i <= k + 1
      BY <1>2, <2>2
    <3> QED
      BY SMT, <1>2, <2>3, <3>1
  <2>6. /\ q \in Seq(S) /\ Len(q) = Len(s) - k
        /\ \A i \in 1 .. Len(q) : q[i] = s[k + i]
    <3>1. q \in Seq(S) /\ Len(q) = Len(s) - k
      BY SMT, <1>1, <1>2, <2>1, <2>2
    <3> SUFFICES ASSUME NEW i \in 1 .. Len(q) PROVE q[i] = s[k + i]
      BY <3>1
    <3>2. CASE i = 1
      BY SMT, <2>1, <2>2, <3>2
    <3>3. CASE i # 1
      <4>1. q[i] = suf[i - 1] /\ i - 1 \in 1 .. Len(suf)
        BY SMT, <1>1, <1>2, <2>1, <2>2, <3>1, <3>3
      <4>2. (k + 1) + (i - 1) = k + i
        BY SMT, <1>1, <1>2, <3>1
      <4> QED
        BY <2>2, <4>1, <4>2
    <3> QED
      BY <3>2, <3>3
  <2> HIDE DEF q
  <2>7. IsSuffix(q, s)
    <3> DEFINE n == Len(s) - k
               rq == Reverse(q)
               rs == Reverse(s)
    <3>1. n \in Nat /\ n <= Len(s)
      BY SMT, <1>1, <1>2, <2>1
    <3>2. /\ rq \in Seq(S) /\ Len(rq) = n
          /\ \A i \in 1 .. n : rq[i] = q[(n - i) + 1]
      <4>1. Len(q) = n
        BY <2>6
      <4>2. rq = [i \in 1 .. n |-> q[(n - i) + 1]]
        BY <4>1 DEF Reverse
      <4>3. \A i \in 1 .. n : (n - i) + 1 \in 1 .. Len(q)
        BY SMT, <3>1, <4>1
      <4>4. \A i \in 1 .. n : q[(n - i) + 1] \in S
        BY <2>6, <4>3, ElementOfSeq
      <4> HIDE DEF n, rq
      <4> QED
        BY SMT, <3>1, <4>2, <4>4
    <3>3. /\ rs \in Seq(S) /\ Len(rs) = Len(s)
          /\ \A i \in 1 .. Len(s) : rs[i] = s[(Len(s) - i) + 1]
      BY SMT, <1>1 DEF Reverse
    <3>4. ASSUME NEW i \in 1 .. n PROVE rq[i] = rs[i]
      <4>1. /\ (n - i) + 1 \in 1 .. Len(q) /\ i \in 1 .. Len(s)
            /\ k + ((n - i) + 1) = (Len(s) - i) + 1
        BY SMT, <1>1, <1>2, <2>6, <3>1
      <4> HIDE DEF n
      <4> QED
        BY ZenonT(30), <2>6, <3>2, <3>3, <4>1
    <3> HIDE DEF rq, rs, n
    <3>5. SubSeq(rq, 1, n) = SubSeq(rs, 1, n)
      <4>1. \A i \in 1 .. n : i \in 1 .. Len(rq) /\ i \in 1 .. Len(rs)
        BY SMT, <1>1, <3>1, <3>2, <3>3
      <4>2. \A i \in 1 .. n : rq[i] \in S /\ rs[i] \in S
        BY <3>2, <3>3, <4>1, ElementOfSeq
      <4>3. /\ SubSeq(rq, 1, n) \in Seq(S) /\ SubSeq(rs, 1, n) \in Seq(S)
            /\ Len(SubSeq(rq, 1, n)) = n /\ Len(SubSeq(rs, 1, n)) = n
            /\ \A i \in 1 .. n : SubSeq(rq, 1, n)[i] = rq[i]
            /\ \A i \in 1 .. n : SubSeq(rs, 1, n)[i] = rs[i]
        BY SMT, <3>1, <4>2, SubSeqProperties
      <4> QED
        BY <3>4, <4>3, SeqEqual
    <3> QED
      BY SMT, <3>1, <3>2, <3>3, <3>5 DEF IsSuffix, IsPrefix, rq, rs
  <2> QED
    BY <1>3, <1>4, <2>4, <2>5, <2>7 DEF q
<1>5. CASE ~(at(s, k) = "." /\ suf # <<>>)
  <2> SUFFICES ASSUME "." \in ToSet(s) PROVE Last(s) = "."
    BY <1>3, <1>5
  <2>1. PICK j \in 1 .. Len(s) : s[j] = "."
    BY LenProperties DEF ToSet
  <2>2. at(s, k) = "." /\ k < Len(s) /\ s[k + 1] = "."
    BY <1>2, <2>1
  <2>3. suf = <<>>
    BY <1>5, <2>2
  <2>4. k + 1 = Len(s)
    <3>1. Len(suf) = (Len(s) - k) - 1
      BY SMT, <1>1, <1>2, <2>2 DEF Cut
    <3>2. Len(suf) = 0
      BY <2>3, EmptySeq
    <3> HIDE DEF suf
    <3> QED
      BY SMT, <1>1, <1>2, <3>1, <3>2
  <2> QED
    BY <2>2, <2>4 DEF Last
<1> QED
  BY <1>4, <1>5

(* SuffixExact, as Helpers.tla states it for the names of a run. *)
THEOREM SuffixCorrect == Spec => []SuffixExact
<1>1. ASSUME TextInv, kind = "name" PROVE text \in Seq({".", "a", "b"})
  BY <1>1 DEF TextInv, Alphabet
<1>2. /\ "." \in {".", "a", "b"} /\ NUL \notin {".", "a", "b"}
      /\ "null" \notin {".", "a", "b"}
  BY DEF NUL
<1>3. TextInv => SuffixExact
  BY <1>1, <1>2, SuffixOf DEF SuffixExact
<1> QED
  BY <1>3, TextType, PTL
-----------------------------------------------------------------------------
(* strstr, memstr *)

(* the least of a set, when there is one *)
LEMMA FirstIs ==
    ASSUME NEW S \in SUBSET Int, NEW x \in S, \A y \in S : x <= y
    PROVE  Min(S) = x /\ FirstIn(S) = x
<1>1. \A z \in S : (\A y \in S : z <= y) => z = x
  BY SMT
<1>2. Min(S) = x
  BY <1>1 DEF Min
<1> QED
  BY <1>2 DEF FirstIn

(* a text occurs where its characters are, one after the other *)
LEMMA OccursIs ==
    ASSUME NEW S, NEW s \in Seq(S), NEW sub \in Seq(S), NEW i \in Nat
    PROVE  Occurs(s, i, sub) <=>
              /\ i + Len(sub) <= Len(s)
              /\ \A k \in 1 .. Len(sub) : s[i + k] = sub[k]
<1> DEFINE n == Len(sub)
           c == SubSeq(s, i + 1, i + n)
<1>1. Len(s) \in Nat /\ n \in Nat
  BY LenProperties
<1> SUFFICES ASSUME i + n <= Len(s)
             PROVE  c = sub <=> \A k \in 1 .. n : s[i + k] = sub[k]
  BY DEF Occurs, Cut
<1> HIDE DEF n
<1>2. \A k \in i + 1 .. i + n : k \in 1 .. Len(s)
  BY SMT, <1>1
<1>3. \A k \in i + 1 .. i + n : s[k] \in S
  BY <1>2, ElementOfSeq
<1>4. /\ c \in Seq(S) /\ Len(c) = n
      /\ \A k \in 1 .. n : c[k] = s[i + k]
  BY SMT, <1>1, <1>3, SubSeqProperties
<1> HIDE DEF c
<1>5. ASSUME \A k \in 1 .. n : s[i + k] = sub[k] PROVE c = sub
  BY <1>4, <1>5, SeqEqual DEF n
<1> QED
  BY <1>4, <1>5

(* a text that is put together begins with its first piece *)
LEMMA PieceBefore ==
    ASSUME NEW S, NEW a \in Seq(S), NEW b \in Seq(S), NEW i \in 1 .. Len(a)
    PROVE  (a \o b)[i] = a[i]
<1>1. Len(a) \in Nat /\ Len(b) \in Nat
  BY LenProperties
<1>2. i \in 1 .. Len(a) + Len(b) /\ i <= Len(a)
  BY SMT, <1>1
<1> QED
  BY <1>2, ConcatProperties

(* and goes on with the second one *)
LEMMA PieceAfter ==
    ASSUME NEW S, NEW a \in Seq(S), NEW b \in Seq(S), NEW i \in 1 .. Len(b)
    PROVE  (a \o b)[Len(a) + i] = b[i]
<1>1. Len(a) \in Nat /\ Len(b) \in Nat
  BY LenProperties
<1>2. /\ Len(a) + i \in 1 .. Len(a) + Len(b)
      /\ ~(Len(a) + i <= Len(a)) /\ (Len(a) + i) - Len(a) = i
  BY SMT, <1>1
<1>3. \A k \in 1 .. Len(a) + Len(b) :
         (a \o b)[k] = IF k <= Len(a) THEN a[k] ELSE b[k - Len(a)]
  BY ConcatProperties
<1> QED
  BY <1>2, <1>3

(* the same for a text of four pieces *)
LEMMA FourPieces ==
    ASSUME NEW S, NEW a \in Seq(S), NEW b \in Seq(S), NEW c \in Seq(S),
           NEW d \in Seq(S)
    PROVE  /\ a \o b \o c \o d \in Seq(S)
           /\ Len(a \o b \o c \o d) = ((Len(a) + Len(b)) + Len(c)) + Len(d)
           /\ \A i \in 1 .. Len(a) : (a \o b \o c \o d)[i] = a[i]
           /\ \A i \in 1 .. Len(b) : (a \o b \o c \o d)[Len(a) + i] = b[i]
           /\ \A i \in 1 .. Len(c) : (a \o b \o c \o d)[(Len(a) + Len(b)) + i] = c[i]
<1> DEFINE ab == a \o b
           abc == ab \o c
           s == abc \o d
           m == Len(a) + Len(b)
           n == m + Len(c)
<1>1. Len(a) \in Nat /\ Len(b) \in Nat /\ Len(c) \in Nat
  BY LenProperties
<1>2. ab \in Seq(S)
  BY ConcatProperties
<1>3. Len(ab) = m
  BY ConcatProperties
<1>4. \A i \in 1 .. Len(a) : ab[i] = a[i]
  BY PieceBefore
<1>5. \A i \in 1 .. Len(b) : ab[Len(a) + i] = b[i]
  BY PieceAfter
<1> HIDE DEF ab
<1>6. abc \in Seq(S)
  BY <1>2, ConcatProperties
<1>7. Len(abc) = Len(ab) + Len(c)
  BY <1>2, ConcatProperties
<1>8. \A i \in 1 .. Len(ab) : abc[i] = ab[i]
  BY <1>2, PieceBefore
<1>9. \A i \in 1 .. Len(c) : abc[Len(ab) + i] = c[i]
  BY <1>2, PieceAfter
<1>10. Len(abc) = n
  BY <1>3, <1>7
<1> HIDE DEF abc
<1>11. s \in Seq(S) /\ Len(s) = Len(abc) + Len(d)
  BY <1>6, ConcatProperties
<1>12. \A i \in 1 .. Len(abc) : s[i] = abc[i]
  BY <1>6, PieceBefore
<1> HIDE DEF s
<1>13. /\ \A i \in 1 .. Len(a) : i \in 1 .. m /\ i \in 1 .. n
       /\ \A i \in 1 .. Len(b) : Len(a) + i \in 1 .. m /\ Len(a) + i \in 1 .. n
       /\ \A i \in 1 .. Len(c) : m + i \in 1 .. n
  BY SMT, <1>1
<1> HIDE DEF m, n
<1>14. /\ \A i \in 1 .. m : abc[i] = ab[i]
       /\ \A i \in 1 .. Len(c) : abc[m + i] = c[i]
       /\ \A i \in 1 .. n : s[i] = abc[i]
       /\ Len(s) = n + Len(d)
  BY <1>3, <1>8, <1>9, <1>10, <1>11, <1>12
<1>15. /\ \A i \in 1 .. Len(a) : s[i] = a[i]
       /\ \A i \in 1 .. Len(b) : s[Len(a) + i] = b[i]
       /\ \A i \in 1 .. Len(c) : s[m + i] = c[i]
  BY <1>4, <1>5, <1>13, <1>14
<1> QED
  BY <1>11, <1>14, <1>15 DEF s, abc, ab, m, n

(***************************************************************************)
(* recv_save_file cuts the content off where it ends: memstr finds the     *)
(* boundary behind the CRLF that follows the content, for every content    *)
(* that does not contain it, whatever line ends or beginnings of a         *)
(* boundary the content has, for every boundary without a line end, and    *)
(* whatever follows.                                                       *)
(***************************************************************************)
THEOREM ContentCut ==
    ASSUME NEW S, CRLF \in Seq(S),
           NEW boundary \in Seq(S), boundary # <<>>,
           \A k \in 1 .. Len(boundary) : boundary[k] \notin {"\r", "\n"},
           NEW content \in Seq(S), NEW end \in Seq(S),
           \A i \in 0 .. Len(content) : ~Occurs(content, i, boundary)
    PROVE  LET data == content \o CRLF \o boundary \o end
           IN  memstr(data, Len(data), boundary) = Len(content) + 2
<1> DEFINE data == content \o CRLF \o boundary \o end
           l == Len(content)
           n == Len(boundary)
           D == {i \in 0 .. Len(data) - n : Occurs(data, i, boundary)}
<1>1. l \in Nat /\ n \in Nat \ {0} /\ Len(end) \in Nat
  BY LenProperties, EmptySeq
<1>2. Len(CRLF) = 2 /\ CRLF[1] = "\r" /\ CRLF[2] = "\n"
  BY SMT DEF CRLF
<1>3. /\ data \in Seq(S) /\ Len(data) = ((l + 2) + n) + Len(end)
      /\ \A i \in 1 .. l : data[i] = content[i]
      /\ \A i \in 1 .. 2 : data[l + i] = CRLF[i]
      /\ \A i \in 1 .. n : data[(l + 2) + i] = boundary[i]
  <2>1. /\ data \in Seq(S)
        /\ Len(data) = ((Len(content) + Len(CRLF)) + Len(boundary)) + Len(end)
    BY SMT, FourPieces
  <2>2. \A i \in 1 .. Len(content) : data[i] = content[i]
    BY SMT, FourPieces
  <2>3. ASSUME NEW i \in 1 .. Len(CRLF) PROVE data[Len(content) + i] = CRLF[i]
    <3> DEFINE line == content \o CRLF
    <3>1. line \in Seq(S) /\ Len(line) = Len(content) + Len(CRLF)
      BY ConcatProperties
    <3>2. line[Len(content) + i] = CRLF[i]
      BY PieceAfter
    <3>3. Len(content) + i \in 1 .. Len(line)
      BY SMT, <1>1, <1>2, <3>1
    <3> HIDE DEF line
    <3>4. line \o boundary \in Seq(S) /\ Len(line \o boundary) = Len(line) + Len(boundary)
      BY <3>1, ConcatProperties
    <3>5. (line \o boundary)[Len(content) + i] = line[Len(content) + i]
      BY <3>1, <3>3, PieceBefore
    <3>6. Len(content) + i \in 1 .. Len(line \o boundary)
      BY SMT, <1>1, <1>2, <3>1, <3>3, <3>4
    <3>7. ((line \o boundary) \o end)[Len(content) + i] = (line \o boundary)[Len(content) + i]
      BY ZenonT(30), <3>4, <3>6, PieceBefore
    <3> QED
      BY <3>2, <3>5, <3>7 DEF line
  <2>4. \A i \in 1 .. Len(boundary) : data[(Len(content) + Len(CRLF)) + i] = boundary[i]
    BY SMT, FourPieces
  <2> HIDE DEF data
  <2> QED
    BY <1>2, <2>1, <2>2, <2>3, <2>4
<1> HIDE DEF data
<1>4. data[l + 1] = "\r" /\ data[l + 2] = "\n"
  <2>1. 1 \in 1 .. 2 /\ 2 \in 1 .. 2
    BY SMT
  <2> QED
    BY <1>2, <1>3, <2>1
<1>5. l + 2 \in D
  <2>1. l + 2 \in Nat /\ l + 2 \in 0 .. Len(data) - n /\ (l + 2) + n <= Len(data)
    BY SMT, <1>1, <1>3
  <2> QED
    BY <1>3, <2>1, OccursIs
<1>6. ASSUME NEW i \in D PROVE l + 2 <= i
  <2>1. i \in Nat
    BY SMT
  <2>2. \A k \in 1 .. n : data[i + k] = boundary[k]
    BY SMT, <1>3, <2>1, OccursIs
  <2>3. CASE i + n <= l
    <3>1. i \in 0 .. l /\ \A k \in 1 .. n : i + k \in 1 .. l
      BY SMT, <1>1, <2>1, <2>3
    <3>2. \A k \in 1 .. n : content[i + k] = boundary[k]
      BY <1>3, <2>2, <3>1
    <3>3. Occurs(content, i, boundary)
      BY ZenonT(30), <2>1, <2>3, <3>2, OccursIs
    <3> QED
      BY <3>1, <3>3
  <2>4. CASE i + n > l /\ i <= l
    <3>1. (l + 1) - i \in 1 .. n /\ i + ((l + 1) - i) = l + 1
      BY SMT, <1>1, <2>1, <2>4
    <3> QED
      BY <1>4, <2>2, <3>1
  <2>5. CASE i = l + 1
    <3>1. 1 \in 1 .. n /\ i + 1 = l + 2
      BY SMT, <1>1, <2>5
    <3> QED
      BY <1>4, <2>2, <3>1
  <2> QED
    BY SMT, <1>1, <2>1, <2>3, <2>4, <2>5
<1>7. D \in SUBSET Int
  BY SMT
<1>8. Len(data) > 0
  BY SMT, <1>1, <1>3
<1>9. memstr(data, Len(data), boundary) = FirstIn(D)
  <2>1. ~(Len(data) <= 0)
    BY SMT, <1>1, <1>3, <1>8
  <2> QED
    BY <2>1 DEF memstr
<1> HIDE DEF D
<1> QED
  BY ZenonT(30), <1>5, <1>6, <1>7, <1>9, FirstIs DEF data

(***************************************************************************)
(* query_parse_key_value returns the value that stands behind the key and  *)
(* its "=", up to the "&" or "#" after it or to the end, for every query   *)
(* in which the first place where the text of the key is found is the key. *)
(***************************************************************************)
THEOREM ValueRead ==
    ASSUME NEW S, NUL \notin S, <<"=">> \in Seq(S),
           NEW before \in Seq(S), NEW key \in Seq(S), NEW value \in Seq(S),
           NEW rest \in Seq(S),
           \A k \in 1 .. Len(value) : value[k] \notin {"#", "&"},
           rest = <<>> \/ rest[1] \in {"#", "&"},
           strstr(before \o key \o <<"=">> \o value \o rest, 0, key) = Len(before)
    PROVE  query_parse_key_value(before \o key \o <<"=">> \o value \o rest, key) = value
<1> DEFINE bk == before \o key
           head == bk \o <<"=">>
           w == head \o value
           query == w \o rest
           temp == (Len(before) + Len(key)) + 1
           v == Len(value)
           E == {n \in temp .. Len(query) : at(query, n) \in {NUL, "#", "&"}}
<1>1. Len(before) \in Nat /\ Len(key) \in Nat /\ v \in Nat /\ Len(rest) \in Nat
  BY LenProperties
<1>2. strstr(query, 0, key) = Len(before)
  OBVIOUS
<1>3. query_parse_key_value(query, key) =
         LET found == strstr(query, 0, key)
             t     == found + Len(key) + 1
         IN  CASE found = None -> NotFound
               [] found # None /\ t > Len(query) -> Unknown
               [] OTHER -> Cut(query, t, Min({n \in t .. Len(query) :
                                                 at(query, n) \in {NUL, "#", "&"}}))
  BY DEF query_parse_key_value
<1>4. head \in Seq(S) /\ Len(head) = temp
  <2>1. bk \in Seq(S)
    BY ConcatProperties
  <2>2. Len(bk) = Len(before) + Len(key)
    BY ZenonT(30), ConcatProperties
  <2> HIDE DEF bk
  <2>3. head \in Seq(S)
    BY <2>1, ConcatProperties
  <2>4. Len(head) = Len(bk) + Len(<<"=">>)
    BY SMT, <2>1, ConcatProperties
  <2>5. Len(<<"=">>) = 1
    BY SMT
  <2> QED
    BY <2>2, <2>3, <2>4, <2>5
<1> HIDE DEF head
<1>5. w \in Seq(S) /\ Len(w) = Len(head) + v
  BY ZenonT(30), <1>4, ConcatProperties
<1>6. ASSUME NEW i \in 1 .. Len(value) PROVE w[Len(head) + i] = value[i]
  <2>1. head \in Seq(S)
    BY <1>4
  <2> QED
    BY SMT, <2>1, PieceAfter
<1> HIDE DEF w
<1>7. query \in Seq(S) /\ Len(query) = Len(w) + Len(rest)
  BY ZenonT(30), <1>5, ConcatProperties
<1>8. \A i \in 1 .. Len(w) : query[i] = w[i]
  BY SMT, <1>5, PieceBefore
<1>9. \A i \in 1 .. Len(rest) : query[Len(w) + i] = rest[i]
  BY SMT, <1>5, PieceAfter
<1> HIDE DEF query
<1>10. temp \in Nat /\ Len(w) = temp + v /\ Len(query) = (temp + v) + Len(rest)
  BY SMT, <1>1, <1>4, <1>5, <1>7
<1>11. \A i \in 1 .. v : query[temp + i] = value[i]
  <2>1. \A i \in 1 .. v : temp + i \in 1 .. Len(w)
    BY SMT, <1>1, <1>10
  <2> HIDE DEF temp
  <2> QED
    BY <1>4, <1>6, <1>8, <2>1
<1> HIDE DEF temp
<1>12. temp + v \in E
  <2>1. temp + v \in temp .. Len(query)
    BY SMT, <1>1, <1>10
  <2>2. CASE rest = <<>>
    <3>1. Len(rest) = 0
      BY <2>2, EmptySeq
    <3>2. ~(temp + v < Len(query))
      BY SMT, <1>1, <1>10, <3>1
    <3> QED
      BY <2>1, <3>2 DEF at
  <2>3. CASE rest # <<>>
    <3>1. Len(rest) \in Nat \ {0}
      BY <2>3, EmptySeq
    <3>2. temp + v < Len(query) /\ 1 \in 1 .. Len(rest)
      BY SMT, <1>1, <1>10, <3>1
    <3>3. query[(temp + v) + 1] = rest[1]
      BY <1>9, <1>10, <3>2
    <3> QED
      BY <2>1, <2>3, <3>2, <3>3 DEF at
  <2> QED
    BY <2>2, <2>3
<1>13. ASSUME NEW n \in E PROVE temp + v <= n
  <2>1. n \in Nat /\ temp <= n
    BY SMT, <1>10
  <2> SUFFICES ASSUME n < temp + v PROVE FALSE
    BY SMT, <1>1, <1>10, <2>1
  <2>2. /\ n < Len(query) /\ (n + 1) - temp \in 1 .. v /\ temp + ((n + 1) - temp) = n + 1
    BY SMT, <1>1, <1>10, <2>1
  <2>3. query[n + 1] = value[(n + 1) - temp]
    BY <1>11, <2>2
  <2>4. value[(n + 1) - temp] \in S
    BY <2>2, ElementOfSeq
  <2> QED
    BY <2>2, <2>3, <2>4 DEF at
<1>14. Min(E) = temp + v
  <2>1. E \in SUBSET Int
    BY SMT, <1>10
  <2> HIDE DEF E
  <2> QED
    BY <1>12, <1>13, <2>1, FirstIs
<1>15. Cut(query, temp, temp + v) = value
  <2>1. \A i \in temp + 1 .. temp + v : i \in 1 .. Len(query)
    BY SMT, <1>1, <1>10
  <2>2. \A i \in temp + 1 .. temp + v : query[i] \in S
    BY ZenonT(30), <1>7, <2>1, ElementOfSeq
  <2> DEFINE c == SubSeq(query, temp + 1, temp + v)
  <2>3. c \in Seq(S) /\ Len(c) = v /\ \A i \in 1 .. v : c[i] = query[temp + i]
    BY SMT, <1>1, <1>10, <2>2, SubSeqProperties
  <2> HIDE DEF c
  <2>4. c = value
    BY SMT, <1>11, <2>3, SeqEqual
  <2> QED
    BY <2>4 DEF Cut, c
<1>16. Len(before) # None /\ ~(temp > Len(query))
  BY SMT, <1>1, <1>10 DEF None
<1> QED
  <2>1. query_parse_key_value(query, key) = Cut(query, temp, Min(E))
    BY <1>2, <1>3, <1>16 DEF temp
  <2> HIDE DEF E
  <2> QED
    BY ZenonT(30), <1>14, <1>15, <2>1 DEF query, w, head
=============================================================================
