----------------------------- MODULE TpduProofs -----------------------------
(***************************************************************************)
(* For any messages and any number of calls through the same structures:   *)
(* the numbers and names that the decoders get are the sender's, and so    *)
(* are the coding schemes but for what Tpdu!SchemeArrives says; a text is  *)
(* read in its own alphabet; every field is read where it was written; the *)
(* length returned is that of what was written, and a message that is      *)
(* returned as encoded is whole.                                           *)
(***************************************************************************)
EXTENDS Tpdu, SequenceTheorems, TLAPS

-----------------------------------------------------------------------------
(* ---- coding schemes ----------------------------------------------------*)
(* The alphabets and their numbers.                                         *)
LEMMA AlphabetsAre ==
  /\ Alphabets[1] = "seven_bit" /\ Alphabets[2] = "eight_bit" /\ Alphabets[3] = "ucs2"
  /\ AlphabetNumber("seven_bit") = 0 /\ AlphabetNumber("eight_bit") = 1 /\ AlphabetNumber("ucs2") = 2
<1>1. Alphabets[1] = "seven_bit" /\ Alphabets[2] = "eight_bit" /\ Alphabets[3] = "ucs2"
  BY DEF Alphabets
<1>2. /\ \A k \in 1..3 : Alphabets[k] = "seven_bit" <=> k = 1
      /\ \A k \in 1..3 : Alphabets[k] = "eight_bit" <=> k = 2
      /\ \A k \in 1..3 : Alphabets[k] = "ucs2" <=> k = 3
  BY <1>1
<1>3. /\ AlphabetNumber("seven_bit") = 1 - 1
      /\ AlphabetNumber("eight_bit") = 2 - 1
      /\ AlphabetNumber("ucs2") = 3 - 1
  BY <1>2 DEF AlphabetNumber
<1>4. QED
  BY <1>1, <1>3

(* The alphabets of the group with a class alone, and those in which        *)
(* messages wait.                                                           *)
ClassAlphabet == {"seven_bit", "eight_bit"}
Waiting == {"discard", "store"}
WaitsIn(waiting, alphabet) == \/ waiting = "discard" /\ alphabet = "seven_bit"
                              \/ waiting = "store" /\ alphabet \in {"seven_bit", "ucs2"}

(* A scheme of each group and its octet.                                    *)
LEMMA EncodesGeneral ==
  ASSUME NEW compressed \in BOOLEAN, NEW class \in 0..NO_CLASS,
         NEW alphabet, NEW a \in 0..2, a = AlphabetNumber(alphabet), NEW indication
  PROVE EncodeDcs(MakeScheme(class, "none", alphabet, compressed, indication))
          = (IF compressed THEN 32 ELSE 0) + (IF class # NO_CLASS THEN 16 ELSE 0) + 4 * a + (class % 4)
BY DEF EncodeDcs, MakeScheme, Bit, Waits, NO_CLASS

LEMMA EncodesClassAlone ==
  ASSUME NEW class \in 0..3, NEW alphabet, NEW indication
  PROVE EncodeDcs(MakeScheme(class, "none_1111", alphabet, FALSE, indication))
          = 240 + (IF alphabet = "eight_bit" THEN 4 ELSE 0) + class
BY DEF EncodeDcs, MakeScheme, Bit, Waits

(* An octet of each group and its scheme.                                   *)
LEMMA DecodesGeneral ==
  ASSUME NEW o \in 0..255, o \div 16 <= 3, NEW compressed \in BOOLEAN, compressed = HasBit(o, 32),
         NEW before
  PROVE DecodeDcs(o, before) = MakeScheme(IF HasBit(o, 16) THEN o % 4 ELSE NO_CLASS, "none",
                                          AlphabetIn(o), compressed, before)
BY DEF DecodeDcs, MakeScheme, HasBit

LEMMA DecodesReserved ==
  ASSUME NEW o \in 0..255, o \div 16 \in 4..11, NEW before
  PROVE DecodeDcs(o, before) = MakeScheme(NO_CLASS, "none", "seven_bit", FALSE, before)
BY DEF DecodeDcs, MakeScheme, HasBit

LEMMA DecodesIndication ==
  ASSUME NEW o \in 0..255, NEW active \in BOOLEAN, active = HasBit(o, 8),
         NEW waiting, NEW alphabet, NEW before,
         \/ o \div 16 = 12 /\ waiting = "discard" /\ alphabet = "seven_bit"
         \/ o \div 16 = 13 /\ waiting = "store" /\ alphabet = "seven_bit"
         \/ o \div 16 = 14 /\ waiting = "store" /\ alphabet = "ucs2"
  PROVE DecodeDcs(o, before) = MakeScheme(NO_CLASS, waiting, alphabet, FALSE, <<active, o % 4>>)
<1>1. CASE o \div 16 = 12
  <2>1. waiting = "discard" /\ alphabet = "seven_bit"
    BY <1>1
  <2>2. DecodeDcs(o, before) = MakeScheme(NO_CLASS, "discard", "seven_bit", FALSE, <<active, o % 4>>)
    BY <1>1 DEF DecodeDcs, MakeScheme, HasBit
  <2>3. QED
    BY <2>1, <2>2
<1>2. CASE o \div 16 = 13
  <2>1. waiting = "store" /\ alphabet = "seven_bit"
    BY <1>2
  <2>2. DecodeDcs(o, before) = MakeScheme(NO_CLASS, "store", "seven_bit", FALSE, <<active, o % 4>>)
    BY <1>2 DEF DecodeDcs, MakeScheme, HasBit
  <2>3. QED
    BY <2>1, <2>2
<1>3. CASE o \div 16 = 14
  <2>1. waiting = "store" /\ alphabet = "ucs2"
    BY <1>3
  <2>2. DecodeDcs(o, before) = MakeScheme(NO_CLASS, "store", "ucs2", FALSE, <<active, o % 4>>)
    BY <1>3 DEF DecodeDcs, MakeScheme, HasBit
  <2>3. QED
    BY <2>1, <2>2
<1>4. QED
  BY <1>1, <1>2, <1>3

LEMMA DecodesClassAlone ==
  ASSUME NEW o \in 0..255, o \div 16 = 15, NEW before
  PROVE DecodeDcs(o, before) = MakeScheme(o % 4, "none_1111",
                                          IF HasBit(o, 4) THEN "eight_bit" ELSE "seven_bit",
                                          FALSE, before)
BY DEF DecodeDcs, MakeScheme, HasBit

(* The schemes that octets stand for, group by group.                       *)
General(s) == \E class \in 0..NO_CLASS, alphabet \in Alphabet, compressed \in BOOLEAN, i \in Indication :
                s = MakeScheme(class, "none", alphabet, compressed, i)
ClassAlone(s) == \E class \in 0..3, alphabet \in ClassAlphabet, i \in Indication :
                   s = MakeScheme(class, "none_1111", alphabet, FALSE, i)
Indicates(s) == \E active \in BOOLEAN, k \in 0..3, waiting \in Waiting, alphabet \in Alphabet :
                  WaitsIn(waiting, alphabet) /\ s = MakeScheme(NO_CLASS, waiting, alphabet, FALSE, <<active, k>>)

(* What was encoded in a group is decoded in it.                            *)
LEMMA GeneralIsKept ==
  ASSUME NEW compressed \in BOOLEAN, NEW class \in 0..NO_CLASS, NEW alphabet \in Alphabet,
         NEW indication, NEW before,
         NEW s, s = MakeScheme(class, "none", alphabet, compressed, indication)
  PROVE DecodeDcs(EncodeDcs(s), before) = MakeScheme(class, "none", alphabet, compressed, before)
<1> DEFINE x == IF compressed THEN 1 ELSE 0
           y == IF class # NO_CLASS THEN 1 ELSE 0
           a == AlphabetNumber(alphabet)
           z == class % 4
           e == EncodeDcs(s)
<1>1. x \in 0..1 /\ y \in 0..1 /\ z \in 0..3 /\ (class # NO_CLASS => z = class)
  BY DEF NO_CLASS
<1>2. a \in 0..2 /\ Alphabets[a + 1] = alphabet
  BY AlphabetsAre DEF Alphabet
<1>3. e = 32 * x + 16 * y + 4 * a + z
  <2>1. e = (IF compressed THEN 32 ELSE 0) + (IF class # NO_CLASS THEN 16 ELSE 0) + 4 * a + z
    BY <1>2, EncodesGeneral
  <2>2. QED
    BY <2>1, <1>1, <1>2
<1> HIDE DEF a, z, e
<1>4. /\ e \in Nat /\ e \div 16 = 2 * x + y /\ e \div 16 \in 0..3
      /\ HasBit(e, 32) <=> x = 1
      /\ HasBit(e, 16) <=> y = 1
      /\ (e \div 4) % 4 = a /\ e % 4 = z
  <2> HIDE DEF x, y
  <2>0. x \in 0..1 /\ y \in 0..1 /\ a \in 0..2 /\ z \in 0..3 /\ e = 32 * x + 16 * y + 4 * a + z
    BY <1>1, <1>2, <1>3
  <2>1. e \in Nat /\ e \div 16 = 2 * x + y /\ e \div 32 = x
    BY <2>0
  <2>2. e \div 4 = 8 * x + 4 * y + a /\ e % 4 = z
    BY <2>0
  <2>3. (e \div 4) % 4 = a
    BY <2>0, <2>2
  <2>4. (HasBit(e, 32) <=> x = 1) /\ (HasBit(e, 16) <=> y = 1)
    BY <2>0, <2>1 DEF HasBit
  <2>5. QED
    BY <2>0, <2>1, <2>2, <2>3, <2>4
<1>5. AlphabetIn(e) = alphabet
  BY <1>2, <1>4 DEF AlphabetIn
<1>6. (IF HasBit(e, 16) THEN e % 4 ELSE NO_CLASS) = class
  BY <1>1, <1>4
<1>7. compressed = HasBit(e, 32)
  BY <1>4 DEF HasBit
<1>8. e \in 0..255 /\ e \div 16 <= 3
  BY <1>1, <1>2, <1>3, <1>4
<1>9. DecodeDcs(e, before) = MakeScheme(IF HasBit(e, 16) THEN e % 4 ELSE NO_CLASS, "none",
                                        AlphabetIn(e), compressed, before)
  BY <1>7, <1>8, DecodesGeneral
<1>10. DecodeDcs(e, before) = MakeScheme(class, "none", alphabet, compressed, before)
  BY <1>5, <1>6, <1>9
<1>11. QED
  BY <1>10 DEF e

LEMMA ClassAloneIsKept ==
  ASSUME NEW class \in 0..3, NEW alphabet \in ClassAlphabet,
         NEW indication, NEW before,
         NEW s, s = MakeScheme(class, "none_1111", alphabet, FALSE, indication)
  PROVE DecodeDcs(EncodeDcs(s), before) = MakeScheme(class, "none_1111", alphabet, FALSE, before)
<1> DEFINE x == IF alphabet = "eight_bit" THEN 1 ELSE 0
           e == EncodeDcs(s)
<1>1. e = 240 + 4 * x + class /\ x \in 0..1
  <2>1. e = 240 + (IF alphabet = "eight_bit" THEN 4 ELSE 0) + class
    BY Zenon, EncodesClassAlone
  <2> HIDE DEF e
  <2>2. QED
    BY <2>1
<1> HIDE DEF e
<1>2. e \in 0..255 /\ e \div 16 = 15 /\ e % 4 = class /\ e \div 4 = 60 + x
  BY <1>1
<1>3. (IF HasBit(e, 4) THEN "eight_bit" ELSE "seven_bit") = alphabet
  BY <1>1, <1>2 DEF HasBit, ClassAlphabet
<1>4. DecodeDcs(e, before) = MakeScheme(class, "none_1111", alphabet, FALSE, before)
  BY <1>2, <1>3, DecodesClassAlone
<1>5. QED
  BY <1>4 DEF e

LEMMA IndicationIsKept ==
  ASSUME NEW s, Indicates(s), NEW before
  PROVE DecodeDcs(EncodeDcs(s), before) = s
<1>0. PICK active \in BOOLEAN, k \in 0..3, waiting \in Waiting, alphabet \in Alphabet :
             WaitsIn(waiting, alphabet) /\ s = MakeScheme(NO_CLASS, waiting, alphabet, FALSE, <<active, k>>)
  BY Zenon DEF Indicates
<1> DEFINE x == IF active THEN 1 ELSE 0
           n == IF waiting = "discard" THEN 12 ELSE IF alphabet = "seven_bit" THEN 13 ELSE 14
           e == EncodeDcs(s)
<1>1. e = 16 * n + 8 * x + k /\ x \in 0..1 /\ n \in 12..14
  <2>1. e = (IF waiting = "discard" THEN 192 ELSE IF alphabet = "seven_bit" THEN 208 ELSE 224)
            + (IF active THEN 8 ELSE 0) + k
    BY <1>0 DEF EncodeDcs, MakeScheme, Bit, Waits, Waiting
  <2> HIDE DEF e
  <2>2. QED
    BY <2>1
<1> HIDE DEF e
<1>2. e \in 0..255 /\ e \div 16 = n /\ e % 4 = k /\ e \div 8 = 2 * n + x
  <2> HIDE DEF n, x
  <2>1. QED
    BY <1>1
<1>3. active = HasBit(e, 8)
  BY <1>1, <1>2 DEF HasBit
<1>4. \/ n = 12 /\ waiting = "discard" /\ alphabet = "seven_bit"
      \/ n = 13 /\ waiting = "store" /\ alphabet = "seven_bit"
      \/ n = 14 /\ waiting = "store" /\ alphabet = "ucs2"
  BY <1>0 DEF WaitsIn
<1>5. DecodeDcs(e, before) = MakeScheme(NO_CLASS, waiting, alphabet, FALSE, <<active, e % 4>>)
  <2> HIDE DEF n
  <2>1. QED
    BY <1>2, <1>3, <1>4, DecodesIndication
<1>6. QED
  BY <1>0, <1>2, <1>5 DEF e

LEMMA OctetGroups ==
  ASSUME NEW o \in 0..255, NEW before \in Indication, NEW s, s = DecodeDcs(o, before)
  PROVE General(s) \/ ClassAlone(s) \/ Indicates(s)
<1> DEFINE compressed == HasBit(o, 32)
           active == HasBit(o, 8)
           class == IF HasBit(o, 16) THEN o % 4 ELSE NO_CLASS
<1>1. /\ o % 4 \in 0..3 /\ o \div 16 \in 0..15
      /\ compressed \in BOOLEAN /\ active \in BOOLEAN
  BY DEF HasBit
<1>2. class \in 0..NO_CLASS
  BY <1>1 DEF NO_CLASS
<1>3. CASE o \div 16 <= 3
  <2>1. AlphabetIn(o) \in Alphabet
    BY AlphabetsAre DEF AlphabetIn, Alphabet
  <2> HIDE DEF compressed
  <2>2. s = MakeScheme(class, "none", AlphabetIn(o), compressed, before)
    BY <1>1, <1>3, DecodesGeneral DEF compressed
  <2> HIDE DEF class
  <2>3. QED
    BY <1>1, <1>2, <2>1, <2>2, Zenon DEF General
<1>4. CASE o \div 16 \in 4..11
  <2>1. s = MakeScheme(NO_CLASS, "none", "seven_bit", FALSE, before)
    BY <1>4, DecodesReserved
  <2>2. "seven_bit" \in Alphabet /\ NO_CLASS \in 0..NO_CLASS /\ FALSE \in BOOLEAN
    BY AlphabetsAre DEF Alphabet, NO_CLASS
  <2>3. QED
    BY <2>1, <2>2, Zenon DEF General
<1>5. CASE o \div 16 \in 12..14
  <2> DEFINE waiting == IF o \div 16 = 12 THEN "discard" ELSE "store"
             alphabet == IF o \div 16 = 14 THEN "ucs2" ELSE "seven_bit"
  <2>1. \/ o \div 16 = 12 /\ waiting = "discard" /\ alphabet = "seven_bit"
        \/ o \div 16 = 13 /\ waiting = "store" /\ alphabet = "seven_bit"
        \/ o \div 16 = 14 /\ waiting = "store" /\ alphabet = "ucs2"
    BY <1>5
  <2> HIDE DEF active
  <2>2. s = MakeScheme(NO_CLASS, waiting, alphabet, FALSE, <<active, o % 4>>)
    BY <1>1, <2>1, DecodesIndication DEF active
  <2>3. WaitsIn(waiting, alphabet) /\ waiting \in Waiting /\ alphabet \in Alphabet
    BY <2>1, AlphabetsAre DEF WaitsIn, Waiting, Alphabet
  <2> HIDE DEF waiting, alphabet
  <2>4. QED
    BY <1>1, <2>2, <2>3, Zenon DEF Indicates
<1>6. CASE o \div 16 = 15
  <2> DEFINE alphabet == IF HasBit(o, 4) THEN "eight_bit" ELSE "seven_bit"
  <2>1. s = MakeScheme(o % 4, "none_1111", alphabet, FALSE, before)
    BY <1>6, DecodesClassAlone
  <2>2. alphabet \in ClassAlphabet
    BY DEF ClassAlphabet
  <2> HIDE DEF alphabet
  <2>3. QED
    BY <1>1, <2>1, <2>2, Zenon DEF ClassAlone
<1>7. QED
  BY <1>1, <1>3, <1>4, <1>5, <1>6

(* The groups do not overlap: what an octet stands for is written in such a *)
(* way that it is read again, but for an indication that is written only    *)
(* where messages wait (wms_ts_encode_dcs, wms_ts_decode_dcs).              *)
THEOREM SchemesAreKept ==
  \A s \in Expressible, before \in Indication : DecodeDcs(EncodeDcs(s), before) = Received(s, before)
<1> SUFFICES ASSUME NEW s \in Expressible, NEW before \in Indication
             PROVE  DecodeDcs(EncodeDcs(s), before) = Received(s, before)
  OBVIOUS
<1>0. PICK o \in 0..255, other \in Indication : s = DecodeDcs(o, other)
  BY DEF Expressible
<1>1. CASE General(s)
  <2>1. PICK class \in 0..NO_CLASS, alphabet \in Alphabet, compressed \in BOOLEAN, i \in Indication :
               s = MakeScheme(class, "none", alphabet, compressed, i)
    BY <1>1, Zenon DEF General
  <2>2. DecodeDcs(EncodeDcs(s), before) = MakeScheme(class, "none", alphabet, compressed, before)
    BY <2>1, GeneralIsKept
  <2>3. Received(s, before) = MakeScheme(class, "none", alphabet, compressed, before)
    BY <2>1 DEF Received, Waits, MakeScheme
  <2>4. QED
    BY <2>2, <2>3
<1>2. CASE ClassAlone(s)
  <2>1. PICK class \in 0..3, alphabet \in ClassAlphabet, i \in Indication :
               s = MakeScheme(class, "none_1111", alphabet, FALSE, i)
    BY <1>2, Zenon DEF ClassAlone
  <2>2. DecodeDcs(EncodeDcs(s), before) = MakeScheme(class, "none_1111", alphabet, FALSE, before)
    BY <2>1, ClassAloneIsKept
  <2>3. Received(s, before) = MakeScheme(class, "none_1111", alphabet, FALSE, before)
    BY <2>1 DEF Received, Waits, MakeScheme
  <2>4. QED
    BY <2>2, <2>3
<1>3. CASE Indicates(s)
  <2>1. PICK active \in BOOLEAN, k \in 0..3, waiting \in Waiting, alphabet \in Alphabet :
               WaitsIn(waiting, alphabet) /\ s = MakeScheme(NO_CLASS, waiting, alphabet, FALSE, <<active, k>>)
    BY <1>3, Zenon DEF Indicates
  <2>2. DecodeDcs(EncodeDcs(s), before) = s
    BY <1>3, IndicationIsKept
  <2>3. Received(s, before) = s
    BY <2>1 DEF Received, Waits, MakeScheme, WaitsIn
  <2>4. QED
    BY <2>2, <2>3
<1>4. QED
  BY <1>0, <1>1, <1>2, <1>3, OctetGroups
-----------------------------------------------------------------------------
(* The octet of a scheme is an octet, and every octet stands for a scheme.  *)
LEMMA SchemeIsOctet == ASSUME NEW s \in Scheme PROVE EncodeDcs(s) \in 0..255
<1> DEFINE b == Bit(s.compressed, 32)
           c == Bit(s.class # NO_CLASS, 16)
           n == AlphabetNumber(s.alphabet)
           i == Bit(s.indication[1], 8)
           e == Bit(s.alphabet = "eight_bit", 4)
           h == CASE s.waiting = "discard" -> 192
                  [] s.waiting = "store" /\ s.alphabet = "seven_bit" -> 208
                  [] OTHER -> 224
<1>1. /\ s.class \in 0..4 /\ s.waiting \in {"none", "discard", "store", "none_1111"}
      /\ s.indication[2] \in 0..3
  BY DEF Scheme, NO_CLASS, Indication
<1>2. b \in {0, 32} /\ c \in {0, 16} /\ i \in {0, 8} /\ e \in {0, 4} /\ h \in {192, 208, 224}
  BY DEF Bit
<1>3. n \in 0..2
  <2>1. s.alphabet \in {"seven_bit", "eight_bit", "ucs2"}
    <3>1. s.alphabet \in Alphabet
      BY DEF Scheme
    <3>2. PICK k \in 1..3 : s.alphabet = Alphabets[k]
      BY <3>1 DEF Alphabet
    <3>3. QED
      BY <3>2, AlphabetsAre
  <2>2. QED
    BY <2>1, AlphabetsAre
<1> HIDE DEF b, c, n, i, e, h
<1>4. CASE s.waiting = "none"
  <2>1. EncodeDcs(s) = b + c + 4 * n + (s.class % 4)
    BY <1>4, Zenon DEF EncodeDcs, Waits, b, c, n
  <2>2. QED
    BY <1>1, <1>2, <1>3, <2>1
<1>5. CASE s.waiting = "none_1111"
  <2>1. EncodeDcs(s) = 240 + e + (s.class % 4)
    BY <1>5, Zenon DEF EncodeDcs, Waits, e
  <2>2. QED
    BY <1>1, <1>2, <2>1
<1>6. CASE s.waiting \in {"discard", "store"}
  <2>1. EncodeDcs(s) = h + i + s.indication[2]
    BY <1>6 DEF EncodeDcs, Waits, h, i
  <2>2. QED
    BY <1>1, <1>2, <2>1
<1>7. QED
  BY <1>1, <1>4, <1>5, <1>6

LEMMA OctetIsScheme ==
  ASSUME NEW o \in 0..255, NEW before \in Indication
  PROVE DecodeDcs(o, before) \in Scheme
<1>1. "seven_bit" \in Alphabet /\ "eight_bit" \in Alphabet /\ "ucs2" \in Alphabet
  BY AlphabetsAre DEF Alphabet
<1>2. ASSUME NEW class \in 0..NO_CLASS, NEW waiting \in {"none", "discard", "store", "none_1111"},
             NEW alphabet \in Alphabet, NEW compressed \in BOOLEAN, NEW i \in Indication
      PROVE MakeScheme(class, waiting, alphabet, compressed, i) \in Scheme
  BY DEF MakeScheme, Scheme
<1>3. \A k \in 0..3 : k \in 0..NO_CLASS
  BY DEF NO_CLASS
<1> DEFINE s == DecodeDcs(o, before)
<1> HIDE DEF s
<1>4. CASE General(s)
  <2>1. PICK class \in 0..NO_CLASS, alphabet \in Alphabet, compressed \in BOOLEAN, i \in Indication :
               s = MakeScheme(class, "none", alphabet, compressed, i)
    BY <1>4, Zenon DEF General
  <2>2. MakeScheme(class, "none", alphabet, compressed, i) \in Scheme
    BY <1>2
  <2>3. QED
    BY <2>1, <2>2, Zenon DEF s
<1>5. CASE ClassAlone(s)
  <2>1. PICK class \in 0..3, alphabet \in ClassAlphabet, i \in Indication :
               s = MakeScheme(class, "none_1111", alphabet, FALSE, i)
    BY <1>5, Zenon DEF ClassAlone
  <2>2. class \in 0..NO_CLASS /\ alphabet \in Alphabet
    BY <1>1, <1>3 DEF ClassAlphabet
  <2>3. MakeScheme(class, "none_1111", alphabet, FALSE, i) \in Scheme
    BY <1>2, <2>2
  <2>4. QED
    BY <2>1, <2>3, Zenon DEF s
<1>6. CASE Indicates(s)
  <2>1. PICK active \in BOOLEAN, k \in 0..3, waiting \in Waiting, alphabet \in Alphabet :
               WaitsIn(waiting, alphabet) /\ s = MakeScheme(NO_CLASS, waiting, alphabet, FALSE, <<active, k>>)
    BY <1>6, Zenon DEF Indicates
  <2> DEFINE i == <<active, k>>
             class == NO_CLASS
  <2>2. i \in Indication /\ class \in 0..NO_CLASS
    BY DEF Indication, NO_CLASS
  <2>3. alphabet \in Alphabet /\ waiting \in {"none", "discard", "store", "none_1111"}
    BY <1>1, <2>1 DEF WaitsIn
  <2> HIDE DEF i, class
  <2>4. MakeScheme(class, waiting, alphabet, FALSE, i) \in Scheme
    BY <1>2, <2>2, <2>3
  <2>5. QED
    BY <2>1, <2>4, Zenon DEF i, class, s
<1>7. QED
  BY <1>4, <1>5, <1>6, OctetGroups DEF s

LEMMA ExpressibleIsScheme == Expressible \subseteq Scheme
BY OctetIsScheme DEF Expressible

(* The alphabet of an octet does not depend on the indication before, and   *)
(* an announcement of voice mail is a scheme in the same alphabet.          *)
LEMMA AlphabetOfOctet ==
  ASSUME NEW o \in 0..255, NEW before
  PROVE DecodeDcs(o, before).alphabet = DecodeDcs(o, NoIndication).alphabet
<1>1. CASE o \div 16 <= 3
  <2> DEFINE compressed == HasBit(o, 32)
  <2>1. compressed \in BOOLEAN
    BY DEF HasBit
  <2> HIDE DEF compressed
  <2>2. ASSUME NEW b PROVE DecodeDcs(o, b).alphabet = AlphabetIn(o)
    <3>1. DecodeDcs(o, b) = MakeScheme(IF HasBit(o, 16) THEN o % 4 ELSE NO_CLASS, "none",
                                       AlphabetIn(o), compressed, b)
      BY <1>1, <2>1, DecodesGeneral DEF compressed
    <3>2. QED
      BY <3>1 DEF MakeScheme
  <2>3. QED
    BY <2>2, Zenon
<1>2. CASE o \div 16 \in 4..11
  BY <1>2, DecodesReserved DEF MakeScheme
<1>3. CASE o \div 16 \in 12..14
  <2>1. o \div 16 = 12 \/ o \div 16 = 13 \/ o \div 16 = 14
    BY <1>3
  <2>2. QED
    BY <2>1 DEF DecodeDcs, MakeScheme, HasBit
<1>4. CASE o \div 16 = 15
  BY <1>4, DecodesClassAlone DEF MakeScheme
<1>5. QED
  BY <1>1, <1>2, <1>3, <1>4

LEMMA Voicemail == <<TRUE, VOICEMAIL>> \in Indication /\ NoIndication \in Indication
<1>1. ASSUME NEW active \in BOOLEAN, NEW k \in 0..3 PROVE <<active, k>> \in Indication
  BY DEF Indication
<1>2. TRUE \in BOOLEAN /\ FALSE \in BOOLEAN /\ VOICEMAIL \in 0..3
  BY DEF VOICEMAIL
<1>3. QED
  BY <1>1, <1>2, Zenon DEF NoIndication

LEMMA AnnouncementIsScheme ==
  ASSUME NEW s \in Scheme
  PROVE AnnounceVoicemail(s) \in Scheme /\ AnnounceVoicemail(s).alphabet = s.alphabet
BY Voicemail DEF AnnounceVoicemail, Scheme

(* What a decoder makes of an octet is a scheme in the octet's alphabet.    *)
LEMMA SchemeIsRead ==
  ASSUME NEW o \in 0..255, held.indication \in Indication
  PROVE SchemeRead(o) \in Scheme /\ SchemeRead(o).alphabet = DecodeDcs(o, NoIndication).alphabet
<1> DEFINE s == DecodeDcs(o, held.indication)
<1>1. s \in Scheme /\ s.alphabet = DecodeDcs(o, NoIndication).alphabet
  BY OctetIsScheme, AlphabetOfOctet
<1>2. SchemeRead(o) = IF ReturnCall(s) THEN AnnounceVoicemail(s) ELSE s
  BY DEF SchemeRead
<1> HIDE DEF s
<1>3. QED
  BY <1>1, <1>2, AnnouncementIsScheme

-----------------------------------------------------------------------------
(* ---- numbers -----------------------------------------------------------*)
(* Two digits are put together and taken apart.                             *)
LEMMA HalfOctets == \A x, y \in 0..15 : (x + 16 * y) % 16 = x /\ (x + 16 * y) \div 16 = y
OBVIOUS

(* A digit is in the half octet where the decoder looks for it.             *)
LEMMA HalvesAreKept ==
  ASSUME NEW digits \in Seq(0..15), NEW k \in DOMAIN digits
  PROVE LET s == SemiOctets(digits)
        IN /\ k % 2 = 1 => (k + 1) \div 2 \in DOMAIN s /\ s[(k + 1) \div 2] % 16 = digits[k]
           /\ k % 2 = 0 => k \div 2 \in DOMAIN s /\ s[k \div 2] \div 16 = digits[k]
<1> DEFINE half(j) == IF j > Len(digits) THEN FILLER ELSE digits[j] % 16
           s == SemiOctets(digits)
           n == Len(digits)
<1>1. n \in Nat /\ k \in 1..n /\ digits[k] \in 0..15
  OBVIOUS
<1>2. s = [j \in 1..(n + 1) \div 2 |-> half(2 * j - 1) + 16 * half(2 * j)]
  BY DEF SemiOctets
<1>3. ASSUME NEW j \in Nat \ {0} PROVE half(j) \in 0..15
  BY DEF FILLER
<1>4. half(k) = digits[k]
  BY <1>1
<1> HIDE DEF half, s, n
<1>5. ASSUME k % 2 = 1 PROVE (k + 1) \div 2 \in DOMAIN s /\ s[(k + 1) \div 2] % 16 = digits[k]
  <2> DEFINE j == (k + 1) \div 2
  <2>1. j \in 1..(n + 1) \div 2 /\ 2 * j - 1 = k /\ 2 * j \in Nat \ {0}
    BY <1>1, <1>5
  <2> HIDE DEF j
  <2>2. s[j] = digits[k] + 16 * half(2 * j)
    BY <1>2, <1>4, <2>1
  <2>3. half(2 * j) \in 0..15
    BY <1>3, <2>1
  <2>4. (digits[k] + 16 * half(2 * j)) % 16 = digits[k]
    BY <1>1, <2>3, HalfOctets
  <2>5. QED
    BY <1>2, <2>1, <2>2, <2>4 DEF j
<1>6. ASSUME k % 2 = 0 PROVE k \div 2 \in DOMAIN s /\ s[k \div 2] \div 16 = digits[k]
  <2> DEFINE j == k \div 2
  <2>1. j \in 1..(n + 1) \div 2 /\ 2 * j = k /\ 2 * j - 1 \in Nat \ {0}
    BY <1>1, <1>6
  <2> HIDE DEF j
  <2>2. s[j] = half(2 * j - 1) + 16 * digits[k]
    BY <1>2, <1>4, <2>1
  <2>3. half(2 * j - 1) \in 0..15
    BY <1>3, <2>1
  <2>4. (half(2 * j - 1) + 16 * digits[k]) \div 16 = digits[k]
    BY <1>1, <2>3, HalfOctets
  <2>5. QED
    BY <1>2, <2>1, <2>2, <2>4 DEF j
<1>7. QED
  BY <1>5, <1>6 DEF s

(* What is behind the length and the type octet.                            *)
LEMMA BehindTwo ==
  ASSUME NEW x \in Int, NEW y \in Int, NEW t \in Seq(Int),
         NEW d, d = <<x, y>> \o t
  PROVE /\ d \in Seq(Int) /\ Len(d) = 2 + Len(t)
        /\ d[1] = x /\ d[2] = y
        /\ \A j \in 1..Len(t) : d[j + 2] = t[j]
<1> DEFINE h == <<x, y>>
<1>1. h \in Seq(Int) /\ Len(h) = 2 /\ h[1] = x /\ h[2] = y
  OBVIOUS
<1> HIDE DEF h
<1>2. Len(h \o t) = Len(h) + Len(t) /\ h \o t \in Seq(Int)
  BY <1>1, ConcatProperties
<1>3. \A i \in 1..2 + Len(t) : (h \o t)[i] = IF i <= 2 THEN h[i] ELSE t[i - 2]
  <2>1. \A i \in 1..Len(h) + Len(t) : (h \o t)[i] = IF i <= Len(h) THEN h[i] ELSE t[i - Len(h)]
    BY <1>1, ConcatProperties
  <2>2. QED
    BY <1>1, <2>1
<1>4. Len(t) \in Nat
  OBVIOUS
<1> DEFINE c == h \o t
<1> HIDE DEF c
<1>5. \A i \in 1..2 + Len(t) : c[i] = IF i <= 2 THEN h[i] ELSE t[i - 2]
  BY <1>3 DEF c
<1>6. c[1] = x /\ c[2] = y
  BY <1>1, <1>4, <1>5
<1>7. ASSUME NEW j \in 1..Len(t) PROVE c[j + 2] = t[j]
  <2>1. j + 2 \in 1..2 + Len(t) /\ ~(j + 2 <= 2) /\ (j + 2) - 2 = j
    BY <1>4
  <2>2. QED
    BY <2>1, <1>5
<1>8. QED
  BY <1>1, <1>2, <1>6, <1>7 DEF h, c

(* A number of any length the encoder takes, odd or even, of any type and   *)
(* plan, is decoded to itself, and the decoder takes as many octets as were *)
(* written (wms_ts_encode_address, wms_ts_decode_address).                  *)
THEOREM NumbersAreKept ==
  ASSUME NEW a \in AddressType, WellTyped(a), a.type # ALPHANUMERIC, Len(a.digits) <= ADDRESS_MAX
  PROVE LET d == EncodeAddress(a)
        IN AddressAccepted(d) /\ AddressOctets(d) = Len(d) /\ DecodeAddress(d) = a
<1> DEFINE digits == a.digits
           s == SemiOctets(digits)
           d == EncodeAddress(a)
           n == Len(digits)
<1>1. digits \in Seq(0..15) /\ n \in Nat
  <2>1. digits \in Seq(0..127)
    BY DEF AddressType
  <2>2. \A k \in DOMAIN digits : digits[k] <= 15
    BY DEF WellTyped
  <2> HIDE DEF digits
  <2>3. n \in Nat /\ DOMAIN digits = 1..n
    BY <2>1
  <2>4. \A k \in 1..n : digits[k] \in 0..127
    BY <2>1, ElementOfSeq
  <2> HIDE DEF n
  <2>5. digits \in [1..n -> 0..15]
    <3>1. ASSUME NEW k \in 1..n PROVE digits[k] \in 0..15
      <4>1. digits[k] \in 0..127 /\ digits[k] <= 15
        BY <2>2, <2>3, <2>4
      <4>2. \A v \in 0..127 : v <= 15 => v \in 0..15
        OBVIOUS
      <4>3. QED
        BY <4>1, <4>2, Zenon
    <3>2. digits = [k \in 1..n |-> digits[k]]
      BY <2>1, <2>3
    <3>3. QED
      BY <3>1, <3>2
  <2>6. QED
    BY <2>3, <2>5
<1>2. a.type \in 0..7 /\ a.plan \in 0..15
  BY DEF AddressType
<1> DEFINE y == 128 + 16 * a.type + a.plan
<1>3. y \in Int /\ y \div 16 = 8 + a.type /\ y % 16 = a.plan
  <2>1. \A t \in 0..7, p \in 0..15 : /\ 128 + 16 * t + p \in Int
                                     /\ (128 + 16 * t + p) \div 16 = 8 + t
                                     /\ (128 + 16 * t + p) % 16 = p
    OBVIOUS
  <2>2. QED
    BY <1>2, <2>1
<1>4. d = <<n, y>> \o s
  BY DEF EncodeAddress, LengthOctet, ADDRESS_MAX
<1>5. s \in Seq(Int) /\ Len(s) = (n + 1) \div 2
  <2> HIDE DEF digits
  <2> DEFINE half(k) == IF k > n THEN FILLER ELSE digits[k] % 16
             m == (n + 1) \div 2
  <2>1. s = [j \in 1..m |-> half(2 * j - 1) + 16 * half(2 * j)]
    BY DEF SemiOctets
  <2>2. \A k \in Nat \ {0} : half(k) \in Int
    BY <1>1 DEF FILLER
  <2>3. m \in Nat
    BY <1>1
  <2> HIDE DEF s, half, m
  <2>4. \A j \in 1..m : half(2 * j - 1) + 16 * half(2 * j) \in Int
    BY <2>2, <2>3
  <2>5. s \in [1..m -> Int]
    BY <2>1, <2>4
  <2>6. QED
    BY <2>3, <2>5 DEF m
<1> HIDE DEF s, d, n, digits, y
<1>6. /\ d \in Seq(Int) /\ Len(d) = 2 + Len(s)
      /\ d[1] = n /\ d[2] = y
      /\ \A j \in 1..Len(s) : d[j + 2] = s[j]
  BY <1>1, <1>3, <1>4, <1>5, BehindTwo
<1>7. TypeIn(d) = a.type /\ d[2] % 16 = a.plan
  <2>1. \A t \in 0..7 : (8 + t) % 8 = t
    OBVIOUS
  <2>2. QED
    BY <1>2, <1>3, <1>6, <2>1 DEF TypeIn
<1>8. SubSeq(d, 3, Len(d)) = s
  BY <1>5, <1>6
<1>9. AddressAccepted(d) /\ AddressOctets(d) = Len(d)
  BY <1>1, <1>5, <1>6 DEF AddressAccepted, AddressOctets, n, digits
<1>10. DecodeAddress(d).digits = digits
  <2> DEFINE half(k) == IF k % 2 = 1 THEN s[(k + 1) \div 2] % 16 ELSE s[k \div 2] \div 16
  <2>1. DecodeAddress(d).digits = [k \in 1..n |-> half(k)]
    BY <1>6, <1>7, <1>8 DEF DecodeAddress
  <2>2. ASSUME NEW k \in 1..n PROVE half(k) = digits[k]
    <3>1. k \in DOMAIN digits
      BY <1>1 DEF n
    <3>2. (k % 2 = 1 => s[(k + 1) \div 2] % 16 = digits[k]) /\ (k % 2 = 0 => s[k \div 2] \div 16 = digits[k])
      BY <1>1, <3>1, HalvesAreKept DEF s
    <3>3. k % 2 = 0 \/ k % 2 = 1
      OBVIOUS
    <3>4. QED
      BY <3>2, <3>3
  <2> HIDE DEF half
  <2>3. [k \in 1..n |-> half(k)] = [k \in 1..n |-> digits[k]]
    BY <2>2
  <2>4. digits = [k \in 1..n |-> digits[k]]
    BY <1>1 DEF n
  <2>5. QED
    BY <2>1, <2>3, <2>4
<1>11. DecodeAddress(d) = [type |-> a.type, plan |-> a.plan, digits |-> digits]
  <2>1. DecodeAddress(d) = [type |-> a.type, plan |-> a.plan, digits |-> DecodeAddress(d).digits]
    BY <1>7 DEF DecodeAddress
  <2>2. QED
    BY <1>10, <2>1
<1>12. a = [type |-> a.type, plan |-> a.plan, digits |-> digits]
  BY DEF AddressType, digits
<1>13. QED
  BY <1>9, <1>11, <1>12 DEF d

-----------------------------------------------------------------------------
(* ---- names -------------------------------------------------------------*)
(* The recursion of NumberOf unrolled, for as many bits as a character or   *)
(* an octet has.                                                            *)
LEMMA NumberOfSteps ==
  ASSUME NEW w \in {7, 8}, NEW b \in [1..w -> {0, 1}]
  PROVE \E n : /\ n[0] = 0 /\ NumberOf(b) = n[w]
               /\ \A k \in 1..w : n[k] = 2 * n[k - 1] + b[k]
<1> DEFINE N == CHOOSE n : n = [k \in 0..w |-> IF k = 0 THEN 0 ELSE 2 * n[k - 1] + b[k]]
           g1 == 2 * 0 + b[1]
           g2 == 2 * g1 + b[2]
           g3 == 2 * g2 + b[3]
           g4 == 2 * g3 + b[4]
           g5 == 2 * g4 + b[5]
           g6 == 2 * g5 + b[6]
           g7 == 2 * g6 + b[7]
           g8 == 2 * g7 + b[8]
           g == [k \in 0..w |-> CASE k = 0 -> 0 [] k = 1 -> g1 [] k = 2 -> g2 [] k = 3 -> g3
                                  [] k = 4 -> g4 [] k = 5 -> g5 [] k = 6 -> g6 [] k = 7 -> g7
                                  [] k = 8 -> g8]
<1>1. g = [k \in 0..w |-> IF k = 0 THEN 0 ELSE 2 * g[k - 1] + b[k]]
  <2> HIDE DEF g1, g2, g3, g4, g5, g6, g7, g8
  <2>1. /\ g[0] = 0 /\ g[1] = g1 /\ g[2] = g2 /\ g[3] = g3 /\ g[4] = g4
        /\ g[5] = g5 /\ g[6] = g6 /\ g[7] = g7
        /\ w = 8 => g[8] = g8
    OBVIOUS
  <2>2. /\ g[1] = 2 * g[0] + b[1] /\ g[2] = 2 * g[1] + b[2] /\ g[3] = 2 * g[2] + b[3]
        /\ g[4] = 2 * g[3] + b[4] /\ g[5] = 2 * g[4] + b[5] /\ g[6] = 2 * g[5] + b[6]
        /\ g[7] = 2 * g[6] + b[7]
        /\ w = 8 => g[8] = 2 * g[7] + b[8]
    <3> HIDE DEF g
    <3> QED BY <2>1, Zenon DEF g1, g2, g3, g4, g5, g6, g7, g8
  <2>3. ASSUME NEW k \in 1..w PROVE g[k] = 2 * g[k - 1] + b[k]
    <3> HIDE DEF g
    <3>1. k \in 1..7 \/ (k = 8 /\ w = 8)
      OBVIOUS
    <3>2. CASE k \in 1..7
      BY <2>2, <3>2
    <3>3. CASE k = 8 /\ w = 8
      BY <2>2, <3>3
    <3> QED BY <3>1, <3>2, <3>3
  <2>4. g = [k \in 0..w |-> g[k]]
    OBVIOUS
  <2>5. \A k \in 0..w : g[k] = IF k = 0 THEN 0 ELSE 2 * g[k - 1] + b[k]
    <3> HIDE DEF g
    <3> QED BY <2>1, <2>3
  <2> HIDE DEF g
  <2> QED BY <2>4, <2>5
<1>2. N = [k \in 0..w |-> IF k = 0 THEN 0 ELSE 2 * N[k - 1] + b[k]]
  <2> HIDE DEF g
  <2> QED BY <1>1
<1>3. NumberOf(b) = N[w]
  <2>1. Len(b) = w
    OBVIOUS
  <2> QED BY <2>1 DEF NumberOf
<1> HIDE DEF N
<1>4. N[0] = 0 /\ \A k \in 1..w : N[k] = 2 * N[k - 1] + b[k]
  BY <1>2
<1> QED BY <1>3, <1>4

LEMMA OctetFromLow ==
  ASSUME NEW b \in [0..7 -> {0, 1}]
  PROVE NumberOf([i \in 1..8 |-> b[8 - i]])
          = b[0] + 2 * b[1] + 4 * b[2] + 8 * b[3] + 16 * b[4] + 32 * b[5] + 64 * b[6] + 128 * b[7]
<1> DEFINE s == [i \in 1..8 |-> b[8 - i]]
<1>1. s \in [1..8 -> {0, 1}]
  OBVIOUS
<1>2. /\ s[1] = b[7] /\ s[2] = b[6] /\ s[3] = b[5] /\ s[4] = b[4]
      /\ s[5] = b[3] /\ s[6] = b[2] /\ s[7] = b[1] /\ s[8] = b[0]
  OBVIOUS
<1> HIDE DEF s
<1>3. PICK n : /\ n[0] = 0 /\ NumberOf(s) = n[8]
               /\ \A k \in 1..8 : n[k] = 2 * n[k - 1] + s[k]
  BY <1>1, NumberOfSteps
<1>4. /\ n[1] = 2 * n[0] + s[1] /\ n[2] = 2 * n[1] + s[2] /\ n[3] = 2 * n[2] + s[3]
      /\ n[4] = 2 * n[3] + s[4] /\ n[5] = 2 * n[4] + s[5] /\ n[6] = 2 * n[5] + s[6]
      /\ n[7] = 2 * n[6] + s[7] /\ n[8] = 2 * n[7] + s[8]
  BY <1>3
<1>5. \A k \in 1..8 : s[k] \in Int
  BY <1>1
<1>6. n[1] = s[1]
  BY <1>4, <1>5, <1>3
<1>7. n[2] = 2 * s[1] + s[2]
  BY <1>4, <1>5, <1>6
<1>8. n[3] = 4 * s[1] + 2 * s[2] + s[3]
  BY <1>4, <1>5, <1>7
<1>9. n[4] = 8 * s[1] + 4 * s[2] + 2 * s[3] + s[4]
  BY <1>4, <1>5, <1>8
<1>10. n[5] = 16 * s[1] + 8 * s[2] + 4 * s[3] + 2 * s[4] + s[5]
  BY <1>4, <1>5, <1>9
<1>11. n[6] = 32 * s[1] + 16 * s[2] + 8 * s[3] + 4 * s[4] + 2 * s[5] + s[6]
  BY <1>4, <1>5, <1>10
<1>12. n[7] = 64 * s[1] + 32 * s[2] + 16 * s[3] + 8 * s[4] + 4 * s[5] + 2 * s[6] + s[7]
  BY <1>4, <1>5, <1>11
<1>13. n[8] = 128 * s[1] + 64 * s[2] + 32 * s[3] + 16 * s[4] + 8 * s[5] + 4 * s[6] + 2 * s[7] + s[8]
  BY <1>4, <1>5, <1>12
<1> QED BY <1>2, <1>3, <1>5, <1>13 DEF s

LEMMA CharacterFromLow ==
  ASSUME NEW b \in [0..6 -> {0, 1}]
  PROVE NumberOf([i \in 1..7 |-> b[7 - i]])
          = b[0] + 2 * b[1] + 4 * b[2] + 8 * b[3] + 16 * b[4] + 32 * b[5] + 64 * b[6]
<1> DEFINE s == [i \in 1..7 |-> b[7 - i]]
<1>1. s \in [1..7 -> {0, 1}]
  OBVIOUS
<1>2. /\ s[1] = b[6] /\ s[2] = b[5] /\ s[3] = b[4]
      /\ s[4] = b[3] /\ s[5] = b[2] /\ s[6] = b[1] /\ s[7] = b[0]
  OBVIOUS
<1> HIDE DEF s
<1>3. PICK n : /\ n[0] = 0 /\ NumberOf(s) = n[7]
               /\ \A k \in 1..7 : n[k] = 2 * n[k - 1] + s[k]
  BY <1>1, NumberOfSteps
<1>4. /\ n[1] = 2 * n[0] + s[1] /\ n[2] = 2 * n[1] + s[2] /\ n[3] = 2 * n[2] + s[3]
      /\ n[4] = 2 * n[3] + s[4] /\ n[5] = 2 * n[4] + s[5] /\ n[6] = 2 * n[5] + s[6]
      /\ n[7] = 2 * n[6] + s[7]
  BY <1>3
<1>5. \A k \in 1..7 : s[k] \in Int
  BY <1>1
<1>6. n[1] = s[1]
  BY <1>4, <1>5, <1>3
<1>7. n[2] = 2 * s[1] + s[2]
  BY <1>4, <1>5, <1>6
<1>8. n[3] = 4 * s[1] + 2 * s[2] + s[3]
  BY <1>4, <1>5, <1>7
<1>9. n[4] = 8 * s[1] + 4 * s[2] + 2 * s[3] + s[4]
  BY <1>4, <1>5, <1>8
<1>10. n[5] = 16 * s[1] + 8 * s[2] + 4 * s[3] + 2 * s[4] + s[5]
  BY <1>4, <1>5, <1>9
<1>11. n[6] = 32 * s[1] + 16 * s[2] + 8 * s[3] + 4 * s[4] + 2 * s[5] + s[6]
  BY <1>4, <1>5, <1>10
<1>12. n[7] = 64 * s[1] + 32 * s[2] + 16 * s[3] + 8 * s[4] + 4 * s[5] + 2 * s[6] + s[7]
  BY <1>4, <1>5, <1>11
<1> QED BY <1>2, <1>3, <1>5, <1>12 DEF s

(* An octet is made of bits, and they are found again.                      *)
LEMMA BitsOfOctet ==
  ASSUME NEW b \in [0..7 -> {0, 1}], NEW x,
         x = b[0] + 2 * b[1] + 4 * b[2] + 8 * b[3] + 16 * b[4] + 32 * b[5] + 64 * b[6] + 128 * b[7]
  PROVE x \in 0..255 /\ \A i \in 0..7 : LowBit(x, i) = b[i]
<1> DEFINE b0 == b[0]
           b1 == b[1]
           b2 == b[2]
           b3 == b[3]
           b4 == b[4]
           b5 == b[5]
           b6 == b[6]
           b7 == b[7]
<1>1. b0 \in 0..1 /\ b1 \in 0..1 /\ b2 \in 0..1 /\ b3 \in 0..1 /\ b4 \in 0..1 /\ b5 \in 0..1
      /\ b6 \in 0..1 /\ b7 \in 0..1
  OBVIOUS
<1>2. x = b0 + 2 * b1 + 4 * b2 + 8 * b3 + 16 * b4 + 32 * b5 + 64 * b6 + 128 * b7
  OBVIOUS
<1> HIDE DEF b0, b1, b2, b3, b4, b5, b6, b7
<1>3. x \in 0..255
  BY <1>1, <1>2
<1>4. (x \div 1) % 2 = b0 /\ (x \div 2) % 2 = b1 /\ (x \div 4) % 2 = b2 /\ (x \div 8) % 2 = b3
  BY <1>1, <1>2
<1>5. (x \div 16) % 2 = b4 /\ (x \div 32) % 2 = b5 /\ (x \div 64) % 2 = b6 /\ (x \div 128) % 2 = b7
  <2>1. x \div 16 = b4 + 2 * b5 + 4 * b6 + 8 * b7
    <3> DEFINE l == b0 + 2 * b1 + 4 * b2 + 8 * b3
               h == b4 + 2 * b5 + 4 * b6 + 8 * b7
    <3>1. l \in 0..15 /\ h \in Nat /\ x = l + 16 * h
      BY <1>1, <1>2
    <3> HIDE DEF l, h
    <3>2. (l + 16 * h) \div 16 = h
      BY <3>1
    <3> QED BY <3>1, <3>2 DEF h
  <2>2. x \div 32 = b5 + 2 * b6 + 4 * b7
    <3> DEFINE l == b0 + 2 * b1 + 4 * b2 + 8 * b3 + 16 * b4
               h == b5 + 2 * b6 + 4 * b7
    <3>1. l \in 0..31 /\ h \in Nat /\ x = l + 32 * h
      BY <1>1, <1>2
    <3> HIDE DEF l, h
    <3>2. (l + 32 * h) \div 32 = h
      BY <3>1
    <3> QED BY <3>1, <3>2 DEF h
  <2>3. x \div 64 = b6 + 2 * b7
    <3> DEFINE l == b0 + 2 * b1 + 4 * b2 + 8 * b3 + 16 * b4 + 32 * b5
               h == b6 + 2 * b7
    <3>1. l \in 0..63 /\ h \in Nat /\ x = l + 64 * h
      BY <1>1, <1>2
    <3> HIDE DEF l, h
    <3>2. (l + 64 * h) \div 64 = h
      BY <3>1
    <3> QED BY <3>1, <3>2 DEF h
  <2>4. x \div 128 = b7
    <3> DEFINE l == b0 + 2 * b1 + 4 * b2 + 8 * b3 + 16 * b4 + 32 * b5 + 64 * b6
               h == b7
    <3>1. l \in 0..127 /\ h \in Nat /\ x = l + 128 * h
      BY <1>1, <1>2
    <3> HIDE DEF l, h
    <3>2. (l + 128 * h) \div 128 = h
      BY <3>1
    <3> QED BY <3>1, <3>2 DEF h
  <2>5. (b4 + 2 * b5 + 4 * b6 + 8 * b7) % 2 = b4 /\ (b5 + 2 * b6 + 4 * b7) % 2 = b5
    BY <1>1
  <2>6. (b6 + 2 * b7) % 2 = b6 /\ b7 % 2 = b7
    BY <1>1
  <2> QED BY <2>1, <2>2, <2>3, <2>4, <2>5, <2>6
<1>6. /\ LowBit(x, 0) = b0 /\ LowBit(x, 1) = b1 /\ LowBit(x, 2) = b2 /\ LowBit(x, 3) = b3
      /\ LowBit(x, 4) = b4 /\ LowBit(x, 5) = b5 /\ LowBit(x, 6) = b6 /\ LowBit(x, 7) = b7
  <2>1. 2^0 = 1 /\ 2^1 = 2 /\ 2^2 = 4 /\ 2^3 = 8 /\ 2^4 = 16 /\ 2^5 = 32 /\ 2^6 = 64 /\ 2^7 = 128
    OBVIOUS
  <2> QED BY <1>4, <1>5, <2>1 DEF LowBit
<1> QED BY <1>3, <1>6 DEF b0, b1, b2, b3, b4, b5, b6, b7

LEMMA BitsOfCharacter ==
  ASSUME NEW c \in 0..127
  PROVE /\ \A i \in 0..6 : LowBit(c, i) \in {0, 1}
        /\ c = LowBit(c, 0) + 2 * LowBit(c, 1) + 4 * LowBit(c, 2) + 8 * LowBit(c, 3)
               + 16 * LowBit(c, 4) + 32 * LowBit(c, 5) + 64 * LowBit(c, 6)
<1>1. /\ LowBit(c, 0) = (c \div 1) % 2 /\ LowBit(c, 1) = (c \div 2) % 2 /\ LowBit(c, 2) = (c \div 4) % 2
      /\ LowBit(c, 3) = (c \div 8) % 2 /\ LowBit(c, 4) = (c \div 16) % 2
      /\ LowBit(c, 5) = (c \div 32) % 2 /\ LowBit(c, 6) = (c \div 64) % 2
  <2>1. 2^0 = 1 /\ 2^1 = 2 /\ 2^2 = 4 /\ 2^3 = 8 /\ 2^4 = 16 /\ 2^5 = 32 /\ 2^6 = 64
    OBVIOUS
  <2> QED BY <2>1 DEF LowBit
<1>2. \A x \in Nat : x = (x % 2) + 2 * (x \div 2) /\ x \div 2 \in Nat /\ x % 2 \in {0, 1}
  OBVIOUS
<1> DEFINE q1 == c \div 2
           q2 == c \div 4
           q3 == c \div 8
           q4 == c \div 16
           q5 == c \div 32
           q6 == c \div 64
<1>3. q2 = q1 \div 2 /\ q3 = q2 \div 2 /\ q4 = q3 \div 2
  OBVIOUS
<1>4. q5 = q4 \div 2 /\ q6 = q5 \div 2 /\ q6 \div 2 = 0
  OBVIOUS
<1>5. c \div 1 = c /\ c \in Nat /\ q1 = c \div 2
  OBVIOUS
<1> HIDE DEF q1, q2, q3, q4, q5, q6
<1>6. /\ q1 \in Nat /\ c = (c % 2) + 2 * q1 /\ (c % 2) \in {0, 1}
      /\ q2 \in Nat /\ q1 = (q1 % 2) + 2 * q2 /\ (q1 % 2) \in {0, 1}
      /\ q3 \in Nat /\ q2 = (q2 % 2) + 2 * q3 /\ (q2 % 2) \in {0, 1}
      /\ q4 \in Nat /\ q3 = (q3 % 2) + 2 * q4 /\ (q3 % 2) \in {0, 1}
  BY <1>2, <1>3, <1>5
<1>7. /\ q5 \in Nat /\ q4 = (q4 % 2) + 2 * q5 /\ (q4 % 2) \in {0, 1}
      /\ q6 \in Nat /\ q5 = (q5 % 2) + 2 * q6 /\ (q5 % 2) \in {0, 1}
      /\ q6 = q6 % 2 /\ q6 % 2 \in {0, 1}
  BY <1>2, <1>4, <1>6
<1>8. /\ LowBit(c, 0) = c % 2 /\ LowBit(c, 1) = q1 % 2 /\ LowBit(c, 2) = q2 % 2
      /\ LowBit(c, 3) = q3 % 2 /\ LowBit(c, 4) = q4 % 2 /\ LowBit(c, 5) = q5 % 2
      /\ LowBit(c, 6) = q6 % 2
  BY <1>1, <1>5 DEF q1, q2, q3, q4, q5, q6
<1> DEFINE b0 == c % 2
           b1 == q1 % 2
           b2 == q2 % 2
           b3 == q3 % 2
           b4 == q4 % 2
           b5 == q5 % 2
           b6 == q6 % 2
<1>9. c = b0 + 2 * b1 + 4 * b2 + 8 * b3 + 16 * b4 + 32 * b5 + 64 * b6
  <2>1. /\ c = b0 + 2 * q1 /\ q1 = b1 + 2 * q2 /\ q2 = b2 + 2 * q3 /\ q3 = b3 + 2 * q4
        /\ q4 = b4 + 2 * q5 /\ q5 = b5 + 2 * q6 /\ q6 = b6
        /\ b0 \in Int /\ b1 \in Int /\ b2 \in Int /\ b3 \in Int /\ b4 \in Int /\ b5 \in Int /\ b6 \in Int
    BY <1>6, <1>7
  <2> HIDE DEF b0, b1, b2, b3, b4, b5, b6
  <2> QED BY <1>6, <1>7, <2>1
<1>10. \A i \in 0..6 : LowBit(c, i) \in {0, 1}
  BY <1>6, <1>7, <1>8
<1> QED BY <1>8, <1>9, <1>10

(* Bit k of the stream that characters are packed into.                     *)
PackedBit(chars, k) ==
  IF k >= 7 * Len(chars) THEN 0 ELSE LowBit(chars[k \div 7 + 1], k % 7)

LEMMA PackedBitIsBit ==
  ASSUME NEW chars \in Seq(0..127), NEW k \in Nat
  PROVE PackedBit(chars, k) \in {0, 1}
<1>1. CASE k >= 7 * Len(chars)
  BY <1>1 DEF PackedBit
<1>2. CASE ~(k >= 7 * Len(chars))
  <2> DEFINE n == Len(chars)
             c == chars[k \div 7 + 1]
  <2>1. n \in Nat /\ ~(k >= 7 * n)
    BY <1>2
  <2>2. k \div 7 + 1 \in 1..n
    <3> HIDE DEF n
    <3> QED BY <2>1
  <2>3. c \in 0..127
    <3>1. \A q \in 1..Len(chars) : chars[q] \in 0..127
      BY ElementOfSeq
    <3> QED BY <2>2, <3>1, Zenon
  <2>4. k % 7 \in 0..6
    OBVIOUS
  <2> HIDE DEF c
  <2>5. LowBit(c, k % 7) \in {0, 1}
    BY <2>3, <2>4, BitsOfCharacter
  <2> QED BY <1>2, <2>5 DEF PackedBit, c
<1> QED BY <1>1, <1>2

(* Packing: the octets are those of the stream.                             *)
LEMMA PackedOctets ==
  ASSUME NEW chars \in Seq(0..127)
  PROVE /\ PackSeptets(chars, 0) \in Seq(0..255)
        /\ Len(PackSeptets(chars, 0)) = (7 * Len(chars) + 7) \div 8
        /\ \A p \in 1..(7 * Len(chars) + 7) \div 8 : \A i \in 0..7 :
             LowBit(PackSeptets(chars, 0)[p], i) = PackedBit(chars, 8 * p - 8 + i)
<1> DEFINE n == Len(chars)
           m == (7 * n + 7) \div 8
           bit(k) == IF k < 0 \/ k >= 0 + 7 * n THEN 0 ELSE LowBit(chars[(k - 0) \div 7 + 1], (k - 0) % 7)
           d == PackSeptets(chars, 0)
<1>1. n \in Nat /\ m \in Nat
  <2>1. n \in Nat
    OBVIOUS
  <2> HIDE DEF n
  <2> QED BY <2>1
<1>2. d = [p \in 1..(7 * n + 0 + 7) \div 8 |-> NumberOf([i \in 1..8 |-> bit(8 * p - 8 + (8 - i))])]
  BY DEF PackSeptets, FromLow
<1>3. (7 * n + 0 + 7) \div 8 = m
  BY <1>1
<1>4. \A k \in Nat : bit(k) = PackedBit(chars, k)
  <2>1. \A k \in Nat : ~(k < 0) /\ k - 0 = k
    OBVIOUS
  <2>2. 0 + 7 * n = 7 * n
    BY <1>1
  <2> QED BY <2>1, <2>2 DEF PackedBit
<1>5. ASSUME NEW p \in 1..m
      PROVE d[p] \in 0..255 /\ \A i \in 0..7 : LowBit(d[p], i) = PackedBit(chars, 8 * p - 8 + i)
  <2> DEFINE b == [i \in 0..7 |-> PackedBit(chars, 8 * p - 8 + i)]
             s == [i \in 1..8 |-> bit(8 * p - 8 + (8 - i))]
  <2>1. \A i \in 0..7 : 8 * p - 8 + i \in Nat
    BY <1>1
  <2>2. b \in [0..7 -> {0, 1}]
    BY <2>1, PackedBitIsBit
  <2>3. \A i \in 1..8 : 8 - i \in 0..7
    OBVIOUS
  <2>4. s = [i \in 1..8 |-> b[8 - i]]
    <3> HIDE DEF bit
    <3>1. \A i \in 1..8 : bit(8 * p - 8 + (8 - i)) = b[8 - i]
      BY <1>4, <2>1, <2>3
    <3> HIDE DEF b
    <3> QED BY <3>1
  <2>5. d[p] = NumberOf(s)
    <3> HIDE DEF d, s, m
    <3>1. d = [q \in 1..m |-> NumberOf([i \in 1..8 |-> bit(8 * q - 8 + (8 - i))])]
      BY <1>2, <1>3
    <3> HIDE DEF bit
    <3> QED BY <3>1 DEF s
  <2> HIDE DEF b, s, d
  <2>6. d[p] = b[0] + 2 * b[1] + 4 * b[2] + 8 * b[3] + 16 * b[4] + 32 * b[5] + 64 * b[6] + 128 * b[7]
    BY <2>2, <2>4, <2>5, OctetFromLow
  <2>7. d[p] \in 0..255 /\ \A i \in 0..7 : LowBit(d[p], i) = b[i]
    BY ONLY <2>2, <2>6, BitsOfOctet
  <2>8. \A i \in 0..7 : b[i] = PackedBit(chars, 8 * p - 8 + i)
    BY DEF b
  <2> QED BY <2>7, <2>8
<1>6. d \in Seq(0..255) /\ Len(d) = m
  <2>1. DOMAIN d = 1..m /\ d = [p \in 1..m |-> d[p]]
    <3> HIDE DEF d, bit, m
    <3> QED BY <1>2, <1>3
  <2> HIDE DEF d, m
  <2>2. d \in [1..m -> 0..255]
    BY <1>5, <2>1
  <2> QED BY <1>1, <2>2
<1> HIDE DEF d
<1> QED BY <1>5, <1>6 DEF d

(* Where bit k of a stream is: octet k \div 8, bit k % 8.                   *)
LEMMA ByEight ==
  ASSUME NEW k \in Nat, NEW n \in Nat, k < 7 * n
  PROVE /\ k \div 8 \in Nat /\ k \div 8 + 1 \in 1..(7 * n + 7) \div 8
        /\ k % 8 \in 0..7 /\ 8 * (k \div 8 + 1) - 8 + (k % 8) = k
<1>1. k \div 8 \in Nat
  OBVIOUS
<1>2. k % 8 \in 0..7
  OBVIOUS
<1>3. 8 * (k \div 8) + (k % 8) = k
  OBVIOUS
<1> DEFINE q == k \div 8
           t == k % 8
<1>4. q \in Nat /\ t \in 0..7 /\ 8 * q + t = k
  BY <1>1, <1>2, <1>3
<1> HIDE DEF q, t
<1>5. 8 * (q + 1) - 8 + t = k /\ 8 * (q + 1) <= 7 * n + 7
  BY <1>4
<1>6. q + 1 <= (7 * n + 7) \div 8 /\ (7 * n + 7) \div 8 \in Nat
  BY <1>4, <1>5
<1>7. q + 1 \in 1..(7 * n + 7) \div 8
  BY <1>4, <1>6
<1> QED BY <1>4, <1>5, <1>7 DEF q, t

(* Unpacking finds them again.                                              *)
LEMMA CharactersAreKept ==
  ASSUME NEW chars \in Seq(0..127)
  PROVE UnpackSeptets(PackSeptets(chars, 0), Len(chars), 0) = chars
<1> DEFINE n == Len(chars)
           m == (7 * n + 7) \div 8
           d == PackSeptets(chars, 0)
           bit(k) == LowBit(OctetAt(d, k \div 8), k % 8)
           u == UnpackSeptets(d, n, 0)
<1>1. n \in Nat /\ m \in Nat
  <2>1. n \in Nat
    OBVIOUS
  <2> HIDE DEF n
  <2> QED BY <2>1
<1>2. /\ Len(d) = m
      /\ \A p \in 1..m : \A i \in 0..7 : LowBit(d[p], i) = PackedBit(chars, 8 * p - 8 + i)
  BY PackedOctets
<1>3. u = [c \in 1..n |-> NumberOf([i \in 1..7 |-> bit(0 + 7 * c - 7 + (7 - i))])]
  <2> HIDE DEF d, n
  <2> QED BY DEF UnpackSeptets, FromLow
<1> HIDE DEF d, u
<1>4. ASSUME NEW c \in 1..n, NEW i \in 0..6
      PROVE bit(0 + 7 * c - 7 + i) = LowBit(chars[c], i)
  <2> DEFINE k == 7 * c - 7 + i
  <2>1. /\ 0 + 7 * c - 7 + i = k /\ k \in Nat /\ k < 7 * n
        /\ k \div 7 = c - 1 /\ k % 7 = i
    <3> HIDE DEF n
    <3>1. k = 7 * (c - 1) + i /\ c - 1 \in Nat /\ c - 1 < n
      BY <1>1
    <3>2. \A e \in Nat : (7 * e + i) \div 7 = e /\ (7 * e + i) % 7 = i
      OBVIOUS
    <3> QED BY <1>1, <3>1, <3>2
  <2> HIDE DEF k, n
  <2>2. /\ k \div 8 \in Nat /\ k \div 8 + 1 \in 1..m
        /\ k % 8 \in 0..7 /\ 8 * (k \div 8 + 1) - 8 + (k % 8) = k
    BY <1>1, <2>1, ByEight
  <2> HIDE DEF m
  <2>3. OctetAt(d, k \div 8) = d[k \div 8 + 1]
    BY <1>2, <2>2 DEF OctetAt
  <2>5. LowBit(d[k \div 8 + 1], k % 8) = PackedBit(chars, k)
    <3> DEFINE q == k \div 8 + 1
               t == k % 8
    <3>1. q \in 1..m /\ t \in 0..7 /\ 8 * q - 8 + t = k
      BY <2>2, Zenon
    <3> HIDE DEF q, t
    <3>2. LowBit(d[q], t) = PackedBit(chars, 8 * q - 8 + t)
      BY <1>2, <3>1 DEF m
    <3> QED BY <3>1, <3>2, Zenon DEF q, t
  <2>6. PackedBit(chars, k) = LowBit(chars[k \div 7 + 1], k % 7)
    BY <1>1, <2>1 DEF PackedBit, n
  <2>7. k \div 7 + 1 = c
    BY <2>1
  <2> QED BY <2>1, <2>3, <2>5, <2>6, <2>7
<1>5. ASSUME NEW c \in 1..n PROVE u[c] = chars[c]
  <2> DEFINE b == [i \in 0..6 |-> LowBit(chars[c], i)]
             s == [i \in 1..7 |-> bit(0 + 7 * c - 7 + (7 - i))]
  <2>1. chars[c] \in 0..127
    <3>1. \A q \in 1..Len(chars) : chars[q] \in 0..127
      BY ElementOfSeq
    <3> QED BY <3>1, Zenon
  <2>2. b \in [0..6 -> {0, 1}]
    BY <2>1, BitsOfCharacter
  <2>3. s = [i \in 1..7 |-> b[7 - i]]
    <3>1. \A i \in 1..7 : 7 - i \in 0..6
      OBVIOUS
    <3> HIDE DEF bit
    <3>2. \A i \in 1..7 : bit(0 + 7 * c - 7 + (7 - i)) = b[7 - i]
      BY <1>4, <3>1
    <3> HIDE DEF b
    <3> QED BY <3>2
  <2>4. u[c] = NumberOf(s)
    <3> HIDE DEF bit, s, n
    <3> QED BY <1>3 DEF s
  <2> HIDE DEF s
  <2>5. NumberOf(s) = b[0] + 2 * b[1] + 4 * b[2] + 8 * b[3] + 16 * b[4] + 32 * b[5] + 64 * b[6]
    <3> HIDE DEF b
    <3> QED BY <2>2, <2>3, CharacterFromLow
  <2> DEFINE v == chars[c]
  <2>6. b[0] = LowBit(v, 0) /\ b[1] = LowBit(v, 1) /\ b[2] = LowBit(v, 2) /\ b[3] = LowBit(v, 3)
        /\ b[4] = LowBit(v, 4) /\ b[5] = LowBit(v, 5) /\ b[6] = LowBit(v, 6)
    OBVIOUS
  <2> HIDE DEF b, v
  <2>7. v = LowBit(v, 0) + 2 * LowBit(v, 1) + 4 * LowBit(v, 2) + 8 * LowBit(v, 3)
            + 16 * LowBit(v, 4) + 32 * LowBit(v, 5) + 64 * LowBit(v, 6)
    BY <2>1, BitsOfCharacter DEF v
  <2> QED BY <2>4, <2>5, <2>6, <2>7, Zenon DEF v
<1>6. u = [c \in 1..n |-> u[c]] /\ chars = [c \in 1..n |-> chars[c]]
  <2>1. u = [c \in 1..n |-> u[c]]
    <3> HIDE DEF bit, n
    <3> QED BY <1>3
  <2> QED BY <2>1
<1>7. u = chars
  <2> HIDE DEF n
  <2> QED BY <1>5, <1>6
<1> QED BY <1>7 DEF u, d
(* Two digits make an octet.                                                *)
LEMMA SemiOctetsAreOctets ==
  ASSUME NEW s \in Seq(0..127)
  PROVE SemiOctets(s) \in Seq(0..255) /\ Len(SemiOctets(s)) = (Len(s) + 1) \div 2
<1> DEFINE n == Len(s)
           half(k) == IF k > n THEN FILLER ELSE s[k] % 16
           m == (n + 1) \div 2
<1>1. n \in Nat /\ m \in Nat
  <2>1. n \in Nat
    OBVIOUS
  <2> HIDE DEF n
  <2> QED BY <2>1
<1>2. SemiOctets(s) = [k \in 1..m |-> half(2 * k - 1) + 16 * half(2 * k)]
  BY DEF SemiOctets
<1>3. ASSUME NEW k \in Nat \ {0} PROVE half(k) \in 0..15
  <2>1. CASE k > n
    BY <2>1 DEF FILLER
  <2>2. CASE ~(k > n)
    <3>1. k \in 1..n
      BY <1>1, <2>2
    <3>2. s[k] \in 0..127
      BY <3>1, ElementOfSeq
    <3>3. s[k] % 16 \in 0..15
      <4>1. \A v \in 0..127 : v % 16 \in 0..15
        OBVIOUS
      <4> QED BY <3>2, <4>1, Zenon
    <3> QED BY <2>2, <3>3
  <2> QED BY <2>1, <2>2
<1> HIDE DEF n, half
<1>4. \A k \in 1..m : half(2 * k - 1) + 16 * half(2 * k) \in 0..255
  <2> TAKE k \in 1..m
  <2>1. 2 * k - 1 \in Nat \ {0} /\ 2 * k \in Nat \ {0}
    BY <1>1
  <2>2. half(2 * k - 1) \in 0..15 /\ half(2 * k) \in 0..15
    BY <1>3, <2>1
  <2>3. \A u \in 0..15, v \in 0..15 : u + 16 * v \in 0..255
    OBVIOUS
  <2> QED BY <2>2, <2>3, Zenon
<1> HIDE DEF m
<1>5. SemiOctets(s) \in [1..m -> 0..255]
  BY <1>2, <1>4
<1>6. SemiOctets(s) \in Seq(0..255) /\ Len(SemiOctets(s)) = m
  BY <1>1, <1>5
<1> QED BY <1>6 DEF m, n

(* Two octets and what follows.                                             *)
LEMMA TwoAndMore ==
  ASSUME NEW x \in 0..255, NEW y \in 0..255, NEW t \in Seq(0..255)
  PROVE /\ <<x, y>> \o t \in Seq(0..255) /\ Len(<<x, y>> \o t) = 2 + Len(t)
        /\ (<<x, y>> \o t)[1] = x
<1> DEFINE h == <<x, y>>
<1>1. h \in Seq(0..255) /\ Len(h) = 2 /\ h[1] = x
  OBVIOUS
<1> HIDE DEF h
<1>2. /\ Len(h \o t) = Len(h) + Len(t) /\ h \o t \in Seq(0..255)
      /\ \A i \in 1..Len(h) + Len(t) : (h \o t)[i] = IF i <= Len(h) THEN h[i] ELSE t[i - Len(h)]
  BY <1>1, ConcatProperties, ZenonT(40)
<1>3. 1 \in 1..Len(h) + Len(t) /\ 1 <= Len(h)
  <2>1. Len(t) \in Nat
    OBVIOUS
  <2> QED BY <1>1, <2>1
<1>4. (h \o t)[1] = h[1]
  BY <1>2, <1>3, Zenon
<1> QED BY <1>1, <1>2, <1>4 DEF h

(* Any address: octets, at most 20, or nothing at all.                      *)
LEMMA AddressIsOctets ==
  ASSUME NEW a \in AddressType
  PROVE /\ EncodeAddress(a) \in Seq(0..255)
        /\ Len(EncodeAddress(a)) \in 0..20
        /\ Len(a.digits) <= ADDRESS_MAX <=> Len(EncodeAddress(a)) # 0
<1> DEFINE n == Len(a.digits)
           y == 128 + 16 * a.type + a.plan
           t == IF a.type = ALPHANUMERIC THEN PackSeptets(a.digits, 0) ELSE SemiOctets(a.digits)
<1>1. a.digits \in Seq(0..127) /\ a.type \in 0..7 /\ a.plan \in 0..15
  BY DEF AddressType
<1>2. n \in Nat
  BY <1>1
<1>3. CASE n > ADDRESS_MAX
  <2>1. EncodeAddress(a) = <<>>
    BY <1>3 DEF EncodeAddress
  <2> QED BY <1>2, <1>3, <2>1 DEF ADDRESS_MAX
<1>4. CASE ~(n > ADDRESS_MAX)
  <2>1. EncodeAddress(a) = <<LengthOctet(a), y>> \o t
    BY <1>4 DEF EncodeAddress
  <2>2. n \in 0..20
    <3> HIDE DEF n
    <3> QED BY <1>2, <1>4 DEF ADDRESS_MAX
  <2>3. y \in 0..255
    <3>1. a.type \in 0..7 /\ a.plan \in 0..15
      BY <1>1
    <3>2. \A u \in 0..7, v \in 0..15 : 128 + 16 * u + v \in 0..255
      OBVIOUS
    <3> QED BY <3>1, <3>2, Zenon
  <2>4. LengthOctet(a) \in 0..255
    <3> HIDE DEF n
    <3>1. LengthOctet(a) = IF a.type = ALPHANUMERIC THEN (7 * n + 3) \div 4 ELSE n
      BY DEF LengthOctet, n
    <3> QED BY <2>2, <3>1
  <2>5. t \in Seq(0..255) /\ Len(t) \in 0..18
    <3>1. CASE a.type = ALPHANUMERIC
      <4>1. t \in Seq(0..255) /\ Len(t) = (7 * n + 7) \div 8
        BY <1>1, <3>1, PackedOctets
      <4> HIDE DEF t, n
      <4> QED BY <2>2, <4>1
    <3>2. CASE a.type # ALPHANUMERIC
      <4>1. t \in Seq(0..255) /\ Len(t) = (n + 1) \div 2
        BY <1>1, <3>2, SemiOctetsAreOctets
      <4> HIDE DEF t, n
      <4> QED BY <2>2, <4>1
    <3> QED BY <3>1, <3>2
  <2> HIDE DEF t, y, n
  <2>6. EncodeAddress(a) \in Seq(0..255) /\ Len(EncodeAddress(a)) = 2 + Len(t)
    <3> DEFINE l == LengthOctet(a)
    <3> HIDE DEF l
    <3>1. l \in 0..255 /\ y \in 0..255 /\ t \in Seq(0..255)
      BY <2>3, <2>4, <2>5, Zenon DEF l
    <3>2. <<l, y>> \o t \in Seq(0..255) /\ Len(<<l, y>> \o t) = 2 + Len(t)
      BY ONLY <3>1, TwoAndMore, ZenonT(40)
    <3> QED BY <2>1, <3>2, Zenon DEF l
  <2>7. Len(EncodeAddress(a)) \in 2..20
    <3>1. \A u \in 0..18 : 2 + u \in 2..20
      OBVIOUS
    <3> QED BY <2>5, <2>6, <3>1, Zenon
  <2>8. n <= ADDRESS_MAX
    BY <2>2 DEF ADDRESS_MAX
  <2> QED BY <2>6, <2>7, <2>8 DEF n
<1> QED BY <1>3, <1>4

(* A name of up to eleven characters is decoded to itself; the length octet *)
(* of a longer one is more than the decoder takes.                          *)
THEOREM NamesAreKept ==
  ASSUME NEW a \in AddressType, a.type = ALPHANUMERIC, Len(a.digits) <= 11
  PROVE LET d == EncodeAddress(a)
        IN AddressAccepted(d) /\ AddressOctets(d) = Len(d) /\ DecodeAddress(d) = a
<1> DEFINE chars == a.digits
           n == Len(chars)
           s == PackSeptets(chars, 0)
           x == (7 * n + 3) \div 4
           y == 128 + 16 * ALPHANUMERIC + a.plan
           d == EncodeAddress(a)
<1>1. chars \in Seq(0..127) /\ a.plan \in 0..15 /\ n \in 0..11
  <2>1. chars \in Seq(0..127) /\ a.plan \in 0..15
    BY DEF AddressType
  <2>2. n \in Nat
    BY <2>1
  <2>3. n <= 11
    OBVIOUS
  <2> HIDE DEF n
  <2>4. n \in 0..11
    BY <2>2, <2>3
  <2> QED BY <2>1, <2>4
<1>2. x \in 0..20 /\ 2 + (x + 1) \div 2 = 2 + (7 * n + 7) \div 8 /\ (4 * x) \div 7 = n
  <2> HIDE DEF n
  <2>1. \/ n = 0 \/ n = 1 \/ n = 2 \/ n = 3 \/ n = 4 \/ n = 5
        \/ n = 6 \/ n = 7 \/ n = 8 \/ n = 9 \/ n = 10 \/ n = 11
    BY <1>1
  <2> QED BY <2>1
<1>3. y \in Int /\ (y \div 16) % 8 = ALPHANUMERIC /\ y % 16 = a.plan
  BY <1>1 DEF ALPHANUMERIC
<1>4. s \in Seq(0..255) /\ Len(s) = (7 * n + 7) \div 8
  BY <1>1, PackedOctets
<1>5. d = <<x, y>> \o s
  <2>1. ~(n > 20)
    BY <1>1
  <2> QED BY <2>1 DEF EncodeAddress, LengthOctet, ADDRESS_MAX
<1>6. s \in Seq(Int) /\ x \in Int
  <2> HIDE DEF s, x
  <2>1. s \in Seq(Int)
    <3>1. DOMAIN s = 1..Len(s) /\ Len(s) \in Nat /\ s \in [1..Len(s) -> 0..255]
      BY <1>4, LenProperties
    <3>2. \A u \in 0..255 : u \in Int
      OBVIOUS
    <3>3. \A j \in 1..Len(s) : s[j] \in Int
      BY <3>1, <3>2, Zenon
    <3>4. s = [j \in 1..Len(s) |-> s[j]]
      BY <3>1, Zenon
    <3>5. s \in [1..Len(s) -> Int]
      BY <3>3, <3>4, Zenon
    <3> QED BY <3>1, <3>5
  <2> QED BY <1>2, <2>1
<1> HIDE DEF s, d, n, x, y, chars
<1>7. /\ d \in Seq(Int) /\ Len(d) = 2 + Len(s)
      /\ d[1] = x /\ d[2] = y
      /\ \A j \in 1..Len(s) : d[j + 2] = s[j]
  BY <1>3, <1>5, <1>6, BehindTwo
<1>8. SubSeq(d, 3, Len(d)) = s
  BY <1>6, <1>7
<1>9. AddressAccepted(d) /\ AddressOctets(d) = Len(d)
  BY <1>2, <1>4, <1>7 DEF AddressAccepted, AddressOctets, ADDRESS_MAX
<1>10. TypeIn(d) = ALPHANUMERIC /\ Characters(d) = n
  BY <1>2, <1>3, <1>7 DEF TypeIn, Characters
<1>11. UnpackSeptets(s, n, 0) = chars
  BY <1>1, CharactersAreKept DEF s, n
<1>12. DecodeAddress(d) = [type |-> ALPHANUMERIC, plan |-> a.plan, digits |-> chars]
  BY <1>3, <1>7, <1>8, <1>10, <1>11 DEF DecodeAddress
<1>13. a = [type |-> ALPHANUMERIC, plan |-> a.plan, digits |-> chars]
  BY DEF AddressType, chars
<1> QED BY <1>9, <1>12, <1>13 DEF d

-----------------------------------------------------------------------------
(* An address the decoder takes is the sender's, and those it does not take *)
(* are names of more than eleven characters.                                *)
LEMMA AddressIsKept ==
  ASSUME NEW a \in AddressType, WellTyped(a), Len(EncodeAddress(a)) # 0
  PROVE /\ (a.type = ALPHANUMERIC => Len(a.digits) <= 11) => AddressAccepted(EncodeAddress(a))
        /\ AddressAccepted(EncodeAddress(a)) =>
             /\ AddressOctets(EncodeAddress(a)) = Len(EncodeAddress(a))
             /\ DecodeAddress(EncodeAddress(a)) = a
<1> DEFINE d == EncodeAddress(a)
           n == Len(a.digits)
<1>1. n <= ADDRESS_MAX
  BY AddressIsOctets
<1>2. CASE a.type # ALPHANUMERIC
  BY <1>1, <1>2, NumbersAreKept
<1>3. CASE a.type = ALPHANUMERIC
  <2>1. a.digits \in Seq(0..127) /\ a.plan \in 0..15 /\ n \in 0..20
    <3>1. a.digits \in Seq(0..127) /\ a.plan \in 0..15
      BY DEF AddressType
    <3>2. n \in Nat
      BY <3>1
    <3> HIDE DEF n
    <3> QED BY <1>1, <3>1, <3>2 DEF ADDRESS_MAX
  <2> DEFINE x == (7 * n + 3) \div 4
             y == 128 + 16 * a.type + a.plan
             t == PackSeptets(a.digits, 0)
  <2>2. d = <<x, y>> \o t
    <3>1. ~(n > ADDRESS_MAX)
      <4> HIDE DEF n
      <4> QED BY <2>1 DEF ADDRESS_MAX
    <3> QED BY <1>3, <3>1 DEF EncodeAddress, LengthOctet
  <2>3. x \in 0..255 /\ (x <= 20 => n <= 11)
    <3> HIDE DEF n
    <3> QED BY <2>1
  <2>4. y \in 0..255
    <3>1. \A v \in 0..15 : 128 + 16 * 5 + v \in 0..255
      OBVIOUS
    <3> QED BY <1>3, <2>1, <3>1, Zenon DEF ALPHANUMERIC
  <2>5. t \in Seq(0..255)
    BY <2>1, PackedOctets
  <2> HIDE DEF x, y, t
  <2>6. d[1] = x
    <3>1. (<<x, y>> \o t)[1] = x
      BY ONLY <2>3, <2>4, <2>5, TwoAndMore
    <3> QED BY <2>2, <3>1, Zenon
  <2>7. AddressAccepted(d) => n <= 11
    <3> HIDE DEF d, n
    <3> QED BY <2>3, <2>6 DEF AddressAccepted, ADDRESS_MAX
  <2>8. n <= 11 => /\ AddressAccepted(d) /\ AddressOctets(d) = Len(d) /\ DecodeAddress(d) = a
    BY <1>3, NamesAreKept
  <2> QED BY <1>3, <2>7, <2>8, Zenon
<1> QED BY <1>2, <1>3

(* ---- the alphabet of a text --------------------------------------------*)
FieldAt(f, p, m) ==
  [field |-> f, start |-> p, octets |-> Encoded(f, m), contents |-> Contents(f, m)]
FieldsOf(m) == {FieldAt(f, p, m) : f \in Field, p \in Nat}
Kept == DecodeDcs(EncodeDcs(msg.dcs), NoIndication).alphabet
DcsFirst(fields) == \A i, j \in DOMAIN fields : fields[i] = "dcs" /\ fields[j] = "ud" => i < j

(* The octets are those of the message that was encoded last.               *)
RawIsOfMessage == /\ raw = [type |-> raw.type, len |-> raw.len, fields |-> raw.fields]
                  /\ raw.fields \in Seq(FieldsOf(msg))
                  /\ raw.fields # <<>> => msg \in Message
                  /\ at \in {"encode", "encoded"} => raw.type \in Kind
                  /\ at = "encode" => msg \in Message /\ pos \in Nat

(* Of an earlier message the client structure holds an alphabet until the   *)
(* coding scheme is read, and user data are not read before that.           *)
ReadInOrder ==
  /\ held = [kind |-> held.kind, alphabet |-> held.alphabet, indication |-> held.indication]
  /\ held.indication \in Indication
  /\ at = "decode" => /\ todo \in Seq(Field) /\ DcsFirst(todo)
                      /\ "dcs" \in DOMAIN got => held.alphabet = Kept
                      /\ "ud" \in DOMAIN got => \A i \in DOMAIN todo : todo[i] # "dcs"
  /\ at \in {"decode", "decoded"} /\ {"dcs", "ud"} \subseteq DOMAIN got => text = Kept

IInv == RawIsOfMessage /\ ReadInOrder

(* A field among the octets of a message was written at some place.         *)
LEMMA FieldOfIsAt ==
  ASSUME NEW m, NEW x \in FieldsOf(m)
  PROVE  \E f \in Field, p \in Nat : x = FieldAt(f, p, m)
BY DEF FieldsOf

(* Every decoder reads the coding scheme before the user data.              *)
LEMMA OrdersAreDcsFirst ==
  ASSUME NEW k \in Kind
  PROVE DecodeOrder[k] \in Seq(Field) /\ DcsFirst(DecodeOrder[k])
<1>1. CASE k = "deliver"
  BY <1>1 DEF DecodeOrder, DecodeDeliver, DcsFirst, Field
<1>2. CASE k = "deliver_report_ack"
  BY <1>2 DEF DecodeOrder, DecodeDeliverReportAck, DcsFirst, Field
<1>3. CASE k = "deliver_report_error"
  BY <1>3 DEF DecodeOrder, DecodeDeliverReportError, DcsFirst, Field
<1>4. CASE k = "submit"
  BY <1>4 DEF DecodeOrder, DecodeSubmit, DcsFirst, Field
<1>5. CASE k = "submit_report_ack"
  BY <1>5 DEF DecodeOrder, DecodeSubmitReportAck, DcsFirst, Field
<1>6. CASE k = "submit_report_error"
  BY <1>6 DEF DecodeOrder, DecodeSubmitReportError, DcsFirst, Field
<1>7. CASE k = "status_report"
  BY <1>7 DEF DecodeOrder, DecodeStatusReport, DcsFirst, Field
<1>8. CASE k = "command"
  BY <1>8 DEF DecodeOrder, DecodeCommand, DcsFirst, Field
<1>9. QED
  BY <1>1, <1>2, <1>3, <1>4, <1>5, <1>6, <1>7, <1>8 DEF Kind

(* The next field, and the order of what is left behind it.                 *)
LEMMA Advance ==
  ASSUME NEW s \in Seq(Field), s # <<>>, DcsFirst(s)
  PROVE /\ Tail(s) \in Seq(Field) /\ DcsFirst(Tail(s))
        /\ Head(s) = "ud" => \A i \in DOMAIN Tail(s) : Tail(s)[i] # "dcs"
        /\ (\A i \in DOMAIN s : s[i] # "dcs") =>
             Head(s) # "dcs" /\ \A i \in DOMAIN Tail(s) : Tail(s)[i] # "dcs"
<1>1. /\ Tail(s) \in Seq(Field) /\ Len(Tail(s)) = Len(s) - 1 /\ Len(s) \in Nat /\ Len(s) > 0
      /\ \A i \in 1..Len(s) - 1 : Tail(s)[i] = s[i + 1]
      /\ DOMAIN Tail(s) = 1..Len(s) - 1 /\ DOMAIN s = 1..Len(s)
      /\ Head(s) = s[1]
  OBVIOUS
<1>2. DcsFirst(Tail(s))
  <2> SUFFICES ASSUME NEW i \in 1..Len(s) - 1, NEW j \in 1..Len(s) - 1,
                      Tail(s)[i] = "dcs", Tail(s)[j] = "ud"
               PROVE i < j
    BY <1>1 DEF DcsFirst
  <2>1. i + 1 \in DOMAIN s /\ j + 1 \in DOMAIN s /\ s[i + 1] = "dcs" /\ s[j + 1] = "ud"
    BY <1>1
  <2>2. i + 1 < j + 1
    BY <2>1 DEF DcsFirst
  <2>3. QED
    BY <2>2
<1>3. ASSUME Head(s) = "ud", NEW i \in DOMAIN Tail(s), Tail(s)[i] = "dcs" PROVE FALSE
  <2>1. i + 1 \in DOMAIN s /\ 1 \in DOMAIN s /\ s[i + 1] = "dcs" /\ s[1] = "ud" /\ i \in Nat
    BY <1>1, <1>3
  <2>2. i + 1 < 1
    BY <2>1 DEF DcsFirst
  <2>3. QED
    BY <2>1, <2>2
<1>4. ASSUME \A i \in DOMAIN s : s[i] # "dcs"
      PROVE Head(s) # "dcs" /\ \A i \in DOMAIN Tail(s) : Tail(s)[i] # "dcs"
  BY <1>1, <1>4
<1>5. QED
  BY <1>1, <1>2, <1>3, <1>4

(* The most octets of a field, of user data that is not too long.           *)
Weight(f) == CASE f = "address" -> 20
               [] f \in {"timestamp", "discharge_time", "validity"} -> 7
               [] f = "ud" -> 1 + UDL_MAX_8_BIT
               [] f = "command_data" -> 1 + COMMAND_DATA_MAX
               [] OTHER -> 1

LEMMA FieldIsSmall ==
  ASSUME NEW m \in Message, NEW f \in Field
  PROVE /\ Encoded(f, m) \in Nat
        /\ (f = "ud" => m.length <= UDL_MAX_8_BIT) => Encoded(f, m) <= Weight(f)
        /\ m.command_data_len \in 0..255 /\ m.length \in 0..MAX_LEN
<1>1. /\ m.length \in 0..MAX_LEN /\ m.command_data_len \in 0..255 /\ m.address \in AddressType
      /\ m.kind \in Kind
  BY MessageAssumption DEF MessageType
<1>2. Timestamp(m) \in 0..7
  BY DEF Timestamp
<1>3. CASE f = "address"
  <2>1. Encoded(f, m) = Len(EncodeAddress(m.address))
    BY <1>3 DEF Encoded
  <2>2. Encoded(f, m) \in 0..20
    BY <1>1, <2>1, AddressIsOctets, Zenon
  <2>3. QED
    BY <1>1, <1>3, <2>2 DEF Weight
<1>4. CASE f \in {"timestamp", "discharge_time"}
  BY <1>1, <1>2, <1>4 DEF Encoded, Weight
<1>5. CASE f = "validity"
  <2>1. Encoded(f, m) = EncodedValidity(m)
    BY <1>5 DEF Encoded
  <2>2. EncodedValidity(m) \in 0..7
    BY <1>2 DEF EncodedValidity
  <2>3. QED
    BY <1>1, <1>5, <2>1, <2>2 DEF Weight
<1>6. CASE f = "ud"
  BY <1>1, <1>6 DEF Encoded, Weight, MAX_LEN, UDL_MAX_8_BIT
<1>7. CASE f = "command_data"
  BY <1>1, <1>7 DEF Encoded, Weight, CommandData, AtMost, COMMAND_DATA_MAX
<1>8. CASE f \notin {"address", "timestamp", "discharge_time", "validity", "ud", "command_data"}
  BY <1>1, <1>8 DEF Encoded, Weight
<1>9. QED
  BY <1>3, <1>4, <1>5, <1>6, <1>7, <1>8

(* Nothing was called yet.                                                 *)
LEMMA InvInit == Init => IInv
BY Voicemail DEF Init, IInv, RawIsOfMessage, ReadInOrder, NoFields

(* Encoding: what is written is of the message.                             *)
LEMMA InvEncode ==
  ASSUME IInv, Encode
  PROVE IInv'
<1> USE DEF IInv
<1>1. ASSUME NEW m \in Message, CallEncode(m) PROVE IInv'
  <2>1. /\ at' = "encode" /\ UNCHANGED receiver
        /\ raw' = [raw EXCEPT !.type = m.kind, !.fields = <<>>]
    BY <1>1 DEF CallEncode
  <2>2. m.kind \in Kind
    BY MessageAssumption DEF MessageType
  <2>3. raw' = [type |-> m.kind, len |-> raw.len, fields |-> <<>>]
    BY <2>1 DEF RawIsOfMessage
  <2>4. RawIsOfMessage'
    <3>1. at' = "encode" /\ msg' = m /\ pos' = 0
      BY <1>1 DEF CallEncode
    <3>2. QED
      BY <2>2, <2>3, <3>1 DEF RawIsOfMessage
  <2>5. ReadInOrder'
    BY <2>1 DEF ReadInOrder, receiver
  <2>6. QED
    BY <2>4, <2>5
<1>2. ASSUME EncodeField PROVE IInv'
  <2>1. PICK f \in Field : /\ at = "encode" /\ UNCHANGED <<at, status, msg, receiver>>
                           /\ raw' = [raw EXCEPT !.fields = WithField(@, f, msg)]
                           /\ pos' = IF f = "command_data" THEN (pos + 1 + msg.command_data_len) % 256
                                                           ELSE (pos + Encoded(f, msg)) % 256
    BY <1>2 DEF EncodeField, Encoding
  <2>2. WithField(raw.fields, f, msg) \in Seq(FieldsOf(msg))
    BY <2>1 DEF WithField, RawIsOfMessage, FieldsOf, FieldAt
  <2>a. msg \in Message /\ pos \in Nat
    BY <2>1 DEF RawIsOfMessage
  <2>b. Encoded(f, msg) \in Nat /\ msg.command_data_len \in Nat
    BY <2>a, FieldIsSmall
  <2>c. pos' \in Nat
    <3>1. \A n \in Nat : n % 256 \in Nat
      OBVIOUS
    <3>2. pos + 1 + msg.command_data_len \in Nat /\ pos + Encoded(f, msg) \in Nat
      BY <2>a, <2>b
    <3>3. QED
      BY <2>1, <3>1, <3>2
  <2>3. RawIsOfMessage'
    BY <2>1, <2>2, <2>a, <2>c DEF RawIsOfMessage, FieldsOf
  <2>4. ReadInOrder'
    BY <2>1 DEF ReadInOrder, receiver
  <2>5. QED
    BY <2>3, <2>4
<1>3. ASSUME EncodeNothing PROVE IInv'
  BY <1>3 DEF EncodeNothing, Encoding, RawIsOfMessage, ReadInOrder, receiver, caller, FieldsOf
<1>4. ASSUME ExceedCapacity PROVE IInv'
  BY <1>4 DEF ExceedCapacity, Encoding, RawIsOfMessage, ReadInOrder, receiver, caller, FieldsOf
<1>5. ASSUME RefuseField PROVE IInv'
  BY <1>5 DEF RefuseField, Encoding, RawIsOfMessage, ReadInOrder, receiver, caller, FieldsOf
<1>6. ASSUME ReturnEncoded PROVE IInv'
  BY <1>6 DEF ReturnEncoded, RawIsOfMessage, ReadInOrder, receiver, FieldsOf
<1>7. QED
  BY <1>1, <1>2, <1>3, <1>4, <1>5, <1>6 DEF Encode

(* The calls are over, and the structures keep what they hold.              *)
LEMMA InvForget ==
  ASSUME IInv, Forget
  PROVE IInv'
BY DEF IInv, Forget, RawIsOfMessage, ReadInOrder, NoFields, FieldsOf

(* A decoder starts, with whatever the client structure holds.              *)
LEMMA OverlayIsTyped ==
  ASSUME IInv, NEW k, NEW left \in Overlay(k)
  PROVE left.indication \in Indication
BY LeftoverAssumption DEF IInv, ReadInOrder, Overlay, Remnant

LEMMA InvStartDecode ==
  ASSUME IInv, NEW k \in Kind, NEW left, left.indication \in Indication, StartDecode(k, left)
  PROVE IInv'
<1>1. RawIsOfMessage'
  BY DEF IInv, StartDecode, RawIsOfMessage, FieldsOf, caller
<1>2. todo' = DecodeOrder[k] /\ todo' \in Seq(Field) /\ DcsFirst(todo')
  BY OrdersAreDcsFirst DEF StartDecode
<1>3. /\ DOMAIN got' = {}
      /\ held' = [kind |-> k, alphabet |-> left.alphabet, indication |-> left.indication]
  BY DEF StartDecode, NoFields, Holding
<1>4. ReadInOrder'
  BY <1>2, <1>3 DEF ReadInOrder
<1>5. QED
  BY <1>1, <1>4 DEF IInv

(* The octet of the coding scheme is the one the sender wrote, wherever the *)
(* decoder finds it.                                                        *)
LEMMA FoundIsWritten ==
  ASSUME IInv, Here("dcs")
  PROVE Value("dcs") \in Scheme /\ Value("dcs").alphabet = Kept
<1> DEFINE k == CHOOSE i \in DOMAIN raw.fields : IsAt(i, "dcs")
<1>1. k \in DOMAIN raw.fields /\ IsAt(k, "dcs")
  BY DEF Here
<1> HIDE DEF k
<1>2. PICK f \in Field, p \in Nat :
        raw.fields[k] = [field |-> f, start |-> p, octets |-> Encoded(f, msg),
                         contents |-> Contents(f, msg)]
  <2>1. raw.fields[k] \in FieldsOf(msg)
    BY <1>1 DEF IInv, RawIsOfMessage
  <2>2. QED
    BY <2>1, FieldOfIsAt DEF FieldAt
<1>3. raw.fields[k].field = "dcs"
  BY <1>1 DEF IsAt
<1>4. raw.fields[k].contents = Contents("dcs", msg)
  BY <1>2, <1>3
<1>5. Contents("dcs", msg) = <<EncodeDcs(msg.dcs)>>
  BY DEF Contents
<1>6. Found("dcs")[1] = EncodeDcs(msg.dcs)
  BY <1>4, <1>5 DEF Found, k
<1>7. Value("dcs") = SchemeRead(EncodeDcs(msg.dcs))
  BY <1>6 DEF Value
<1>8. EncodeDcs(msg.dcs) \in 0..255
  <2>1. raw.fields # <<>>
    BY <1>1
  <2>2. msg.dcs \in Scheme
    BY <2>1, MessageAssumption DEF IInv, RawIsOfMessage, MessageType
  <2>3. QED
    BY <2>2, SchemeIsOctet
<1>9. held.indication \in Indication
  BY DEF IInv, ReadInOrder
<1>10. QED
  BY <1>7, <1>8, <1>9, SchemeIsRead DEF Kept

(* A field is read.                                                         *)
LEMMA InvDecodeField ==
  ASSUME IInv, DecodeField
  PROVE IInv'
<1>1. PICK f \in Field :
        /\ Decoding(f) /\ Here(f)
        /\ got' = WithValue(f)
        /\ held' = IF f = "dcs" THEN Hold(Value(f)) ELSE held
        /\ text' = IF f = "ud" THEN held.alphabet ELSE text
        /\ todo' = Tail(todo)
        /\ UNCHANGED <<at, status, caller, kind>>
  BY DEF DecodeField
<1>2. at = "decode" /\ at' = "decode" /\ todo # <<>> /\ f = Head(todo) /\ Kept' = Kept
  BY <1>1 DEF Decoding, caller, Kept
<1>3. RawIsOfMessage'
  BY <1>1, <1>2 DEF IInv, RawIsOfMessage, FieldsOf, caller
<1>4. /\ todo \in Seq(Field) /\ DcsFirst(todo)
      /\ held = [kind |-> held.kind, alphabet |-> held.alphabet, indication |-> held.indication]
      /\ held.indication \in Indication
      /\ "dcs" \in DOMAIN got => held.alphabet = Kept
      /\ "ud" \in DOMAIN got => \A i \in DOMAIN todo : todo[i] # "dcs"
      /\ {"dcs", "ud"} \subseteq DOMAIN got => text = Kept
  BY <1>2 DEF IInv, ReadInOrder
<1>5. DOMAIN got' = DOMAIN got \union {f}
  BY <1>1 DEF WithValue
<1>6. /\ todo' \in Seq(Field) /\ DcsFirst(todo')
      /\ f = "ud" => \A i \in DOMAIN todo' : todo'[i] # "dcs"
      /\ "ud" \in DOMAIN got => f # "dcs" /\ \A i \in DOMAIN todo' : todo'[i] # "dcs"
  BY <1>1, <1>2, <1>4, Advance
<1>7. f = "dcs" => /\ held' = [kind |-> held.kind, alphabet |-> Kept, indication |-> held'.indication]
                   /\ held'.indication \in Indication
  <2> SUFFICES ASSUME f = "dcs"
               PROVE  /\ held' = [kind |-> held.kind, alphabet |-> Kept, indication |-> held'.indication]
                      /\ held'.indication \in Indication
    OBVIOUS
  <2>1. Value("dcs") \in Scheme /\ Value("dcs").alphabet = Kept
    BY <1>1, FoundIsWritten
  <2>2. held' = [kind |-> held.kind, alphabet |-> Kept, indication |-> Value("dcs").indication]
    BY <1>1, <1>4, <2>1 DEF Hold
  <2>3. Value("dcs").indication \in Indication
    BY <2>1 DEF Scheme
  <2>4. QED
    BY <2>2, <2>3
<1>8. f # "dcs" => held' = held
  BY <1>1
<1>9. /\ held' = [kind |-> held'.kind, alphabet |-> held'.alphabet, indication |-> held'.indication]
      /\ held'.indication \in Indication
  BY <1>4, <1>7, <1>8
<1>10. "dcs" \in DOMAIN got' => held'.alphabet = Kept
  BY <1>4, <1>5, <1>7, <1>8
<1>11. "ud" \in DOMAIN got' => \A i \in DOMAIN todo' : todo'[i] # "dcs"
  BY <1>5, <1>6
<1>12. {"dcs", "ud"} \subseteq DOMAIN got' => text' = Kept
  <2>1. CASE f = "ud"
    BY <2>1, <1>1, <1>4, <1>5
  <2>2. CASE f # "ud"
    BY <2>2, <1>1, <1>4, <1>5, <1>6
  <2>3. QED
    BY <2>1, <2>2
<1>13. ReadInOrder'
  BY <1>2, <1>6, <1>9, <1>10, <1>11, <1>12 DEF ReadInOrder
<1>14. QED
  BY <1>3, <1>13 DEF IInv

(* Every other step of the receiver.                                        *)
LEMMA InvDecode ==
  ASSUME IInv, Decode
  PROVE IInv'
<1>1. ASSUME CallDecode PROVE IInv'
  <2>1. PICK left \in Overlay(raw.type) : StartDecode(raw.type, left)
    BY <1>1 DEF CallDecode
  <2>2. raw.type \in Kind
    BY <1>1 DEF CallDecode, IInv, RawIsOfMessage
  <2>3. QED
    BY <2>1, <2>2, OverlayIsTyped, InvStartDecode
<1>2. ASSUME CallDecodeDeliver PROVE IInv'
  <2>1. PICK left \in Overlay("deliver") : StartDecode("deliver", left)
    BY <1>2 DEF CallDecodeDeliver
  <2>2. QED
    BY <2>1, OverlayIsTyped, InvStartDecode DEF Kind
<1>3. ASSUME DecodeField PROVE IInv'
  BY <1>3, InvDecodeField
<1>4. ASSUME DecodeNothing PROVE IInv'
  <2>1. /\ at = "decode" /\ todo # <<>> /\ todo' = Tail(todo)
        /\ UNCHANGED <<at, pos, status, caller, receiver>>
    BY <1>4 DEF DecodeNothing, Decoding
  <2>2. /\ todo' \in Seq(Field) /\ DcsFirst(todo')
        /\ "ud" \in DOMAIN got' => \A i \in DOMAIN todo' : todo'[i] # "dcs"
    BY <2>1, Advance DEF IInv, ReadInOrder, receiver
  <2>3. RawIsOfMessage'
    BY <2>1 DEF IInv, RawIsOfMessage, FieldsOf, caller
  <2>4. ReadInOrder'
    BY <2>1, <2>2 DEF IInv, ReadInOrder, receiver, caller, Kept
  <2>5. QED
    BY <2>3, <2>4 DEF IInv
<1>5. ASSUME RejectField PROVE IInv'
  <2>1. at = "decode" /\ at' = "decoded" /\ UNCHANGED <<todo, caller, receiver>>
    BY <1>5 DEF RejectField, Decoding
  <2>2. QED
    BY <2>1 DEF IInv, RawIsOfMessage, ReadInOrder, FieldsOf, receiver, caller, Kept
<1>6. ASSUME Misread PROVE IInv'
  <2>1. at' = "garbled" /\ UNCHANGED <<caller, receiver>>
    BY <1>6 DEF Misread
  <2>2. QED
    BY <2>1 DEF IInv, RawIsOfMessage, ReadInOrder, FieldsOf, receiver, caller
<1>7. ASSUME ReturnDecoded PROVE IInv'
  <2>1. at = "decode" /\ at' = "decoded" /\ UNCHANGED <<todo, caller, receiver>>
    BY <1>7 DEF ReturnDecoded
  <2>2. QED
    BY <2>1 DEF IInv, RawIsOfMessage, ReadInOrder, FieldsOf, receiver, caller, Kept
<1>8. ASSUME Done PROVE IInv'
  BY <1>8, InvForget DEF Done
<1>9. QED
  BY <1>1, <1>2, <1>3, <1>4, <1>5, <1>6, <1>7, <1>8 DEF Decode

(* Nothing happens.                                                        *)
LEMMA InvStutter ==
  ASSUME IInv, UNCHANGED vars
  PROVE IInv'
BY DEF IInv, RawIsOfMessage, ReadInOrder, FieldsOf, Kept, vars, caller, receiver

(* The strengthened invariant holds throughout.                             *)
LEMMA InvIsInvariant == Spec => []IInv
<1>1. IInv /\ [Next]_vars => IInv'
  <2> SUFFICES ASSUME IInv, [Next]_vars PROVE IInv'
    OBVIOUS
  <2>1. CASE Encode
    BY <2>1, InvEncode
  <2>2. CASE GiveUp
    BY <2>2, InvForget DEF GiveUp
  <2>3. CASE Decode
    BY <2>3, InvDecode
  <2>4. CASE UNCHANGED vars
    BY <2>4, InvStutter
  <2>5. QED
    BY <2>1, <2>2, <2>3, <2>4 DEF Next
<1>2. QED
  BY InvInit, <1>1, PTL DEF Spec

(* Whatever was sent before through the same structures, and whatever the   *)
(* client's union holds when a decoder starts: a text that comes with a     *)
(* coding scheme is read in the alphabet the sender gave it.                *)
THEOREM TextIsInItsAlphabet == Spec => []TextInItsAlphabet
<1>1. IInv => TextInItsAlphabet
  <2> SUFFICES ASSUME IInv, at = "decoded", {"dcs", "ud"} \subseteq DOMAIN got, msg.dcs \in Expressible
               PROVE text = msg.dcs.alphabet
    BY DEF TextInItsAlphabet
  <2>1. text = DecodeDcs(EncodeDcs(msg.dcs), NoIndication).alphabet
    BY DEF IInv, ReadInOrder, Kept
  <2>2. DecodeDcs(EncodeDcs(msg.dcs), NoIndication) = Received(msg.dcs, NoIndication)
    BY SchemesAreKept, Voicemail
  <2>3. Received(msg.dcs, NoIndication).alphabet = msg.dcs.alphabet
    BY ExpressibleIsScheme DEF Received, Scheme
  <2>4. QED
    BY <2>1, <2>2, <2>3
<1>2. QED
  BY InvIsInvariant, <1>1, PTL

-----------------------------------------------------------------------------
(* ---- WMS_OK --------------------------------------------------------------*)
Left == {todo[i] : i \in DOMAIN todo}
Beyond == msg.kind = "submit" /\ msg.validity = "beyond"

(* While a message is encoded, what is due was written or is still to come. *)
(* A format of validity that does not exist is refused at the first octet,  *)
(* so that the encoder never gets to the validity itself.                   *)
WrittenOrLeft ==
  /\ at = "encode" =>
       /\ msg \in Message /\ todo \in Seq(Field) /\ Left \subseteq Whole
       /\ Beyond => todo # <<>> /\ Head(todo) = "first"
       /\ status = "OK" /\ Sendable => Sent \subseteq Due /\ Due \subseteq Sent \union Left
  /\ OkIsWhole

(* Only a TP-SUBMIT has a validity, and all begin with the first octet.     *)
LEMMA OrdersOfEncoders ==
  ASSUME NEW k \in Kind
  PROVE /\ EncodeOrder[k] \in Seq(Field)
        /\ EncodeOrder[k] # <<>> /\ Head(EncodeOrder[k]) = "first"
        /\ k # "submit" => \A i \in DOMAIN EncodeOrder[k] : EncodeOrder[k][i] # "validity"
<1>1. CASE k = "deliver"
  BY <1>1 DEF EncodeOrder, EncodeDeliver, Field
<1>2. CASE k = "deliver_report_ack"
  BY <1>2 DEF EncodeOrder, EncodeDeliverReportAck, Field
<1>3. CASE k = "deliver_report_error"
  BY <1>3 DEF EncodeOrder, EncodeDeliverReportError, Field
<1>4. CASE k = "submit"
  BY <1>4 DEF EncodeOrder, EncodeSubmit, Field
<1>5. CASE k = "submit_report_ack"
  BY <1>5 DEF EncodeOrder, EncodeSubmitReportAck, Field
<1>6. CASE k = "submit_report_error"
  BY <1>6 DEF EncodeOrder, EncodeSubmitReportError, Field
<1>7. CASE k = "status_report"
  BY <1>7 DEF EncodeOrder, EncodeStatusReport, Field
<1>8. CASE k = "command"
  BY <1>8 DEF EncodeOrder, EncodeCommand, Field
<1>9. QED
  BY <1>1, <1>2, <1>3, <1>4, <1>5, <1>6, <1>7, <1>8 DEF Kind

(* A field that is written and not refused has octets, a validity apart.    *)
LEMMA FieldsHaveOctets ==
  ASSUME msg \in Message, NEW f \in Field, ~Refused(f), f # "validity"
  PROVE Encoded(f, msg) # 0
<1>1. msg.length \in 0..MAX_LEN /\ msg.command_data_len \in 0..255
  BY MessageAssumption DEF MessageType
<1>2. CASE f \in {"address", "timestamp", "discharge_time"}
  BY <1>2 DEF Refused
<1>3. CASE f = "ud"
  BY <1>1, <1>3 DEF Encoded, MAX_LEN
<1>4. CASE f = "command_data"
  BY <1>1, <1>4 DEF Encoded, CommandData, AtMost, COMMAND_DATA_MAX
<1>5. CASE f \notin {"address", "timestamp", "discharge_time", "ud", "command_data"}
  BY <1>5 DEF Encoded
<1>6. QED
  BY <1>2, <1>3, <1>4, <1>5

(* The next field, and the set of what is left behind it.                  *)
LEMMA HeadAndTail ==
  ASSUME NEW s \in Seq(Field), s # <<>>
  PROVE /\ Head(s) \in Field /\ Tail(s) \in Seq(Field)
        /\ {s[i] : i \in DOMAIN s} = {Head(s)} \union {Tail(s)[i] : i \in DOMAIN Tail(s)}
<1>1. /\ Tail(s) \in Seq(Field) /\ Len(s) \in Nat \ {0} /\ Head(s) = s[1]
      /\ DOMAIN Tail(s) = 1..Len(s) - 1 /\ DOMAIN s = 1..Len(s)
      /\ \A i \in 1..Len(s) - 1 : Tail(s)[i] = s[i + 1]
  OBVIOUS
<1>2. \A i \in DOMAIN s : s[i] = Head(s) \/ (i - 1 \in DOMAIN Tail(s) /\ s[i] = Tail(s)[i - 1])
  BY <1>1
<1>3. \A i \in DOMAIN Tail(s) : i + 1 \in DOMAIN s /\ s[i + 1] = Tail(s)[i]
  BY <1>1
<1>4. 1 \in DOMAIN s /\ s[1] \in Field
  BY <1>1, ElementOfSeq
<1> DEFINE range == {s[i] : i \in DOMAIN s}
           rest == {Tail(s)[i] : i \in DOMAIN Tail(s)}
<1>5. range \subseteq {Head(s)} \union rest
  BY <1>2
<1>6. Head(s) \in range
  BY <1>1, <1>4
<1>7. rest \subseteq range
  BY <1>3
<1>8. QED
  BY <1>1, <1>4, <1>5, <1>6, <1>7

(* Nothing was encoded yet.                                                *)
LEMMA WholeInit == Init => WrittenOrLeft
BY DEF Init, WrittenOrLeft, OkIsWhole, EncodedOk

(* A call: everything is still to come.                                    *)
LEMMA WholeCallEncode ==
  ASSUME IInv, NEW m \in Message, CallEncode(m)
  PROVE WrittenOrLeft'
<1>1. at' = "encode" /\ msg' = m /\ todo' = EncodeOrder[m.kind] /\ m.kind \in Kind
  BY MessageAssumption DEF CallEncode, MessageType
<1>2. todo' \in Seq(Field) /\ todo' # <<>> /\ Head(todo') = "first"
  BY <1>1, OrdersOfEncoders
<1>3. Left' = Whole'
  BY <1>1, <1>2 DEF Left, Whole
<1>4. Sent' = {}
  <2>1. raw' = [type |-> m.kind, len |-> raw.len, fields |-> <<>>]
    BY DEF IInv, RawIsOfMessage, CallEncode
  <2>2. QED
    BY <2>1 DEF Sent
<1>5. Due' \subseteq Whole'
  BY DEF Due
<1>6. OkIsWhole'
  BY <1>1 DEF OkIsWhole, EncodedOk
<1>7. QED
  BY <1>1, <1>2, <1>3, <1>4, <1>5, <1>6 DEF WrittenOrLeft

(* One step of the encoder, whatever the field becomes.                     *)
LEMMA WholeStep ==
  ASSUME WrittenOrLeft, NEW f \in Field, Encoding(f), todo' = Tail(todo),
         UNCHANGED <<at, msg>>, f = "first" => ~Beyond,
         status' = "OK" /\ Sendable =>
           /\ status = "OK"
           /\ (Sent' = Sent /\ f \notin Due) \/ (Sent' = Sent \union {f} /\ f \in Due)
  PROVE WrittenOrLeft'
<1>1. /\ at = "encode" /\ at' = "encode" /\ todo # <<>> /\ f = Head(todo)
      /\ msg \in Message /\ todo \in Seq(Field) /\ Left \subseteq Whole
      /\ Beyond => Head(todo) = "first"
      /\ status = "OK" /\ Sendable => Sent \subseteq Due /\ Due \subseteq Sent \union Left
  BY DEF WrittenOrLeft, Encoding
<1>2. todo' \in Seq(Field) /\ Left = {f} \union Left'
  BY <1>1, HeadAndTail DEF Left
<1>3. Due' = Due /\ Whole' = Whole /\ (Sendable' <=> Sendable) /\ (Beyond' <=> Beyond)
  BY DEF Due, Whole, Written, Sendable, Beyond
<1>4. ~Beyond
  BY <1>1
<1>5. ASSUME status' = "OK", Sendable
      PROVE Sent' \subseteq Due /\ Due \subseteq Sent' \union Left'
  BY <1>1, <1>2, <1>5
<1>6. OkIsWhole'
  BY <1>1 DEF OkIsWhole, EncodedOk
<1>7. QED
  BY <1>1, <1>2, <1>3, <1>4, <1>5, <1>6 DEF WrittenOrLeft

(* A field is written: if it was due, it counts as sent.                   *)
LEMMA WholeEncodeField ==
  ASSUME IInv, WrittenOrLeft, EncodeField
  PROVE WrittenOrLeft'
<1>1. PICK f \in Field : /\ Encoding(f) /\ Written(f) /\ ~Refused(f)
                         /\ raw' = [raw EXCEPT !.fields = WithField(@, f, msg)]
                         /\ todo' = Tail(todo) /\ UNCHANGED <<at, status, msg>>
  BY DEF EncodeField
<1>2. at = "encode" /\ todo # <<>> /\ f = Head(todo)
  BY <1>1 DEF Encoding
<1>3. /\ msg \in Message /\ todo \in Seq(Field) /\ Left \subseteq Whole
      /\ Beyond => Head(todo) = "first"
  BY <1>2 DEF WrittenOrLeft
<1>4. f \in Whole
  BY <1>2, <1>3, HeadAndTail DEF Left
<1>5. f = "first" => ~Beyond
  BY <1>1 DEF Refused, Beyond
<1>6. raw.fields \in Seq(FieldsOf(msg)) /\ raw'.fields = WithField(raw.fields, f, msg)
  BY <1>1 DEF IInv, RawIsOfMessage
<1>7. CASE Encoded(f, msg) # 0
  <2>1. Sent' = Sent \union {f}
    <3> DEFINE r == [field |-> f, start |-> pos, octets |-> Encoded(f, msg),
                     contents |-> Contents(f, msg)]
    <3>1. raw'.fields = Append(raw.fields, r) /\ r.field = f
      BY <1>6, <1>7 DEF WithField
    <3> HIDE DEF r
    <3>2. Sent' = {Append(raw.fields, r)[k].field : k \in 1..Len(raw.fields) + 1}
      BY <1>6, <3>1 DEF Sent
    <3>3. /\ \A k \in 1..Len(raw.fields) : Append(raw.fields, r)[k] = raw.fields[k]
          /\ Append(raw.fields, r)[Len(raw.fields) + 1] = r /\ Len(raw.fields) \in Nat
      BY <1>6
    <3>4. QED
      BY <3>1, <3>2, <3>3 DEF Sent
  <2>2. f = "validity" => msg.validity # "none"
    BY <1>7 DEF Encoded, EncodedValidity
  <2>3. f \in Due
    BY <1>1, <1>4, <2>2 DEF Due
  <2>4. QED
    BY <1>1, <1>5, <2>1, <2>3, WholeStep
<1>8. CASE Encoded(f, msg) = 0
  <2>1. f = "validity"
    BY <1>1, <1>3, <1>8, FieldsHaveOctets
  <2>2. Sent' = Sent
    BY <1>6, <1>8 DEF WithField, Sent
  <2>3. msg.kind = "submit"
    <3>1. msg.kind \in Kind
      BY <1>3, MessageAssumption DEF MessageType
    <3>2. PICK i \in 1..Len(EncodeOrder[msg.kind]) : EncodeOrder[msg.kind][i] = "validity"
      BY <1>4, <2>1 DEF Whole
    <3>3. i \in DOMAIN EncodeOrder[msg.kind]
      BY <3>1, OrdersOfEncoders
    <3>4. QED
      BY <3>1, <3>2, <3>3, OrdersOfEncoders
  <2>4. msg.validity # "beyond"
    BY <1>2, <1>3, <2>1, <2>3 DEF Beyond
  <2>5. Sendable => msg.validity = "none"
    <3>1. msg.validity \in {"none", "relative", "absolute", "enhanced", "beyond"}
      BY <1>3, MessageAssumption DEF MessageType
    <3>2. QED
      BY <3>1, <1>8, <2>1, <2>4 DEF Sendable, Encoded, EncodedValidity, Timestamp
  <2>6. Sendable => f \notin Due
    BY <2>1, <2>5 DEF Due
  <2>7. status' = "OK" /\ Sendable =>
           /\ status = "OK"
           /\ (Sent' = Sent /\ f \notin Due) \/ (Sent' = Sent \union {f} /\ f \in Due)
    BY <1>1, <2>2, <2>6
  <2>8. QED
    BY <1>1, <1>5, <2>7, WholeStep
<1>9. QED
  BY <1>7, <1>8

(* Every step of sender and receiver.                                      *)
LEMMA WholeNext ==
  ASSUME IInv, WrittenOrLeft, [Next]_vars
  PROVE WrittenOrLeft'
<1>1. ASSUME NEW m \in Message, CallEncode(m) PROVE WrittenOrLeft'
  BY <1>1, WholeCallEncode
<1>2. CASE EncodeField
  BY <1>2, WholeEncodeField
<1>3. CASE EncodeNothing
  <2>1. PICK f \in Field : /\ Encoding(f) /\ ~Written(f) /\ todo' = Tail(todo)
                           /\ UNCHANGED <<at, status, msg, raw>>
    BY <1>3 DEF EncodeNothing, caller
  <2>2. f \notin Due /\ Sent' = Sent
    BY <2>1 DEF Due, Sent
  <2>3. f = "first" => Written(f)
    BY DEF Written, InMask
  <2>4. f = "first" => ~Beyond
    BY <2>1, <2>3
  <2>5. status' = "OK" /\ Sendable =>
           /\ status = "OK"
           /\ (Sent' = Sent /\ f \notin Due) \/ (Sent' = Sent \union {f} /\ f \in Due)
    BY <2>1, <2>2
  <2>6. QED
    BY <2>1, <2>4, <2>5, WholeStep
<1>4. CASE ExceedCapacity
  <2>1. PICK f \in Field : /\ Encoding(f) /\ f = "ud" /\ todo' = Tail(todo)
                           /\ status' = "INVALID_USER_DATA_SIZE" /\ UNCHANGED <<at, msg>>
    BY <1>4 DEF ExceedCapacity, TooLong, caller
  <2>2. QED
    BY <2>1, WholeStep
<1>5. CASE RefuseField
  <2>1. at' = "encoded" /\ status' # "OK"
    BY <1>5 DEF RefuseField
  <2>2. QED
    BY <2>1 DEF WrittenOrLeft, OkIsWhole, EncodedOk
<1>6. CASE ReturnEncoded
  <2>1. /\ at = "encode" /\ at' = "encoded" /\ todo = <<>> /\ UNCHANGED <<status, msg>>
        /\ raw' = [raw EXCEPT !.len = pos]
    BY <1>6 DEF ReturnEncoded
  <2>2. Sent' = Sent
    BY <2>1 DEF IInv, RawIsOfMessage, Sent
  <2>3. Due' = Due /\ (Sendable' <=> Sendable) /\ Left = {}
    BY <2>1 DEF Due, Whole, Written, Sendable, Left
  <2>4. QED
    BY <2>1, <2>2, <2>3 DEF WrittenOrLeft, OkIsWhole, EncodedOk
<1>7. CASE GiveUp \/ Decode
  <2>1. at' \notin {"encode", "encoded"}
    BY <1>7 DEF GiveUp, Decode, Forget, CallDecode, CallDecodeDeliver, StartDecode, DecodeField,
                DecodeNothing, RejectField, Misread, ReturnDecoded, Done, Decoding
  <2>2. QED
    BY <2>1 DEF WrittenOrLeft, OkIsWhole, EncodedOk
<1>8. CASE UNCHANGED vars
  <2>1. UNCHANGED <<at, todo, status, msg, raw>>
    BY <1>8 DEF vars, caller
  <2>2. /\ Left' = Left /\ Whole' = Whole /\ Due' = Due /\ Sent' = Sent
        /\ (Beyond' <=> Beyond) /\ (Sendable' <=> Sendable) /\ (EncodedOk' <=> EncodedOk)
    BY <2>1 DEF Left, Whole, Beyond, Sendable, Due, Written, Sent, EncodedOk
  <2>3. QED
    BY <2>1, <2>2 DEF WrittenOrLeft, OkIsWhole
<1>9. QED
  BY <1>1, <1>2, <1>3, <1>4, <1>5, <1>6, <1>7, <1>8 DEF Next, Encode

(* Whatever is sent, and whatever was sent before: the encoder says WMS_OK  *)
(* only of a message of which every field that is due was written.          *)
THEOREM OkMeansWhole == Spec => []OkIsWhole
<1>1. Spec => []WrittenOrLeft
  BY InvIsInvariant, WholeInit, WholeNext, PTL DEF Spec
<1>2. WrittenOrLeft => OkIsWhole
  BY DEF WrittenOrLeft
<1>3. QED
  BY <1>1, <1>2, PTL

-----------------------------------------------------------------------------
(* ---- the place of every field ------------------------------------------*)
(* The octets a set of fields may take beyond one for each.                 *)
Of(f, set) == IF f \in set THEN Weight(f) - 1 ELSE 0
Extra(set) == Of("address", set) + Of("timestamp", set) + Of("discharge_time", set)
              + Of("validity", set) + Of("ud", set) + Of("command_data", set)

Distinct(o) == \A i, j \in 1..Len(o) : o[i] = o[j] => i = j

(* What is left of the fields o.                                            *)
Rest(s, o) == /\ s \in Seq(Field) /\ Len(s) <= Len(o)
              /\ \A i \in 1..Len(s) : s[i] = o[Len(o) - Len(s) + i]

(* No field occurs twice in a message; a command's data are its last; a     *)
(* message with every field at its longest fits an octet's count; and the   *)
(* decoders read in the order of the encoders.                              *)
GoodOrder(o) ==
  /\ o \in Seq(Field) /\ Distinct(o)
  /\ \A i \in 1..Len(o) : o[i] = "command_data" => i = Len(o)
  /\ Len(o) + Extra({o[i] : i \in DOMAIN o}) <= MAX_LEN

LEMMA OrdersAreGood ==
  ASSUME NEW k \in Kind
  PROVE GoodOrder(EncodeOrder[k]) /\ DecodeOrder[k] = EncodeOrder[k]
<1> USE DEF GoodOrder, Distinct, Field, EncodeOrder, DecodeOrder, Extra, Of, Weight, MAX_LEN,
            UDL_MAX_8_BIT, COMMAND_DATA_MAX
<1>1. CASE k = "deliver"
  BY <1>1 DEF EncodeDeliver, DecodeDeliver
<1>2. CASE k = "deliver_report_ack"
  BY <1>2 DEF EncodeDeliverReportAck, DecodeDeliverReportAck
<1>3. CASE k = "deliver_report_error"
  BY <1>3 DEF EncodeDeliverReportError, DecodeDeliverReportError
<1>4. CASE k = "submit"
  BY <1>4 DEF EncodeSubmit, DecodeSubmit
<1>5. CASE k = "submit_report_ack"
  BY <1>5 DEF EncodeSubmitReportAck, DecodeSubmitReportAck
<1>6. CASE k = "submit_report_error"
  BY <1>6 DEF EncodeSubmitReportError, DecodeSubmitReportError
<1>7. CASE k = "status_report"
  BY <1>7 DEF EncodeStatusReport, DecodeStatusReport
<1>8. CASE k = "command"
  BY <1>8 DEF EncodeCommand, DecodeCommand
<1>9. QED
  BY <1>1, <1>2, <1>3, <1>4, <1>5, <1>6, <1>7, <1>8 DEF Kind

LEMMA ExtraIsNat == ASSUME NEW set PROVE Extra(set) \in Nat
BY DEF Extra, Of, Weight, UDL_MAX_8_BIT, COMMAND_DATA_MAX

LEMMA ExtraStep ==
  ASSUME NEW set, NEW f \in Field, f \notin set
  PROVE Extra({f} \union set) + 1 = Weight(f) + Extra(set)
<1> USE DEF Extra, Of, Weight, UDL_MAX_8_BIT, COMMAND_DATA_MAX
<1>1. CASE f = "address"
  BY <1>1
<1>2. CASE f = "timestamp"
  BY <1>2
<1>3. CASE f = "discharge_time"
  BY <1>3
<1>4. CASE f = "validity"
  BY <1>4
<1>5. CASE f = "ud"
  BY <1>5
<1>6. CASE f = "command_data"
  BY <1>6
<1>7. CASE f \notin {"address", "timestamp", "discharge_time", "validity", "ud", "command_data"}
  BY <1>7
<1>8. QED
  BY <1>1, <1>2, <1>3, <1>4, <1>5, <1>6, <1>7

(* The next field, what is left behind it, and where both are in o.         *)
LEMMA RestStep ==
  ASSUME NEW o \in Seq(Field), Distinct(o), NEW s, Rest(s, o), s # <<>>,
         NEW r, r = Len(o) - Len(s) + 1
  PROVE /\ r \in 1..Len(o) /\ Head(s) = o[r] /\ Head(s) \in Field
        /\ Rest(Tail(s), o) /\ Len(Tail(s)) = Len(s) - 1
        /\ Len(o) - Len(Tail(s)) = r
        /\ {s[i] : i \in DOMAIN s} = {Head(s)} \union {Tail(s)[i] : i \in DOMAIN Tail(s)}
        /\ Head(s) \notin {Tail(s)[i] : i \in DOMAIN Tail(s)}
<1>1. /\ Len(o) \in Nat /\ Len(s) \in Nat \ {0} /\ Len(s) <= Len(o) /\ s \in Seq(Field)
      /\ \A i \in 1..Len(s) : s[i] = o[Len(o) - Len(s) + i]
  BY DEF Rest
<1>2. /\ Tail(s) \in Seq(Field) /\ Len(Tail(s)) = Len(s) - 1 /\ Head(s) = s[1]
      /\ DOMAIN Tail(s) = 1..Len(s) - 1
      /\ \A i \in 1..Len(s) - 1 : Tail(s)[i] = s[i + 1]
  BY <1>1
<1>3. r \in 1..Len(o) /\ Head(s) = o[r]
  BY <1>1, <1>2
<1>4. \A i \in 1..Len(s) - 1 : Tail(s)[i] = o[r + i] /\ r + i \in 1..Len(o)
  BY <1>1, <1>2
<1>5. Rest(Tail(s), o)
  <2>1. \A i \in 1..Len(s) - 1 : Len(o) - (Len(s) - 1) + i = r + i
    BY <1>1
  <2>2. Len(s) - 1 <= Len(o)
    BY <1>1
  <2>3. QED
    BY <1>2, <1>4, <2>1, <2>2 DEF Rest
<1>6. ASSUME NEW i \in 1..Len(s) - 1, Tail(s)[i] = Head(s) PROVE FALSE
  <2>1. o[r + i] = o[r]
    BY <1>3, <1>4, <1>6
  <2>2. r + i = r
    BY <1>3, <1>4, <2>1 DEF Distinct
  <2>3. QED
    BY <1>3, <2>2
<1>7. Len(o) - Len(Tail(s)) = r
  BY <1>1, <1>2
<1>8. QED
  BY <1>1, <1>2, <1>3, <1>5, <1>6, <1>7, HeadAndTail

Order == EncodeOrder[msg.kind]
Passed == Len(Order) - Len(todo)
Upto(n) == \A k \in DOMAIN raw.fields : \E i \in 1..n : raw.fields[k].field = Order[i]

(* The fields are one behind the other, within the array, and in the order  *)
(* of the message.                                                          *)
Laid ==
  /\ \A k \in DOMAIN raw.fields :
       /\ raw.fields[k].start = EndOf(k - 1)
       /\ raw.fields[k].octets \in 1..Weight(raw.fields[k].field)
       /\ EndOf(k) <= MAX_LEN
  /\ Upto(Len(Order))
  /\ \A j, k \in DOMAIN raw.fields : \A a, b \in 1..Len(Order) :
       j < k /\ raw.fields[j].field = Order[a] /\ raw.fields[k].field = Order[b] => a < b

(* While a message is encoded, pos is where its last field ends, unless     *)
(* the length of command data is more than was written.                     *)
Counts == todo # <<>> \/ msg.command_data_len <= COMMAND_DATA_MAX
Counted == /\ Rest(todo, Order) /\ Upto(Passed)
           /\ Counts => /\ pos = EndOf(Len(raw.fields))
                        /\ pos + Len(todo) + Extra(Left) <= MAX_LEN

Layout == /\ raw.fields # <<>> \/ at # "idle" => msg \in Message /\ raw.type = msg.kind
          /\ raw.fields # <<>> => Laid
          /\ at = "encode" => Counted
          /\ LengthIsExact

LEMMA LayoutInit == Init => Layout
BY DEF Init, Layout, LengthIsExact, EncodedOk

(* Nothing of the message changes.                                         *)
LEMMA LayoutStays ==
  ASSUME Layout, UNCHANGED <<msg, raw>>, at' \notin {"encode", "encoded"},
         at' = "idle" \/ at # "idle"
  PROVE Layout'
<1>1. Laid => Laid'
  BY DEF Laid, Upto, Order, EndOf
<1>2. QED
  BY <1>1 DEF Layout, LengthIsExact, EncodedOk

(* A call: no field is written, and all are to come.                        *)
LEMMA LayoutCall ==
  ASSUME IInv, NEW m \in Message, CallEncode(m)
  PROVE Layout'
<1>1. /\ at' = "encode" /\ msg' = m /\ todo' = EncodeOrder[m.kind] /\ m.kind \in Kind /\ pos' = 0
      /\ raw' = [type |-> m.kind, len |-> raw.len, fields |-> <<>>]
  BY MessageAssumption DEF CallEncode, MessageType, IInv, RawIsOfMessage
<1>2. GoodOrder(EncodeOrder[m.kind])
  BY <1>1, OrdersAreGood
<1>3. raw'.fields = <<>> /\ raw'.type = m.kind
  BY <1>1
<1>4. Rest(todo', Order')
  BY <1>1, <1>2 DEF Order, Rest, GoodOrder
<1>5. Upto(Passed)'
  BY <1>3 DEF Upto
<1>6. pos' = EndOf(Len(raw.fields))' /\ pos' + Len(todo') + Extra(Left') <= MAX_LEN
  <2>1. EndOf(Len(raw.fields))' = 0
    BY <1>3 DEF EndOf
  <2>2. Len(todo') + Extra(Left') <= MAX_LEN /\ Len(todo') \in Nat
    BY <1>1, <1>2 DEF GoodOrder, Left
  <2>3. Extra(Left') \in Nat
    BY ExtraIsNat
  <2>4. QED
    BY <1>1, <2>1, <2>2, <2>3
<1>7. Counted'
  BY <1>4, <1>5, <1>6 DEF Counted
<1>8. LengthIsExact'
  BY <1>1 DEF LengthIsExact, EncodedOk
<1>9. QED
  BY <1>1, <1>3, <1>7, <1>8 DEF Layout

(* What the encoder has before it, and what it may take.                    *)
LEMMA AtField ==
  ASSUME IInv, Layout, at = "encode", todo # <<>>, NEW f, f = Head(todo)
  PROVE /\ msg \in Message /\ f \in Field /\ GoodOrder(Order) /\ raw.type = msg.kind
        /\ Passed + 1 \in 1..Len(Order) /\ f = Order[Passed + 1]
        /\ Rest(Tail(todo), Order) /\ Len(Order) - Len(Tail(todo)) = Passed + 1
        /\ pos \in Nat /\ Upto(Passed) /\ pos = EndOf(Len(raw.fields))
        /\ pos + Weight(f) + Len(Tail(todo)) + Extra({Tail(todo)[i] : i \in DOMAIN Tail(todo)}) <= MAX_LEN
        /\ f = "command_data" => Tail(todo) = <<>>
<1> DEFINE set == {Tail(todo)[i] : i \in DOMAIN Tail(todo)}
<1>1. msg \in Message /\ raw.type = msg.kind /\ Counted /\ pos \in Nat
  BY DEF Layout, IInv, RawIsOfMessage
<1>2. GoodOrder(Order)
  BY <1>1, OrdersAreGood, MessageAssumption DEF MessageType, Order
<1>3. Rest(todo, Order) /\ Order \in Seq(Field) /\ Distinct(Order) /\ Len(todo) \in Nat /\ Len(Order) \in Nat
  BY <1>1, <1>2 DEF Counted, GoodOrder, Rest
<1>4. /\ Passed + 1 \in 1..Len(Order) /\ f = Order[Passed + 1] /\ f \in Field
      /\ Rest(Tail(todo), Order) /\ Len(Tail(todo)) = Len(todo) - 1
      /\ Len(Order) - Len(Tail(todo)) = Passed + 1
      /\ Left = {f} \union set /\ f \notin set
  <2> DEFINE n == Len(Order) - Len(todo) + 1
  <2>1. Passed + 1 = n /\ todo # <<>>
    BY DEF Passed
  <2>2. /\ n \in 1..Len(Order) /\ Head(todo) = Order[n] /\ Head(todo) \in Field
        /\ Rest(Tail(todo), Order) /\ Len(Tail(todo)) = Len(todo) - 1
        /\ Len(Order) - Len(Tail(todo)) = n
        /\ {todo[i] : i \in DOMAIN todo} = {Head(todo)} \union set
        /\ Head(todo) \notin set
    BY ONLY <1>3, <2>1, RestStep
  <2> HIDE DEF n, set
  <2>3. QED
    BY <2>1, <2>2 DEF Left
<1>5. /\ pos = EndOf(Len(raw.fields)) /\ pos + Len(todo) + Extra(Left) <= MAX_LEN
  BY <1>1 DEF Counted, Counts
<1>6. Extra(Left) + 1 = Weight(f) + Extra(set) /\ Extra(Left) \in Nat /\ Extra(set) \in Nat
  BY <1>4, ExtraStep, ExtraIsNat
<1>7. Weight(f) \in Nat
  BY DEF Weight, UDL_MAX_8_BIT, COMMAND_DATA_MAX
<1>8. pos + Weight(f) + Len(Tail(todo)) + Extra(set) <= MAX_LEN
  <2> HIDE DEF set
  <2>1. Len(Tail(todo)) = Len(todo) - 1 /\ Len(todo) \in Nat
    BY <1>3, <1>4
  <2> DEFINE n == Len(todo)
             t == Len(Tail(todo))
             e == Extra(Left)
             g == Extra(set)
             w == Weight(f)
  <2>2. /\ t = n - 1 /\ n \in Nat /\ pos \in Nat /\ w \in Nat /\ e \in Nat /\ g \in Nat
        /\ e + 1 = w + g /\ pos + n + e <= MAX_LEN
    BY <1>1, <1>5, <1>6, <1>7, <2>1
  <2> HIDE DEF n, t, e, g, w
  <2>3. pos + w + t + g <= MAX_LEN
    BY <2>2 DEF MAX_LEN
  <2>4. QED
    BY <2>3 DEF t, g, w
<1>9. f = "command_data" => Tail(todo) = <<>>
  <2> SUFFICES ASSUME f = "command_data" PROVE Tail(todo) = <<>>
    OBVIOUS
  <2>1. Passed + 1 = Len(Order)
    BY <1>2, <1>4 DEF GoodOrder
  <2>2. Len(Tail(todo)) = 0 /\ Tail(todo) \in Seq(Field)
    <3>1. Len(Tail(todo)) = 0
      BY <1>3, <1>4, <2>1 DEF Passed
    <3>2. Rest(Tail(todo), Order)
      BY <1>4
    <3>3. Tail(todo) \in Seq(Field)
      BY <3>2 DEF Rest
    <3>4. QED
      BY <3>1, <3>3
  <2>3. \A s \in Seq(Field) : Len(s) = 0 => s = <<>>
    OBVIOUS
  <2>4. QED
    BY <2>2, <2>3, Zenon
<1>10. QED
  BY <1>1, <1>2, <1>4, <1>5, <1>8, <1>9 DEF Counted

(* A step over a field that adds nothing.                                   *)
LEMMA LayoutSkip ==
  ASSUME IInv, Layout, at = "encode", todo # <<>>, todo' = Tail(todo),
         UNCHANGED <<at, msg, pos>>, raw'.fields = raw.fields, raw'.type = raw.type
  PROVE Layout'
<1>1. /\ msg \in Message /\ raw.type = msg.kind
      /\ Passed + 1 \in 1..Len(Order)
      /\ Rest(Tail(todo), Order) /\ Len(Order) - Len(Tail(todo)) = Passed + 1
      /\ pos \in Nat /\ Upto(Passed) /\ pos = EndOf(Len(raw.fields))
      /\ pos + Weight(Head(todo)) + Len(Tail(todo)) + Extra({Tail(todo)[i] : i \in DOMAIN Tail(todo)}) <= MAX_LEN
  BY AtField
<1>2. Order' = Order /\ Passed' = Passed + 1 /\ EndOf(Len(raw.fields))' = EndOf(Len(raw.fields))
  BY <1>1 DEF Order, Passed, EndOf
<1>3. Laid => Laid'
  BY DEF Laid, Upto, Order, EndOf
<1>4. Upto(Passed)'
  <2>1. Passed \in Nat /\ 1..Passed \subseteq 1..Passed + 1
    <3> DEFINE p == Passed
    <3>1. p + 1 \in 1..Len(Order) /\ p = Len(Order) - Len(todo)
      BY <1>1 DEF Passed
    <3>2. Rest(todo, Order)
      BY <1>1 DEF Layout, Counted
    <3>3. Len(Order) \in Nat /\ Len(todo) \in Nat
      BY <3>2 DEF Rest
    <3>4. p \in Int
      BY <3>1, <3>3
    <3> HIDE DEF p
    <3>5. p \in Nat /\ 1..p \subseteq 1..p + 1
      BY <3>1, <3>4
    <3>6. QED
      BY <3>5 DEF p
  <2>2. Upto(Passed + 1)
    BY <1>1, <2>1, Zenon DEF Upto
  <2>3. QED
    BY <1>2, <2>2, Zenon DEF Upto, Order
<1>5. pos' + Len(todo') + Extra(Left') <= MAX_LEN
  <2> DEFINE set == {Tail(todo)[i] : i \in DOMAIN Tail(todo)}
             w == Weight(Head(todo))
             t == Len(Tail(todo))
             g == Extra(set)
  <2>1. w \in Nat /\ g \in Nat
    BY ExtraIsNat DEF Weight, UDL_MAX_8_BIT, COMMAND_DATA_MAX
  <2>2. t \in Nat
    BY <1>1 DEF Rest
  <2>3. Left' = set
    BY DEF Left
  <2>4. pos + w + t + g <= MAX_LEN /\ pos \in Nat
    BY <1>1
  <2> HIDE DEF w, t, g
  <2>5. pos + t + g <= MAX_LEN
    BY <2>1, <2>2, <2>4 DEF MAX_LEN
  <2>6. QED
    BY <2>3, <2>5 DEF t, g
<1>6. Counted'
  BY <1>1, <1>2, <1>4, <1>5 DEF Counted
<1>7. QED
  BY <1>1, <1>3, <1>6 DEF Layout, LengthIsExact, EncodedOk

(* A field is written where the one before it ends.                         *)
LEMMA LayoutAppend ==
  ASSUME Layout, raw.fields \in Seq(FieldsOf(msg)), msg' = msg,
         NEW n, n = Passed + 1, n \in 1..Len(Order), Upto(n - 1), Distinct(Order),
         NEW x, raw'.fields = Append(raw.fields, x), x.field = Order[n],
         x.start = EndOf(Len(raw.fields)), x.start \in Nat, x.octets \in 1..Weight(x.field),
         x.start + x.octets <= MAX_LEN
  PROVE /\ Laid' /\ Upto(n)'
        /\ EndOf(Len(raw.fields))' = x.start + x.octets
<1> DEFINE l == Len(raw.fields)
           F == raw.fields
           G == raw'.fields
<1>1. /\ l \in Nat /\ Len(G) = l + 1 /\ DOMAIN F = 1..l /\ DOMAIN G = 1..l + 1
      /\ G[l + 1] = x /\ \A k \in 1..l : G[k] = F[k]
  OBVIOUS
<1>2. Order' = Order
  BY DEF Order
<1>3. l > 0 => Laid
  <2>1. l > 0 => F # <<>>
    OBVIOUS
  <2>2. QED
    BY <2>1 DEF Layout
<1> HIDE DEF F, G, l
<1> DEFINE E(k) == IF k = 0 THEN 0 ELSE F[k].start + F[k].octets
           H(k) == IF k = 0 THEN 0 ELSE G[k].start + G[k].octets
<1>4. /\ \A k \in 0..l : H(k) = E(k)
      /\ H(l + 1) = x.start + x.octets
      /\ \A k : EndOf(k) = E(k)
      /\ EndOf(Len(raw.fields)) = E(l)
      /\ EndOf(Len(raw.fields))' = H(l + 1)
  <2>1. \A k \in 0..l : H(k) = E(k)
    <3>1. ASSUME NEW k \in 0..l, k # 0 PROVE k \in 1..l
      BY <1>1, <3>1
    <3>2. QED
      BY <1>1, <3>1, Zenon
  <2>2. l + 1 # 0
    BY <1>1
  <2>3. H(l + 1) = x.start + x.octets
    BY <1>1, <2>2, Zenon
  <2>4. \A k : EndOf(k) = E(k)
    BY Zenon DEF EndOf, F
  <2>5. EndOf(Len(raw.fields))' = H(l + 1)
    BY <1>1, Zenon DEF EndOf, G
  <2>6. QED
    BY <2>1, <2>3, <2>4, <2>5, Zenon DEF l, F
<1> HIDE DEF E, H
<1>6. ASSUME NEW k \in 1..l + 1
      PROVE /\ G[k].start = H(k - 1)
            /\ G[k].octets \in 1..Weight(G[k].field)
            /\ H(k) <= MAX_LEN
  <2>1. CASE k = l + 1
    <3>1. H(l) = x.start
      BY <1>1, <1>4
    <3>2. k - 1 = l
      BY <1>1, <2>1
    <3>3. QED
      BY <1>1, <1>4, <2>1, <3>1, <3>2
  <2>2. CASE k \in 1..l
    <3>1. Laid
      BY <1>1, <1>3, <2>2
    <3>2. k - 1 \in 0..l /\ k \in 0..l /\ k \in DOMAIN raw.fields
      BY <1>1, <2>2 DEF F
    <3>3. F[k].start = E(k - 1) /\ F[k].octets \in 1..Weight(F[k].field) /\ E(k) <= MAX_LEN
      BY <1>4, <3>1, <3>2, Zenon DEF Laid, F
    <3>4. G[k] = F[k] /\ H(k - 1) = E(k - 1) /\ H(k) = E(k)
      BY <1>1, <1>4, <2>2, <3>2, Zenon
    <3>5. QED
      BY <3>3, <3>4
  <2>3. QED
    BY <1>1, <2>1, <2>2
<1>7. ASSUME NEW k \in 1..l + 1 PROVE \E i \in 1..n : G[k].field = Order[i]
  <2>1. CASE k = l + 1
    BY <1>1, <2>1
  <2>2. CASE k \in 1..l
    <3>1. PICK i \in 1..n - 1 : F[k].field = Order[i]
      BY <1>1, <2>2 DEF Upto, F
    <3>2. i \in 1..n
      OBVIOUS
    <3>3. QED
      BY <1>1, <2>2, <3>1, <3>2
  <2>3. QED
    BY <1>1, <2>1, <2>2
<1>8. ASSUME NEW j \in 1..l + 1, NEW k \in 1..l + 1, NEW a \in 1..Len(Order), NEW b \in 1..Len(Order),
             j < k, G[j].field = Order[a], G[k].field = Order[b]
      PROVE a < b
  <2>1. j \in 1..l
    BY <1>1, <1>8
  <2>2. CASE k = l + 1
    <3>1. b = n
      BY <1>1, <1>8, <2>2 DEF Distinct
    <3>2. PICK i \in 1..n - 1 : F[j].field = Order[i]
      BY <1>1, <2>1 DEF Upto, F
    <3>3. i \in 1..Len(Order) /\ Order[i] = Order[a]
      BY <1>1, <1>8, <2>1, <3>2
    <3>4. i = a
      BY <3>3 DEF Distinct
    <3>5. QED
      BY <3>1, <3>4
  <2>3. CASE k \in 1..l
    <3>1. Laid
      BY <1>1, <1>3, <2>3
    <3>2. F[j].field = Order[a] /\ F[k].field = Order[b] /\ j \in DOMAIN raw.fields /\ k \in DOMAIN raw.fields
      BY <1>1, <1>8, <2>1, <2>3 DEF F
    <3>3. QED
      BY <1>8, <3>1, <3>2 DEF Laid, F
  <2>4. QED
    BY <1>1, <2>2, <2>3
<1>9. Upto(n)'
  BY <1>1, <1>2, <1>7 DEF Upto, G
<1>10. Upto(Len(Order))'
  <2>1. \A k \in 1..l + 1 : \E i \in 1..Len(Order) : G[k].field = Order[i]
    BY <1>7
  <2>2. QED
    BY <1>1, <1>2, <2>1 DEF Upto, G
<1>11. ASSUME NEW k \in DOMAIN G
       PROVE /\ G[k].start = EndOf(k - 1)'
             /\ G[k].octets \in 1..Weight(G[k].field)
             /\ EndOf(k)' <= MAX_LEN
  <2>1. EndOf(k - 1)' = H(k - 1) /\ EndOf(k)' = H(k)
    BY Zenon DEF EndOf, H, G
  <2>2. QED
    BY <1>1, <1>6, <2>1
<1>12. Laid'
  BY <1>1, <1>2, <1>8, <1>10, <1>11, Zenon DEF Laid, G
<1>13. QED
  BY <1>4, <1>9, <1>12

(* A field is written, or is a validity of no octets.                       *)
LEMMA LayoutEncodeField ==
  ASSUME IInv, Layout, EncodeField
  PROVE Layout'
<1>1. PICK f \in Field :
        /\ Encoding(f) /\ Written(f) /\ ~Refused(f) /\ ~TooLong(f)
        /\ raw' = [raw EXCEPT !.fields = WithField(@, f, msg)]
        /\ pos' = IF f = "command_data" THEN (pos + 1 + msg.command_data_len) % 256
                                        ELSE (pos + Encoded(f, msg)) % 256
        /\ todo' = Tail(todo) /\ UNCHANGED <<at, msg>>
  BY DEF EncodeField
<1>p. PICK n : n = Passed + 1
  OBVIOUS
<1> DEFINE w == Encoded(f, msg)
           set == {Tail(todo)[i] : i \in DOMAIN Tail(todo)}
<1>2. at = "encode" /\ todo # <<>> /\ f = Head(todo)
  BY <1>1 DEF Encoding
<1>3. /\ msg \in Message /\ f \in Field /\ GoodOrder(Order) /\ raw.type = msg.kind
      /\ n \in 1..Len(Order) /\ f = Order[n]
      /\ Rest(Tail(todo), Order) /\ Len(Order) - Len(Tail(todo)) = n
      /\ pos \in Nat /\ Upto(Passed) /\ pos = EndOf(Len(raw.fields))
      /\ pos + Weight(f) + Len(Tail(todo)) + Extra(set) <= MAX_LEN
      /\ f = "command_data" => Tail(todo) = <<>>
  BY <1>2, <1>p, AtField
<1>4. /\ raw.fields \in Seq(FieldsOf(msg)) /\ raw'.fields = WithField(raw.fields, f, msg)
      /\ raw'.type = raw.type
  BY <1>1 DEF IInv, RawIsOfMessage
<1>5. w \in Nat /\ w <= Weight(f) /\ msg.command_data_len \in 0..255
  <2>1. f = "ud" => msg.length <= UDL_MAX_8_BIT
    <3>1. msg.length \in 0..MAX_LEN
      BY <1>3, FieldIsSmall
    <3>2. ~TooLong(f)
      BY <1>1
    <3>3. QED
      BY <3>1, <3>2 DEF TooLong, UDL_MAX_8_BIT, MAX_LEN
  <2>2. QED
    BY <1>3, <2>1, FieldIsSmall
<1>6. /\ Len(Tail(todo)) \in Nat /\ Extra(set) \in Nat /\ Weight(f) \in Nat
      /\ pos + Weight(f) + Len(Tail(todo)) + Extra(set) <= 255
  <2>1. Len(Tail(todo)) \in Nat
    BY <1>3 DEF Rest
  <2>2. Weight(f) \in Nat
    BY DEF Weight, UDL_MAX_8_BIT, COMMAND_DATA_MAX
  <2>3. QED
    BY <1>3, <2>1, <2>2, ExtraIsNat DEF MAX_LEN
<1> DEFINE wf == Weight(f)
           t == Len(Tail(todo))
           g == Extra(set)
<1>7. pos + w + t + g <= 255 /\ (pos + w) % 256 = pos + w /\ pos + w <= 255
  <2>1. /\ pos \in Nat /\ w \in Nat /\ wf \in Nat /\ t \in Nat /\ g \in Nat /\ w <= wf
        /\ pos + wf + t + g <= 255
    BY <1>3, <1>5, <1>6
  <2> HIDE DEF w, wf, t, g
  <2>2. QED
    BY <2>1
<1> HIDE DEF w, wf, t, g
<1>8. CASE w = 0
  <2>1. f # "command_data"
    BY <1>1, <1>3, <1>8, FieldsHaveOctets DEF w
  <2>2. pos' = pos
    BY <1>1, <1>3, <1>7, <1>8, <2>1 DEF w
  <2>3. raw'.fields = raw.fields
    BY <1>4, <1>8 DEF WithField, w
  <2>4. QED
    BY <1>1, <1>2, <1>4, <2>2, <2>3, LayoutSkip
<1>9. CASE w # 0
  <2> DEFINE x == [field |-> f, start |-> pos, octets |-> w, contents |-> Contents(f, msg)]
  <2>1. /\ raw'.fields = Append(raw.fields, x) /\ x.field = Order[n]
        /\ x.field = f /\ x.start = pos /\ x.octets = w
    BY <1>3, <1>4, <1>9 DEF WithField, w
  <2> HIDE DEF x
  <2>2. x.octets \in 1..Weight(x.field) /\ x.start \in Nat /\ x.start + x.octets <= MAX_LEN
    BY <1>3, <1>5, <1>6, <1>7, <1>9, <2>1 DEF MAX_LEN, w
  <2>3. Upto(n - 1) /\ Distinct(Order)
    <3>1. n - 1 = Passed
      <4>1. Rest(todo, Order)
        BY <1>2 DEF Layout, Counted
      <4>2. Len(todo) \in Nat /\ Len(Order) \in Nat
        BY <4>1 DEF Rest
      <4>3. QED
        BY <1>p, <4>2 DEF Passed
    <3>2. QED
      BY <1>3, <3>1 DEF GoodOrder
  <2>4. n = Passed + 1 /\ x.start = EndOf(Len(raw.fields)) /\ msg' = msg
    BY <1>1, <1>3, <1>p, <2>1
  <2>5. Laid' /\ Upto(n)' /\ EndOf(Len(raw.fields))' = pos + w
    <3>1. Laid' /\ Upto(n)' /\ EndOf(Len(raw.fields))' = x.start + x.octets
      BY ONLY Layout, <1>3, <1>4, <2>1, <2>2, <2>3, <2>4, LayoutAppend
    <3>2. QED
      BY <2>1, <3>1
  <2>6. Order' = Order /\ Passed' = n /\ todo' = Tail(todo) /\ Left' = set
    BY <1>1, <1>3 DEF Order, Passed, Left
  <2>7. Upto(Passed)'
    BY <2>5, <2>6, Zenon DEF Upto, Order
  <2>8. ASSUME Counts' PROVE pos' = pos + w
    <3>1. CASE f # "command_data"
      BY <1>1, <1>7, <3>1 DEF w
    <3>2. CASE f = "command_data"
      <4>1. msg.command_data_len <= COMMAND_DATA_MAX
        BY <1>1, <1>3, <2>8, <3>2 DEF Counts
      <4>2. w = 1 + msg.command_data_len
        BY <1>5, <3>2, <4>1 DEF w, Encoded, CommandData, AtMost, COMMAND_DATA_MAX
      <4>3. pos' = (pos + 1 + msg.command_data_len) % 256
        BY <1>1, <3>2
      <4>4. pos + 1 + msg.command_data_len = pos + w
        <5> DEFINE c == msg.command_data_len
        <5>1. pos \in Nat /\ c \in 0..255 /\ w = 1 + c
          BY <1>3, <1>5, <4>2
        <5> HIDE DEF c
        <5>2. pos + 1 + c = pos + w
          BY <5>1
        <5>3. QED
          BY <5>2 DEF c
      <4>5. QED
        BY <1>7, <4>3, <4>4, Zenon
    <3>3. QED
      BY <3>1, <3>2
  <2>9. ASSUME Counts' PROVE pos' + Len(todo') + Extra(Left') <= MAX_LEN
    <3>1. pos' + t + g <= MAX_LEN
      BY <1>7, <2>8, <2>9 DEF MAX_LEN
    <3>2. QED
      BY <2>6, <3>1, Zenon DEF t, g
  <2>10. Counted'
    BY <1>3, <2>5, <2>6, <2>7, <2>8, <2>9 DEF Counted
  <2>11. at' = "encode" /\ msg' \in Message /\ raw'.type = msg'.kind
    BY <1>1, <1>2, <1>3, <1>4
  <2>12. QED
    BY <2>5, <2>10, <2>11 DEF Layout, LengthIsExact, EncodedOk
<1>10. QED
  BY <1>8, <1>9

(* Every step of sender and receiver.                                      *)
LEMMA LayoutNext ==
  ASSUME IInv, Layout, [Next]_vars
  PROVE Layout'
<1>1. ASSUME NEW m \in Message, CallEncode(m) PROVE Layout'
  BY <1>1, LayoutCall
<1>2. CASE EncodeField
  BY <1>2, LayoutEncodeField
<1>3. CASE EncodeNothing \/ ExceedCapacity
  <2>1. /\ at = "encode" /\ todo # <<>> /\ todo' = Tail(todo) /\ UNCHANGED <<at, msg, pos>>
        /\ raw' = raw
    BY <1>3 DEF EncodeNothing, ExceedCapacity, Encoding, caller
  <2>2. QED
    BY <2>1, LayoutSkip
<1>4. CASE RefuseField
  <2>1. /\ at = "encode" /\ at' = "encoded" /\ status' # "OK" /\ UNCHANGED <<msg, raw>>
    BY <1>4 DEF RefuseField, Encoding, caller
  <2>2. Laid => Laid'
    BY <2>1 DEF Laid, Upto, Order, EndOf
  <2>3. QED
    BY <2>1, <2>2 DEF Layout, LengthIsExact, EncodedOk
<1>5. CASE ReturnEncoded
  <2>1. /\ at = "encode" /\ at' = "encoded" /\ todo = <<>> /\ UNCHANGED <<status, msg>>
        /\ raw' = [raw EXCEPT !.len = pos]
    BY <1>5 DEF ReturnEncoded
  <2>2. raw'.fields = raw.fields /\ raw'.type = raw.type /\ raw'.len = pos
    BY <2>1 DEF IInv, RawIsOfMessage
  <2>3. Laid => Laid'
    BY <2>1, <2>2 DEF Laid, Upto, Order, EndOf
  <2>4. msg \in Message /\ raw.type = msg.kind /\ Counted
    BY <2>1 DEF Layout
  <2>5. \A k : EndOf(k)' = EndOf(k)
    BY <2>2 DEF EndOf
  <2>6. \A k \in DOMAIN raw.fields : raw.fields[k].start = EndOf(k - 1)
    BY DEF Layout, Laid
  <2>7. msg.command_data_len <= COMMAND_DATA_MAX => pos = EndOf(Len(raw.fields))
    BY <2>4 DEF Counted, Counts
  <2>8. LengthIsExact'
    <3>1. \A k \in DOMAIN raw'.fields : raw'.fields[k].start = EndOf(k - 1)'
      BY <2>2, <2>6 DEF EndOf
    <3>2. EndOf(Len(raw.fields))' = EndOf(Len(raw.fields))
      BY <2>2 DEF EndOf
    <3>3. QED
      BY <2>1, <2>2, <2>7, <3>1, <3>2 DEF LengthIsExact
  <2>9. QED
    BY <2>1, <2>2, <2>3, <2>4, <2>8 DEF Layout
<1>6. CASE GiveUp \/ Decode
  <2>1. /\ UNCHANGED <<msg, raw>> /\ at' \notin {"encode", "encoded"}
        /\ at' = "idle" \/ at # "idle"
    BY <1>6 DEF GiveUp, Decode, Forget, CallDecode, CallDecodeDeliver, StartDecode, DecodeField,
                DecodeNothing, RejectField, Misread, ReturnDecoded, Done, Decoding, caller
  <2>2. QED
    BY <2>1, LayoutStays
<1>7. CASE UNCHANGED vars
  <2>1. UNCHANGED <<at, todo, pos, status, msg, raw>>
    BY <1>7 DEF vars, caller
  <2>2. Laid => Laid'
    BY <2>1 DEF Laid, Upto, Order, EndOf
  <2>3. Counted => Counted'
    BY <2>1 DEF Counted, Counts, Upto, Passed, Order, EndOf, Left
  <2>4. LengthIsExact => LengthIsExact'
    BY <2>1 DEF LengthIsExact, EncodedOk, EndOf
  <2>5. QED
    BY <2>1, <2>2, <2>3, <2>4 DEF Layout
<1>8. QED
  BY <1>1, <1>2, <1>3, <1>4, <1>5, <1>6, <1>7 DEF Next, Encode

LEMMA LayoutIsInvariant == Spec => []Layout
<1>1. QED
  BY InvIsInvariant, LayoutInit, LayoutNext, PTL DEF Spec

(* Whatever is encoded, and whatever was encoded before: the fields are one *)
(* behind the other, and the length returned with WMS_OK is where the last  *)
(* of them ends, if the command's data fit their array.  Without the bound  *)
(* on the user data the count of a uint8 would wrap.                        *)
THEOREM LengthsAreExact == Spec => []LengthIsExact
<1>1. Layout => LengthIsExact
  BY DEF Layout
<1>2. QED
  BY LayoutIsInvariant, <1>1, PTL

-----------------------------------------------------------------------------
(* ---- what is read ------------------------------------------------------*)
(* The receiver is behind the first j fields of the array, which are those  *)
(* of the fields it passed that were written, and has read them.            *)
Behind(j) ==
  /\ j \in 0..Len(raw.fields) /\ pos = EndOf(j)
  /\ DOMAIN got = {raw.fields[k].field : k \in 1..j}
  /\ \A k \in 1..j : \E a \in 1..Passed : raw.fields[k].field = Order[a]
  /\ \A k \in j + 1..Len(raw.fields), a \in 1..Len(Order) :
       raw.fields[k].field = Order[a] => a > Passed

InStep ==
  at \in {"decode", "decoded", "garbled"} /\ kind = raw.type /\ Sendable =>
    /\ Sent = Due /\ at # "garbled" /\ status = "OK"
    /\ at = "decode" => Rest(todo, Order) /\ \E j \in 0..Len(raw.fields) : Behind(j)
    /\ at = "decoded" => DOMAIN got = Sent

(* A TP-DELIVER's protocol identifier is read before its coding scheme.     *)
ToPid == <<"pid", "dcs", "timestamp", "ud">>
FromDcs == <<"dcs", "timestamp", "ud">>
PidFirst ==
  \/ todo \in {DecodeDeliver, Tail(DecodeDeliver), ToPid}
  \/ "pid" \in DOMAIN got /\ todo \in {FromDcs, Tail(FromDcs), Tail(Tail(FromDcs)), <<>>}

(* The scheme that is made of the sender's octet, into a structure that     *)
(* holds the indication before.                                             *)
SchemeGot(before) ==
  LET s == DecodeDcs(EncodeDcs(msg.dcs), before)
  IN IF kind = "deliver" /\ msg.pid = RETURN_CALL /\ s.indication[2] # VOICEMAIL
       THEN AnnounceVoicemail(s) ELSE s

(* What is read of a message is what it says, whichever decoder reads it.   *)
Faithful ==
  at \in {"decode", "decoded", "garbled"} =>
    /\ "address" \in DOMAIN got => got.address = msg.address
    /\ "pid" \in DOMAIN got => got.pid = msg.pid
    /\ "dcs" \in DOMAIN got => \E before \in Indication : got.dcs = SchemeGot(before)
    /\ at = "decode" /\ kind = "deliver" => PidFirst

LEMMA InStepInit == Init => InStep /\ Faithful
BY DEF Init, InStep, Faithful

(* The contents of a field are those of the message, and a field that is    *)
(* there has octets.                                                        *)
LEMMA FieldIsOfMessage ==
  ASSUME IInv, Layout, NEW k \in DOMAIN raw.fields, NEW f, f = raw.fields[k].field
  PROVE /\ f \in Field /\ raw.fields[k].contents = Contents(f, msg)
        /\ raw.fields[k].octets = Encoded(f, msg) /\ Encoded(f, msg) \in 1..Weight(f)
        /\ msg \in Message /\ Laid
        /\ raw.fields[k].start \in Nat
        /\ raw.fields[k].start + Encoded(f, msg) <= MAX_LEN
<1>1. raw.fields \in Seq(FieldsOf(msg))
  BY DEF IInv, RawIsOfMessage
<1>2. PICK g \in Field, p \in Nat :
        raw.fields[k] = [field |-> g, start |-> p, octets |-> Encoded(g, msg),
                         contents |-> Contents(g, msg)]
  <2>1. raw.fields[k] \in FieldsOf(msg)
    BY <1>1
  <2>2. QED
    BY <2>1, FieldOfIsAt DEF FieldAt
<1>3. f = g
  BY <1>2
<1>4. Laid /\ msg \in Message
  <2>1. raw.fields # <<>>
    BY <1>1
  <2>2. QED
    BY <2>1 DEF Layout
<1>5. EndOf(k) = raw.fields[k].start + raw.fields[k].octets
  <2>1. k # 0
    BY <1>1
  <2>2. QED
    BY <2>1 DEF EndOf
<1>6. EndOf(k) <= MAX_LEN /\ raw.fields[k].octets \in 1..Weight(f)
  BY <1>4 DEF Laid
<1>7. QED
  BY <1>2, <1>3, <1>4, <1>5, <1>6

(* What the decoder makes of the field that begins where it is.             *)
LEMMA FieldIsRead ==
  ASSUME IInv, Layout, NEW f \in Field, Here(f)
  PROVE /\ f = "address" => /\ Decoded(f) # 0 => Value(f) = msg.address
                            /\ Sendable => Decoded(f) # 0
        /\ f = "pid" => Value(f) = msg.pid
        /\ f = "dcs" => Value(f) = SchemeRead(EncodeDcs(msg.dcs))
        /\ Decoded(f) # 0 => Decoded(f) = IF f \in {"timestamp", "discharge_time"} THEN 7 ELSE
                                          IF f = "validity" THEN DecodedValidity(msg)
                                                            ELSE Encoded(f, msg)
        /\ f # "address" /\ f # "validity" => Decoded(f) # 0
        /\ Encoded(f, msg) \in 1..Weight(f) /\ pos \in Nat /\ pos + Encoded(f, msg) <= MAX_LEN
<1> DEFINE k == CHOOSE i \in DOMAIN raw.fields : IsAt(i, f)
<1>1. k \in DOMAIN raw.fields /\ IsAt(k, f)
  BY DEF Here
<1>2. Found(f) = raw.fields[k].contents
  BY DEF Found
<1> HIDE DEF k
<1>3. raw.fields[k].field = f /\ raw.fields[k].start = pos
  BY <1>1 DEF IsAt
<1>4. /\ Found(f) = Contents(f, msg) /\ Encoded(f, msg) \in 1..Weight(f) /\ msg \in Message
      /\ pos \in Nat /\ pos + Encoded(f, msg) <= MAX_LEN
  BY <1>1, <1>2, <1>3, FieldIsOfMessage
<1>5. msg \in MessageType /\ WellTyped(msg.address)
  BY <1>4, MessageAssumption
<1>6. CASE f = "address"
  <2> DEFINE d == EncodeAddress(msg.address)
  <2>1. Found(f) = d /\ Encoded(f, msg) = Len(d) /\ msg.address \in AddressType
    BY <1>4, <1>5, <1>6 DEF Contents, Encoded, MessageType
  <2>2. Encoded(f, msg) # 0
    BY <1>4
  <2>3. /\ Sendable => AddressAccepted(d)
        /\ AddressAccepted(d) => AddressOctets(d) = Len(d) /\ DecodeAddress(d) = msg.address
    BY <1>5, <2>1, <2>2, AddressIsKept DEF Sendable
  <2> HIDE DEF d
  <2>4. /\ Decoded(f) = IF AddressAccepted(d) THEN AddressOctets(d) ELSE 0
        /\ Value(f) = DecodeAddress(d)
    BY <1>6, <2>1 DEF Decoded, Value
  <2>5. QED
    BY <1>4, <1>6, <2>1, <2>2, <2>3, <2>4, Zenon
<1>7. CASE f = "dcs"
  <2>1. Found(f) = <<EncodeDcs(msg.dcs)>>
    BY <1>4, <1>7 DEF Contents
  <2>2. QED
    BY <1>4, <1>7, <2>1 DEF Decoded, Value, Encoded
<1>8. CASE f = "pid"
  <2>1. Found(f) = <<msg.pid>>
    BY <1>4, <1>8 DEF Contents
  <2>2. QED
    BY <1>4, <1>8, <2>1 DEF Decoded, Value, Encoded
<1>9. CASE f \notin {"address", "dcs", "pid"}
  <2>1. Decoded(f) # 0 => Decoded(f) = IF f \in {"timestamp", "discharge_time"} THEN 7 ELSE
                                      IF f = "validity" THEN DecodedValidity(msg)
                                                        ELSE Encoded(f, msg)
    BY <1>9 DEF Decoded, Encoded
  <2>2. f # "validity" => Decoded(f) # 0
    BY <1>4, <1>9 DEF Decoded, Encoded
  <2>3. QED
    BY <1>4, <1>9, <2>1, <2>2
<1>10. QED
  BY <1>6, <1>7, <1>8, <1>9

(* The field before the decoder.                                            *)
LEMMA NextField ==
  ASSUME msg \in Message, Rest(todo, Order), todo # <<>>, NEW n, n = Passed + 1
  PROVE /\ GoodOrder(Order) /\ n \in 1..Len(Order) /\ Passed \in Nat
        /\ Head(todo) = Order[n] /\ Head(todo) \in Field /\ Head(todo) \in Whole
        /\ Rest(Tail(todo), Order) /\ Len(Order) - Len(Tail(todo)) = n
<1>1. GoodOrder(Order)
  BY OrdersAreGood, MessageAssumption DEF MessageType, Order
<1>2. Order \in Seq(Field) /\ Distinct(Order) /\ Len(Order) \in Nat /\ Len(todo) \in Nat
  BY <1>1 DEF GoodOrder, Rest
<1>3. n = Len(Order) - Len(todo) + 1
  BY DEF Passed
<1>4. /\ n \in 1..Len(Order) /\ Head(todo) = Order[n] /\ Head(todo) \in Field
      /\ Rest(Tail(todo), Order) /\ Len(Order) - Len(Tail(todo)) = n
  BY ONLY Rest(todo, Order), todo # <<>>, <1>2, <1>3, RestStep
<1>5. Passed \in Nat
  <2> DEFINE l == Len(Order)
             t == Len(todo)
  <2>1. Passed = l - t /\ l - t + 1 \in 1..l /\ l \in Nat /\ t \in Nat
    BY <1>2, <1>3, <1>4 DEF Passed
  <2> HIDE DEF l, t
  <2>2. QED
    BY <2>1
<1>6. Head(todo) \in Whole
  BY <1>4 DEF Whole, Order
<1>7. QED
  BY <1>1, <1>4, <1>5, <1>6

(* Where it is: the one behind those that were read, if it was written.     *)
LEMMA PlaceOfField ==
  ASSUME IInv, Layout, msg \in Message, Rest(todo, Order), todo # <<>>,
         NEW f, f = Head(todo), NEW j, Behind(j), f \in Sent
  PROVE j + 1 \in DOMAIN raw.fields /\ raw.fields[j + 1].field = f /\ Here(f)
<1>1. PICK n : n = Passed + 1
  OBVIOUS
<1>2. /\ GoodOrder(Order) /\ n \in 1..Len(Order) /\ Passed \in Nat
      /\ f = Order[n] /\ f \in Field
  BY <1>1, NextField
<1>3. raw.fields \in Seq(FieldsOf(msg))
  BY DEF IInv, RawIsOfMessage
<1> DEFINE l == Len(raw.fields)
           F == raw.fields
<1>4. l \in Nat /\ DOMAIN F = 1..l
  BY <1>3
<1>5. PICK k \in 1..l : F[k].field = f
  BY DEF Sent
<1>6. /\ j \in 0..l /\ pos = EndOf(j)
      /\ \A i \in 1..j : \E a \in 1..Passed : F[i].field = Order[a]
      /\ \A i \in j + 1..l, a \in 1..Len(Order) : F[i].field = Order[a] => a > Passed
  BY DEF Behind
<1> HIDE DEF l, F
<1>7. k \in DOMAIN F /\ Laid
  <2>1. k \in DOMAIN F
    BY <1>4, <1>5
  <2>2. QED
    BY <2>1, FieldIsOfMessage DEF F
<1>8. k \notin 1..j
  <2> SUFFICES ASSUME k \in 1..j PROVE FALSE
    OBVIOUS
  <2>1. PICK a \in 1..Passed : F[k].field = Order[a]
    BY <1>6
  <2>2. a \in 1..Len(Order) /\ a < n /\ Order[a] = Order[n]
    BY <1>1, <1>2, <1>5, <2>1
  <2>3. a = n
    BY <1>2, <2>2 DEF GoodOrder, Distinct
  <2>4. QED
    BY <2>2, <2>3
<1>9. k = j + 1
  <2> SUFFICES ASSUME k # j + 1 PROVE FALSE
    OBVIOUS
  <2>1. j + 1 \in 1..l /\ j + 1 < k /\ j + 1 \in j + 1..l
    BY <1>4, <1>5, <1>6, <1>8
  <2>2. PICK b \in 1..Len(Order) : F[j + 1].field = Order[b]
    BY <1>4, <1>7, <2>1 DEF Laid, Upto, F
  <2>3. b > Passed
    BY <1>6, <2>1, <2>2
  <2>4. b < n
    BY <1>2, <1>4, <1>5, <1>7, <2>1, <2>2 DEF Laid, F
  <2>5. QED
    BY <1>1, <1>2, <2>3, <2>4
<1>10. F[k].start = pos
  <2>1. F[k].start = EndOf(k - 1)
    BY <1>7 DEF Laid, F
  <2>2. k - 1 = j
    BY <1>6, <1>9
  <2>3. QED
    BY <1>6, <2>1, <2>2
<1>11. Here(f)
  BY <1>5, <1>7, <1>10 DEF Here, IsAt, F
<1>12. QED
  BY <1>5, <1>7, <1>9, <1>11 DEF F

(* The decoder passes a field that was not written.                         *)
LEMMA BehindSkip ==
  ASSUME IInv, Layout, msg \in Message, Rest(todo, Order), todo # <<>>,
         NEW j, Behind(j), Head(todo) \notin Sent,
         todo' = Tail(todo), UNCHANGED <<pos, msg, raw, got>>
  PROVE Rest(todo, Order)' /\ Behind(j)'
<1>1. PICK n : n = Passed + 1
  OBVIOUS
<1>2. /\ GoodOrder(Order) /\ n \in 1..Len(Order) /\ Passed \in Nat
      /\ Head(todo) = Order[n]
      /\ Rest(Tail(todo), Order) /\ Len(Order) - Len(Tail(todo)) = n
  BY <1>1, NextField
<1>3. Order' = Order /\ Passed' = n /\ EndOf(j)' = EndOf(j)
  BY <1>2 DEF Order, Passed, EndOf
<1>4. Rest(todo, Order)'
  BY <1>2, <1>3
<1>5. raw.fields \in Seq(FieldsOf(msg))
  BY DEF IInv, RawIsOfMessage
<1> DEFINE l == Len(raw.fields)
           F == raw.fields
<1>6. /\ j \in 0..l /\ pos = EndOf(j)
      /\ DOMAIN got = {F[k].field : k \in 1..j}
      /\ \A i \in 1..j : \E a \in 1..Passed : F[i].field = Order[a]
      /\ \A i \in j + 1..l, a \in 1..Len(Order) : F[i].field = Order[a] => a > Passed
      /\ \A i \in 1..l : F[i].field # Order[n]
  BY <1>2 DEF Behind, Sent
<1>7. l \in Nat
  BY <1>5
<1> HIDE DEF l, F
<1>8. ASSUME NEW i \in 1..j PROVE \E a \in 1..n : F[i].field = Order[a]
  <2>1. PICK a \in 1..Passed : F[i].field = Order[a]
    BY <1>6
  <2>2. a \in 1..n
    BY <1>1, <1>2
  <2>3. QED
    BY <2>1, <2>2
<1>9. ASSUME NEW i \in j + 1..l, NEW a \in 1..Len(Order), F[i].field = Order[a] PROVE a > n
  <2>1. i \in 1..l
    BY <1>6
  <2>2. a # n
    BY <1>6, <1>9, <2>1
  <2>3. a > Passed
    BY <1>6, <1>9
  <2>4. QED
    BY <1>1, <1>2, <2>2, <2>3
<1>10. Behind(j)'
  <2>1. raw' = raw /\ pos' = pos /\ got' = got
    OBVIOUS
  <2>2. QED
    <3>1. j \in 0..Len(raw'.fields) /\ pos' = EndOf(j)'
      BY <1>3, <1>6, <2>1, Zenon DEF l
    <3>2. DOMAIN got' = {raw'.fields[k].field : k \in 1..j}
      <4>1. DOMAIN got' = DOMAIN got /\ raw'.fields = F
        BY <2>1 DEF F
      <4>2. DOMAIN got = {F[k].field : k \in 1..j}
        BY <1>6
      <4>3. QED
        BY <4>1, <4>2
    <3>3. \A i \in 1..j : \E a \in 1..Passed' : raw'.fields[i].field = Order'[a]
      BY <1>3, <1>8, <2>1, Zenon DEF F
    <3>4. \A i \in j + 1..Len(raw'.fields), a \in 1..Len(Order') :
            raw'.fields[i].field = Order'[a] => a > Passed'
      BY <1>3, <1>9, <2>1, Zenon DEF F, l
    <3>5. QED
      BY <3>1, <3>2, <3>3, <3>4 DEF Behind
<1>11. QED
  BY <1>4, <1>10

(* The decoder reads one that was.                                          *)
LEMMA BehindRead ==
  ASSUME IInv, Layout, msg \in Message, Rest(todo, Order), todo # <<>>,
         NEW f, f = Head(todo), NEW j, Behind(j), f \in Sent,
         todo' = Tail(todo), UNCHANGED <<msg, raw>>,
         DOMAIN got' = DOMAIN got \union {f}, pos' = pos + Encoded(f, msg)
  PROVE Rest(todo, Order)' /\ j + 1 \in 0..Len(raw.fields) /\ Behind(j + 1)'
<1>1. PICK n : n = Passed + 1
  OBVIOUS
<1>2. /\ GoodOrder(Order) /\ n \in 1..Len(Order) /\ Passed \in Nat /\ f = Order[n]
      /\ Rest(Tail(todo), Order) /\ Len(Order) - Len(Tail(todo)) = n
  BY <1>1, NextField
<1>3. PICK m : m = j + 1
  OBVIOUS
<1>4. Order' = Order /\ Passed' = n
  BY <1>2 DEF Order, Passed
<1>5. Rest(todo, Order)'
  BY <1>2, <1>4
<1>6. m \in DOMAIN raw.fields /\ raw.fields[m].field = f
  BY <1>3, PlaceOfField
<1>7. raw.fields \in Seq(FieldsOf(msg))
  BY DEF IInv, RawIsOfMessage
<1> DEFINE l == Len(raw.fields)
           F == raw.fields
<1>8. /\ j \in 0..l /\ pos = EndOf(j)
      /\ DOMAIN got = {F[k].field : k \in 1..j}
      /\ \A i \in 1..j : \E a \in 1..Passed : F[i].field = Order[a]
      /\ \A i \in j + 1..l, a \in 1..Len(Order) : F[i].field = Order[a] => a > Passed
  BY DEF Behind
<1>9. l \in Nat /\ DOMAIN F = 1..l
  BY <1>7
<1>10. /\ Laid /\ F[m].octets = Encoded(f, msg) /\ F[m].start \in Nat
       /\ Encoded(f, msg) \in Nat
  <2>1. /\ Laid /\ raw.fields[m].octets = Encoded(f, msg) /\ raw.fields[m].start \in Nat
        /\ Encoded(f, msg) \in 1..Weight(f)
    BY <1>6, FieldIsOfMessage
  <2>2. QED
    BY <2>1
<1>11. pos' = EndOf(m)
  <2>1. F[m].start = EndOf(m - 1) /\ m - 1 = j /\ m # 0
    BY <1>3, <1>6, <1>8, <1>10 DEF Laid
  <2>2. QED
    BY <1>8, <1>10, <2>1 DEF EndOf
<1>12. EndOf(m)' = EndOf(m)
  BY DEF EndOf
<1> HIDE DEF l, F
<1>13. m \in 1..l /\ m \in 0..l /\ F[m].field = f
  BY <1>6, <1>9 DEF F
<1>14. DOMAIN got' = {F[k].field : k \in 1..m}
  <2>1. 1..m = 1..j \union {m}
    BY <1>3, <1>8
  <2>2. QED
    <3> DEFINE A == {F[k].field : k \in 1..j}
               B == {F[k].field : k \in 1..m}
    <3>1. A \union {f} \subseteq B
      BY <1>13, <2>1, Zenon
    <3>2. B \subseteq A \union {f}
      BY <1>13, <2>1, Zenon
    <3>3. DOMAIN got' = A \union {f}
      BY <1>8, Zenon
    <3> HIDE DEF A, B
    <3>4. DOMAIN got' = B
      BY <3>1, <3>2, <3>3
    <3>5. QED
      BY <3>4 DEF B
<1>15. ASSUME NEW i \in 1..m PROVE \E a \in 1..n : F[i].field = Order[a]
  <2>1. CASE i = m
    BY <1>2, <1>13, <2>1
  <2>2. CASE i \in 1..j
    <3>1. PICK a \in 1..Passed : F[i].field = Order[a]
      BY <1>8, <2>2
    <3>2. a \in 1..n
      BY <1>1, <1>2
    <3>3. QED
      BY <3>1, <3>2
  <2>3. QED
    BY <1>3, <1>8, <2>1, <2>2
<1>16. ASSUME NEW i \in m + 1..l, NEW a \in 1..Len(Order), F[i].field = Order[a] PROVE a > n
  <2>1. i \in j + 1..l /\ m < i /\ i \in DOMAIN F /\ m \in DOMAIN F
    BY <1>3, <1>8, <1>9, <1>13
  <2>2. F[m].field = Order[n]
    BY <1>2, <1>13
  <2>3. QED
    BY <1>2, <1>10, <1>16, <2>1, <2>2 DEF Laid, F
<1>17. Behind(m)'
  <2>1. raw' = raw
    OBVIOUS
  <2>2. QED
    <3>1. m \in 0..Len(raw'.fields) /\ pos' = EndOf(m)'
      BY <1>11, <1>12, <1>13, <2>1, Zenon DEF l
    <3>2. DOMAIN got' = {raw'.fields[k].field : k \in 1..m}
      BY <1>14, <2>1, Zenon DEF F
    <3>3. \A i \in 1..m : \E a \in 1..Passed' : raw'.fields[i].field = Order'[a]
      BY <1>4, <1>15, <2>1, Zenon DEF F
    <3>4. \A i \in m + 1..Len(raw'.fields), a \in 1..Len(Order') :
            raw'.fields[i].field = Order'[a] => a > Passed'
      BY <1>4, <1>16, <2>1, Zenon DEF F, l
    <3>5. QED
      BY <3>1, <3>2, <3>3, <3>4 DEF Behind
<1>18. QED
  BY <1>3, <1>5, <1>13, <1>17 DEF l

(* The decoder goes by the sender's mask, but for a status report's 0xFF.   *)
LEMMA MaskIsKept ==
  ASSUME kind = msg.kind, Sendable, NEW f
  PROVE Read(f) <=> Written(f)
BY DEF Read, Written, MaskRead, Sendable

(* A field that is due is there and is read; one that is not is passed.     *)
LEMMA ReadOrPassed ==
  ASSUME IInv, Layout, at = "decode", kind = raw.type, Sendable, Sent = Due,
         Rest(todo, Order), todo # <<>>, NEW f, f = Head(todo), NEW j, Behind(j)
  PROVE /\ msg \in Message /\ f \in Field /\ kind = msg.kind
        /\ f \in Due => /\ Read(f) /\ Here(f) /\ AcceptsType
                        /\ Decoded(f) = Encoded(f, msg) /\ Decoded(f) # 0
                        /\ f = "validity" => msg.validity # "none"
        /\ f \notin Due => /\ Read(f) => f = "validity" /\ msg.validity = "none"
                           /\ ~Here(f)
<1>1. msg \in Message /\ raw.type = msg.kind /\ kind = msg.kind
  BY DEF Layout
<1>2. f \in Field /\ f \in Whole
  <2>1. PICK n : n = Passed + 1
    OBVIOUS
  <2>2. QED
    BY <1>1, <2>1, NextField
<1>3. Read(f) <=> Written(f)
  BY <1>1, MaskIsKept
<1>4. ASSUME f \in Due
      PROVE /\ Read(f) /\ Here(f) /\ AcceptsType
            /\ Decoded(f) = Encoded(f, msg) /\ Decoded(f) # 0
            /\ f = "validity" => msg.validity # "none"
  <2>1. Here(f)
    BY <1>1, <1>4, PlaceOfField
  <2>2. Read(f) /\ (f = "validity" => msg.validity # "none")
    BY <1>3, <1>4 DEF Due
  <2>3. AcceptsType
    BY DEF AcceptsType, Mti, FirstOctet
  <2>4. /\ f = "address" => Decoded(f) # 0
        /\ Decoded(f) # 0 => Decoded(f) = IF f \in {"timestamp", "discharge_time"} THEN 7 ELSE
                                          IF f = "validity" THEN DecodedValidity(msg)
                                                            ELSE Encoded(f, msg)
        /\ f # "address" /\ f # "validity" => Decoded(f) # 0
        /\ Encoded(f, msg) # 0
    BY <1>2, <2>1, FieldIsRead
  <2>5. CASE f \in {"timestamp", "discharge_time"}
    BY <2>1, <2>2, <2>3, <2>4, <2>5 DEF Encoded, Timestamp
  <2>6. CASE f = "validity"
    <3>1. EncodedValidity(msg) # 0 /\ Encoded(f, msg) = EncodedValidity(msg)
      BY <2>4, <2>6 DEF Encoded
    <3>2. Decoded(f) = DecodedValidity(msg)
      BY <2>6 DEF Decoded
    <3>3. DecodedValidity(msg) = EncodedValidity(msg)
      BY <3>1 DEF EncodedValidity, DecodedValidity, Timestamp
    <3>4. QED
      BY <2>1, <2>2, <2>3, <3>1, <3>2, <3>3
  <2>7. CASE f \notin {"timestamp", "discharge_time", "validity"}
    BY <2>1, <2>2, <2>3, <2>4, <2>7
  <2>8. QED
    BY <2>5, <2>6, <2>7
<1>5. ASSUME f \notin Due
      PROVE /\ Read(f) => f = "validity" /\ msg.validity = "none"
            /\ ~Here(f)
  <2>1. Read(f) => f = "validity" /\ msg.validity = "none"
    BY <1>2, <1>3, <1>5 DEF Due
  <2>2. ~Here(f)
    <3>1. raw.fields \in Seq(FieldsOf(msg))
      BY DEF IInv, RawIsOfMessage
    <3>2. DOMAIN raw.fields = 1..Len(raw.fields)
      BY <3>1
    <3>3. QED
      BY <1>5, <3>2 DEF Here, IsAt, Sent
  <2>3. QED
    BY <2>1, <2>2
<1>6. QED
  BY <1>1, <1>2, <1>4, <1>5

(* A decoder starts at the first field, with nothing read.                  *)
LEMMA InStepStart ==
  ASSUME IInv, WrittenOrLeft, Layout, EncodedOk, NEW k \in Kind, NEW left, StartDecode(k, left)
  PROVE InStep'
<1> SUFFICES ASSUME kind' = raw'.type, Sendable' PROVE InStep'
  BY DEF InStep
<1>1. /\ at' = "decode" /\ kind' = k /\ todo' = DecodeOrder[k] /\ pos' = 0 /\ status' = "OK"
      /\ got' = NoFields /\ UNCHANGED <<msg, raw>>
  BY DEF StartDecode, caller
<1>2. msg \in Message /\ raw.type = msg.kind /\ k = msg.kind /\ Order' = Order
  BY <1>1 DEF Layout, EncodedOk, Order
<1>3. Sent' = Due'
  <2>1. Sendable
    BY <1>1 DEF Sendable
  <2>2. Sent = Due
    BY <2>1 DEF WrittenOrLeft, OkIsWhole
  <2>3. QED
    BY <1>1, <2>2 DEF Sent, Due, Whole, Written
<1>4. todo' = Order /\ GoodOrder(Order)
  BY <1>1, <1>2, OrdersAreGood DEF Order
<1>5. Rest(todo, Order)' /\ Passed' = 0
  <2>1. Order \in Seq(Field) /\ Len(Order) \in Nat
    BY <1>4 DEF GoodOrder
  <2>2. QED
    BY <1>2, <1>4, <2>1 DEF Rest, Passed
<1>6. raw'.fields \in Seq(FieldsOf(msg))
  BY <1>1 DEF IInv, RawIsOfMessage
<1>7. Behind(0)'
  <2>1. EndOf(0)' = 0
    BY DEF EndOf
  <2>2. Len(raw'.fields) \in Nat
    BY <1>6
  <2>3. 0 \in 0..Len(raw'.fields) /\ 1..0 = {}
    BY <2>2
  <2>4. DOMAIN got' = {}
    BY <1>1 DEF NoFields
  <2>5. \A i \in 1..Len(Order') : i > 0
    OBVIOUS
  <2>6. QED
    BY <1>1, <1>5, <2>1, <2>3, <2>4, <2>5 DEF Behind
<1>8. \E j \in 0..Len(raw'.fields) : Behind(j)'
  <2>1. 0 \in 0..Len(raw'.fields)
    BY <1>6
  <2>2. QED
    BY <1>7, <2>1
<1>9. QED
  BY <1>1, <1>3, <1>5, <1>8 DEF InStep

(* A step of a decoder that began at a message of its own type.             *)
LEMMA InStepDecode ==
  ASSUME IInv, Layout, InStep, at = "decode", kind = raw.type, Sendable,
         DecodeField \/ DecodeNothing \/ RejectField \/ Misread \/ ReturnDecoded
  PROVE InStep'
<1>1. UNCHANGED <<msg, raw, kind>>
  BY DEF DecodeField, DecodeNothing, RejectField, Misread, ReturnDecoded, caller, receiver
<1>2. Sent = Due /\ status = "OK" /\ Rest(todo, Order)
  BY DEF InStep
<1>3. PICK j \in 0..Len(raw.fields) : Behind(j)
  BY DEF InStep
<1>4. Sent' = Sent /\ Due' = Due
  BY <1>1 DEF Sent, Due, Whole, Written
<1>5. msg \in Message
  BY DEF Layout
<1>6. CASE DecodeField
  <2>1. PICK f \in Field : /\ Decoding(f) /\ Read(f) /\ Here(f)
                           /\ got' = WithValue(f) /\ pos' = pos + Decoded(f) /\ todo' = Tail(todo)
                           /\ UNCHANGED <<at, status, msg, raw>>
    BY <1>6 DEF DecodeField, caller
  <2>2. todo # <<>> /\ f = Head(todo)
    BY <2>1 DEF Decoding
  <2>3. f \in Due /\ Decoded(f) = Encoded(f, msg)
    BY <1>2, <1>3, <2>1, <2>2, ReadOrPassed
  <2>4. DOMAIN got' = DOMAIN got \union {f}
    BY <2>1 DEF WithValue
  <2>5. Rest(todo, Order)' /\ j + 1 \in 0..Len(raw.fields) /\ Behind(j + 1)'
    BY <1>2, <1>3, <1>5, <2>1, <2>2, <2>3, <2>4, BehindRead
  <2>6. \E i \in 0..Len(raw'.fields) : Behind(i)'
    <3>1. PICK i : i = j + 1
      OBVIOUS
    <3>2. i \in 0..Len(raw'.fields) /\ Behind(i)'
      BY <2>1, <2>5, <3>1
    <3>3. QED
      BY <3>2
  <2>7. at' = "decode" /\ status' = "OK"
    BY <1>2, <2>1
  <2>8. QED
    BY <1>2, <1>4, <2>5, <2>6, <2>7 DEF InStep
<1>7. CASE DecodeNothing
  <2>1. PICK f \in Field : /\ Decoding(f) /\ (~Read(f) \/ (f = "validity" /\ msg.validity = "none"))
                           /\ todo' = Tail(todo) /\ UNCHANGED <<at, pos, status, msg, raw, got>>
    BY <1>7 DEF DecodeNothing, caller, receiver
  <2>2. todo # <<>> /\ f = Head(todo)
    BY <2>1 DEF Decoding
  <2>3. f \notin Sent
    BY <1>2, <1>3, <2>1, <2>2, ReadOrPassed
  <2>4. Rest(todo, Order)' /\ Behind(j)'
    BY <1>2, <1>3, <1>5, <2>1, <2>2, <2>3, BehindSkip
  <2>5. \E i \in 0..Len(raw'.fields) : Behind(i)'
    BY <1>3, <2>1, <2>4
  <2>6. at' = "decode" /\ status' = "OK"
    BY <1>2, <2>1
  <2>7. QED
    BY <1>2, <1>4, <2>4, <2>5, <2>6 DEF InStep
<1>8. CASE RejectField
  <2>1. PICK f \in Field :
          /\ Decoding(f) /\ Read(f)
          /\ CASE f = "first" -> ~AcceptsType /\ status' = "INVALID_TPDU_TYPE"
               [] f = "address" -> Here(f) /\ Decoded(f) = 0 /\ status' = "INVALID_PARM_SIZE"
               [] f = "validity" -> msg.validity = "enhanced" /\ status' = "INVALID_PARM_VALUE"
               [] OTHER -> FALSE
    BY <1>8 DEF RejectField
  <2>2. todo # <<>> /\ f = Head(todo)
    BY <2>1 DEF Decoding
  <2>3. /\ f \in Due => AcceptsType /\ Decoded(f) # 0
        /\ f \notin Due => f = "validity"
    BY <1>2, <1>3, <2>1, <2>2, ReadOrPassed
  <2>4. msg.validity # "enhanced"
    BY DEF Sendable
  <2>5. QED
    BY <2>1, <2>3, <2>4
<1>9. CASE Misread
  <2>1. PICK f \in Field : /\ Decoding(f) /\ Read(f) /\ ~Here(f)
                           /\ f = "validity" => DecodedValidity(msg) # 0
    BY <1>9 DEF Misread
  <2>2. todo # <<>> /\ f = Head(todo)
    BY <2>1 DEF Decoding
  <2>3. /\ f \in Due => Here(f)
        /\ f \notin Due => f = "validity" /\ msg.validity = "none"
    BY <1>2, <1>3, <2>1, <2>2, ReadOrPassed
  <2>4. QED
    BY <2>1, <2>3 DEF DecodedValidity
<1>10. CASE ReturnDecoded
  <2>1. todo = <<>> /\ at' = "decoded" /\ UNCHANGED <<status, got, raw>>
    BY <1>10 DEF ReturnDecoded, caller, receiver
  <2>2. GoodOrder(Order)
    BY <1>5, OrdersAreGood, MessageAssumption DEF MessageType, Order
  <2>3. Len(Order) \in Nat /\ Passed = Len(Order)
    BY <2>1, <2>2 DEF GoodOrder, Passed
  <2>4. raw.fields \in Seq(FieldsOf(msg))
    BY DEF IInv, RawIsOfMessage
  <2>5. DOMAIN raw.fields = 1..Len(raw.fields) /\ Len(raw.fields) \in Nat
    BY <2>4
  <2>6. ASSUME NEW k \in j + 1..Len(raw.fields) PROVE FALSE
    <3>1. k \in DOMAIN raw.fields
      BY <1>3, <2>5
    <3>2. Laid
      BY <3>1, FieldIsOfMessage
    <3>3. PICK a \in 1..Len(Order) : raw.fields[k].field = Order[a]
      BY <3>1, <3>2 DEF Laid, Upto
    <3>4. a > Len(Order)
      BY <1>3, <2>3, <2>6, <3>3 DEF Behind
    <3>5. QED
      BY <2>3, <3>4
  <2>7. j = Len(raw.fields)
    <3>1. j + 1 \in j + 1..Len(raw.fields) \/ j = Len(raw.fields)
      BY <1>3, <2>5
    <3>2. QED
      BY <2>6, <3>1
  <2>8. DOMAIN got = Sent
    BY <1>3, <2>7 DEF Behind, Sent
  <2>9. DOMAIN got' = Sent' /\ status' = "OK" /\ Sent' = Due'
    BY <1>2, <1>4, <2>1, <2>8
  <2>10. QED
    BY <2>1, <2>9 DEF InStep
<1>11. QED
  BY <1>6, <1>7, <1>8, <1>9, <1>10

(* Every step of sender and receiver.                                      *)
LEMMA InStepNext ==
  ASSUME IInv, WrittenOrLeft, Layout, InStep, [Next]_vars
  PROVE InStep'
<1>1. CASE Encode \/ GiveUp \/ Done
  <2>1. at' \notin {"decode", "decoded", "garbled"}
    BY <1>1 DEF Encode, CallEncode, EncodeField, EncodeNothing, ExceedCapacity, RefuseField,
                ReturnEncoded, Encoding, GiveUp, Done, Forget
  <2>2. QED
    BY <2>1 DEF InStep
<1>2. CASE CallDecode \/ CallDecodeDeliver
  <2>1. EncodedOk
    BY <1>2 DEF CallDecode, CallDecodeDeliver, EncodedOk
  <2>2. raw.type \in Kind /\ "deliver" \in Kind
    BY <2>1 DEF IInv, RawIsOfMessage, EncodedOk, Kind
  <2>3. PICK k \in Kind : \E left : StartDecode(k, left)
    BY <1>2, <2>2 DEF CallDecode, CallDecodeDeliver
  <2>4. QED
    BY <2>1, <2>3, InStepStart
<1>3. CASE DecodeField \/ DecodeNothing \/ RejectField \/ Misread \/ ReturnDecoded
  <2>1. at = "decode" /\ UNCHANGED <<msg, raw, kind>>
    BY <1>3 DEF DecodeField, DecodeNothing, RejectField, Misread, ReturnDecoded, Decoding,
                caller, receiver
  <2>2. CASE kind = raw.type /\ Sendable
    BY <1>3, <2>1, <2>2, InStepDecode
  <2>3. CASE ~(kind = raw.type /\ Sendable)
    BY <2>1, <2>3 DEF InStep, Sendable
  <2>4. QED
    BY <2>2, <2>3
<1>4. CASE UNCHANGED vars
  <2>1. UNCHANGED <<at, todo, pos, status, msg, raw, kind, got>>
    BY <1>4 DEF vars, caller, receiver
  <2>2. /\ Order' = Order /\ Passed' = Passed /\ Sent' = Sent /\ Due' = Due
        /\ (Sendable' <=> Sendable)
    BY <2>1 DEF Order, Passed, Sent, Due, Whole, Written, Sendable
  <2>3. ASSUME NEW j, Behind(j) PROVE Behind(j)'
    BY <2>1, <2>3 DEF Behind, EndOf, Order, Passed
  <2>4. Rest(todo, Order) => Rest(todo, Order)'
    BY <2>1, <2>2
  <2>5. QED
    BY <2>1, <2>2, <2>3, <2>4 DEF InStep
<1>5. QED
  BY <1>1, <1>2, <1>3, <1>4 DEF Next, Decode

(* A step of the decoder of a TP-DELIVER: none of its fields is optional.   *)
LEMMA DeliverTails ==
  /\ DecodeDeliver # <<>> /\ Tail(Tail(DecodeDeliver)) = ToPid
  /\ Head(ToPid) = "pid" /\ Tail(ToPid) = FromDcs /\ Tail(Tail(Tail(FromDcs))) = <<>>
  /\ \A g \in {DecodeDeliver, Tail(DecodeDeliver)} : Head(g) # "dcs" /\ Head(g) # "pid" /\ g # <<>>
  /\ \A g \in {DecodeDeliver, Tail(DecodeDeliver), ToPid} : Head(g) # "dcs" /\ Head(g) # "validity"
  /\ \A g \in {FromDcs, Tail(FromDcs), Tail(Tail(FromDcs))} : Head(g) # "validity"
BY DEF DecodeDeliver, ToPid, FromDcs

LEMMA PidFirstNext ==
  ASSUME PidFirst, todo # <<>>, NEW f, f = Head(todo)
  PROVE /\ f # "validity" /\ (f = "dcs" => "pid" \in DOMAIN got)
        /\ todo' = Tail(todo) /\ DOMAIN got' = DOMAIN got \union {f} => PidFirst'
<1>1. CASE todo \in {DecodeDeliver, Tail(DecodeDeliver)}
  <2>1. f # "validity" /\ f # "dcs"
    BY <1>1, DeliverTails
  <2>2. Tail(todo) \in {Tail(DecodeDeliver), ToPid}
    BY <1>1, DeliverTails
  <2>3. QED
    BY <2>1, <2>2 DEF PidFirst
<1>2. CASE todo = ToPid
  BY <1>2, DeliverTails DEF PidFirst
<1>3. CASE "pid" \in DOMAIN got /\ todo \in {FromDcs, Tail(FromDcs), Tail(Tail(FromDcs))}
  <2>1. f # "validity"
    BY <1>3, DeliverTails
  <2>2. Tail(todo) \in {Tail(FromDcs), Tail(Tail(FromDcs)), <<>>}
    BY <1>3, DeliverTails
  <2>3. QED
    BY <1>3, <2>1, <2>2 DEF PidFirst
<1>4. QED
  BY <1>1, <1>2, <1>3 DEF PidFirst

(* What is read is of the message: whichever decoder reads it.              *)
LEMMA FaithfulNext ==
  ASSUME IInv, Layout, Faithful, [Next]_vars
  PROVE Faithful'
<1>1. CASE Encode \/ GiveUp \/ Done
  <2>1. at' \notin {"decode", "decoded", "garbled"}
    BY <1>1 DEF Encode, CallEncode, EncodeField, EncodeNothing, ExceedCapacity, RefuseField,
                ReturnEncoded, Encoding, GiveUp, Done, Forget
  <2>2. QED
    BY <2>1 DEF Faithful
<1>2. CASE CallDecode \/ CallDecodeDeliver
  <2>1. PICK k : \E left : StartDecode(k, left)
    BY <1>2 DEF CallDecode, CallDecodeDeliver
  <2>2. kind' = k /\ todo' = DecodeOrder[k] /\ DOMAIN got' = {}
    BY <2>1 DEF StartDecode, NoFields
  <2>3. k = "deliver" => todo' = DecodeDeliver
    BY <2>2 DEF DecodeOrder
  <2>4. QED
    BY <2>2, <2>3 DEF PidFirst, Faithful
<1>3. CASE DecodeField
  <2>1. PICK f \in Field : /\ at = "decode" /\ Here(f) /\ Decoded(f) # 0
                           /\ todo # <<>> /\ f = Head(todo)
                           /\ got' = WithValue(f) /\ todo' = Tail(todo)
                           /\ UNCHANGED <<at, msg, kind>>
    BY <1>3 DEF DecodeField, Decoding, caller
  <2>2. /\ f = "address" => Value(f) = msg.address
        /\ f = "pid" => Value(f) = msg.pid
        /\ f = "dcs" => Value(f) = SchemeRead(EncodeDcs(msg.dcs))
    BY <2>1, FieldIsRead
  <2>3. /\ DOMAIN got' = DOMAIN got \union {f} /\ got'[f] = Value(f)
        /\ \A g \in DOMAIN got : g # f => got'[g] = got[g]
    BY <2>1 DEF WithValue
  <2>4. kind = "deliver" => PidFirst' /\ (f = "dcs" => got.pid = msg.pid)
    BY <2>1, <2>3, PidFirstNext DEF Faithful
  <2>5. held.indication \in Indication
    BY DEF IInv, ReadInOrder
  <2>6. f = "dcs" => Value(f) = SchemeGot(held.indication)
    BY <2>2, <2>4 DEF SchemeRead, ReturnCall, SchemeGot
  <2>7. \A before : SchemeGot(before)' = SchemeGot(before)
    BY <2>1 DEF SchemeGot
  <2>8. "dcs" \in DOMAIN got' => \E before \in Indication : got'.dcs = SchemeGot(before)'
    <3>1. CASE f = "dcs"
      BY <2>3, <2>5, <2>6, <2>7, <3>1
    <3>2. CASE f # "dcs"
      <4>1. ASSUME "dcs" \in DOMAIN got' PROVE \E before \in Indication : got'.dcs = SchemeGot(before)'
        <5>1. PICK before \in Indication : got.dcs = SchemeGot(before)
          BY <2>1, <2>3, <3>2, <4>1 DEF Faithful
        <5>2. got'.dcs = SchemeGot(before)'
          BY <2>3, <2>7, <3>2, <4>1, <5>1
        <5>3. QED
          BY <5>2
      <4>2. QED
        BY <4>1
    <3>3. QED
      BY <3>1, <3>2
  <2>9. /\ "address" \in DOMAIN got' => got'.address = msg'.address
        /\ "pid" \in DOMAIN got' => got'.pid = msg'.pid
    BY <2>1, <2>2, <2>3 DEF Faithful
  <2>10. QED
    BY <2>1, <2>4, <2>8, <2>9 DEF Faithful
<1>4. CASE DecodeNothing \/ RejectField \/ Misread \/ ReturnDecoded
  <2>1. at = "decode" /\ UNCHANGED <<msg, got, kind>>
    BY <1>4 DEF DecodeNothing, RejectField, Misread, ReturnDecoded, Decoding, caller, receiver
  <2>2. \A before : SchemeGot(before)' = SchemeGot(before)
    BY <2>1 DEF SchemeGot
  <2>3. at' = "decode" => kind # "deliver"
    <3>1. ASSUME at' = "decode", kind = "deliver" PROVE FALSE
      <4>1. DecodeNothing
        BY <1>4, <3>1 DEF RejectField, Misread, ReturnDecoded
      <4>2. PICK f \in Field : Decoding(f) /\ (~Read(f) \/ f = "validity")
        BY <4>1 DEF DecodeNothing
      <4>3. f # "validity"
        BY <2>1, <3>1, <4>2, PidFirstNext DEF Decoding, Faithful
      <4>4. Read(f)
        BY <3>1 DEF Read, Masked
      <4>5. QED
        BY <4>2, <4>3, <4>4
    <3>2. QED
      BY <3>1
  <2>4. QED
    BY <2>1, <2>2, <2>3 DEF Faithful
<1>5. CASE UNCHANGED vars
  <2>1. UNCHANGED <<at, msg, got, kind, todo>>
    BY <1>5 DEF vars, caller, receiver
  <2>2. \A before : SchemeGot(before)' = SchemeGot(before)
    BY <2>1 DEF SchemeGot
  <2>3. QED
    BY <2>1, <2>2 DEF Faithful, PidFirst
<1>6. QED
  BY <1>1, <1>2, <1>3, <1>4, <1>5 DEF Next, Decode

(* What becomes of a scheme that has an octet of its own.                   *)
LEMMA SchemeGotArrives ==
  ASSUME NEW before \in Indication, msg.dcs \in Expressible
  PROVE SchemeArrives(msg.dcs, SchemeGot(before), kind = "deliver" /\ msg.pid = RETURN_CALL)
<1> DEFINE s == msg.dcs
           t == Received(s, before)
           returnCall == kind = "deliver" /\ msg.pid = RETURN_CALL
<1>1. s \in Scheme
  BY ExpressibleIsScheme
<1>2. DecodeDcs(EncodeDcs(s), before) = t
  BY SchemesAreKept
<1> DEFINE g == IF returnCall /\ t.indication[2] # VOICEMAIL THEN AnnounceVoicemail(t) ELSE t
<1>3. SchemeGot(before) = g
  BY <1>2 DEF SchemeGot
<1>4. /\ t \in Scheme /\ t.class = s.class /\ t.alphabet = s.alphabet /\ t.compressed = s.compressed
      /\ t.waiting = s.waiting /\ (Waits(s.waiting) => t.indication = s.indication)
  <2>1. CASE Waits(s.waiting)
    BY <1>1, <2>1 DEF Received
  <2>2. CASE ~Waits(s.waiting)
    <3>1. t = [s EXCEPT !.indication = before]
      BY <2>2 DEF Received
    <3> HIDE DEF t
    <3>2. QED
      BY <1>1, <2>2, <3>1 DEF Scheme
  <2>3. QED
    BY <2>1, <2>2
<1> HIDE DEF t, s
<1>5. CASE returnCall /\ t.indication[2] # VOICEMAIL
  <2>1. g = AnnounceVoicemail(t)
    BY <1>5
  <2>2. /\ g.class = t.class /\ g.alphabet = t.alphabet /\ g.compressed = t.compressed
        /\ g.waiting = "store" /\ g.indication = <<TRUE, VOICEMAIL>>
    BY <1>4, <2>1 DEF AnnounceVoicemail, Scheme
  <2>3. Announced(s, g) /\ g.indication[2] = VOICEMAIL
    <3>1. Waits(s.waiting) => s.indication[2] # VOICEMAIL
      BY <1>4, <1>5, Zenon
    <3>2. g.indication[2] = VOICEMAIL
      BY <2>2
    <3> HIDE DEF g
    <3>3. QED
      BY <2>2, <3>1, <3>2, Zenon DEF Announced
  <2> HIDE DEF g
  <2>4. SchemeArrives(s, g, returnCall)
    BY <1>4, <1>5, <2>2, <2>3 DEF SchemeArrives
  <2>5. QED
    BY <1>3, <2>4 DEF s, g
<1>6. CASE ~(returnCall /\ t.indication[2] # VOICEMAIL)
  <2>1. g = t
    BY <1>6
  <2>2. AsSent(s, t)
    BY <1>4 DEF AsSent
  <2> HIDE DEF g
  <2>3. SchemeArrives(s, g, returnCall)
    BY <1>4, <1>6, <2>1, <2>2 DEF SchemeArrives
  <2>4. QED
    BY <1>3, <2>3 DEF s, g
<1>7. QED
  BY <1>5, <1>6

LEMMA FaithfulIsInvariant == Spec => []Faithful
<1>1. QED
  BY InvIsInvariant, LayoutIsInvariant, InStepInit, FaithfulNext, PTL DEF Spec

(* Whatever is sent and whatever was sent before: of a message whose every  *)
(* part has an encoding, the receiver finds every field where the sender    *)
(* put it and no other; the address and the protocol identifier it reads    *)
(* are the sender's, and so is the coding scheme but for an indication that *)
(* is not sent and for what a TP-DELIVER with the identifier of a return    *)
(* call is made into.                                                       *)
THEOREM EveryFieldIsRead == Spec => []ReadAsWritten
<1>1. Spec => []WrittenOrLeft
  BY InvIsInvariant, WholeInit, WholeNext, PTL DEF Spec
<1>2. Spec => []InStep
  BY InvIsInvariant, <1>1, LayoutIsInvariant, InStepInit, InStepNext, PTL DEF Spec
<1>3. InStep /\ Faithful => ReadAsWritten
  <2> SUFFICES ASSUME InStep, Faithful, at \in {"decoded", "garbled"}, kind = raw.type, Sendable
               PROVE /\ at = "decoded" /\ status = "OK" /\ DOMAIN got = Sent
                     /\ "address" \in Sent => got.address = msg.address
                     /\ "pid" \in Sent => got.pid = msg.pid
                     /\ "dcs" \in Sent /\ msg.dcs \in Expressible =>
                          SchemeArrives(msg.dcs, got.dcs, kind = "deliver" /\ msg.pid = RETURN_CALL)
    BY DEF ReadAsWritten
  <2>1. at = "decoded" /\ status = "OK" /\ DOMAIN got = Sent
    BY DEF InStep
  <2>2. ASSUME "dcs" \in Sent, msg.dcs \in Expressible
        PROVE SchemeArrives(msg.dcs, got.dcs, kind = "deliver" /\ msg.pid = RETURN_CALL)
    <3>1. PICK before \in Indication : got.dcs = SchemeGot(before)
      BY <2>1, <2>2 DEF Faithful
    <3>2. QED
      BY <2>2, <3>1, SchemeGotArrives
  <2>3. QED
    BY <2>1, <2>2 DEF Faithful
<1>4. QED
  BY <1>2, FaithfulIsInvariant, <1>3, PTL

-----------------------------------------------------------------------------
(* ---- types -------------------------------------------------------------*)
(* Of the sender, and of the receiver: those of TypeOK that do not follow   *)
(* from the invariants above.                                               *)
SenderTyped ==
  /\ at \in {"idle", "encode", "encoded", "decode", "decoded", "garbled"}
  /\ msg \in Message \union {NoMessage} /\ todo \in Seq(Field)
  /\ pos \in 0..MAX_LEN + COMMAND_DATA_MAX /\ status \in Status
  /\ at = "encode" => pos <= MAX_LEN
  /\ raw.type \in Kind \union {"none"} /\ raw.len \in 0..MAX_LEN

ReceiverTyped ==
  /\ DOMAIN got \subseteq Field
  /\ at \in {"idle", "encode", "encoded"} => DOMAIN got = {}
  /\ kind \in Kind \union {"none"} /\ held.kind = kind
  /\ held.alphabet \in Alphabet /\ text \in Alphabet \union {"none"}

LEMMA TypedInit == Init => SenderTyped /\ ReceiverTyped
<1>1. "eight_bit" \in Alphabet
  BY AlphabetsAre DEF Alphabet
<1>2. QED
  BY <1>1 DEF Init, SenderTyped, ReceiverTyped, NoFields, Status, Field, MAX_LEN, COMMAND_DATA_MAX

LEMMA SenderTypedNext ==
  ASSUME IInv, Layout, SenderTyped, [Next]_vars
  PROVE SenderTyped'
<1> USE DEF Status, MAX_LEN, COMMAND_DATA_MAX
<1>1. /\ raw = [type |-> raw.type, len |-> raw.len, fields |-> raw.fields]
      /\ todo \in Seq(Field) /\ (todo # <<>> => Tail(todo) \in Seq(Field))
  <2>1. todo # <<>> => Tail(todo) \in Seq(Field)
    BY HeadAndTail DEF SenderTyped
  <2>2. QED
    BY <2>1 DEF IInv, RawIsOfMessage, SenderTyped
<1>2. ASSUME NEW m \in Message, CallEncode(m) PROVE SenderTyped'
  <2>1. m.kind \in Kind
    BY MessageAssumption DEF MessageType
  <2>2. /\ at' = "encode" /\ msg' = m /\ todo' = EncodeOrder[m.kind] /\ pos' = 0 /\ status' = "OK"
        /\ raw' = [raw EXCEPT !.type = m.kind, !.fields = <<>>]
    BY <1>2 DEF CallEncode
  <2>3. raw'.type = m.kind /\ raw'.len = raw.len
    BY <1>1, <2>2
  <2>4. QED
    BY <2>1, <2>2, <2>3, OrdersOfEncoders DEF SenderTyped
<1>3. CASE EncodeField
  <2>1. PICK f \in Field :
          /\ at = "encode" /\ todo # <<>> /\ todo' = Tail(todo) /\ UNCHANGED <<at, status, msg>>
          /\ raw' = [raw EXCEPT !.fields = WithField(@, f, msg)]
          /\ pos' = IF f = "command_data" THEN (pos + 1 + msg.command_data_len) % 256
                                          ELSE (pos + Encoded(f, msg)) % 256
    BY <1>3 DEF EncodeField, Encoding
  <2>2. raw'.type = raw.type /\ raw'.len = raw.len
    BY <1>1, <2>1
  <2>3. msg \in Message /\ pos \in Nat
    BY <2>1 DEF IInv, RawIsOfMessage
  <2>4. pos + 1 + msg.command_data_len \in Nat /\ pos + Encoded(f, msg) \in Nat
    BY <2>3, FieldIsSmall
  <2>5. \A n \in Nat : n % 256 \in 0..255
    OBVIOUS
  <2>6. pos' \in 0..255
    BY <2>1, <2>4, <2>5
  <2>7. pos' \in 0..MAX_LEN + COMMAND_DATA_MAX /\ pos' <= MAX_LEN
    BY <2>6
  <2>8. /\ at = "encode" /\ todo # <<>> /\ todo' = Tail(todo)
        /\ at' = at /\ status' = status /\ msg' = msg
    BY <2>1
  <2>9. QED
    BY <1>1, <2>2, <2>7, <2>8 DEF SenderTyped
<1>4. CASE EncodeNothing \/ ExceedCapacity
  <2>1. /\ todo # <<>> /\ todo' = Tail(todo) /\ UNCHANGED <<at, pos, msg, raw>>
        /\ status' = status \/ status' = "INVALID_USER_DATA_SIZE"
    BY <1>4 DEF EncodeNothing, ExceedCapacity, Encoding, caller
  <2>2. QED
    BY <1>1, <2>1 DEF SenderTyped
<1>5. CASE RefuseField
  <2>1. PICK f \in Field :
          status' = CASE f = "address" -> "INVALID_PARM_SIZE"
                      [] f = "first" -> "INVALID_VALIDITY_FORMAT"
                      [] OTHER -> "INVALID_PARM_VALUE"
    BY <1>5 DEF RefuseField
  <2>2. status' \in Status
    BY <2>1
  <2>3. at' = "encoded" /\ UNCHANGED <<todo, pos, msg, raw>>
    BY <1>5 DEF RefuseField, caller
  <2>4. QED
    BY <2>2, <2>3 DEF SenderTyped
<1>6. CASE ReturnEncoded
  <2>1. /\ at = "encode" /\ at' = "encoded" /\ raw' = [raw EXCEPT !.len = pos]
        /\ UNCHANGED <<todo, pos, status, msg>>
    BY <1>6 DEF ReturnEncoded
  <2>2. raw'.type = raw.type /\ raw'.len = pos
    BY <1>1, <2>1
  <2>3. at = "encode" /\ at' = "encoded" /\ UNCHANGED <<todo, pos, status, msg>>
    BY <2>1
  <2>4. raw'.len \in 0..MAX_LEN
    BY <2>2, <2>3 DEF SenderTyped
  <2>5. QED
    BY <2>2, <2>3, <2>4 DEF SenderTyped
<1>7. CASE GiveUp \/ Done
  <2>1. at' = "idle" /\ todo' = <<>> /\ pos' = 0 /\ status' = "OK" /\ UNCHANGED <<msg, raw>>
    BY <1>7 DEF GiveUp, Done, Forget
  <2>2. QED
    BY <2>1 DEF SenderTyped
<1>8. CASE CallDecode \/ CallDecodeDeliver
  <2>1. raw.type \in Kind /\ "deliver" \in Kind
    BY <1>8 DEF CallDecode, CallDecodeDeliver, IInv, RawIsOfMessage, Kind
  <2>2. PICK k \in Kind : \E left : StartDecode(k, left)
    BY <1>8, <2>1 DEF CallDecode, CallDecodeDeliver
  <2>3. /\ at' = "decode" /\ todo' = DecodeOrder[k] /\ pos' = 0 /\ status' = "OK"
        /\ UNCHANGED <<msg, raw>>
    BY <2>2 DEF StartDecode, caller
  <2>4. QED
    BY <2>3, OrdersAreDcsFirst DEF SenderTyped
<1>9. CASE DecodeField
  <2>1. PICK f \in Field :
          /\ at = "decode" /\ todo # <<>> /\ Here(f) /\ Decoded(f) # 0
          /\ pos' = pos + Decoded(f) /\ todo' = Tail(todo) /\ UNCHANGED <<at, status, msg, raw>>
    BY <1>9 DEF DecodeField, Decoding, caller
  <2> DEFINE e == Encoded(f, msg)
             w == Weight(f)
             n == Decoded(f)
  <2>2. /\ n = 7 \/ n = DecodedValidity(msg) \/ n = e
        /\ e \in 1..w /\ pos \in Nat /\ pos + e <= MAX_LEN
    <3>1. /\ Decoded(f) = IF f \in {"timestamp", "discharge_time"} THEN 7 ELSE
                          IF f = "validity" THEN DecodedValidity(msg) ELSE Encoded(f, msg)
          /\ Encoded(f, msg) \in 1..Weight(f) /\ pos \in Nat /\ pos + Encoded(f, msg) <= MAX_LEN
      BY <2>1, FieldIsRead
    <3>2. QED
      BY <3>1
  <2>3. DecodedValidity(msg) \in 0..7 /\ w \in 0..158
    BY DEF DecodedValidity, Weight, UDL_MAX_8_BIT
  <2> HIDE DEF e, w, n
  <2>4. pos + n \in 0..MAX_LEN + COMMAND_DATA_MAX
    BY <2>2, <2>3, SMTT(30)
  <2>5. pos' \in 0..MAX_LEN + COMMAND_DATA_MAX
    BY <2>1, <2>4 DEF n
  <2>6. QED
    BY <1>1, <2>1, <2>5 DEF SenderTyped
<1>10. CASE DecodeNothing
  <2>1. todo # <<>> /\ at = "decode" /\ todo' = Tail(todo) /\ UNCHANGED <<at, pos, status, msg, raw>>
    BY <1>10 DEF DecodeNothing, Decoding, caller
  <2>2. QED
    BY <1>1, <2>1 DEF SenderTyped
<1>11. CASE RejectField
  <2>1. status' \in Status
    BY <1>11 DEF RejectField
  <2>2. at' = "decoded" /\ UNCHANGED <<todo, pos, msg, raw>>
    BY <1>11 DEF RejectField, caller
  <2>3. QED
    BY <2>1, <2>2 DEF SenderTyped
<1>12. CASE Misread \/ ReturnDecoded
  <2>1. at' \in {"garbled", "decoded"} /\ UNCHANGED <<todo, pos, status, msg, raw>>
    BY <1>12 DEF Misread, ReturnDecoded, caller
  <2>2. QED
    BY <2>1 DEF SenderTyped
<1>13. CASE UNCHANGED vars
  BY <1>13 DEF vars, caller, SenderTyped
<1>14. QED
  BY <1>2, <1>3, <1>4, <1>5, <1>6, <1>7, <1>8, <1>9, <1>10, <1>11, <1>12, <1>13
  DEF Next, Encode, Decode

LEMMA ReceiverTypedNext ==
  ASSUME IInv, Layout, ReceiverTyped, [Next]_vars
  PROVE ReceiverTyped'
<1>1. CASE Encode
  <2>1. UNCHANGED receiver /\ (at = "idle" \/ at = "encode")
    BY <1>1 DEF Encode, CallEncode, EncodeField, EncodeNothing, ExceedCapacity, RefuseField,
                ReturnEncoded, Encoding
  <2>2. QED
    BY <2>1 DEF receiver, ReceiverTyped
<1>2. CASE GiveUp \/ Done
  <2>1. got' = NoFields /\ text' = "none" /\ UNCHANGED <<kind, held>>
    BY <1>2 DEF GiveUp, Done, Forget
  <2>2. QED
    BY <2>1 DEF NoFields, ReceiverTyped
<1>3. CASE CallDecode \/ CallDecodeDeliver
  <2>1. raw.type \in Kind /\ "deliver" \in Kind
    BY <1>3 DEF CallDecode, CallDecodeDeliver, IInv, RawIsOfMessage, Kind
  <2>2. \A k : \A left \in Overlay(k) : left.alphabet \in Alphabet
    BY LeftoverAssumption DEF Overlay, Remnant, ReceiverTyped
  <2>3. PICK k \in Kind : \E left \in Overlay(k) : StartDecode(k, left)
    BY <1>3, <2>1 DEF CallDecode, CallDecodeDeliver
  <2>4. PICK left \in Overlay(k) : StartDecode(k, left)
    BY <2>3
  <2>5. left.alphabet \in Alphabet
    BY <2>2
  <2>6. /\ at' = "decode" /\ kind' = k /\ held'.kind = k /\ held'.alphabet = left.alphabet
        /\ got' = NoFields /\ text' = "none"
    BY <2>4 DEF StartDecode, Holding
  <2>7. QED
    BY <2>5, <2>6 DEF NoFields, ReceiverTyped
<1>4. CASE DecodeField
  <2>1. PICK f \in Field :
          /\ at = "decode" /\ Here(f) /\ got' = WithValue(f)
          /\ held' = IF f = "dcs" THEN Hold(Value(f)) ELSE held
          /\ text' = IF f = "ud" THEN held.alphabet ELSE text
          /\ UNCHANGED <<at, kind>>
    BY <1>4 DEF DecodeField, Decoding
  <2>2. held = [kind |-> held.kind, alphabet |-> held.alphabet, indication |-> held.indication]
    BY DEF IInv, ReadInOrder
  <2>3. held'.kind = held.kind /\ held'.alphabet \in Alphabet
    <3>1. CASE f = "dcs"
      <4>1. Value(f) \in Scheme
        BY <2>1, <3>1, FoundIsWritten
      <4>2. Value(f).alphabet \in Alphabet
        BY <4>1 DEF Scheme
      <4>3. QED
        BY <2>1, <2>2, <3>1, <4>2 DEF Hold
    <3>2. CASE f # "dcs"
      BY <2>1, <3>2 DEF ReceiverTyped
    <3>3. QED
      BY <3>1, <3>2
  <2>4. DOMAIN got' = DOMAIN got \union {f}
    BY <2>1 DEF WithValue
  <2>5. QED
    BY <2>1, <2>3, <2>4 DEF ReceiverTyped
<1>5. CASE DecodeNothing \/ RejectField \/ Misread \/ ReturnDecoded
  <2>1. UNCHANGED <<kind, got, held, text>> /\ at' \in {"decode", "decoded", "garbled"}
    BY <1>5 DEF DecodeNothing, RejectField, Misread, ReturnDecoded, Decoding, receiver
  <2>2. QED
    BY <2>1 DEF ReceiverTyped
<1>6. CASE UNCHANGED vars
  BY <1>6 DEF vars, receiver, ReceiverTyped
<1>7. QED
  BY <1>1, <1>2, <1>3, <1>4, <1>5, <1>6 DEF Next, Decode

(* What is written of a field are octets.                                   *)
LEMMA ContentsAreOctets ==
  ASSUME NEW m \in Message, NEW f \in Field
  PROVE Contents(f, m) \in Seq(0..255)
<1>1. m.address \in AddressType /\ m.dcs \in Scheme /\ m.pid \in 0..255
  BY MessageAssumption DEF MessageType
<1>2. EncodeAddress(m.address) \in Seq(0..255)
  BY <1>1, AddressIsOctets
<1>3. <<EncodeDcs(m.dcs)>> \in Seq(0..255)
  BY <1>1, SchemeIsOctet
<1>4. <<>> \in Seq(0..255)
  OBVIOUS
<1>5. CASE f = "address"
  BY <1>2, <1>5 DEF Contents
<1>6. CASE f = "dcs"
  BY <1>3, <1>6 DEF Contents
<1>7. CASE f = "pid"
  BY <1>1, <1>7 DEF Contents
<1>8. CASE f \notin {"address", "dcs", "pid"}
  BY <1>4, <1>8 DEF Contents
<1>9. QED
  BY <1>5, <1>6, <1>7, <1>8

(* Both structures keep their types: among them, the position is never      *)
(* beyond the array and what the longest field takes, and no field begins   *)
(* or ends outside of it.                                                   *)
THEOREM TypesAreKept == Spec => []TypeOK
<1>1. Spec => [](SenderTyped /\ ReceiverTyped)
  BY InvIsInvariant, LayoutIsInvariant, TypedInit, SenderTypedNext, ReceiverTypedNext, PTL DEF Spec
<1>2. ASSUME IInv, Layout, Faithful, SenderTyped, ReceiverTyped PROVE TypeOK
  <2> DEFINE T == [field : Field, start : 0..MAX_LEN, octets : 1..MAX_LEN, contents : Seq(0..255)]
  <2>1. raw.fields \in Seq(FieldsOf(msg))
    BY <1>2 DEF IInv, RawIsOfMessage
  <2>2. ASSUME NEW k \in DOMAIN raw.fields PROVE raw.fields[k] \in T
    <3>1. PICK g \in Field, p \in Nat :
            raw.fields[k] = [field |-> g, start |-> p, octets |-> Encoded(g, msg),
                             contents |-> Contents(g, msg)]
      <4>1. raw.fields[k] \in FieldsOf(msg)
        BY <2>1
      <4>2. QED
        BY <4>1, FieldOfIsAt DEF FieldAt
    <3>2. /\ msg \in Message /\ Encoded(g, msg) \in 1..Weight(g) /\ p + Encoded(g, msg) <= MAX_LEN
      <4>1. raw.fields[k].field = g /\ raw.fields[k].start = p
        BY <3>1
      <4>2. QED
        BY <1>2, <4>1, FieldIsOfMessage
    <3>3. Contents(g, msg) \in Seq(0..255)
      BY <3>2, ContentsAreOctets
    <3>4. Weight(g) \in Nat
      BY DEF Weight, UDL_MAX_8_BIT, COMMAND_DATA_MAX
    <3>5. p \in 0..MAX_LEN /\ Encoded(g, msg) \in 1..MAX_LEN
      <4> DEFINE e == Encoded(g, msg)
                 w == Weight(g)
      <4>1. e \in 1..w /\ w \in Nat /\ p \in Nat /\ p + e <= MAX_LEN
        BY <3>2, <3>4
      <4> HIDE DEF e, w
      <4>2. p \in 0..MAX_LEN /\ e \in 1..MAX_LEN
        BY <4>1 DEF MAX_LEN
      <4>3. QED
        BY <4>2 DEF e
    <3>6. QED
      BY <3>1, <3>3, <3>5
  <2> HIDE DEF T
  <2>3. raw.fields \in Seq(T)
    <3>1. Len(raw.fields) \in Nat /\ DOMAIN raw.fields = 1..Len(raw.fields)
          /\ raw.fields \in [1..Len(raw.fields) -> FieldsOf(msg)]
      BY <2>1, LenProperties
    <3>2. raw.fields \in [1..Len(raw.fields) -> T]
      BY <2>2, <3>1, Zenon
    <3>3. QED
      BY <3>1, <3>2
  <2>4. "address" \in DOMAIN got => got.address \in AddressType
    <3>1. ASSUME "address" \in DOMAIN got PROVE got.address \in AddressType
      <4>1. at \in {"decode", "decoded", "garbled"}
        BY <1>2, <3>1 DEF SenderTyped, ReceiverTyped
      <4>2. msg \in Message /\ got.address = msg.address
        BY <1>2, <3>1, <4>1 DEF Layout, Faithful
      <4>3. QED
        BY <4>2, MessageAssumption DEF MessageType
    <3>2. QED
      BY <3>1
  <2>5. "dcs" \in DOMAIN got => got.dcs \in Scheme
    <3>1. ASSUME "dcs" \in DOMAIN got PROVE got.dcs \in Scheme
      <4>1. at \in {"decode", "decoded", "garbled"}
        BY <1>2, <3>1 DEF SenderTyped, ReceiverTyped
      <4>2. msg \in Message
        BY <1>2, <4>1 DEF Layout
      <4>3. PICK before \in Indication : got.dcs = SchemeGot(before)
        BY <1>2, <3>1, <4>1 DEF Faithful
      <4>4. EncodeDcs(msg.dcs) \in 0..255
        BY <4>2, MessageAssumption, SchemeIsOctet DEF MessageType
      <4> DEFINE s == DecodeDcs(EncodeDcs(msg.dcs), before)
      <4>5. s \in Scheme
        BY <4>4, OctetIsScheme
      <4>6. got.dcs = s \/ got.dcs = AnnounceVoicemail(s)
        BY <4>3 DEF SchemeGot
      <4> HIDE DEF s
      <4>7. QED
        BY <4>5, <4>6, AnnouncementIsScheme
    <3>2. QED
      BY <3>1
  <2>6. "pid" \in DOMAIN got => got.pid \in 0..255
    <3>1. ASSUME "pid" \in DOMAIN got PROVE got.pid \in 0..255
      <4>1. at \in {"decode", "decoded", "garbled"}
        BY <1>2, <3>1 DEF SenderTyped, ReceiverTyped
      <4>2. msg \in Message /\ got.pid = msg.pid
        BY <1>2, <3>1, <4>1 DEF Layout, Faithful
      <4>3. QED
        BY <4>2, MessageAssumption DEF MessageType
    <3>2. QED
      BY <3>1
  <2>7. held.indication \in Indication
    BY <1>2 DEF IInv, ReadInOrder
  <2>8. QED
    BY <1>2, <2>3, <2>4, <2>5, <2>6, <2>7 DEF TypeOK, SenderTyped, ReceiverTyped, T
<1>3. QED
  BY <1>1, <1>2, InvIsInvariant, LayoutIsInvariant, FaithfulIsInvariant, PTL
=============================================================================
