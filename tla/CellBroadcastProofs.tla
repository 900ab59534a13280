------------------------ MODULE CellBroadcastProofs ------------------------
(***************************************************************************)
(* For any pages, sent or received and passed on any number of times: a    *)
(* page arrives as it was sent, never in part, and does not drift.         *)
(***************************************************************************)
EXTENDS CellBroadcast, SequenceTheorems, TLAPS

-----------------------------------------------------------------------------
(* ---- septets and octets ------------------------------------------------*)
(* As many septets lie in the octets of n septets, or one more.             *)
LEMMA SeptetsBack ==
  \A n \in Nat : /\ OctetsFor(n) \in Nat
                 /\ SeptetsIn(OctetsFor(n)) = IF n % 8 = 7 THEN n + 1 ELSE n
<1> SUFFICES ASSUME NEW n \in Nat
             PROVE  /\ OctetsFor(n) \in Nat
                    /\ SeptetsIn(OctetsFor(n)) = IF n % 8 = 7 THEN n + 1 ELSE n
  OBVIOUS
<1> DEFINE q == n \div 8
           r == n % 8
<1>1. q \in Nat /\ r \in 0..7 /\ n = 8 * q + r
  OBVIOUS
<1> HIDE DEF q, r
<1>2. (7 * n + 7) \div 8 = 7 * q + r
  <2>1. 7 * n + 7 = 8 * (7 * q) + (7 * r + 7)
    BY <1>1
  <2>2. (7 * r + 7) \div 8 = r
    BY <1>1
  <2> QED BY <1>1, <2>1, <2>2
<1>3. (8 * (7 * q + r)) \div 7 = 8 * q + IF r = 7 THEN 8 ELSE r
  <2>1. 8 * (7 * q + r) = 7 * (8 * q) + 8 * r
    BY <1>1
  <2>2. (8 * r) \div 7 = IF r = 7 THEN 8 ELSE r
    BY <1>1
  <2> QED BY <1>1, <2>1, <2>2
<1>4. OctetsFor(n) = 7 * q + r /\ OctetsFor(n) \in Nat
  BY <1>1, <1>2 DEF OctetsFor
<1>5. SeptetsIn(OctetsFor(n)) = 8 * q + IF r = 7 THEN 8 ELSE r
  BY <1>3, <1>4 DEF SeptetsIn
<1> QED BY <1>1, <1>4, <1>5 DEF r

(* The septets that lie in n octets fill n octets.                          *)
LEMMA OctetsBack ==
  \A n \in Nat : SeptetsIn(n) \in Nat /\ OctetsFor(SeptetsIn(n)) = n
<1> SUFFICES ASSUME NEW n \in Nat PROVE SeptetsIn(n) \in Nat /\ OctetsFor(SeptetsIn(n)) = n
  OBVIOUS
<1> DEFINE q == n \div 7
           r == n % 7
<1>1. q \in Nat /\ r \in 0..6 /\ n = 7 * q + r
  OBVIOUS
<1> HIDE DEF q, r
<1>2. (8 * n) \div 7 = 8 * q + r
  <2>1. 8 * n = 7 * (8 * q) + 8 * r
    BY <1>1
  <2>2. (8 * r) \div 7 = r
    BY <1>1
  <2> QED BY <1>1, <2>1, <2>2
<1>3. (7 * (8 * q + r) + 7) \div 8 = 7 * q + r
  <2>1. 7 * (8 * q + r) + 7 = 8 * (7 * q) + (7 * r + 7)
    BY <1>1
  <2>2. (7 * r + 7) \div 8 = r
    BY <1>1
  <2> QED BY <1>1, <2>1, <2>2
<1> QED BY <1>1, <1>2, <1>3 DEF OctetsFor, SeptetsIn

(* The body is the septets, and a 0 where seven bits are to spare.          *)
LEMMA BodyIs ==
  ASSUME NEW S, 0 \in S, NEW s \in Seq(S)
  PROVE  /\ BodyOf(s) \in Seq(S)
         /\ Len(BodyOf(s)) = SeptetsIn(OctetsFor(Len(s)))
         /\ BodyOf(s) = IF Len(s) % 8 = 7 THEN Append(s, 0) ELSE s
<1> DEFINE n == Len(s)
           all == SeptetsIn(OctetsFor(n))
           k == all - n
           zeros == [i \in 1..k |-> 0]
<1>0. n \in Nat
  OBVIOUS
<1>1. /\ n % 8 = 7 => all = n + 1 /\ k = 1
      /\ n % 8 # 7 => all = n /\ k = 0
  <2> HIDE DEF n, all
  <2>1. all = IF n % 8 = 7 THEN n + 1 ELSE n
    BY <1>0, SeptetsBack DEF all
  <2> QED BY <1>0, <2>1
<1>2. BodyOf(s) = s \o zeros
  BY DEF BodyOf
<1>3. CASE n % 8 = 7
  <2>1. zeros = <<0>>
    <3> HIDE DEF k
    <3>1. k = 1
      BY <1>1, <1>3
    <3> QED BY <3>1
  <2>2. BodyOf(s) = Append(s, 0)
    BY <1>2, <2>1, AppendIsConcat
  <2>3. Append(s, 0) \in Seq(S) /\ Len(Append(s, 0)) = n + 1
    BY AppendProperties
  <2> QED BY <1>1, <1>3, <2>2, <2>3
<1>4. CASE n % 8 # 7
  <2>1. zeros = <<>>
    <3> HIDE DEF k
    <3>1. k = 0
      BY <1>1, <1>4
    <3> QED BY <3>1
  <2>2. BodyOf(s) = s
    BY <1>2, <2>1, ConcatEmptySeq
  <2> QED BY <1>1, <1>4, <2>2
<1> QED BY <1>3, <1>4
-----------------------------------------------------------------------------
(* ---- coding schemes ----------------------------------------------------*)
(* The alphabet, and the two schemes that come with a language.             *)
LEMMA SchemeFacts ==
  ASSUME NEW d \in Octet
  PROVE  /\ DcsAlphabet(d) \in 0..2
         /\ d = 16 => DcsAlphabet(d) = 0
         /\ d = 17 => DcsAlphabet(d) = 2
         /\ DcsLanguage(d) \in Octet
         /\ DcsLanguage(d) = ISO_639 <=> d \in {16, 17}
<1>1. d \in 0..255 /\ d \div 16 \in 0..15 /\ d % 16 \in 0..15 /\ d = 16 * (d \div 16) + (d % 16)
  BY DEF Octet
<1>2. DcsAlphabet(d) = IF d = 17 THEN 2
                       ELSE IF d \div 16 \in 4..7 /\ (d \div 4) % 4 # 3 THEN (d \div 4) % 4
                       ELSE IF d \div 16 = 15 THEN (d \div 4) % 2 ELSE 0
  BY <1>1 DEF DcsAlphabet, Alphabet
<1>3. DcsLanguage(d) = IF d \div 16 \in {0, 2, 3} THEN d
                       ELSE IF d \in {16, 17} THEN ISO_639 ELSE UNSPECIFIED
  BY <1>1 DEF DcsLanguage
<1>4. DcsAlphabet(d) \in 0..2 /\ (d = 16 => DcsAlphabet(d) = 0) /\ (d = 17 => DcsAlphabet(d) = 2)
  BY <1>1, <1>2
<1>5. DcsLanguage(d) \in Octet /\ (DcsLanguage(d) = ISO_639 <=> d \in {16, 17})
  BY <1>1, <1>3 DEF ISO_639, UNSPECIFIED, Octet
<1> QED BY <1>4, <1>5

(* The group and the class, whose cases need not be told apart.             *)
LEMMA GroupAndClass ==
  ASSUME NEW d \in Octet
  PROVE  DcsGroup(d) \in {"defined", "wap", "reserved"} /\ DcsClass(d) \in 0..NONE
<1>1. DcsGroup(d) \in {"defined", "wap", "reserved"}
  <2>1. DcsGroup(d) = IF d \div 16 \in {0, 2, 3, 4, 5, 6, 7, 15} \/ d \in {16, 17} THEN "defined"
                      ELSE IF d \div 16 = 14 THEN "wap" ELSE "reserved"
    BY DEF DcsGroup, Octet
  <2> QED BY <2>1
<1>2. DcsClass(d) = IF d \div 16 \in {5, 7} THEN d % 4
                    ELSE IF d \div 16 = 15 /\ d % 4 # 0 THEN d % 4 ELSE NONE
  BY DEF DcsClass, Octet
<1> QED BY <1>1, <1>2 DEF Octet, NONE

(* What a body may hold, and what its two leading members say.              *)
Elem(d) == IF DcsAlphabet(d) = Alphabet.SEVEN_BIT THEN 0..127 ELSE Octet

LEMMA IsoLanguageIs ==
  ASSUME NEW d \in Octet, NEW body,
         d \in {16, 17} => body[1] \in Elem(d) /\ body[2] \in Elem(d)
  PROVE  /\ DcsIsoLanguage(d, body) \in [1..3 -> 0..127]
         /\ d \notin {16, 17} => DcsIsoLanguage(d, body) = NoLanguage
         /\ d \in {16, 17} => DcsIsoLanguage(d, body)[3] = CR
         /\ d = 16 => DcsIsoLanguage(d, body) = <<body[1], body[2], CR>>
<1>1. DcsIsoLanguage(d, body) =
        IF d = 16 THEN <<body[1], body[2], CR>>
        ELSE IF d = 17 THEN <<body[1] % 128, body[1] \div 128 + (body[2] % 64) * 2, CR>>
        ELSE NoLanguage
  BY DEF DcsIsoLanguage
<1>2. CASE d = 16
  <2>1. body[1] \in 0..127 /\ body[2] \in 0..127
    BY <1>2, SchemeFacts DEF Elem, Alphabet
  <2> QED BY <1>1, <1>2, <2>1 DEF CR
<1>3. CASE d = 17
  <2>1. body[1] \in 0..255 /\ body[2] \in 0..255
    BY <1>3, SchemeFacts, SMTT(30) DEF Elem, Alphabet, Octet
  <2>2. body[1] % 128 \in 0..127 /\ body[1] \div 128 + (body[2] % 64) * 2 \in 0..127
    BY <2>1
  <2> QED BY <1>1, <1>3, <2>2, SMTT(30) DEF CR
<1>4. CASE d \notin {16, 17}
  BY <1>1, <1>4 DEF NoLanguage
<1> QED BY <1>2, <1>3, <1>4

LEMMA DcsIs ==
  ASSUME NEW d \in Octet, NEW body,
         d \in {16, 17} => body[1] \in Elem(d) /\ body[2] \in Elem(d)
  PROVE  Dcs(d, body) \in DcsType
<1>1. /\ DcsIsoLanguage(d, body) \in [1..3 -> 0..127]
      /\ DcsAlphabet(d) \in 0..2 /\ DcsLanguage(d) \in Octet
      /\ DcsGroup(d) \in {"defined", "wap", "reserved"} /\ DcsClass(d) \in 0..NONE
  BY SchemeFacts, GroupAndClass, IsoLanguageIs
<1>2. (d \div 16 \in {6, 7}) \in BOOLEAN
  OBVIOUS
<1> QED BY <1>1, <1>2 DEF Dcs, DcsType

(* Only the language depends on the body.                                   *)
LEMMA DcsOfBody ==
  ASSUME NEW d, NEW body, NEW lang, lang = DcsIsoLanguage(d, body)
  PROVE  Dcs(d, body) = [Dcs(d, <<0, 0>>) EXCEPT !.iso_639_lang = lang]
BY DEF Dcs

(* What a page says of its scheme.                                          *)
LEMMA PageFacts ==
  ASSUME NEW p, ClientPage(p), NEW d, d = p.dcs.raw_dcs_data
  PROVE  /\ d \in Octet
         /\ SevenBit(p) <=> DcsAlphabet(d) = 0
         /\ HasLanguage(p) <=> d \in {16, 17}
         /\ InPlace(p) <=> d # 17
         /\ d = 16 => SevenBit(p)
<1>1. p \in PageType /\ p.dcs = [Dcs(d, <<0, 0>>) EXCEPT !.iso_639_lang = p.dcs.iso_639_lang]
  BY DEF ClientPage
<1>2. d \in Octet
  BY <1>1 DEF PageType, DcsType
<1>3. p.dcs.alphabet = DcsAlphabet(d) /\ p.dcs.language = DcsLanguage(d)
  <2>1. Dcs(d, <<0, 0>>).alphabet = DcsAlphabet(d) /\ Dcs(d, <<0, 0>>).language = DcsLanguage(d)
    BY DEF Dcs
  <2>2. /\ [Dcs(d, <<0, 0>>) EXCEPT !.iso_639_lang = p.dcs.iso_639_lang].alphabet = Dcs(d, <<0, 0>>).alphabet
        /\ [Dcs(d, <<0, 0>>) EXCEPT !.iso_639_lang = p.dcs.iso_639_lang].language = Dcs(d, <<0, 0>>).language
    BY DEF Dcs
  <2> QED BY <1>1, <2>1, <2>2
<1>4. SevenBit(p) <=> DcsAlphabet(d) = 0
  BY <1>3 DEF SevenBit, Alphabet
<1>5. HasLanguage(p) <=> d \in {16, 17}
  BY <1>2, <1>3, SchemeFacts DEF HasLanguage
<1> QED BY <1>2, <1>4, <1>5, SchemeFacts DEF InPlace
-----------------------------------------------------------------------------
(* ---- pages and raw pages -----------------------------------------------*)
(* What an accepted or an encoded page is.                                  *)
RawIsSound(r) ==
  /\ r \in RawType /\ r.len >= HEADER_LEN
  /\ LET d == r.header.raw_dcs_data
         octets == r.len - HEADER_LEN
     IN /\ r.body \in Seq(Elem(d))
        /\ Len(r.body) = IF DcsAlphabet(d) = 0 THEN SeptetsIn(octets) ELSE octets
        /\ d = 16 => Len(r.body) >= 3
        /\ d = 17 => Len(r.body) >= 2

PageIsSound(p) == ClientPage(p) /\ InBuffers(p)

(* How much of a body is language.                                          *)
Skip(d) == IF d = 16 THEN 3 ELSE IF d = 17 THEN 2 ELSE 0

(* The fields of both structures.                                           *)
LEMMA RawFields ==
  ASSUME NEW r \in RawType
  PROVE  /\ r.header \in HeaderType /\ r.body \in Seq(Octet) /\ Len(r.body) \in Nat
         /\ r.len \in Nat /\ r.header.raw_dcs_data \in Octet
<1>1. r.header \in HeaderType /\ r.body \in Seq(Octet) /\ r.len \in UInt16
  BY Zenon DEF RawType
<1>2. r.header.raw_dcs_data \in Octet
  <2> DEFINE h == r.header
  <2>1. h \in HeaderType
    BY <1>1
  <2> HIDE DEF h
  <2> QED BY <2>1, Zenon DEF HeaderType, h
<1>3. r.len \in Nat
  <2> DEFINE n == r.len
  <2>1. n \in UInt16
    BY <1>1
  <2> HIDE DEF n
  <2>2. n \in Nat
    BY <2>1 DEF UInt16, UINT16_MAX
  <2> QED BY <2>2 DEF n
<1>4. Len(r.body) \in Nat
  BY <1>1, LenProperties, Zenon
<1> QED BY <1>1, <1>2, <1>3, <1>4, Zenon

LEMMA PageFields ==
  ASSUME NEW p \in PageType
  PROVE  /\ p.serial \in SerialType /\ p.cb_srv_id \in UInt16 /\ p.dcs \in DcsType
         /\ p.page_number \in Octet /\ p.total_pages \in Octet
         /\ p.text \in Seq(Octet) /\ Len(p.text) \in Nat
<1>1. /\ p.serial \in SerialType /\ p.cb_srv_id \in UInt16 /\ p.dcs \in DcsType
      /\ p.page_number \in Octet /\ p.total_pages \in Octet /\ p.text \in Seq(Octet)
  BY Zenon DEF PageType
<1>2. Len(p.text) \in Nat
  BY <1>1, LenProperties, Zenon
<1> QED BY <1>1, <1>2, Zenon

LEMMA RawIs ==
  ASSUME NEW h \in HeaderType, NEW b \in Seq(Octet), NEW n \in 0..500
  PROVE  [header |-> h, body |-> b, len |-> n] \in RawType
<1>1. n \in Nat /\ n <= UINT16_MAX
  BY DEF UINT16_MAX
<1> QED BY <1>1 DEF RawType, UInt16

LEMMA FunctionIsSeq ==
  ASSUME NEW n \in Nat, NEW S, NEW f \in [1..n -> S]
  PROVE  f \in Seq(S) /\ Len(f) = n
OBVIOUS

(* A language and what follows it.                                          *)
Leads(l, t, c, S) == /\ c \in Seq(S) /\ Len(c) = 3 + Len(t)
                     /\ \A i \in 1..3 : c[i] = l[i]
                     /\ \A i \in 1..Len(t) : c[3 + i] = t[i]

LEMMA BehindLanguage ==
  ASSUME NEW S, NEW l \in [1..3 -> S], NEW t \in Seq(S), NEW c, c = l \o t
  PROVE  Leads(l, t, c, S)
<1>1. l \in Seq(S) /\ Len(l) = 3
  BY FunctionIsSeq, 3 \in Nat, Zenon
<1>2. /\ c \in Seq(S) /\ Len(c) = 3 + Len(t)
      /\ \A i \in 1..3 + Len(t) : c[i] = IF i <= 3 THEN l[i] ELSE t[i - 3]
  <2>1. /\ l \o t \in Seq(S) /\ Len(l \o t) = Len(l) + Len(t)
        /\ \A i \in 1..Len(l) + Len(t) : (l \o t)[i] = IF i <= Len(l) THEN l[i] ELSE t[i - Len(l)]
    BY <1>1, ConcatProperties, Zenon
  <2> QED BY <1>1, <2>1
<1> DEFINE n == Len(t)
<1>3. n \in Nat
  OBVIOUS
<1>4. \A i \in 1..3 + n : c[i] = IF i <= 3 THEN l[i] ELSE t[i - 3]
  BY <1>2
<1> HIDE DEF n
<1>5. ASSUME NEW i \in 1..3 PROVE c[i] = l[i]
  <2>1. i \in 1..3 + n /\ i <= 3
    BY <1>3
  <2> QED BY <1>4, <2>1, Zenon
<1>6. ASSUME NEW i \in 1..n PROVE c[3 + i] = t[i]
  <2>1. 3 + i \in 1..3 + n /\ ~(3 + i <= 3) /\ (3 + i) - 3 = i
    BY <1>3
  <2> QED BY <1>4, <2>1
<1> QED BY <1>2, <1>5, <1>6 DEF n, Leads

LEMMA NetworkIsSound == ASSUME NEW r, NetworkPage(r) PROVE RawIsSound(r)
<1> DEFINE d == r.header.raw_dcs_data
           octets == r.len - HEADER_LEN
<1>1. r \in RawType /\ octets \in 3..249 /\ r.len >= HEADER_LEN /\ d \in Octet
  <2>1. r \in RawType /\ r.len \in 9..255
    BY DEF NetworkPage, HEADER_LEN, MAX_LEN
  <2>2. d \in Octet
    BY <2>1, RawFields
  <2> HIDE DEF d
  <2>3. octets \in 3..249 /\ r.len >= HEADER_LEN
    BY <2>1 DEF HEADER_LEN
  <2> QED BY <2>1, <2>2, <2>3
<1>2. CASE DcsAlphabet(d) = 0
  <2>1. r.body \in Seq(Elem(d)) /\ Len(r.body) = SeptetsIn(octets)
    BY <1>2 DEF NetworkPage, Elem, Alphabet
  <2>2. SeptetsIn(octets) >= 3
    BY <1>1 DEF SeptetsIn
  <2> QED BY <1>1, <1>2, <2>1, <2>2 DEF RawIsSound
<1>3. CASE DcsAlphabet(d) # 0
  <2>1. r.body \in Seq(Elem(d)) /\ Len(r.body) = octets
    BY <1>1, <1>3, RawFields DEF NetworkPage, Elem, Alphabet
  <2>2. Len(r.body) = octets
    BY <2>1
  <2>3. octets >= 3 /\ octets >= 2
    BY <1>1
  <2> HIDE DEF octets
  <2>4. Len(r.body) >= 3 /\ Len(r.body) >= 2
    BY <2>2, <2>3, Zenon
  <2> QED BY <1>1, <1>3, <2>1, <2>4, Zenon DEF RawIsSound, octets
<1> QED BY <1>2, <1>3

LEMMA HeaderIs ==
  ASSUME NEW p, ClientPage(p)
  PROVE  Header(p) \in HeaderType /\ Header(p).raw_dcs_data = p.dcs.raw_dcs_data
<1>1. p \in PageType
  BY DEF ClientPage
<1>2. p.page_number % 16 \in 0..15 /\ p.total_pages % 16 \in 0..15
  <2>1. p.page_number \in Octet /\ p.total_pages \in Octet
    BY <1>1, PageFields, Zenon
  <2> QED BY <2>1 DEF Octet
<1>3. p.serial.raw_serial_number \in UInt16 /\ p.cb_srv_id \in UInt16 /\ p.dcs.raw_dcs_data \in Octet
  BY <1>1, PageFields DEF SerialType, DcsType
<1> QED BY <1>2, <1>3 DEF Header, HeaderType

(* gw_user_data of a 7-bit page: language and text.                         *)
LEMMA SeptetsOfPage ==
  ASSUME NEW p, PageIsSound(p), SevenBit(p)
  PROVE  LET s == Septets7(p)
             n == IF HasLanguage(p) THEN 3 ELSE 0
         IN /\ s \in Seq(0..127) /\ Len(s) = n + Len(p.text) /\ Len(s) <= MAX_LEN
            /\ HasLanguage(p) => Len(s) < MAX_LEN /\ \A i \in 1..3 : s[i] = p.dcs.iso_639_lang[i]
            /\ \A i \in 1..Len(p.text) : s[n + i] = p.text[i]
<1> DEFINE lang == p.dcs.iso_639_lang
<1>1. p.text \in Seq(0..127) /\ p \in PageType
  BY DEF PageIsSound, ClientPage
<1>2. lang \in [1..3 -> 0..127]
  BY <1>1 DEF PageType, DcsType
<1>3. Len(p.text) \in Nat /\ Len(p.text) <= MAX_LEN - IF HasLanguage(p) THEN 4 ELSE 0
  BY <1>1 DEF PageIsSound, InBuffers
<1>4. CASE HasLanguage(p)
  <2>1. Septets7(p) = lang \o p.text
    BY <1>4 DEF Septets7
  <2> DEFINE c == lang \o p.text
  <2>0. c = lang \o p.text
    OBVIOUS
  <2> HIDE DEF c
  <2>2. /\ c \in Seq(0..127) /\ Len(c) = 3 + Len(p.text)
        /\ \A i \in 1..3 : c[i] = lang[i]
        /\ \A i \in 1..Len(p.text) : c[3 + i] = p.text[i]
    <3> DEFINE t == p.text
               S == 0..127
    <3>1. lang \in [1..3 -> S] /\ t \in Seq(S) /\ c = lang \o t
      BY <1>1, <1>2, <2>0
    <3> HIDE DEF lang, t, S
    <3>2. Leads(lang, t, c, S)
      BY <3>1, BehindLanguage, Zenon
    <3> QED BY <3>2, Zenon DEF t, lang, S, Leads
  <2>3. Len(c) < MAX_LEN /\ Len(c) <= MAX_LEN
    BY <1>3, <1>4, <2>2 DEF MAX_LEN
  <2> QED BY <1>4, <2>1, <2>2, <2>3 DEF c
<1>5. CASE ~HasLanguage(p)
  <2>1. Septets7(p) = p.text
    BY <1>5 DEF Septets7
  <2>2. \A i \in 1..Len(p.text) : 0 + i = i
    BY <1>3
  <2> QED BY <1>1, <1>3, <1>5, <2>1, <2>2 DEF MAX_LEN
<1> QED BY <1>4, <1>5

(* The encoder, but for a language in octets.                               *)
Encoded(p) == IF SevenBit(p) THEN Encoded7Bit(p) ELSE EncodedOctets(p)

LEMMA EncodedIsSound ==
  ASSUME NEW p, PageIsSound(p), InPlace(p)
  PROVE  RawIsSound(Encoded(p)) /\ Encoded(p).header = Header(p)
<1> DEFINE r == Encoded(p)
           d == p.dcs.raw_dcs_data
<1>1. ClientPage(p) /\ InBuffers(p) /\ p \in PageType
  BY DEF PageIsSound, ClientPage
<1>2. /\ d \in Octet /\ d # 17
      /\ SevenBit(p) <=> DcsAlphabet(d) = 0
      /\ d = 16 => HasLanguage(p) /\ SevenBit(p)
  BY <1>1, PageFacts
<1>3. Header(p) \in HeaderType /\ Header(p).raw_dcs_data = d
  BY <1>1, HeaderIs
<1>4. CASE SevenBit(p)
  <2> DEFINE s == IF Len(Septets7(p)) < MAX_LEN THEN Septets7(p) ELSE <<>>
             b == BodyOf(s)
  <2>1. /\ Septets7(p) \in Seq(0..127)
        /\ d = 16 => Len(Septets7(p)) < MAX_LEN /\ Len(Septets7(p)) >= 3
    <3>1. Len(p.text) \in Nat
      BY <1>1, PageFields
    <3>2. Septets7(p) \in Seq(0..127)
      BY <1>4, SeptetsOfPage
    <3>3. HasLanguage(p) => Len(Septets7(p)) = 3 + Len(p.text) /\ Len(Septets7(p)) < MAX_LEN
      BY <1>4, SeptetsOfPage
    <3>4. d = 16 => HasLanguage(p)
      BY <1>2
    <3> HIDE DEF d
    <3> QED BY <3>1, <3>2, <3>3, <3>4
  <2>2. /\ s \in Seq(0..127) /\ Len(s) \in 0..254 /\ (d = 16 => Len(s) >= 3)
    <3> DEFINE w == Septets7(p)
    <3>1. w \in Seq(0..127) /\ (d = 16 => Len(w) < MAX_LEN /\ Len(w) >= 3)
      BY <2>1
    <3> HIDE DEF w
    <3>2. Len(w) \in Nat
      BY <3>1, LenProperties, Zenon
    <3>3. CASE Len(w) < MAX_LEN
      <4>1. s = w
        BY <3>3 DEF w
      <4>2. Len(w) \in 0..254
        <5> DEFINE n == Len(w)
        <5>1. n \in Nat /\ n < MAX_LEN
          BY <3>2, <3>3
        <5> HIDE DEF n
        <5>2. n \in 0..254
          BY <5>1 DEF MAX_LEN
        <5> QED BY <5>2 DEF n
      <4> QED BY <3>1, <4>1, <4>2, Zenon
    <3>4. CASE ~(Len(w) < MAX_LEN)
      <4>1. s = <<>> /\ d # 16
        BY <3>1, <3>4 DEF w
      <4>2. <<>> \in Seq(0..127) /\ Len(<<>>) \in 0..254
        OBVIOUS
      <4> QED BY <4>1, <4>2, Zenon
    <3> QED BY <3>3, <3>4
  <2>3. r = [header |-> Header(p), body |-> b, len |-> HEADER_LEN + OctetsFor(Len(s))]
    BY <1>4 DEF Encoded, Encoded7Bit
  <2> HIDE DEF s
  <2>4. b \in Seq(0..127) /\ Len(b) = SeptetsIn(OctetsFor(Len(s))) /\ Len(b) \in Nat /\ Len(b) >= Len(s)
    <3>1. b \in Seq(0..127) /\ Len(b) = SeptetsIn(OctetsFor(Len(s)))
      BY <2>2, BodyIs
    <3> HIDE DEF b
    <3> DEFINE n == Len(s)
               all == SeptetsIn(OctetsFor(n))
    <3>2. n \in Nat
      BY <2>2
    <3> HIDE DEF n, all
    <3>3. all = IF n % 8 = 7 THEN n + 1 ELSE n
      BY <3>2, SeptetsBack DEF all
    <3>4. all \in Nat /\ all >= n
      BY <3>2, <3>3
    <3> QED BY <3>1, <3>4 DEF n, all
  <2> HIDE DEF b, d, r
  <2>5. OctetsFor(Len(s)) \in 0..250
    <3> DEFINE n == Len(s)
    <3>1. n \in 0..254
      BY <2>2
    <3> HIDE DEF n
    <3>2. OctetsFor(n) \in 0..250
      BY <3>1 DEF OctetsFor
    <3> QED BY <3>2 DEF n
  <2>6. b \in Seq(Octet) /\ b \in Seq(Elem(d))
    <3>1. Elem(d) = 0..127
      BY <1>2, <1>4 DEF Elem, Alphabet
    <3>2. 0..127 \subseteq Octet
      BY DEF Octet
    <3> QED BY <2>4, <3>1, <3>2, SeqMonotonic
  <2>7. HEADER_LEN + OctetsFor(Len(s)) \in 0..500
    <3> DEFINE n == OctetsFor(Len(s))
    <3> HIDE DEF n
    <3>1. n \in 0..250
      BY <2>5 DEF n
    <3>2. HEADER_LEN + n \in 0..500
      BY <3>1 DEF HEADER_LEN
    <3> QED BY <3>2 DEF n
  <2>8. r \in RawType /\ r.len >= HEADER_LEN /\ r.len - HEADER_LEN = OctetsFor(Len(s))
    <3>1. r \in RawType
      BY <1>3, <2>3, <2>6, <2>7, RawIs, Zenon
    <3>2. r.len = HEADER_LEN + OctetsFor(Len(s))
      BY <2>3
    <3> DEFINE n == OctetsFor(Len(s))
    <3> HIDE DEF n
    <3>3. n \in 0..250
      BY <2>5 DEF n
    <3>4. HEADER_LEN + n >= HEADER_LEN /\ (HEADER_LEN + n) - HEADER_LEN = n
      BY <3>3 DEF HEADER_LEN
    <3> QED BY <3>1, <3>2, <3>4, Zenon DEF n
  <2>9. /\ r.body = b /\ r.header = Header(p) /\ r.header.raw_dcs_data = d
    BY <1>3, <2>3
  <2>10. d = 16 => Len(b) >= 3
    BY <2>2, <2>4
  <2> QED BY <1>2, <1>4, <2>4, <2>6, <2>8, <2>9, <2>10 DEF RawIsSound, r
<1>5. CASE ~SevenBit(p)
  <2>1. r = [header |-> Header(p), body |-> p.text, len |-> HEADER_LEN + Len(p.text)]
    BY <1>5 DEF Encoded, EncodedOctets
  <2>2. p.text \in Seq(Octet) /\ Len(p.text) \in 0..247
    <3>1. p.text \in Seq(Octet) /\ Len(p.text) \in Nat
      BY <1>1, PageFields
    <3> DEFINE n == Len(p.text)
    <3>2. n <= 247
      BY <1>1, <1>5 DEF InBuffers, MAX_LEN, HEADER_LEN
    <3> HIDE DEF n
    <3>3. n \in 0..247
      <4>1. n \in Nat
        BY <3>1 DEF n
      <4> QED BY <3>2, <4>1
    <3> QED BY <3>1, <3>3, Zenon DEF n
  <2>3. Elem(d) = Octet
    BY <1>2, <1>5 DEF Elem, Alphabet
  <2> HIDE DEF r, d
  <2>4. r \in RawType /\ r.len >= HEADER_LEN /\ r.len - HEADER_LEN = Len(p.text)
    <3> DEFINE n == Len(p.text)
    <3> HIDE DEF n
    <3>0. n \in 0..247
      BY <2>2 DEF n
    <3>1. HEADER_LEN + n \in 0..500 /\ HEADER_LEN + n >= HEADER_LEN /\ (HEADER_LEN + n) - HEADER_LEN = n
      BY <3>0 DEF HEADER_LEN
    <3>2. r \in RawType
      BY <1>3, <2>1, <2>2, <3>1, RawIs, Zenon DEF n
    <3>3. r.len = HEADER_LEN + n
      BY <2>1 DEF n
    <3> QED BY <3>1, <3>2, <3>3, Zenon DEF n
  <2>5. r.body = p.text /\ r.header = Header(p) /\ r.header.raw_dcs_data = d
    BY <1>3, <2>1
  <2> QED BY <1>2, <1>5, <2>2, <2>3, <2>4, <2>5 DEF RawIsSound, r
<1> QED BY <1>4, <1>5
-----------------------------------------------------------------------------
(* ---- the decoder -------------------------------------------------------*)
(* The rest of a body behind its language.                                  *)
Rest(b, k, t, S) == /\ t \in Seq(S) /\ Len(t) = Len(b) - k
                    /\ \A i \in 1..Len(t) : t[i] = b[k + i]

LEMMA RestIs ==
  ASSUME NEW S, NEW b \in Seq(S), NEW k \in Nat, k <= Len(b),
         NEW t, t = SubSeq(b, k + 1, Len(b))
  PROVE  Rest(b, k, t, S)
<1> DEFINE n == Len(b)
<1>1. n \in Nat /\ k <= n
  BY LenProperties
<1>2. \A i \in 1..n : b[i] \in S
  BY ElementOfSeq
<1> HIDE DEF n
<1>3. \A i \in (k + 1)..n : b[i] \in S
  <2> SUFFICES ASSUME NEW i \in (k + 1)..n PROVE b[i] \in S
    OBVIOUS
  <2>1. i \in 1..n
    BY <1>1
  <2> QED BY <1>2, <2>1, Zenon
<1>4. k + 1 \in Int /\ n \in Int
  BY <1>1
<1> DEFINE u == SubSeq(b, k + 1, n)
<1>5. /\ u \in Seq(S) /\ Len(u) = IF k + 1 <= n THEN n - (k + 1) + 1 ELSE 0
      /\ \A i \in 1..n - (k + 1) + 1 : u[i] = b[k + 1 + i - 1]
  <2> DEFINE f == k + 1
  <2>1. f \in Int /\ n \in Int /\ (\A i \in f..n : b[i] \in S)
    BY <1>3, <1>4
  <2> HIDE DEF f
  <2>2. /\ SubSeq(b, f, n) \in Seq(S) /\ Len(SubSeq(b, f, n)) = IF f <= n THEN n - f + 1 ELSE 0
        /\ \A i \in 1..n - f + 1 : SubSeq(b, f, n)[i] = b[f + i - 1]
    BY ONLY <2>1, SubSeqProperties
  <2> QED BY <2>2, Zenon DEF f
<1>6. t = u
  BY DEF n
<1> HIDE DEF u
<1> DEFINE m == Len(u)
<1>7. m = IF k + 1 <= n THEN n - (k + 1) + 1 ELSE 0
  BY <1>5
<1> HIDE DEF m
<1>8. m = n - k /\ m = n - (k + 1) + 1
  BY <1>1, <1>7
<1>9. ASSUME NEW i \in 1..m PROVE u[i] = b[k + i]
  <2>1. i \in 1..n - (k + 1) + 1 /\ k + 1 + i - 1 = k + i
    BY <1>1, <1>8
  <2>2. u[i] = b[k + 1 + i - 1]
    BY <1>5, <2>1, Zenon
  <2> QED BY <2>1, <2>2, Zenon
<1> QED BY <1>5, <1>6, <1>8, <1>9, Zenon DEF Rest, m, n

LEMMA DcsFieldsOf ==
  ASSUME NEW d, NEW b
  PROVE  /\ Dcs(d, b).alphabet = DcsAlphabet(d) /\ Dcs(d, b).language = DcsLanguage(d)
         /\ Dcs(d, b).raw_dcs_data = d /\ Dcs(d, b).iso_639_lang = DcsIsoLanguage(d, b)
BY DEF Dcs

LEMMA TextIs ==
  ASSUME NEW r, RawIsSound(r), NEW d, d = r.header.raw_dcs_data
  PROVE  /\ Skip(d) \in 0..3 /\ Skip(d) <= Len(r.body) /\ Len(r.body) \in Nat /\ d \in Octet
         /\ Rest(r.body, Skip(d), Decoded(r).text, Elem(d))
<1> DEFINE octets == r.len - HEADER_LEN
           n == Len(r.body)
           t == Text(Dcs(d, r.body), r)
<1>1. r \in RawType /\ d \in Octet /\ n \in Nat
  BY RawFields, Zenon DEF RawIsSound
<1>2. /\ r.body \in Seq(Elem(d)) /\ n = IF DcsAlphabet(d) = 0 THEN SeptetsIn(octets) ELSE octets
      /\ (d = 16 => n >= 3) /\ (d = 17 => n >= 2)
  BY Zenon DEF RawIsSound
<1>3. Decoded(r).text = t
  BY DEF Decoded
<1>4. t = SubSeq(r.body, Skip(d) + 1, n)
  <2>1. t = LET skip == IF DcsLanguage(d) # ISO_639 THEN 0
                        ELSE IF DcsAlphabet(d) = Alphabet.SEVEN_BIT THEN 3 ELSE 2
                count == IF DcsAlphabet(d) = Alphabet.SEVEN_BIT THEN SeptetsIn(octets) ELSE octets
            IN SubSeq(r.body, skip + 1, count)
    BY DcsFieldsOf, Zenon DEF Text
  <2>2. Alphabet.SEVEN_BIT = 0
    BY DEF Alphabet
  <2>3. DcsLanguage(d) = ISO_639 <=> d \in {16, 17}
    BY <1>1, SchemeFacts, Zenon
  <2>4. (d = 16 => DcsAlphabet(d) = 0) /\ (d = 17 => DcsAlphabet(d) = 2)
    BY <1>1, SchemeFacts, Zenon
  <2>5. Skip(d) = IF DcsLanguage(d) # ISO_639 THEN 0
                  ELSE IF DcsAlphabet(d) = Alphabet.SEVEN_BIT THEN 3 ELSE 2
    BY <2>2, <2>3, <2>4 DEF Skip
  <2>6. n = IF DcsAlphabet(d) = Alphabet.SEVEN_BIT THEN SeptetsIn(octets) ELSE octets
    BY <1>2, <2>2, Zenon
  <2> QED BY <2>1, <2>5, <2>6, Zenon
<1>5. Skip(d) \in 0..3 /\ Skip(d) \in Nat /\ Skip(d) <= n
  <2> HIDE DEF n
  <2> QED BY <1>1, <1>2 DEF Skip
<1> QED BY <1>1, <1>2, <1>3, <1>4, <1>5, RestIs, Zenon

LEMMA SerialIs ==
  ASSUME NEW n \in UInt16
  PROVE  SerialNumber(n) \in SerialType /\ SerialNumber(n).raw_serial_number = n
<1> DEFINE a == n \div 16384
           b == (n \div 16) % 1024
           c == n % 16
<1>1. a \in 0..3 /\ b \in 0..1023 /\ c \in 0..15
  <2>1. n \in Nat /\ n <= UINT16_MAX
    BY DEF UInt16, UINT16_MAX
  <2>2. n \in Nat /\ n < 65536
    BY <2>1 DEF UINT16_MAX
  <2> QED BY <2>2
<1>2. SerialNumber(n) = [geo_scope |-> a, message_code |-> b, update_number |-> c,
                         raw_serial_number |-> n]
  BY DEF SerialNumber
<1> HIDE DEF a, b, c
<1>3. SerialNumber(n) \in SerialType
  BY <1>1, <1>2 DEF SerialType
<1>4. SerialNumber(n).raw_serial_number = n
  BY <1>2
<1> QED BY <1>3, <1>4

LEMMA HeaderFields ==
  ASSUME NEW h \in HeaderType
  PROVE  /\ h.raw_serial_number \in UInt16 /\ h.cb_srv_id \in UInt16 /\ h.raw_dcs_data \in Octet
         /\ h.page_number \in 0..15 /\ h.total_pages \in 0..15
BY Zenon DEF HeaderType

LEMMA NumbersAre ==
  ASSUME NEW h \in HeaderType
  PROVE  PageNumbers(h)[1] \in 0..15 /\ PageNumbers(h)[2] \in 0..15
<1>1. h.page_number \in 0..15 /\ h.total_pages \in 0..15
  BY HeaderFields, Zenon
<1> DEFINE a == h.page_number
           b == h.total_pages
<1>2. PageNumbers(h) = IF a = 0 \/ b = 0 THEN <<1, 1>> ELSE <<a, b>>
  BY Zenon DEF PageNumbers
<1>3. a \in 0..15 /\ b \in 0..15
  BY <1>1
<1> HIDE DEF a, b
<1> QED BY <1>2, <1>3

(* A page that was accepted is one a client could send.                     *)
LEMMA DecodedIsSound ==
  ASSUME NEW r, RawIsSound(r), r.len <= PAGE_SIZE
  PROVE  PageIsSound(Decoded(r))
<1> DEFINE d == r.header.raw_dcs_data
           b == r.body
           p == Decoded(r)
           k == Skip(d)
           n == Len(b)
<1>1. r.header \in HeaderType /\ d \in Octet /\ r.len \in Nat
  BY RawFields, Zenon DEF RawIsSound
<1>2. /\ k \in 0..3 /\ k <= n /\ n \in Nat
      /\ p.text \in Seq(Elem(d)) /\ Len(p.text) = n - k
  BY TextIs, Zenon DEF Rest
<1>3. /\ p.serial = SerialNumber(r.header.raw_serial_number) /\ p.cb_srv_id = r.header.cb_srv_id
      /\ p.dcs = Dcs(d, b)
      /\ p.page_number = PageNumbers(r.header)[1] /\ p.total_pages = PageNumbers(r.header)[2]
      /\ p = [serial |-> p.serial, cb_srv_id |-> p.cb_srv_id, dcs |-> p.dcs,
              page_number |-> p.page_number, total_pages |-> p.total_pages, text |-> p.text]
  BY DEF Decoded
<1>4. d \in {16, 17} => b[1] \in Elem(d) /\ b[2] \in Elem(d)
  <2> SUFFICES ASSUME d \in {16, 17} PROVE b[1] \in Elem(d) /\ b[2] \in Elem(d)
    OBVIOUS
  <2>1. b \in Seq(Elem(d)) /\ (d = 16 => n >= 3) /\ (d = 17 => n >= 2)
    BY Zenon DEF RawIsSound
  <2>2. 1 \in 1..n /\ 2 \in 1..n
    <3>1. n >= 2
      <4> HIDE DEF n, d
      <4> QED BY <1>2, <2>1
    <3> HIDE DEF n
    <3> QED BY <1>2, <3>1
  <2> QED BY <2>1, <2>2, ElementOfSeq, Zenon
<1>5. Dcs(d, b) \in DcsType
  BY <1>1, <1>4, DcsIs, Zenon
<1>6. Elem(d) \subseteq Octet
  BY DEF Elem, Octet
<1>7. p \in PageType
  <2>1. p.text \in Seq(Octet)
    BY <1>2, <1>6, SeqMonotonic, Zenon
  <2>2. p.serial \in SerialType /\ p.cb_srv_id \in UInt16 /\ p.dcs \in DcsType
    BY <1>1, <1>3, <1>5, SerialIs, HeaderFields, Zenon
  <2>3. p.page_number \in Octet /\ p.total_pages \in Octet
    <3>1. p.page_number \in 0..15 /\ p.total_pages \in 0..15
      BY <1>1, <1>3, NumbersAre, Zenon
    <3>2. 0..15 \subseteq Octet
      BY DEF Octet
    <3> QED BY <3>1, <3>2, Zenon
  <2> HIDE DEF p
  <2> QED BY <1>3, <2>1, <2>2, <2>3, Zenon DEF PageType
<1> HIDE DEF p
<1>8. /\ p.dcs.raw_dcs_data = d /\ p.dcs.alphabet = DcsAlphabet(d) /\ p.dcs.language = DcsLanguage(d)
      /\ p.dcs.iso_639_lang = DcsIsoLanguage(d, b)
  <2> DEFINE c == p.dcs
  <2>1. c = Dcs(d, b)
    BY <1>3
  <2> HIDE DEF c, d, b
  <2>2. /\ c.raw_dcs_data = d /\ c.alphabet = DcsAlphabet(d) /\ c.language = DcsLanguage(d)
        /\ c.iso_639_lang = DcsIsoLanguage(d, b)
    BY <2>1, DcsFieldsOf
  <2> QED BY <2>2 DEF c
<1>9. ClientPage(p)
  <2>1. p.dcs = [Dcs(p.dcs.raw_dcs_data, <<0, 0>>) EXCEPT !.iso_639_lang = p.dcs.iso_639_lang]
    <3> DEFINE c == p.dcs
               lang == c.iso_639_lang
    <3>1. c = Dcs(d, b) /\ lang = DcsIsoLanguage(d, b) /\ c.raw_dcs_data = d
      BY <1>3, <1>8
    <3> HIDE DEF c, d, b, lang
    <3>2. Dcs(d, b) = [Dcs(d, <<0, 0>>) EXCEPT !.iso_639_lang = lang]
      BY <3>1, DcsOfBody
    <3>3. c = [Dcs(c.raw_dcs_data, <<0, 0>>) EXCEPT !.iso_639_lang = lang]
      BY <3>1, <3>2, Zenon
    <3> QED BY <3>3, Zenon DEF c, lang
  <2>2. p.serial = SerialNumber(p.serial.raw_serial_number)
    BY <1>1, <1>3, SerialIs, HeaderFields, Zenon
  <2>3. p.text \in Seq(IF SevenBit(p) THEN 0..127 ELSE Octet)
    BY <1>2, <1>8, Zenon DEF SevenBit, Elem
  <2>4. HasLanguage(p) <=> d \in {16, 17}
    BY <1>1, <1>8, SchemeFacts, Zenon DEF HasLanguage
  <2>5. IF HasLanguage(p) THEN p.dcs.iso_639_lang[3] = CR ELSE p.dcs.iso_639_lang = NoLanguage
    BY <1>1, <1>4, <1>8, <2>4, IsoLanguageIs, Zenon
  <2> QED BY <1>7, <2>1, <2>2, <2>3, <2>5, Zenon DEF ClientPage
<1>10. InBuffers(p)
  <2> DEFINE octets == r.len - HEADER_LEN
  <2>1. octets \in 0..82
    <3>1. r.len >= HEADER_LEN
      BY Zenon DEF RawIsSound
    <3> QED BY <1>1, <3>1 DEF HEADER_LEN, PAGE_SIZE
  <2>2. n = IF DcsAlphabet(d) = 0 THEN SeptetsIn(octets) ELSE octets
    BY Zenon DEF RawIsSound
  <2> DEFINE m == Len(p.text)
  <2>3. m = n - k
    BY <1>2
  <2> HIDE DEF octets, n, k, m
  <2>4. m <= 93 /\ m \in Nat
    BY <1>2, <2>1, <2>2, <2>3 DEF SeptetsIn
  <2>5. m <= MAX_LEN - (IF HasLanguage(p) THEN 4 ELSE 0) /\ m <= MAX_LEN - HEADER_LEN - 2
    BY <2>4 DEF MAX_LEN, HEADER_LEN
  <2> QED BY <2>5, Zenon DEF InBuffers, m
<1> QED BY <1>9, <1>10, Zenon DEF PageIsSound, p
-----------------------------------------------------------------------------
(* ---- the invariant -----------------------------------------------------*)
(* What is on the wire after encoding is the page's encoding, what a        *)
(* structure holds after decoding is the raw page's.                        *)
IInv == /\ PageIsSound(page) /\ RawIsSound(raw)
        /\ at \in {"structure", "wire", "refused"} /\ sent \in BOOLEAN /\ heard \in BOOLEAN
        /\ at = "wire" /\ sent /\ InPlace(page) => raw = Encoded(page)
        /\ at = "structure" /\ heard => raw.len <= PAGE_SIZE /\ page = Decoded(raw)

LEMMA BlankIsSound == PageIsSound(Blank) /\ RawIsSound(BlankRaw)
<1> DEFINE c == Dcs(0, <<>>)
<1>1. 0 \in Octet /\ 0 \in UInt16 /\ 1 \in Octet
  BY DEF Octet, UInt16, UINT16_MAX
<1>2. c \in DcsType /\ SerialNumber(0) \in SerialType /\ SerialNumber(0).raw_serial_number = 0
  <2>1. 0 \in {16, 17} => FALSE
    OBVIOUS
  <2> QED BY <1>1, <2>1, DcsIs, SerialIs
<1>3. <<>> \in Seq(Octet) /\ Len(<<>>) = 0 /\ <<>> \in Seq(0..127)
  OBVIOUS
<1>4. DcsAlphabet(0) = 0
  BY DEF DcsAlphabet, Alphabet
<1>5. /\ Blank.serial = SerialNumber(0) /\ Blank.dcs = c /\ Blank.text = <<>>
  BY DEF Blank
<1>6. /\ c.raw_dcs_data = 0 /\ c.alphabet = DcsAlphabet(0) /\ c.language = DcsLanguage(0)
      /\ c.iso_639_lang = DcsIsoLanguage(0, <<>>)
  BY DcsFieldsOf, Zenon
<1>7. Blank \in PageType
  <2>1. Blank = [serial |-> SerialNumber(0), cb_srv_id |-> 0, dcs |-> c,
                 page_number |-> 1, total_pages |-> 1, text |-> <<>>]
    BY Zenon DEF Blank
  <2> HIDE DEF c
  <2> QED BY <1>1, <1>2, <1>3, <2>1, Zenon DEF PageType
<1>8. ClientPage(Blank)
  <2>1. c = [Dcs(0, <<0, 0>>) EXCEPT !.iso_639_lang = c.iso_639_lang]
    <3> DEFINE lang == c.iso_639_lang
    <3>1. lang = DcsIsoLanguage(0, <<>>)
      BY <1>6
    <3> HIDE DEF lang
    <3>2. c = [Dcs(0, <<0, 0>>) EXCEPT !.iso_639_lang = lang]
      BY <3>1, DcsOfBody
    <3> QED BY <3>2, Zenon DEF lang
  <2> HIDE DEF c
  <2>2. Blank.dcs = [Dcs(Blank.dcs.raw_dcs_data, <<0, 0>>) EXCEPT !.iso_639_lang = Blank.dcs.iso_639_lang]
    BY <1>5, <1>6, <2>1, Zenon
  <2>3. Blank.serial = SerialNumber(Blank.serial.raw_serial_number)
    BY <1>2, <1>5, Zenon
  <2>4. Blank.text \in Seq(IF SevenBit(Blank) THEN 0..127 ELSE Octet)
    BY <1>3, <1>5, Zenon
  <2>5. ~HasLanguage(Blank) /\ Blank.dcs.iso_639_lang = NoLanguage
    <3>1. 0 \notin {16, 17}
      OBVIOUS
    <3>2. DcsLanguage(0) # ISO_639
      BY <1>1, <3>1, SchemeFacts
    <3>3. DcsIsoLanguage(0, <<>>) = NoLanguage
      BY <1>1, <3>1, IsoLanguageIs
    <3> QED BY <1>5, <1>6, <3>2, <3>3, Zenon DEF HasLanguage
  <2> QED BY <1>7, <2>2, <2>3, <2>4, <2>5, Zenon DEF ClientPage
<1>9. InBuffers(Blank)
  <2>1. Len(Blank.text) = 0
    BY <1>3, <1>5
  <2>2. 0 <= MAX_LEN - (IF HasLanguage(Blank) THEN 4 ELSE 0) /\ 0 <= MAX_LEN - HEADER_LEN - 2
    BY DEF MAX_LEN, HEADER_LEN
  <2> QED BY <2>1, <2>2, Zenon DEF InBuffers
<1>10. Header(Blank) \in HeaderType /\ Header(Blank).raw_dcs_data = 0
  BY <1>5, <1>6, <1>8, HeaderIs, Zenon
<1>11. RawIsSound(BlankRaw)
  <2> DEFINE h == Header(Blank)
             r == BlankRaw
  <2>1. r = [header |-> h, body |-> <<>>, len |-> HEADER_LEN]
    BY Zenon DEF BlankRaw
  <2>2. HEADER_LEN \in 0..500 /\ HEADER_LEN >= HEADER_LEN /\ HEADER_LEN - HEADER_LEN = 0 /\ SeptetsIn(0) = 0
    BY DEF HEADER_LEN, SeptetsIn
  <2>3. r \in RawType
    BY <1>3, <1>10, <2>1, <2>2, RawIs, Zenon
  <2> HIDE DEF h
  <2>4. r.header = h /\ r.body = <<>> /\ r.len = HEADER_LEN
    BY <2>1
  <2>5. r.header.raw_dcs_data = 0
    BY <1>10, <2>4 DEF h
  <2>6. Elem(0) = 0..127
    BY <1>4 DEF Elem, Alphabet
  <2>7. (0 # 16) /\ (0 # 17)
    OBVIOUS
  <2> HIDE DEF r
  <2> QED BY <1>3, <1>4, <2>2, <2>3, <2>4, <2>5, <2>6, <2>7, Zenon DEF RawIsSound, r
<1> QED BY <1>8, <1>9, <1>11, Zenon DEF PageIsSound

LEMMA InvInit == Init => IInv
<1> SUFFICES ASSUME Init PROVE IInv
  OBVIOUS
<1>1. sent = FALSE /\ heard = FALSE
  BY DEF Init
<1>2. CASE page \in Sent /\ raw = BlankRaw /\ at = "structure"
  <2>1. PageIsSound(page) /\ RawIsSound(raw)
    BY <1>2, SentAssumption, BlankIsSound, Zenon DEF PageIsSound
  <2> QED BY <1>1, <1>2, <2>1 DEF IInv
<1>3. CASE raw \in Arriving /\ page = Blank /\ at = "wire"
  <2>1. PageIsSound(page) /\ RawIsSound(raw)
    BY <1>3, ArrivingAssumption, NetworkIsSound, BlankIsSound, Zenon
  <2> QED BY <1>1, <1>3, <2>1 DEF IInv
<1> QED BY <1>2, <1>3 DEF Init

(* Two octets nobody wrote, and the text.                                   *)
LEMMA BehindUnset ==
  ASSUME NEW a \in Octet, NEW b \in Octet, NEW t \in Seq(Octet), NEW c, c = <<a, b>> \o t
  PROVE  c \in Seq(Octet) /\ Len(c) = 2 + Len(t)
<1> DEFINE h == <<a, b>>
<1>1. h \in Seq(Octet) /\ Len(h) = 2
  OBVIOUS
<1> HIDE DEF h
<1>2. h \o t \in Seq(Octet) /\ Len(h \o t) = Len(h) + Len(t)
  BY <1>1, ConcatProperties
<1> QED BY <1>1, <1>2, Zenon DEF h

(* A page with a language in octets is sound on the wire, though no longer  *)
(* the page that was sent.                                                  *)
LEMMA LanguageIsSound ==
  ASSUME PageIsSound(page), ~SevenBit(page), EncodeOctetsWithLanguage
  PROVE  RawIsSound(raw') /\ ~InPlace(page)
<1> DEFINE d == page.dcs.raw_dcs_data
           lang == page.dcs.iso_639_lang
           n == Len(page.text)
<1>1. page \in PageType /\ ClientPage(page) /\ HasLanguage(page)
  BY Zenon DEF PageIsSound, ClientPage, EncodeOctetsWithLanguage
<1>2. d = 17 /\ DcsAlphabet(d) # 0 /\ ~InPlace(page)
  <2>1. d \in {16, 17} /\ (d = 16 => SevenBit(page)) /\ (SevenBit(page) <=> DcsAlphabet(d) = 0)
    BY <1>1, PageFacts, Zenon
  <2>2. d = 17
    <3> HIDE DEF d
    <3> QED BY <2>1
  <2> QED BY <1>1, <2>1, <2>2, Zenon DEF InPlace
<1>3. page.dcs \in DcsType /\ page.text \in Seq(Octet) /\ n \in Nat
  BY <1>1, PageFields, Zenon
<1>4. lang \in [1..3 -> 0..127]
  BY <1>3, Zenon DEF DcsType
<1>5. n <= 247
  <2>1. n <= MAX_LEN - HEADER_LEN - 2
    BY Zenon DEF PageIsSound, InBuffers
  <2> HIDE DEF n
  <2> QED BY <1>3, <2>1 DEF MAX_LEN, HEADER_LEN
<1>6. PICK a \in Unset, b \in Unset :
        raw' = [header |-> [Header(page) EXCEPT !.raw_serial_number = lang[1] * 256 + lang[2]],
                body |-> <<a, b>> \o page.text, len |-> HEADER_LEN + 2 + n]
  BY Zenon DEF EncodeOctetsWithLanguage
<1> DEFINE h == [Header(page) EXCEPT !.raw_serial_number = lang[1] * 256 + lang[2]]
           body == <<a, b>> \o page.text
<1>7. body \in Seq(Octet) /\ Len(body) = 2 + n
  BY <1>3, UnsetAssumption, BehindUnset
<1>8. h \in HeaderType /\ h.raw_dcs_data = d
  <2> DEFINE g == Header(page)
             x == lang[1] * 256 + lang[2]
  <2>1. g \in HeaderType /\ g.raw_dcs_data = d
    BY <1>1, HeaderIs, Zenon
  <2>2. x \in UInt16
    <3>1. lang[1] \in 0..127 /\ lang[2] \in 0..127
      <4> HIDE DEF lang
      <4> QED BY <1>4
    <3>2. x \in Nat /\ x <= 32767
      <4> DEFINE u == lang[1]
                 v == lang[2]
      <4>1. u \in 0..127 /\ v \in 0..127
        BY <3>1
      <4> HIDE DEF u, v
      <4>2. u * 256 + v \in Nat /\ u * 256 + v <= 32767
        BY <4>1
      <4> QED BY <4>2 DEF u, v
    <3> HIDE DEF x
    <3>3. x \in Nat /\ x <= UINT16_MAX
      BY <3>2 DEF UINT16_MAX
    <3> QED BY <3>3 DEF UInt16
  <2> HIDE DEF g, x, d, lang
  <2>3. [g EXCEPT !.raw_serial_number = x] \in HeaderType /\ [g EXCEPT !.raw_serial_number = x].raw_dcs_data = d
    BY <2>1, <2>2 DEF HeaderType
  <2> QED BY <2>3, Zenon DEF g, x
<1>9. HEADER_LEN + 2 + n \in 0..500 /\ HEADER_LEN + 2 + n >= HEADER_LEN
      /\ (HEADER_LEN + 2 + n) - HEADER_LEN = 2 + n /\ 2 + n >= 2
  <2> HIDE DEF n
  <2> QED BY <1>3, <1>5 DEF HEADER_LEN
<1> HIDE DEF h, body, n
<1>10. raw' = [header |-> h, body |-> body, len |-> HEADER_LEN + 2 + n]
  BY <1>6, Zenon DEF h, body, n
<1> DEFINE r == raw'
<1>11. r \in RawType
  BY <1>7, <1>8, <1>9, <1>10, RawIs, Zenon
<1>12. r.header = h /\ r.body = body /\ r.len = HEADER_LEN + 2 + n
  BY <1>10, Zenon
<1>13. Elem(17) = Octet
  BY <1>2 DEF Elem, Alphabet
<1>14. 17 # 16
  OBVIOUS
<1> HIDE DEF r, d
<1>15. r.header.raw_dcs_data = 17
  BY <1>2, <1>8, <1>12, Zenon
<1>16. RawIsSound(r)
  BY <1>2, <1>7, <1>9, <1>11, <1>12, <1>13, <1>14, <1>15, Zenon DEF RawIsSound
<1> QED BY <1>2, <1>16, Zenon DEF r

LEMMA InvNext == IInv /\ [Next]_vars => IInv'
<1> SUFFICES ASSUME IInv, [Next]_vars PROVE IInv'
  OBVIOUS
<1>1. CASE Encode
  <2>1. at' = "wire" /\ sent' = TRUE /\ page' = page /\ heard' = heard
    BY <1>1 DEF Encode
  <2>2. RawIsSound(raw') /\ (InPlace(page) => raw' = Encoded(page))
    <3>1. CASE SevenBit(page) /\ raw' = Encoded7Bit(page)
      <4>1. raw' = Encoded(page) /\ InPlace(page)
        BY <3>1, Zenon DEF Encoded, InPlace
      <4> QED BY <4>1, EncodedIsSound, Zenon DEF IInv
    <3>2. CASE ~SevenBit(page) /\ ~HasLanguage(page) /\ raw' = EncodedOctets(page)
      <4>1. raw' = Encoded(page) /\ InPlace(page)
        BY <3>2, Zenon DEF Encoded, InPlace
      <4> QED BY <4>1, EncodedIsSound, Zenon DEF IInv
    <3>3. CASE ~SevenBit(page) /\ EncodeOctetsWithLanguage
      BY <3>3, LanguageIsSound, Zenon DEF IInv
    <3> QED BY <1>1, <3>1, <3>2, <3>3 DEF Encode
  <2>3. InPlace(page') = InPlace(page) /\ Encoded(page') = Encoded(page)
    BY <2>1, Zenon
  <2>4. PageIsSound(page') /\ heard \in BOOLEAN
    BY <2>1, Zenon DEF IInv
  <2> QED BY <2>1, <2>2, <2>3, <2>4 DEF IInv
<1>2. CASE Decode
  <2>1. /\ page' = Decoded(raw) /\ raw' = raw /\ at' = "structure" /\ heard' = TRUE /\ sent' = sent
        /\ raw.len <= PAGE_SIZE
    BY <1>2 DEF Decode, Acceptable
  <2>2. PageIsSound(page') /\ RawIsSound(raw')
    BY <2>1, DecodedIsSound, Zenon DEF IInv
  <2>3. page' = Decoded(raw') /\ raw'.len <= PAGE_SIZE
    BY <2>1, Zenon
  <2> QED BY <2>1, <2>2, <2>3 DEF IInv
<1>3. CASE Refuse
  <2>1. page' = page /\ raw' = raw /\ at' = "refused" /\ sent' = sent /\ heard' = heard
    BY <1>3 DEF Refuse
  <2> QED BY <2>1 DEF IInv
<1>4. CASE UNCHANGED vars
  <2>1. page' = page /\ raw' = raw /\ at' = at /\ sent' = sent /\ heard' = heard
    BY <1>4 DEF vars
  <2> QED BY <2>1, Zenon DEF IInv
<1> QED BY <1>1, <1>2, <1>3, <1>4 DEF Next

LEMMA InvAlways == Spec => []IInv
BY InvInit, InvNext, PTL DEF Spec

(* Whatever is sent or arrives, and however often it is passed on, both     *)
(* structures keep their types: no sum or division leaves its range.        *)
THEOREM PagesAreTyped == Spec => []TypeOK
<1>1. IInv => TypeOK
  BY Zenon DEF IInv, TypeOK, PageIsSound, ClientPage, RawIsSound
<1> QED BY <1>1, InvAlways, PTL
-----------------------------------------------------------------------------
(* ---- the decoder undoes the encoder ------------------------------------*)
(* A suffix of n members, read one by one, is the sequence they come from.  *)
LEMMA RestOfSame ==
  ASSUME NEW S, NEW k \in Nat, NEW x \in Seq(S), NEW s, NEW b, NEW t,
         Len(s) = k + Len(x), \A i \in 1..Len(x) : s[k + i] = x[i],
         b = s, Rest(b, k, t, S)
  PROVE  t = x
<1> DEFINE n == Len(x)
           m == Len(t)
           l == Len(b)
<1>1. n \in Nat
  BY LenProperties, Zenon
<1>2. l = k + n /\ (\A i \in 1..n : b[k + i] = x[i])
  OBVIOUS
<1>3. t \in Seq(S) /\ m = l - k /\ \A i \in 1..m : t[i] = b[k + i]
  BY Zenon DEF Rest
<1> HIDE DEF n, m, l
<1>4. m = n
  BY <1>1, <1>2, <1>3
<1>5. \A i \in 1..m : t[i] = x[i]
  BY <1>2, <1>3, <1>4, Zenon
<1> QED BY <1>3, <1>4, <1>5, SeqEqual, Zenon DEF m, n

LEMMA RestOfLonger ==
  ASSUME NEW S, NEW z \in S, NEW k \in Nat, NEW x \in Seq(S), NEW s \in Seq(S), NEW b, NEW t,
         Len(s) = k + Len(x), \A i \in 1..Len(x) : s[k + i] = x[i],
         b = Append(s, z), Rest(b, k, t, S)
  PROVE  t = Append(x, z)
<1> DEFINE n == Len(x)
           m == Len(t)
           l == Len(s)
           y == Append(x, z)
<1>1. n \in Nat
  BY LenProperties, Zenon
<1>2. l = k + n /\ (\A i \in 1..n : s[k + i] = x[i])
  OBVIOUS
<1>3. Len(b) = l + 1 /\ (\A i \in 1..l : b[i] = s[i]) /\ b[l + 1] = z
  BY AppendProperties, ZenonT(30)
<1>4. y \in Seq(S) /\ Len(y) = n + 1 /\ (\A i \in 1..n : y[i] = x[i]) /\ y[n + 1] = z
  BY AppendProperties, ZenonT(30)
<1>5. t \in Seq(S) /\ m = Len(b) - k /\ \A i \in 1..m : t[i] = b[k + i]
  BY Zenon DEF Rest
<1> HIDE DEF n, m, l, y
<1>6. m = n + 1
  <2> DEFINE lb == Len(b)
  <2>1. lb = l + 1 /\ m = lb - k
    BY <1>3, <1>5, Zenon
  <2> HIDE DEF lb
  <2> QED BY <1>1, <1>2, <2>1
<1>7. ASSUME NEW i \in 1..m PROVE t[i] = y[i]
  <2>1. t[i] = b[k + i]
    BY <1>5, Zenon
  <2>2. CASE i = n + 1
    <3>1. k + i = l + 1
      BY <1>1, <1>2, <2>2
    <3> QED BY <1>3, <1>4, <2>1, <2>2, <3>1, Zenon
  <2>3. CASE i # n + 1
    <3>1. i \in 1..n /\ k + i \in 1..l
      BY <1>1, <1>2, <1>6, <2>3
    <3> QED BY <1>2, <1>3, <1>4, <2>1, <3>1, Zenon
  <2> QED BY <2>2, <2>3
<1>8. m = Len(y)
  BY <1>4, <1>6, Zenon
<1> QED BY <1>4, <1>5, <1>7, <1>8, SeqEqual, Zenon DEF m, y

LEMMA FieldsOfEncoded7Bit ==
  ASSUME NEW p, Len(Septets7(p)) < MAX_LEN
  PROVE  /\ Encoded7Bit(p).body = BodyOf(Septets7(p)) /\ Encoded7Bit(p).header = Header(p)
         /\ Encoded7Bit(p).len = HEADER_LEN + OctetsFor(Len(Septets7(p)))
BY DEF Encoded7Bit

LEMMA FieldsOfEncodedOctets ==
  ASSUME NEW p
  PROVE  /\ EncodedOctets(p).body = p.text /\ EncodedOctets(p).header = Header(p)
         /\ EncodedOctets(p).len = HEADER_LEN + Len(p.text)
BY DEF EncodedOctets

(* The text of a page that is decoded as it was encoded.                    *)
LEMMA TextIsReadBack ==
  ASSUME NEW p, PageIsSound(p), InPlace(p), SevenBit(p) => Len(Septets7(p)) < MAX_LEN
  PROVE  Decoded(Encoded(p)).text = IF SevenBit(p) /\ Len(Septets7(p)) % 8 = 7
                                    THEN Append(p.text, 0) ELSE p.text
<1> DEFINE d == p.dcs.raw_dcs_data
           r == Encoded(p)
           t == Decoded(r).text
           x == p.text
<1>1. ClientPage(p) /\ p \in PageType
  BY Zenon DEF PageIsSound, ClientPage
<1>2. /\ d \in Octet /\ d # 17 /\ (SevenBit(p) <=> DcsAlphabet(d) = 0)
      /\ (HasLanguage(p) <=> d \in {16, 17}) /\ (d = 16 => SevenBit(p))
  BY <1>1, PageFacts, Zenon
<1>3. RawIsSound(r) /\ r.header.raw_dcs_data = d
  BY <1>1, EncodedIsSound, HeaderIs, Zenon
<1>4. Rest(r.body, Skip(d), t, Elem(d))
  BY <1>3, TextIs, Zenon
<1>5. CASE SevenBit(p)
  <2> DEFINE S == 0..127
             s == Septets7(p)
             k == IF HasLanguage(p) THEN 3 ELSE 0
  <2>1. Skip(d) = k /\ k \in Nat /\ Elem(d) = S
    <3> HIDE DEF d
    <3> QED BY <1>2, <1>5 DEF Skip, Elem, Alphabet
  <2>2. x \in Seq(S)
    BY <1>1, <1>5, Zenon DEF ClientPage
  <2>3. s \in Seq(S) /\ Len(s) = k + Len(x) /\ \A i \in 1..Len(x) : s[k + i] = x[i]
    BY <1>5, SeptetsOfPage, Zenon
  <2>4. r.body = BodyOf(s)
    BY <1>5, FieldsOfEncoded7Bit, Zenon DEF Encoded
  <2>5. 0 \in S
    OBVIOUS
  <2>6. r.body = IF Len(s) % 8 = 7 THEN Append(s, 0) ELSE s
    <3> HIDE DEF S, s, r
    <3> QED BY <2>3, <2>4, <2>5, BodyIs, Zenon
  <2>7. Rest(r.body, k, t, S)
    BY <1>4, <2>1, Zenon
  <2> HIDE DEF S, s, k, r, t, x
  <2>8. CASE Len(s) % 8 = 7
    <3>1. r.body = Append(s, 0)
      BY <2>6, <2>8, Zenon
    <3>2. t = Append(x, 0)
      BY <2>1, <2>2, <2>3, <2>5, <2>7, <3>1, RestOfLonger, Zenon
    <3> QED BY <1>5, <2>8, <3>2, Zenon DEF s, r, t, x
  <2>9. CASE Len(s) % 8 # 7
    <3>1. r.body = s
      BY <2>6, <2>9, Zenon
    <3>2. t = x
      BY <2>1, <2>2, <2>3, <2>7, <3>1, RestOfSame, Zenon
    <3> QED BY <1>5, <2>9, <3>2, Zenon DEF s, r, t, x
  <2> QED BY <2>8, <2>9
<1>6. CASE ~SevenBit(p)
  <2>1. Skip(d) = 0 /\ 0 \in Nat /\ Elem(d) = Octet
    <3> HIDE DEF d
    <3> QED BY <1>2, <1>6 DEF Skip, Elem, Alphabet
  <2>2. x \in Seq(Octet) /\ Len(x) \in Nat
    BY <1>1, PageFields, Zenon
  <2>3. r.body = x
    BY <1>6, FieldsOfEncodedOctets, Zenon DEF Encoded
  <2>4. Len(x) = 0 + Len(x) /\ \A i \in 1..Len(x) : x[0 + i] = x[i]
    <3> DEFINE n == Len(x)
    <3>1. n \in Nat
      BY <2>2
    <3> HIDE DEF n
    <3>2. n = 0 + n /\ \A i \in 1..n : 0 + i = i
      BY <3>1
    <3> QED BY <3>2, Zenon DEF n
  <2>5. Rest(r.body, 0, t, Octet)
    BY <1>4, <2>1, Zenon
  <2> HIDE DEF r, t, x
  <2>6. t = x
    BY <2>1, <2>2, <2>3, <2>4, <2>5, RestOfSame, Zenon
  <2> QED BY <1>6, <2>6, Zenon DEF r, t, x
<1> QED BY <1>5, <1>6

LEMMA PrefixOfAppend ==
  ASSUME NEW S, NEW x \in Seq(S), NEW z \in S
  PROVE  IsPrefix(x, x) /\ IsPrefix(x, Append(x, z))
<1> DEFINE n == Len(x)
           y == Append(x, z)
<1>1. n \in Nat /\ SubSeq(x, 1, n) = x
  BY LenProperties, SubSeqFull, Zenon
<1>2. Len(y) = n + 1
  BY AppendProperties, Zenon
<1>3. SubSeq(y, 1, n) = x
  <2>1. y = x \o <<z>> /\ <<z>> \in Seq(S)
    <3>1. y = x \o <<z>>
      BY AppendIsConcat, Zenon
    <3> HIDE DEF y
    <3> QED BY <3>1
  <2>2. CASE n = 0
    <3>1. SubSeq(y, 1, n) = <<>>
      <4> HIDE DEF y, n
      <4>1. n < 1 /\ 1 \in Int /\ n \in Int
        BY <2>2
      <4> QED BY <4>1, SubSeqEmpty
    <3>2. x = <<>>
      BY <2>2, EmptySeq
    <3> QED BY <3>1, <3>2, Zenon
  <2>3. CASE n # 0
    <3>1. 1 \in 1..n /\ n \in 1..n
      <4> HIDE DEF n
      <4> QED BY <1>1, <2>3
    <3>2. SubSeq(x \o <<z>>, 1, n) = SubSeq(x, 1, n)
      BY <2>1, <3>1, SubSeqOfConcat1, Zenon
    <3> QED BY <1>1, <2>1, <3>2, Zenon
  <2> QED BY <2>2, <2>3
<1> HIDE DEF n, y
<1>4. n <= n /\ n <= n + 1
  BY <1>1
<1> QED BY <1>1, <1>2, <1>3, <1>4, Zenon DEF IsPrefix, n, y

(* A text that does not fit is never delivered in part: what a decoded page *)
(* holds begins with the whole text that was sent.                          *)
THEOREM PagesAreWhole == Spec => NeverInPart
<1>1. IInv /\ [Next]_vars
        => [at = "wire" /\ sent /\ InPlace(page) /\ at' = "structure" /\ Len(page.text) < MAX_LEN
            => IsPrefix(page.text, page'.text)]_vars
  <2> SUFFICES ASSUME IInv, Next, at = "wire", sent, InPlace(page), at' = "structure",
                      Len(page.text) < MAX_LEN
               PROVE  IsPrefix(page.text, page'.text)
    BY Zenon
  <2>1. page' = Decoded(raw)
    <3>1. ~Encode /\ ~Refuse
      BY DEF Encode, Refuse
    <3> QED BY <3>1 DEF Next, Decode
  <2>2. PageIsSound(page) /\ raw = Encoded(page)
    BY Zenon DEF IInv
  <2>3. SevenBit(page) => Len(Septets7(page)) < MAX_LEN
    <3>1. CASE HasLanguage(page)
      BY <2>2, <3>1, SeptetsOfPage, Zenon
    <3>2. CASE ~HasLanguage(page)
      BY <3>2, Zenon DEF Septets7
    <3> QED BY <3>1, <3>2
  <2>4. page'.text = IF SevenBit(page) /\ Len(Septets7(page)) % 8 = 7
                     THEN Append(page.text, 0) ELSE page.text
    BY <2>1, <2>2, <2>3, TextIsReadBack, Zenon
  <2>5. page.text \in Seq(Octet) /\ 0 \in Octet
    <3>1. page \in PageType
      BY <2>2, Zenon DEF PageIsSound, ClientPage
    <3>2. 0 \in Octet
      BY DEF Octet
    <3> QED BY <3>1, <3>2, PageFields, Zenon
  <2> QED BY <2>4, <2>5, PrefixOfAppend, Zenon
<1> QED BY InvAlways, <1>1, PTL DEF Spec, NeverInPart
-----------------------------------------------------------------------------
(* ---- the other fields --------------------------------------------------*)
(* The language of a 7-bit page lies in front of its body.                  *)
LEMMA LanguageIsReadBack ==
  ASSUME NEW p, PageIsSound(p), InPlace(p), NEW d, d = p.dcs.raw_dcs_data
  PROVE  DcsIsoLanguage(d, Encoded(p).body) = p.dcs.iso_639_lang
<1> DEFINE lang == p.dcs.iso_639_lang
           b == Encoded(p).body
<1>1. ClientPage(p) /\ p \in PageType
  BY Zenon DEF PageIsSound, ClientPage
<1>2. /\ d \in Octet /\ d # 17 /\ (HasLanguage(p) <=> d \in {16, 17}) /\ (d = 16 => SevenBit(p))
  BY <1>1, PageFacts, Zenon
<1>3. CASE d = 16
  <2> DEFINE s == Septets7(p)
  <2>0. HasLanguage(p) /\ SevenBit(p)
    <3>1. d \in {16, 17}
      BY <1>3
    <3> QED BY <1>2, <1>3, <3>1, Zenon
  <2>1. /\ s \in Seq(0..127) /\ Len(s) = 3 + Len(p.text) /\ Len(s) < MAX_LEN
        /\ \A i \in 1..3 : s[i] = lang[i]
    BY <2>0, SeptetsOfPage, Zenon
  <2>2. b = BodyOf(s)
    BY <2>0, <2>1, FieldsOfEncoded7Bit, Zenon DEF Encoded
  <2>3. b = IF Len(s) % 8 = 7 THEN Append(s, 0) ELSE s
    <3>1. 0 \in 0..127
      OBVIOUS
    <3> HIDE DEF s, b
    <3> QED BY <2>1, <2>2, <3>1, BodyIs, Zenon
  <2>4. lang \in [1..3 -> 0..127] /\ lang[3] = CR
    <3>1. p.dcs \in DcsType
      BY <1>1, PageFields, Zenon
    <3>2. lang \in [1..3 -> 0..127]
      BY <3>1, Zenon DEF DcsType
    <3> QED BY <1>1, <2>0, <3>2, Zenon DEF ClientPage
  <2>5. 1 \in 1..Len(s) /\ 2 \in 1..Len(s)
    <3> DEFINE n == Len(p.text)
               l == Len(s)
    <3>1. n \in Nat /\ l = 3 + n
      BY <1>1, <2>1, PageFields, Zenon
    <3> HIDE DEF n, l
    <3>2. 1 \in 1..l /\ 2 \in 1..l
      BY <3>1
    <3> QED BY <3>2 DEF l
  <2> HIDE DEF s, b, lang
  <2>6. b[1] = s[1] /\ b[2] = s[2]
    <3>1. 0 \in 0..127
      OBVIOUS
    <3>2. \A i \in 1..Len(s) : Append(s, 0)[i] = s[i]
      BY <2>1, <3>1, AppendProperties, ZenonT(30)
    <3> QED BY <2>3, <2>5, <3>2, Zenon
  <2>7. s[1] = lang[1] /\ s[2] = lang[2]
    BY <2>1
  <2>8. <<lang[1], lang[2], CR>> = lang
    BY <2>4
  <2>9. DcsIsoLanguage(d, b) = <<b[1], b[2], CR>>
    BY <1>3 DEF DcsIsoLanguage
  <2> QED BY <2>6, <2>7, <2>8, <2>9, Zenon DEF b, lang
<1>4. CASE d # 16
  <2>1. d \notin {16, 17}
    BY <1>2, <1>4
  <2>2. DcsIsoLanguage(d, b) = NoLanguage
    BY <1>2, <2>1, IsoLanguageIs, Zenon
  <2>3. lang = NoLanguage
    BY <1>1, <1>2, <2>1, Zenon DEF ClientPage
  <2> QED BY <2>2, <2>3, Zenon
<1> QED BY <1>3, <1>4

(* The numbers of a page lie in four bits each.                             *)
LEMMA NumbersAreReadBack ==
  ASSUME NEW p, ClientPage(p), Numbered(p)
  PROVE  /\ PageNumbers(Header(p))[1] = p.page_number /\ PageNumbers(Header(p))[2] = p.total_pages
         /\ p.page_number <= p.total_pages
<1> DEFINE a == p.page_number
           b == p.total_pages
           h == Header(p)
<1>1. a \in Octet /\ b \in Octet
  BY PageFields, Zenon DEF ClientPage
<1>2. 1 <= a /\ a <= b /\ b <= 15
  BY Zenon DEF Numbered
<1>3. h.page_number = a % 16 /\ h.total_pages = b % 16
  BY DEF Header
<1> HIDE DEF a, b, h
<1>4. a % 16 = a /\ b % 16 = b /\ a # 0 /\ b # 0
  BY <1>1, <1>2 DEF Octet
<1>5. PageNumbers(h) = <<a, b>>
  BY <1>3, <1>4 DEF PageNumbers
<1>6. PageNumbers(h)[1] = a /\ PageNumbers(h)[2] = b
  BY <1>5
<1> QED BY <1>2, <1>6, Zenon DEF a, b, h

(* What is read of a sent page is the page, but for its text.               *)
LEMMA FieldsAreReadBack ==
  ASSUME NEW p, PageIsSound(p), InPlace(p), Numbered(p)
  PROVE  [Decoded(Encoded(p)) EXCEPT !.text = p.text] = p
<1> DEFINE r == Encoded(p)
           d == p.dcs.raw_dcs_data
           q == Decoded(r)
<1>1. ClientPage(p) /\ p \in PageType
  BY Zenon DEF PageIsSound, ClientPage
<1>2. r.header = Header(p)
  BY EncodedIsSound, Zenon
<1>3. /\ Header(p).raw_serial_number = p.serial.raw_serial_number
      /\ Header(p).cb_srv_id = p.cb_srv_id /\ Header(p).raw_dcs_data = d
  BY DEF Header
<1>4. q = [serial |-> SerialNumber(r.header.raw_serial_number), cb_srv_id |-> r.header.cb_srv_id,
           dcs |-> Dcs(r.header.raw_dcs_data, r.body), page_number |-> PageNumbers(r.header)[1],
           total_pages |-> PageNumbers(r.header)[2], text |-> q.text]
  BY DEF Decoded
<1>5. SerialNumber(r.header.raw_serial_number) = p.serial
  BY <1>1, <1>2, <1>3, Zenon DEF ClientPage
<1>6. Dcs(d, r.body) = p.dcs
  <2> DEFINE lang == p.dcs.iso_639_lang
  <2>1. lang = DcsIsoLanguage(d, r.body)
    BY LanguageIsReadBack, Zenon
  <2>2. Dcs(d, r.body) = [Dcs(d, <<0, 0>>) EXCEPT !.iso_639_lang = lang]
    BY <2>1, DcsOfBody
  <2>3. p.dcs = [Dcs(d, <<0, 0>>) EXCEPT !.iso_639_lang = lang]
    BY <1>1, Zenon DEF ClientPage
  <2> QED BY <2>2, <2>3, Zenon
<1>7. PageNumbers(r.header)[1] = p.page_number /\ PageNumbers(r.header)[2] = p.total_pages
  BY <1>1, <1>2, NumbersAreReadBack, Zenon
<1> HIDE DEF r, d, q
<1>8. q = [serial |-> p.serial, cb_srv_id |-> p.cb_srv_id, dcs |-> p.dcs,
           page_number |-> p.page_number, total_pages |-> p.total_pages, text |-> q.text]
  BY <1>2, <1>3, <1>4, <1>5, <1>6, <1>7, Zenon
<1>9. [q EXCEPT !.text = p.text]
        = [serial |-> p.serial, cb_srv_id |-> p.cb_srv_id, dcs |-> p.dcs,
           page_number |-> p.page_number, total_pages |-> p.total_pages, text |-> p.text]
  BY <1>8
<1>10. p = [serial |-> p.serial, cb_srv_id |-> p.cb_srv_id, dcs |-> p.dcs,
            page_number |-> p.page_number, total_pages |-> p.total_pages, text |-> p.text]
  BY <1>1, Zenon DEF PageType
<1> QED BY <1>9, <1>10, Zenon DEF q, r

(* Language and text of a page that fits leave gw_user_data room, and the   *)
(* page is no longer than a page.                                           *)
LEMMA FittingPage ==
  ASSUME NEW p, PageIsSound(p), InPlace(p), Fits(p)
  PROVE  /\ SevenBit(p) => Len(Septets7(p)) < MAX_LEN
         /\ Encoded(p).len <= PAGE_SIZE
<1>1. p \in PageType
  BY Zenon DEF PageIsSound, ClientPage
<1>2. CASE SevenBit(p)
  <2> DEFINE n == Len(Septets7(p))
  <2>1. n \in Nat
    BY <1>2, SeptetsOfPage, LenProperties, Zenon
  <2>2. OctetsFor(n) <= PAGE_SIZE - HEADER_LEN
    BY <1>2, Zenon DEF Fits, BodyLen
  <2>3. n < MAX_LEN => Encoded(p).len = HEADER_LEN + OctetsFor(n)
    BY <1>2, FieldsOfEncoded7Bit, Zenon DEF Encoded
  <2> DEFINE l == Encoded(p).len
  <2> HIDE DEF n, l
  <2>4. n < MAX_LEN /\ HEADER_LEN + OctetsFor(n) <= PAGE_SIZE
    BY <2>1, <2>2 DEF OctetsFor, PAGE_SIZE, HEADER_LEN, MAX_LEN
  <2> QED BY <2>3, <2>4, Zenon DEF n, l
<1>3. CASE ~SevenBit(p)
  <2> DEFINE n == Len(p.text)
  <2>1. n \in Nat
    BY <1>1, PageFields, Zenon
  <2>2. n <= PAGE_SIZE - HEADER_LEN
    BY <1>3, Zenon DEF Fits, BodyLen
  <2>3. Encoded(p).len = HEADER_LEN + n
    BY <1>3, FieldsOfEncodedOctets, Zenon DEF Encoded
  <2> HIDE DEF n
  <2>4. HEADER_LEN + n <= PAGE_SIZE
    BY <2>1, <2>2 DEF PAGE_SIZE, HEADER_LEN
  <2> QED BY <1>3, <2>3, <2>4, Zenon
<1> QED BY <1>2, <1>3

(* A numbered page whose text and language fit is accepted and read as it   *)
(* was written, but for one septet 0 where seven bits are to spare.         *)
THEOREM SentPagesArrive == Spec => PageArrives
<1>1. IInv /\ [Next]_vars
        => [at = "wire" /\ sent /\ InPlace(page) /\ Fits(page) /\ Numbered(page)
            => /\ at' = "structure"
               /\ [page' EXCEPT !.text = page.text] = page
               /\ page'.text # page.text => /\ SevenBit(page) /\ Len(Septets7(page)) % 8 = 7
                                            /\ page'.text = Append(page.text, 0)]_vars
  <2> SUFFICES ASSUME IInv, Next, at = "wire", sent, InPlace(page), Fits(page), Numbered(page)
               PROVE  /\ at' = "structure"
                      /\ [page' EXCEPT !.text = page.text] = page
                      /\ page'.text # page.text => /\ SevenBit(page) /\ Len(Septets7(page)) % 8 = 7
                                                   /\ page'.text = Append(page.text, 0)
    BY Zenon
  <2>1. PageIsSound(page) /\ raw = Encoded(page) /\ ClientPage(page)
    BY Zenon DEF IInv, PageIsSound
  <2>2. (SevenBit(page) => Len(Septets7(page)) < MAX_LEN) /\ raw.len <= PAGE_SIZE
    BY <2>1, FittingPage, Zenon
  <2>3. Acceptable(raw)
    <3>1. raw.header = Header(page)
      BY <2>1, EncodedIsSound, Zenon
    <3>2. PageNumbers(raw.header)[1] <= PageNumbers(raw.header)[2]
      BY <2>1, <3>1, NumbersAreReadBack, Zenon
    <3> QED BY <2>2, <3>2, Zenon DEF Acceptable
  <2>4. at' = "structure" /\ page' = Decoded(raw)
    <3>1. ~Encode /\ ~Refuse
      BY <2>3 DEF Encode, Refuse
    <3> QED BY <3>1 DEF Next, Decode
  <2>5. [page' EXCEPT !.text = page.text] = page
    BY <2>1, <2>4, FieldsAreReadBack, Zenon
  <2>6. page'.text = IF SevenBit(page) /\ Len(Septets7(page)) % 8 = 7
                     THEN Append(page.text, 0) ELSE page.text
    BY <2>1, <2>2, <2>4, TextIsReadBack, Zenon
  <2> QED BY <2>4, <2>5, <2>6, Zenon
<1> QED BY InvAlways, <1>1, PTL DEF Spec, PageArrives
-----------------------------------------------------------------------------
(* ---- the encoder undoes the decoder ------------------------------------*)
(* The rest of a body that has no language is the body.                     *)
LEMMA RestOfNothing ==
  ASSUME NEW S, NEW b \in Seq(S), NEW t, Rest(b, 0, t, S)
  PROVE  t = b
<1> DEFINE n == Len(b)
           m == Len(t)
<1>1. n \in Nat
  BY LenProperties, Zenon
<1>2. t \in Seq(S) /\ m = n - 0 /\ \A i \in 1..m : t[i] = b[0 + i]
  BY Zenon DEF Rest
<1> HIDE DEF n, m
<1>3. m = n
  BY <1>1, <1>2
<1>4. ASSUME NEW i \in 1..m PROVE t[i] = b[i]
  <2>1. 0 + i = i
    BY <1>1, <1>3
  <2> QED BY <1>2, <2>1
<1> QED BY <1>2, <1>3, <1>4, SeqEqual, Zenon DEF n, m

(* A language and the rest of the body it was taken from.                   *)
LEMMA LanguageAndRest ==
  ASSUME NEW S, NEW z \in S, NEW b \in Seq(S), Len(b) >= 3, NEW t, Rest(b, 3, t, S),
         NEW l, l = <<b[1], b[2], z>>, NEW s, Leads(l, t, s, S)
  PROVE  s = [b EXCEPT ![3] = z] /\ Len(s) = Len(b)
<1> DEFINE n == Len(b)
           m == Len(t)
           y == [b EXCEPT ![3] = z]
           ls == Len(s)
<1>1. n \in Nat /\ n >= 3 /\ ls = 3 + m /\ s \in Seq(S)
  BY LenProperties, Zenon DEF Leads
<1>2. m = n - 3 /\ \A i \in 1..m : t[i] = b[3 + i]
  BY Zenon DEF Rest
<1>3. y \in Seq(S) /\ Len(y) = n /\ \A i \in 1..n : y[i] = IF i = 3 THEN z ELSE b[i]
  BY ExceptSeq, 3 \in 1..n
<1>4. (\A i \in 1..3 : s[i] = l[i]) /\ (\A i \in 1..m : s[3 + i] = t[i])
  BY Zenon DEF Leads
<1> HIDE DEF n, m, y, ls
<1>5. ls = n
  BY <1>1, <1>2
<1>6. ASSUME NEW i \in 1..n PROVE s[i] = y[i]
  <2>1. CASE i \in 1..3
    <3>1. l[1] = b[1] /\ l[2] = b[2] /\ l[3] = z
      OBVIOUS
    <3>2. i = 1 \/ i = 2 \/ i = 3
      BY <2>1
    <3>3. y[i] = IF i = 3 THEN z ELSE b[i]
      BY <1>3, Zenon
    <3>4. s[i] = l[i]
      BY <1>4, <2>1, Zenon
    <3> QED BY <3>1, <3>2, <3>3, <3>4
  <2>2. CASE i \notin 1..3
    <3> DEFINE j == i - 3
    <3>1. j \in 1..m /\ 3 + j = i /\ i # 3
      BY <1>1, <1>2, <2>2
    <3> HIDE DEF j
    <3>2. s[3 + j] = t[j] /\ t[j] = b[3 + j]
      BY <1>2, <1>4, <3>1, Zenon
    <3> QED BY <1>3, <3>1, <3>2, Zenon
  <2> QED BY <2>1, <2>2
<1>7. s = y
  BY <1>1, <1>3, <1>5, <1>6, SeqEqual, Zenon DEF ls
<1> QED BY <1>5, <1>7, Zenon DEF n, ls, y

(* What a received page says of its scheme, and its language.               *)
LEMMA DecodedFacts ==
  ASSUME NEW r, RawIsSound(r), r.len <= PAGE_SIZE, NEW p, p = Decoded(r),
         NEW d, d = r.header.raw_dcs_data
  PROVE  /\ PageIsSound(p) /\ ClientPage(p) /\ p.dcs.raw_dcs_data = d
         /\ d \in Octet /\ (SevenBit(p) <=> DcsAlphabet(d) = 0)
         /\ (HasLanguage(p) <=> d \in {16, 17}) /\ (InPlace(p) <=> d # 17) /\ (d = 16 => SevenBit(p))
         /\ p.dcs.iso_639_lang = DcsIsoLanguage(d, r.body)
<1>1. PageIsSound(p) /\ ClientPage(p)
  BY DecodedIsSound, Zenon DEF PageIsSound
<1>2. p.dcs = Dcs(d, r.body)
  BY DEF Decoded
<1>3. p.dcs.raw_dcs_data = d /\ p.dcs.iso_639_lang = DcsIsoLanguage(d, r.body)
  <2> DEFINE c == p.dcs
             b == r.body
  <2> HIDE DEF c, b
  <2>1. c.raw_dcs_data = d /\ c.iso_639_lang = DcsIsoLanguage(d, b)
    BY <1>2, DcsFieldsOf DEF c, b
  <2> QED BY <2>1 DEF c, b
<1> QED BY <1>1, <1>3, PageFacts, Zenon

(* gw_user_data of a received page is its body, but for the CR.             *)
LEMMA SeptetsAreKept ==
  ASSUME NEW r, RawIsSound(r), r.len <= PAGE_SIZE, NEW p, p = Decoded(r), SevenBit(p), InPlace(p)
  PROVE  /\ Septets7(p) = IF HasLanguage(p) THEN [r.body EXCEPT ![3] = CR] ELSE r.body
         /\ Len(Septets7(p)) = SeptetsIn(r.len - HEADER_LEN)
         /\ Septets7(p) \in Seq(0..127)
<1> DEFINE d == r.header.raw_dcs_data
           b == r.body
           s == Septets7(p)
           t == p.text
           S == 0..127
           n == SeptetsIn(r.len - HEADER_LEN)
<1>1. /\ PageIsSound(p) /\ d \in Octet /\ DcsAlphabet(d) = 0
      /\ HasLanguage(p) <=> d \in {16, 17}
      /\ d # 17 /\ p.dcs.iso_639_lang = DcsIsoLanguage(d, b)
  BY DecodedFacts, Zenon
<1>2. Elem(d) = S
  BY <1>1 DEF Elem, Alphabet
<1>3. b \in Seq(S) /\ Len(b) = n /\ (d = 16 => Len(b) >= 3)
  BY <1>1, <1>2, Zenon DEF RawIsSound
<1>4. Rest(b, Skip(d), t, S)
  BY <1>2, TextIs, Zenon
<1>5. CASE d = 16
  <2>1. HasLanguage(p) /\ Skip(d) = 3
    <3>1. d \in {16, 17}
      BY <1>5
    <3> QED BY <1>1, <1>5, <3>1 DEF Skip
  <2>2. Leads(p.dcs.iso_639_lang, t, s, S)
    BY <1>1, <2>1, SeptetsOfPage, Zenon DEF Leads
  <2>3. p.dcs.iso_639_lang = <<b[1], b[2], CR>>
    BY <1>1, <1>5 DEF DcsIsoLanguage
  <2>4. CR \in S
    BY DEF CR
  <2>5. Rest(b, 3, t, S) /\ Len(b) >= 3
    BY <1>3, <1>4, <1>5, <2>1, Zenon
  <2>6. s \in Seq(S)
    BY <2>2, Zenon DEF Leads
  <2> DEFINE l == p.dcs.iso_639_lang
  <2> HIDE DEF S, s, t, b, l, n
  <2>7. s = [b EXCEPT ![3] = CR] /\ Len(s) = Len(b)
    <3>1. l = <<b[1], b[2], CR>> /\ Leads(l, t, s, S)
      BY <2>2, <2>3, Zenon DEF l
    <3>2. b \in Seq(S)
      BY <1>3
    <3> QED BY ONLY <2>4, <2>5, <3>1, <3>2, LanguageAndRest
  <2> QED BY <1>3, <2>1, <2>6, <2>7, Zenon DEF S, s, b, n
<1>6. CASE d # 16
  <2>1. ~HasLanguage(p) /\ Skip(d) = 0
    <3>1. d \notin {16, 17}
      BY <1>1, <1>6
    <3> QED BY <1>1, <1>6, <3>1 DEF Skip
  <2>2. s = t
    BY <2>1, Zenon DEF Septets7
  <2>3. t = b
    <3> HIDE DEF S, t, b
    <3> QED BY <1>3, <1>4, <2>1, RestOfNothing, Zenon
  <2> QED BY <1>3, <2>1, <2>2, <2>3, Zenon
<1> QED BY <1>5, <1>6

(* A received page that is encoded again has its length and its body.       *)
LEMMA BodyIsKept ==
  ASSUME NEW r, RawIsSound(r), r.len <= PAGE_SIZE, NEW p, p = Decoded(r), InPlace(p)
  PROVE  /\ Encoded(p).len = r.len
         /\ Encoded(p).body = IF HasLanguage(p) THEN [r.body EXCEPT ![3] = CR] ELSE r.body
<1> DEFINE d == r.header.raw_dcs_data
           octets == r.len - HEADER_LEN
<1>1. /\ PageIsSound(p) /\ d \in Octet /\ (SevenBit(p) <=> DcsAlphabet(d) = 0)
      /\ (HasLanguage(p) <=> d \in {16, 17}) /\ d # 17 /\ (d = 16 => SevenBit(p))
  BY DecodedFacts, Zenon
<1>2. octets \in 0..82 /\ HEADER_LEN + octets = r.len
  <2>1. r.len \in Nat /\ r.len >= HEADER_LEN
    BY RawFields, Zenon DEF RawIsSound
  <2> DEFINE l == r.len
  <2>2. l \in Nat /\ l >= HEADER_LEN /\ l <= PAGE_SIZE
    BY <2>1
  <2> HIDE DEF l
  <2>3. l - HEADER_LEN \in 0..82 /\ HEADER_LEN + (l - HEADER_LEN) = l
    BY <2>2 DEF HEADER_LEN, PAGE_SIZE
  <2> QED BY <2>3 DEF l
<1>3. CASE SevenBit(p)
  <2> DEFINE s == Septets7(p)
             n == SeptetsIn(octets)
  <2>1. /\ s = (IF HasLanguage(p) THEN [r.body EXCEPT ![3] = CR] ELSE r.body)
        /\ Len(s) = n /\ s \in Seq(0..127)
    BY <1>3, SeptetsAreKept, Zenon
  <2> HIDE DEF octets
  <2>2. n \in Nat /\ n < MAX_LEN /\ OctetsFor(n) = octets
    <3>1. octets \in Nat /\ n < MAX_LEN
      BY <1>2 DEF SeptetsIn, MAX_LEN
    <3> QED BY <3>1, OctetsBack, Zenon
  <2> HIDE DEF s, n
  <2>3. Encoded(p).body = BodyOf(s) /\ Encoded(p).len = HEADER_LEN + OctetsFor(Len(s))
    BY <1>3, <2>1, <2>2, FieldsOfEncoded7Bit, Zenon DEF Encoded, s
  <2>4. BodyOf(s) = s
    <3>1. 0 \in 0..127
      OBVIOUS
    <3>2. SeptetsIn(OctetsFor(n)) = n
      BY <2>2, Zenon DEF n
    <3>3. n % 8 # 7
      <4>1. SeptetsIn(OctetsFor(n)) = IF n % 8 = 7 THEN n + 1 ELSE n
        BY <2>2, SeptetsBack, Zenon
      <4> QED BY <2>2, <3>2, <4>1
    <3>4. BodyOf(s) = IF Len(s) % 8 = 7 THEN Append(s, 0) ELSE s
      BY <2>1, <3>1, BodyIs, Zenon
    <3> QED BY <2>1, <3>3, <3>4, Zenon
  <2> QED BY <1>2, <2>1, <2>2, <2>3, <2>4, Zenon
<1>4. CASE ~SevenBit(p)
  <2>1. d \notin {16, 17} /\ ~HasLanguage(p) /\ DcsAlphabet(d) # 0
    <3>1. d # 16
      BY <1>1, <1>4, Zenon
    <3>2. d \notin {16, 17}
      BY <1>1, <3>1
    <3> QED BY <1>1, <1>4, <3>2, Zenon
  <2>2. Skip(d) = 0 /\ Elem(d) = Octet
    BY <2>1 DEF Skip, Elem, Alphabet
  <2>3. r.body \in Seq(Octet) /\ Len(r.body) = octets
    BY <2>1, <2>2, Zenon DEF RawIsSound
  <2>4. Rest(r.body, 0, p.text, Octet)
    BY <2>2, TextIs, Zenon
  <2> DEFINE b == r.body
             t == p.text
  <2>5. t = b
    <3>1. b \in Seq(Octet) /\ Rest(b, 0, t, Octet)
      BY <2>3, <2>4, Zenon
    <3> HIDE DEF b, t
    <3> QED BY <3>1, RestOfNothing, Zenon
  <2>6. Encoded(p).body = t /\ Encoded(p).len = HEADER_LEN + Len(t)
    BY <1>4, FieldsOfEncodedOctets, Zenon DEF Encoded
  <2> QED BY <1>2, <2>1, <2>3, <2>5, <2>6, Zenon
<1> QED BY <1>3, <1>4

(* Its header is the one it came with, but for page numbers it had not.     *)
LEMMA HeaderIsKept ==
  ASSUME NEW r, RawIsSound(r), NEW h, h = Header(Decoded(r))
  PROVE  /\ <<h.page_number, h.total_pages>> = PageNumbers(r.header)
         /\ [h EXCEPT !.page_number = r.header.page_number,
                      !.total_pages = r.header.total_pages] = r.header
<1> DEFINE g == r.header
           p == Decoded(r)
<1>1. g \in HeaderType
  BY RawFields, Zenon DEF RawIsSound
<1>2. /\ p.serial = SerialNumber(g.raw_serial_number) /\ p.cb_srv_id = g.cb_srv_id
      /\ p.dcs = Dcs(g.raw_dcs_data, r.body)
      /\ p.page_number = PageNumbers(g)[1] /\ p.total_pages = PageNumbers(g)[2]
  BY DEF Decoded
<1>3. p.serial.raw_serial_number = g.raw_serial_number
  BY <1>1, <1>2, SerialIs, HeaderFields, Zenon
<1>4. p.dcs.raw_dcs_data = g.raw_dcs_data
  <2> DEFINE c == p.dcs
             b == r.body
             d == g.raw_dcs_data
  <2>1. c = Dcs(d, b)
    BY <1>2
  <2> HIDE DEF c, b, d
  <2>2. c.raw_dcs_data = d
    BY <2>1, DcsFieldsOf
  <2> QED BY <2>2 DEF c, d
<1> DEFINE u == PageNumbers(g)[1]
           v == PageNumbers(g)[2]
<1>5. u \in 0..15 /\ v \in 0..15
  BY <1>1, NumbersAre, Zenon
<1>6. PageNumbers(g) = <<u, v>>
  <2> DEFINE a == g.page_number
             b == g.total_pages
             w == PageNumbers(g)
  <2>1. w = IF a = 0 \/ b = 0 THEN <<1, 1>> ELSE <<a, b>>
    BY Zenon DEF PageNumbers
  <2> HIDE DEF a, b, w
  <2>2. w = <<w[1], w[2]>>
    BY <2>1
  <2> QED BY <2>2 DEF w
<1> HIDE DEF p, u, v
<1>7. h = [raw_serial_number |-> g.raw_serial_number, cb_srv_id |-> g.cb_srv_id,
           raw_dcs_data |-> g.raw_dcs_data, page_number |-> u % 16, total_pages |-> v % 16]
  <2>1. h = [raw_serial_number |-> p.serial.raw_serial_number, cb_srv_id |-> p.cb_srv_id,
             raw_dcs_data |-> p.dcs.raw_dcs_data, page_number |-> p.page_number % 16,
             total_pages |-> p.total_pages % 16]
    BY Zenon DEF Header, p
  <2>2. p.page_number = u /\ p.total_pages = v /\ p.cb_srv_id = g.cb_srv_id
    BY <1>2, Zenon DEF u, v
  <2> QED BY <1>3, <1>4, <2>1, <2>2, Zenon
<1>8. u % 16 = u /\ v % 16 = v
  BY <1>5
<1>9. <<h.page_number, h.total_pages>> = PageNumbers(g)
  BY <1>6, <1>7, <1>8
<1>10. g = [raw_serial_number |-> g.raw_serial_number, cb_srv_id |-> g.cb_srv_id,
            raw_dcs_data |-> g.raw_dcs_data, page_number |-> g.page_number,
            total_pages |-> g.total_pages]
  <2> HIDE DEF g
  <2> QED BY <1>1, Zenon DEF HeaderType
<1>11. [h EXCEPT !.page_number = g.page_number, !.total_pages = g.total_pages]
         = [raw_serial_number |-> g.raw_serial_number, cb_srv_id |-> g.cb_srv_id,
            raw_dcs_data |-> g.raw_dcs_data, page_number |-> g.page_number,
            total_pages |-> g.total_pages]
  <2> DEFINE a == g.raw_serial_number
             b == g.cb_srv_id
             c == g.raw_dcs_data
             m == g.page_number
             n == g.total_pages
             x == u % 16
             y == v % 16
  <2>1. h = [raw_serial_number |-> a, cb_srv_id |-> b, raw_dcs_data |-> c,
             page_number |-> x, total_pages |-> y]
    BY <1>7
  <2> HIDE DEF a, b, c, m, n, x, y
  <2>2. [h EXCEPT !.page_number = m, !.total_pages = n]
          = [raw_serial_number |-> a, cb_srv_id |-> b, raw_dcs_data |-> c,
             page_number |-> m, total_pages |-> n]
    <3> DEFINE k == [h EXCEPT !.page_number = m]
    <3>1. k = [raw_serial_number |-> a, cb_srv_id |-> b, raw_dcs_data |-> c,
               page_number |-> m, total_pages |-> y]
      BY ONLY <2>1
    <3>2. [k EXCEPT !.total_pages = n]
            = [raw_serial_number |-> a, cb_srv_id |-> b, raw_dcs_data |-> c,
               page_number |-> m, total_pages |-> n]
      <4> HIDE DEF k
      <4> QED BY ONLY <3>1
    <3> QED BY <3>2, Zenon
  <2> QED BY <2>2, Zenon DEF a, b, c, m, n
<1> QED BY <1>9, <1>10, <1>11, Zenon

(* A page that is passed on is the page that was received, however often:   *)
(* its length, body and header do not drift, except for the numbers of a    *)
(* page that had none and the septet behind a language.                     *)
THEOREM RelayedPagesAreKept == Spec => RelayKeepsPage
<1>1. IInv /\ [Next]_vars
        => [at = "structure" /\ heard /\ InPlace(page)
            => /\ raw'.len = raw.len
               /\ raw'.body = IF HasLanguage(page) THEN [raw.body EXCEPT ![3] = CR] ELSE raw.body
               /\ <<raw'.header.page_number, raw'.header.total_pages>> = PageNumbers(raw.header)
               /\ [raw'.header EXCEPT !.page_number = raw.header.page_number,
                                      !.total_pages = raw.header.total_pages] = raw.header]_vars
  <2> SUFFICES ASSUME IInv, Next, at = "structure", heard, InPlace(page)
               PROVE  /\ raw'.len = raw.len
                      /\ raw'.body = IF HasLanguage(page) THEN [raw.body EXCEPT ![3] = CR] ELSE raw.body
                      /\ <<raw'.header.page_number, raw'.header.total_pages>> = PageNumbers(raw.header)
                      /\ [raw'.header EXCEPT !.page_number = raw.header.page_number,
                                             !.total_pages = raw.header.total_pages] = raw.header
    BY Zenon
  <2>1. RawIsSound(raw) /\ PageIsSound(page) /\ raw.len <= PAGE_SIZE /\ page = Decoded(raw)
    BY Zenon DEF IInv
  <2>2. raw' = Encoded(page)
    <3>1. Encode
      BY DEF Next, Decode, Refuse
    <3>2. SevenBit(page) \/ ~HasLanguage(page)
      BY Zenon DEF InPlace
    <3> QED BY <3>1, <3>2, Zenon DEF Encode, Encoded, EncodeOctetsWithLanguage
  <2>3. /\ raw'.len = raw.len
        /\ raw'.body = IF HasLanguage(page) THEN [raw.body EXCEPT ![3] = CR] ELSE raw.body
    BY <2>1, <2>2, BodyIsKept, Zenon
  <2>4. raw'.header = Header(page)
    BY <2>1, <2>2, EncodedIsSound, Zenon
  <2>5. /\ <<raw'.header.page_number, raw'.header.total_pages>> = PageNumbers(raw.header)
        /\ [raw'.header EXCEPT !.page_number = raw.header.page_number,
                               !.total_pages = raw.header.total_pages] = raw.header
    BY <2>1, <2>4, HeaderIsKept, Zenon
  <2> QED BY <2>3, <2>5
<1> QED BY InvAlways, <1>1, PTL DEF Spec, RelayKeepsPage
=============================================================================
