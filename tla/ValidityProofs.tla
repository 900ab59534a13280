--------------------------- MODULE ValidityProofs ---------------------------
(***************************************************************************)
(* What is received can be sent on: theorems about Validity.               *)
(***************************************************************************)
EXTENDS Validity, TLAPS

LEMMA OctetIsNat == \A o \in Octet : o \in Nat
  BY DEF Octet

(* ---- digits ------------------------------------------------------------*)
LEMMA IntToBcdIsOctet == ASSUME NEW n \in Nat PROVE IntToBcd(n) \in Octet
  BY DEF IntToBcd, Octet

LEMMA SwapIsOctet == ASSUME NEW b \in Octet PROVE Swap(b) \in Octet
  BY DEF Swap, Octet

LEMMA BcdIsNat == ASSUME NEW b \in Octet PROVE BcdToInt(b) \in 0..165
  BY DEF BcdToInt, IsBcd, Octet

LEMMA LowIsGood == \A f \in Field : Low[f] \in Octet /\ Good(f, Low[f])
  BY DEF Field, Low, High, Good, IsBcd, BcdToInt, Octet

LEMMA RepairIsGood ==
  ASSUME NEW f \in Field, NEW o \in Octet
  PROVE  Repair(f, o) \in Octet /\ Good(f, Repair(f, o))
  BY LowIsGood, SwapIsOctet DEF Repair

LEMMA ZoneIsGood == ASSUME NEW o \in Octet PROVE Zone(o) \in Timezone /\ GoodZone(Zone(o))
  BY DEF Zone, GoodZone, Timezone, Octet

LEMMA ZoneOctetIsOctet ==
  ASSUME NEW z \in Timezone, GoodZone(z) PROVE ZoneOctet(z) \in Octet
  BY DEF ZoneOctet, GoodZone, Timezone, Octet

(* ---- timestamps --------------------------------------------------------*)
LEMMA DecodedIsEncodable ==
  ASSUME NEW d \in [1..7 -> Octet]
  PROVE  LET t == DecodeTimestamp(d) IN t \in Time /\ ValidTime(t) /\ Encodable(t)
<1> DEFINE t == DecodeTimestamp(d)
<1>1. \A k \in 1..7 : d[k] \in Octet
  OBVIOUS
<1>2. t \in Time
  <2>0. \A f \in Field, k \in 1..7 : Repair(f, d[k]) \in Octet
    BY <1>1, RepairIsGood
  <2>1. \A f \in Field, k \in 1..7 : Repair(f, d[k]) \in Int
    BY <2>0, OctetIsNat
  <2>2. Zone(d[7]) \in Int
    BY <1>1, ZoneIsGood DEF Timezone
  <2> QED BY <2>1, <2>2 DEF DecodeTimestamp, Time, Field
<1>3. \A f \in Field : t[f] \in Octet /\ Good(f, t[f])
  BY <1>1, RepairIsGood DEF DecodeTimestamp, Field
<1>4. t.timezone \in Timezone /\ GoodZone(t.timezone)
  BY <1>1, ZoneIsGood DEF DecodeTimestamp
<1> QED BY <1>2, <1>3, <1>4 DEF ValidTime, Encodable

(* ---- relative time -----------------------------------------------------*)
LEMMA ZeroIsTime == Zero \in Time /\ ValidTime(Zero)
  BY DEF Zero, Time, ValidTime, Field, Octet, Timezone

LEMMA UpdateIsTime ==
  ASSUME NEW t, t \in Time, ValidTime(t), NEW f \in Field, NEW o \in Octet
  PROVE  [t EXCEPT ![f] = o] \in Time /\ ValidTime([t EXCEPT ![f] = o])
<1>1. o \in Int /\ f # "timezone"
  BY OctetIsNat DEF Field
<1> QED BY <1>1 DEF Time, ValidTime

LEMMA RelativeIsTime ==
  ASSUME NEW v \in Octet
  PROVE  DecodeRelative(v) \in Time /\ ValidTime(DecodeRelative(v))
<1>1. \A n \in Nat : IntToBcd(n) \in Octet
  BY IntToBcdIsOctet
<1>2. CASE v < 144
  <2> DEFINE m == (v + 1) * 5
  <2>1. m \div 60 \in Nat /\ m % 60 \in Nat
    BY <1>2 DEF Octet
  <2>2. DecodeRelative(v) = [Zero EXCEPT !.hour = IntToBcd(m \div 60), !.minute = IntToBcd(m % 60)]
    BY <1>2 DEF DecodeRelative, Octet
  <2> DEFINE a == [Zero EXCEPT !.hour = IntToBcd(m \div 60)]
  <2>3. a \in Time /\ ValidTime(a)
    BY <1>1, <2>1, ZeroIsTime, UpdateIsTime DEF Field
  <2> DEFINE b == [a EXCEPT !.minute = IntToBcd(m % 60)]
  <2>4. b \in Time /\ ValidTime(b)
    <3> HIDE DEF a
    <3> QED BY <1>1, <2>1, <2>3, UpdateIsTime DEF Field
  <2> QED BY <2>2, <2>4
<1>3. CASE v >= 144 /\ v < 167
  <2> DEFINE m == (v - 143) * 30
  <2>1. 12 + m \div 60 \in Nat /\ m % 60 \in Nat
    BY <1>3 DEF Octet
  <2>2. DecodeRelative(v) = [Zero EXCEPT !.hour = IntToBcd(12 + m \div 60), !.minute = IntToBcd(m % 60)]
    BY <1>3 DEF DecodeRelative, Octet
  <2> DEFINE a == [Zero EXCEPT !.hour = IntToBcd(12 + m \div 60)]
  <2>3. a \in Time /\ ValidTime(a)
    BY <1>1, <2>1, ZeroIsTime, UpdateIsTime DEF Field
  <2> DEFINE b == [a EXCEPT !.minute = IntToBcd(m % 60)]
  <2>4. b \in Time /\ ValidTime(b)
    <3> HIDE DEF a
    <3> QED BY <1>1, <2>1, <2>3, UpdateIsTime DEF Field
  <2> QED BY <2>2, <2>4
<1>4. CASE v >= 167 /\ v < 197
  <2> DEFINE d == v - 166
  <2>1. d \div 30 \in Nat /\ d % 30 \in Nat
    BY <1>4 DEF Octet
  <2>2. DecodeRelative(v) = [Zero EXCEPT !.month = IntToBcd(d \div 30), !.day = IntToBcd(d % 30)]
    BY <1>4 DEF DecodeRelative, Octet
  <2> DEFINE a == [Zero EXCEPT !.month = IntToBcd(d \div 30)]
  <2>3. a \in Time /\ ValidTime(a)
    BY <1>1, <2>1, ZeroIsTime, UpdateIsTime DEF Field
  <2> DEFINE b == [a EXCEPT !.day = IntToBcd(d % 30)]
  <2>4. b \in Time /\ ValidTime(b)
    <3> HIDE DEF a
    <3> QED BY <1>1, <2>1, <2>3, UpdateIsTime DEF Field
  <2> QED BY <2>2, <2>4
<1>5. CASE v >= 197
  <2> DEFINE d == (v - 192) * 7
  <2>1. /\ d \div 365 \in Nat /\ (d % 365) \div 30 \in Nat /\ (d % 365) % 30 \in Nat
    BY <1>5 DEF Octet
  <2>2. DecodeRelative(v) = [Zero EXCEPT !.year = IntToBcd(d \div 365),
                                         !.month = IntToBcd((d % 365) \div 30),
                                         !.day = IntToBcd((d % 365) % 30)]
    BY <1>5 DEF DecodeRelative, Octet
  <2> DEFINE a == [Zero EXCEPT !.year = IntToBcd(d \div 365)]
  <2>3. a \in Time /\ ValidTime(a)
    BY <1>1, <2>1, ZeroIsTime, UpdateIsTime DEF Field
  <2> DEFINE b == [a EXCEPT !.month = IntToBcd((d % 365) \div 30)]
  <2>4. b \in Time /\ ValidTime(b)
    <3> HIDE DEF a
    <3> QED BY <1>1, <2>1, <2>3, UpdateIsTime DEF Field
  <2> DEFINE c == [b EXCEPT !.day = IntToBcd((d % 365) % 30)]
  <2>5. c \in Time /\ ValidTime(c)
    <3> HIDE DEF b
    <3> QED BY <1>1, <2>1, <2>4, UpdateIsTime DEF Field
  <2> QED BY <2>2, <2>5
<1> QED BY <1>2, <1>3, <1>4, <1>5 DEF Octet

LEMMA RelativeIsOctet ==
  ASSUME NEW t, t \in Time, ValidTime(t)
  PROVE  EncodeRelative(t) \in Octet
<1>1. /\ BcdToInt(t.year) \in 0..165 /\ BcdToInt(t.month) \in 0..165 /\ BcdToInt(t.day) \in 0..165
      /\ BcdToInt(t.hour) \in 0..165 /\ BcdToInt(t.minute) \in 0..165
  BY BcdIsNat DEF ValidTime, Field
<1>2. Days(t) \in Nat /\ Minutes(t) \in Nat
  <2>1. \A a, b, c \in 0..165 : a * 365 + b * 30 + c \in Nat /\ a * 60 + b \in Nat
    OBVIOUS
  <2> QED BY <1>1, <2>1, ZenonT(40) DEF Days, Minutes
<1>3. \A m \in Nat : m > 720 => HalfHours(m) \in Nat
  BY DEF HalfHours
<1> DEFINE d == Days(t)
           m == Minutes(t)
<1>4. EncodeRelative(t) =
        CASE d > 30             -> ((d + 6) \div 7 + 192) % 256
          [] d \in 1..30        -> d + 166
          [] d = 0 /\ m > 720   -> (HalfHours(m) + 143) % 256
          [] d = 0 /\ m <= 720  -> ((m + 4) \div 5 - 1) % 256
  BY DEF EncodeRelative
<1>5. d \in Nat /\ m \in Nat /\ (m > 720 => HalfHours(m) \in Nat)
  BY <1>2, <1>3
<1> HIDE DEF d, m
<1>6. CASE d > 30
  BY <1>4, <1>5, <1>6 DEF Octet
<1>7. CASE d \in 1..30
  BY <1>4, <1>5, <1>7 DEF Octet
<1>8. CASE d = 0 /\ m > 720
  <2> DEFINE h == HalfHours(m)
  <2>1. h \in Nat
    BY <1>5, <1>8
  <2>2. EncodeRelative(t) = (h + 143) % 256
    BY <1>4, <1>5, <1>8
  <2> HIDE DEF h
  <2> QED BY <2>1, <2>2 DEF Octet
<1>9. CASE d = 0 /\ m <= 720
  BY <1>4, <1>5, <1>9 DEF Octet
<1> QED BY <1>5, <1>6, <1>7, <1>8, <1>9

LEMMA TimestampIsSevenOctets ==
  ASSUME NEW t, t \in Time, ValidTime(t)
  PROVE  /\ EncodeTimestamp(t) \in [1..7 -> Octet] \union {<<>>}
         /\ Encodable(t) => EncodeTimestamp(t) # <<>>
<1>1. CASE ~Encodable(t)
  BY <1>1 DEF EncodeTimestamp
<1>2. CASE Encodable(t)
  <2>1. \A f \in Field : Swap(t[f]) \in Octet
    BY SwapIsOctet DEF ValidTime
  <2>2. ZoneOctet(t.timezone) \in Octet
    BY <1>2, ZoneOctetIsOctet DEF ValidTime, Encodable
  <2>3. EncodeTimestamp(t) = <<Swap(t.year), Swap(t.month), Swap(t.day), Swap(t.hour),
                               Swap(t.minute), Swap(t.second), ZoneOctet(t.timezone)>>
    BY <1>2 DEF EncodeTimestamp
  <2> QED BY <2>1, <2>2, <2>3 DEF Field
<1> QED BY <1>1, <1>2

-----------------------------------------------------------------------------
(* What is on the wire has the format's octets, and a timestamp that was    *)
(* received is one the encoder takes.                                       *)
OnWire == \/ format = "relative" /\ data \in [1..1 -> Octet]
          \/ format = "absolute" /\ data \in [1..7 -> Octet]

Inv == /\ TypeOK
       /\ at = "wire" => OnWire
       /\ heard => /\ at # "lost"
                   /\ format \in {"relative", "absolute"}
                   /\ format = "absolute" => Encodable(time)

LEMMA WireIsSeq ==
  ASSUME NEW n \in Nat, NEW d \in [1..n -> Octet]
  PROVE  d \in Seq(Octet) /\ Len(d) = n
  OBVIOUS

LEMMA InvInit == Init => Inv
<1> SUFFICES ASSUME Init PROVE Inv
  OBVIOUS
<1>1. CASE \E s \in Sent : format = s.format /\ time = s.time /\ at = "structure" /\ data = <<>>
  <2>1. format \in Format /\ time \in Time /\ ValidTime(time)
    BY <1>1, SentAssumption
  <2>2. data = <<>> /\ at = "structure" /\ sent = FALSE /\ heard = FALSE
    BY <1>1 DEF Init
  <2>3. data \in Seq(Octet) /\ Len(data) = 0
    BY <2>2
  <2> QED BY <2>1, <2>2, <2>3 DEF Inv, TypeOK
<1>2. CASE \E s \in Arriving : format = s.format /\ data = s.data /\ at = "wire" /\ time = Zero
  <2>1. OnWire
    BY <1>2, ArrivingAssumption DEF OnWire
  <2>2. time \in Time /\ ValidTime(time)
    BY <1>2, ZeroIsTime
  <2>3. at = "wire" /\ sent = FALSE /\ heard = FALSE
    BY <1>2 DEF Init
  <2>4. data \in Seq(Octet) /\ Len(data) \in {1, 7} /\ format \in Format
    BY <2>1, WireIsSeq DEF OnWire, Format
  <2> QED BY <2>1, <2>2, <2>3, <2>4 DEF Inv, TypeOK
<1> QED BY <1>1, <1>2 DEF Init

LEMMA InvEncode == Inv /\ Encode => Inv'
<1> SUFFICES ASSUME Inv, Encode PROVE Inv'
  OBVIOUS
<1>1. /\ format' = format /\ time' = time /\ heard' = heard /\ sent' = TRUE
      /\ data' = EncodeValidity
      /\ at' = IF data' # <<>> THEN "wire" ELSE IF format = "none" THEN "stopped" ELSE "lost"
  BY DEF Encode
<1>2. time \in Time /\ ValidTime(time)
  BY DEF Inv, TypeOK
<1>3. CASE format = "relative"
  <2>1. data' = <<EncodeRelative(time)>>
    BY <1>1, <1>3 DEF EncodeValidity
  <2>2. data' \in [1..1 -> Octet] /\ data' # <<>> /\ data' \in Seq(Octet) /\ Len(data') = 1
    BY <1>2, <2>1, RelativeIsOctet
  <2> QED BY <1>1, <1>2, <1>3, <2>2 DEF Inv, TypeOK, OnWire
<1>4. CASE format = "absolute"
  <2>1. data' = EncodeTimestamp(time)
    BY <1>1, <1>4 DEF EncodeValidity
  <2>2. /\ data' \in [1..7 -> Octet] \union {<<>>}
        /\ Encodable(time) => data' # <<>>
    BY <1>2, <2>1, TimestampIsSevenOctets
  <2>3. data' \in Seq(Octet) /\ Len(data') \in {0, 1, 7}
    <3>1. CASE data' \in [1..7 -> Octet]
      BY <3>1, WireIsSeq
    <3>2. CASE data' = <<>>
      BY <3>2
    <3> QED BY <2>2, <3>1, <3>2
  <2> QED BY <1>1, <1>2, <1>4, <2>2, <2>3 DEF Inv, TypeOK, OnWire
<1>5. CASE format \in {"none", "enhanced"}
  <2>1. data' = <<>>
    BY <1>1, <1>5 DEF EncodeValidity
  <2> QED BY <1>1, <1>2, <1>5, <2>1 DEF Inv, TypeOK
<1> QED BY <1>3, <1>4, <1>5 DEF Inv, TypeOK, Format

LEMMA InvDecode == Inv /\ Decode => Inv'
<1> SUFFICES ASSUME Inv, Decode PROVE Inv'
  OBVIOUS
<1>1. /\ format' = format /\ data' = data /\ sent' = sent /\ at' = "structure" /\ heard' = TRUE
      /\ time' = IF format = "relative" THEN DecodeRelative(data[1]) ELSE DecodeTimestamp(data)
      /\ OnWire
  BY DEF Decode, Inv
<1>2. CASE format = "relative" /\ data \in [1..1 -> Octet]
  <2>1. time' \in Time /\ ValidTime(time')
    BY <1>1, <1>2, RelativeIsTime
  <2> QED BY <1>1, <1>2, <2>1 DEF Inv, TypeOK
<1>3. CASE format = "absolute" /\ data \in [1..7 -> Octet]
  <2>1. time' \in Time /\ ValidTime(time') /\ Encodable(time')
    BY <1>1, <1>3, DecodedIsEncodable
  <2> QED BY <1>1, <1>3, <2>1 DEF Inv, TypeOK
<1> QED BY <1>1, <1>2, <1>3 DEF OnWire

THEOREM ValidityInvariant == Spec => []Inv
<1>1. Inv /\ UNCHANGED vars => Inv'
  BY DEF Inv, TypeOK, OnWire, vars
<1> QED BY InvInit, InvEncode, InvDecode, <1>1, PTL DEF Spec, Next

(* A timestamp and a period keep their types through every relay: nothing   *)
(* the repair of a received one makes is out of its member's range.         *)
THEOREM TypesAreKept == Spec => []TypeOK
<1>1. Inv => TypeOK
  BY DEF Inv
<1> QED BY ValidityInvariant, <1>1, PTL

(* Whatever arrives, and however often it is relayed, the next encoder      *)
(* finds something to send: no repair of a received timestamp produces one  *)
(* that wms_ts_encode_timestamp refuses.                                    *)
THEOREM AlwaysCanBeSentOn == Spec => []AlwaysForwardable
<1>1. Inv => AlwaysForwardable
  BY DEF Inv, AlwaysForwardable
<1> QED BY ValidityInvariant, <1>1, PTL

-----------------------------------------------------------------------------
(* ---- the decoder undoes the encoder ------------------------------------*)
LEMMA SwapTwice == ASSUME NEW b \in Octet PROVE Swap(Swap(b)) = b
  BY DEF Swap, Octet

LEMMA ZoneTwice ==
  ASSUME NEW z \in Timezone, GoodZone(z) PROVE Zone(ZoneOctet(z)) = z
<1> DEFINE a == IF z < 0 THEN -z ELSE z
           o == ZoneOctet(z)
<1>1. a \in 0..48 /\ z \in Int
  BY DEF GoodZone, Timezone
<1>2. o = (a % 10) * 16 + a \div 10 + IF z < 0 THEN 8 ELSE 0
  BY DEF ZoneOctet
<1> HIDE DEF o
<1>3. o \div 16 = a % 10 /\ o % 8 = a \div 10 /\ ((o \div 8) % 2 = 1 <=> z < 0)
  BY <1>1, <1>2
<1>4. (o % 8) * 10 + o \div 16 = a
  BY <1>1, <1>3
<1> QED BY <1>1, <1>3, <1>4 DEF Zone, GoodZone, o

LEMMA TimestampTwice ==
  ASSUME NEW t, t \in Time, ValidTime(t), Encodable(t)
  PROVE  DecodeTimestamp(EncodeTimestamp(t)) = t
<1> DEFINE d == EncodeTimestamp(t)
<1>1. d = <<Swap(t.year), Swap(t.month), Swap(t.day), Swap(t.hour),
            Swap(t.minute), Swap(t.second), ZoneOctet(t.timezone)>>
  BY DEF EncodeTimestamp
<1>2. \A f \in Field : Repair(f, Swap(t[f])) = t[f]
  BY SwapTwice DEF Repair, ValidTime, Encodable
<1>3. Zone(ZoneOctet(t.timezone)) = t.timezone
  BY ZoneTwice DEF ValidTime, Encodable
<1>4. /\ DecodeTimestamp(d).year = t.year /\ DecodeTimestamp(d).month = t.month
      /\ DecodeTimestamp(d).day = t.day /\ DecodeTimestamp(d).hour = t.hour
      /\ DecodeTimestamp(d).minute = t.minute /\ DecodeTimestamp(d).second = t.second
      /\ DecodeTimestamp(d).timezone = t.timezone
  BY <1>1, <1>2, <1>3 DEF DecodeTimestamp, Field
<1>5. DecodeTimestamp(d) \in Time
  <2>1. d \in [1..7 -> Octet]
    BY <1>1, TimestampIsSevenOctets
  <2> QED BY <2>1, DecodedIsEncodable
<1> QED BY <1>4, <1>5 DEF Time, Field

(* Until it is read, a timestamp on the wire is the encoding of the one in  *)
(* the structure.                                                           *)
SentIsEncoded == at = "wire" /\ sent /\ format = "absolute"
                   => Encodable(time) /\ data = EncodeTimestamp(time)

LEMMA SentStaysEncoded == SentIsEncoded /\ Next => SentIsEncoded'
<1> SUFFICES ASSUME SentIsEncoded, Next PROVE SentIsEncoded'
  OBVIOUS
<1>1. CASE Encode
  <2> SUFFICES ASSUME at' = "wire", format = "absolute"
               PROVE  Encodable(time) /\ data' = EncodeTimestamp(time)
    BY <1>1 DEF Encode, SentIsEncoded
  <2>1. data' = EncodeTimestamp(time) /\ data' # <<>>
    BY <1>1 DEF Encode, EncodeValidity
  <2> QED BY <2>1 DEF EncodeTimestamp
<1>2. CASE Decode
  BY <1>2 DEF Decode, SentIsEncoded
<1> QED BY <1>1, <1>2 DEF Next

(* A timestamp that the encoder took, whoever made it and however many hops *)
(* it has come, is decoded field for field, sign of the time zone included. *)
THEOREM AbsoluteIsKept == Spec => AbsoluteKept
<1>1. Init => SentIsEncoded
  BY DEF Init, SentIsEncoded
<1>2. SentIsEncoded /\ UNCHANGED vars => SentIsEncoded'
  BY DEF SentIsEncoded, vars
<1>3. Inv /\ SentIsEncoded /\ [Next]_vars
        => [format = "absolute" /\ sent /\ at' = "structure" => time' = time]_vars
  <2> SUFFICES ASSUME Inv, SentIsEncoded, Next, format = "absolute", sent, at' = "structure"
               PROVE  time' = time
    OBVIOUS
  <2>1. CASE Encode
    BY <2>1 DEF Encode
  <2>2. CASE Decode
    <3>1. at = "wire" /\ time' = DecodeTimestamp(data)
      BY <2>2 DEF Decode
    <3>2. Encodable(time) /\ data = EncodeTimestamp(time)
      BY <3>1 DEF SentIsEncoded
    <3> QED BY <3>1, <3>2, TimestampTwice DEF Inv, TypeOK
  <2> QED BY <2>1, <2>2 DEF Next
<1> QED BY ValidityInvariant, SentStaysEncoded, <1>1, <1>2, <1>3, PTL DEF Spec, AbsoluteKept

-----------------------------------------------------------------------------
(* ---- the four scales of the relative octet -----------------------------*)
(* What an octet means: days, and minutes where it means less than a day.   *)
DaysIn(v) == IF v < 167 THEN 0 ELSE IF v < 197 THEN v - 166 ELSE 7 * (v - 192)
MinutesIn(v) == IF v < 144 THEN 5 * (v + 1) ELSE IF v < 167 THEN 720 + 30 * (v - 143) ELSE 0
PeriodIn(v) == DaysIn(v) * 1440 + MinutesIn(v)

LEMMA BcdKept == \A n \in 0..99 : BcdToInt(IntToBcd(n)) = n
<1> SUFFICES ASSUME NEW n \in 0..99 PROVE BcdToInt(IntToBcd(n)) = n
  OBVIOUS
<1> DEFINE x == n % 10
           y == n \div 10
<1>1. x \in 0..9 /\ y \in 0..9 /\ n = x + y * 10
  OBVIOUS
<1>2. IntToBcd(n) = (x + y * 16) % 256
  BY DEF IntToBcd
<1> HIDE DEF x, y
<1>3. IntToBcd(n) = x + y * 16
  BY <1>1, <1>2
<1>4. IntToBcd(n) % 16 = x /\ IntToBcd(n) \div 16 = y
  BY <1>1, <1>3
<1> QED BY <1>1, <1>4 DEF BcdToInt, IsBcd

LEMMA RelativeMeans ==
  ASSUME NEW v \in Octet
  PROVE  Days(DecodeRelative(v)) = DaysIn(v) /\ Minutes(DecodeRelative(v)) = MinutesIn(v)
<1> DEFINE t == DecodeRelative(v)
<1>0. IntToBcd(0) = 0 /\ v \in 0..255 /\ 0 \in 0..99
  BY DEF IntToBcd, Octet
<1>1. CASE v < 144
  <2> DEFINE m == (v + 1) * 5
  <2>1. m \div 60 \in 0..99 /\ m % 60 \in 0..99 /\ (m \div 60) * 60 + (m % 60) = m
    BY <1>0, <1>1
  <2>2. t = [Zero EXCEPT !.hour = IntToBcd(m \div 60), !.minute = IntToBcd(m % 60)]
    BY <1>0, <1>1 DEF DecodeRelative
  <2>3. /\ t.year = IntToBcd(0) /\ t.month = IntToBcd(0) /\ t.day = IntToBcd(0)
        /\ t.hour = IntToBcd(m \div 60) /\ t.minute = IntToBcd(m % 60)
    BY <1>0, <2>2 DEF Zero, Field
  <2>4. Days(t) = 0 /\ Minutes(t) = m
    <3> HIDE DEF t, m
    <3>1. /\ BcdToInt(t.year) = 0 /\ BcdToInt(t.month) = 0 /\ BcdToInt(t.day) = 0
          /\ BcdToInt(t.hour) = m \div 60 /\ BcdToInt(t.minute) = m % 60
      BY <1>0, <2>1, <2>3, BcdKept
    <3> QED BY <2>1, <3>1 DEF Days, Minutes
  <2> QED BY <1>0, <1>1, <2>4 DEF DaysIn, MinutesIn
<1>2. CASE v >= 144 /\ v < 167
  <2> DEFINE m == (v - 143) * 30
  <2>1. 12 + m \div 60 \in 0..99 /\ m % 60 \in 0..99 /\ (12 + m \div 60) * 60 + (m % 60) = 720 + m
    BY <1>0, <1>2
  <2>2. t = [Zero EXCEPT !.hour = IntToBcd(12 + m \div 60), !.minute = IntToBcd(m % 60)]
    BY <1>0, <1>2 DEF DecodeRelative
  <2>3. /\ t.year = IntToBcd(0) /\ t.month = IntToBcd(0) /\ t.day = IntToBcd(0)
        /\ t.hour = IntToBcd(12 + m \div 60) /\ t.minute = IntToBcd(m % 60)
    BY <1>0, <2>2 DEF Zero, Field
  <2>4. Days(t) = 0 /\ Minutes(t) = 720 + m
    <3> HIDE DEF t, m
    <3>1. /\ BcdToInt(t.year) = 0 /\ BcdToInt(t.month) = 0 /\ BcdToInt(t.day) = 0
          /\ BcdToInt(t.hour) = 12 + m \div 60 /\ BcdToInt(t.minute) = m % 60
      BY <1>0, <2>1, <2>3, BcdKept
    <3> QED BY <2>1, <3>1 DEF Days, Minutes
  <2> QED BY <1>0, <1>2, <2>4 DEF DaysIn, MinutesIn
<1>3. CASE v >= 167 /\ v < 197
  <2> DEFINE d == v - 166
  <2>1. d \div 30 \in 0..99 /\ d % 30 \in 0..99 /\ (d \div 30) * 30 + (d % 30) = d
    BY <1>0, <1>3
  <2>2. t = [Zero EXCEPT !.month = IntToBcd(d \div 30), !.day = IntToBcd(d % 30)]
    BY <1>0, <1>3 DEF DecodeRelative
  <2>3. /\ t.year = IntToBcd(0) /\ t.month = IntToBcd(d \div 30) /\ t.day = IntToBcd(d % 30)
        /\ t.hour = IntToBcd(0) /\ t.minute = IntToBcd(0)
    BY <1>0, <2>2 DEF Zero, Field
  <2>4. Days(t) = d /\ Minutes(t) = 0
    <3> HIDE DEF t, d
    <3>1. /\ BcdToInt(t.year) = 0 /\ BcdToInt(t.month) = d \div 30 /\ BcdToInt(t.day) = d % 30
          /\ BcdToInt(t.hour) = 0 /\ BcdToInt(t.minute) = 0
      BY <1>0, <2>1, <2>3, BcdKept
    <3> QED BY <2>1, <3>1 DEF Days, Minutes
  <2> QED BY <1>0, <1>3, <2>4 DEF DaysIn, MinutesIn
<1>4. CASE v >= 197
  <2> DEFINE d == (v - 192) * 7
             r == d % 365
  <2>1. /\ d \div 365 \in 0..99 /\ r \div 30 \in 0..99 /\ r % 30 \in 0..99
        /\ (d \div 365) * 365 + (r \div 30) * 30 + (r % 30) = d
    <3>1. d \in 35..441
      BY <1>0, <1>4
    <3> HIDE DEF d
    <3>2. d \div 365 \in 0..99 /\ r \in 0..364 /\ (d \div 365) * 365 + r = d
      BY <3>1
    <3> HIDE DEF r
    <3>3. r \div 30 \in 0..99 /\ r % 30 \in 0..99 /\ (r \div 30) * 30 + (r % 30) = r
      BY <3>2
    <3> QED BY <3>1, <3>2, <3>3
  <2>2. t = [Zero EXCEPT !.year = IntToBcd(d \div 365), !.month = IntToBcd(r \div 30),
                         !.day = IntToBcd(r % 30)]
    BY <1>0, <1>4 DEF DecodeRelative
  <2>3. /\ t.year = IntToBcd(d \div 365) /\ t.month = IntToBcd(r \div 30)
        /\ t.day = IntToBcd(r % 30) /\ t.hour = IntToBcd(0) /\ t.minute = IntToBcd(0)
    BY <1>0, <2>2 DEF Zero, Field
  <2>4. Days(t) = d /\ Minutes(t) = 0
    <3> HIDE DEF t, d, r
    <3>1. /\ BcdToInt(t.year) = d \div 365 /\ BcdToInt(t.month) = r \div 30 /\ BcdToInt(t.day) = r % 30
          /\ BcdToInt(t.hour) = 0 /\ BcdToInt(t.minute) = 0
      BY <1>0, <2>1, <2>3, BcdKept
    <3> QED BY <2>1, <3>1 DEF Days, Minutes
  <2> QED BY <1>0, <1>4, <2>4 DEF DaysIn, MinutesIn
<1> QED BY <1>0, <1>1, <1>2, <1>3, <1>4

(* What was decoded is encoded as the octet it came from, but between 12    *)
(* and 24 hours as the one before, which means half an hour less.           *)
LEMMA EncodesAgain ==
  ASSUME NEW v \in Octet
  PROVE  LET e == EncodeRelative(DecodeRelative(v))
         IN e \in Octet /\ PeriodIn(e) <= PeriodIn(v)
<1> DEFINE t == DecodeRelative(v)
           e == EncodeRelative(t)
           Shorter == e \in Octet /\ PeriodIn(e) <= PeriodIn(v)
<1>1. Days(t) = DaysIn(v) /\ Minutes(t) = MinutesIn(v) /\ v \in 0..255
  BY RelativeMeans DEF Octet
<1> HIDE DEF t
<1>2. ASSUME v < 144 PROVE Shorter
  <2>1. Days(t) = 0 /\ Minutes(t) = 5 * (v + 1)
    BY <1>1, <1>2 DEF DaysIn, MinutesIn
  <2>2. e = ((5 * (v + 1) + 4) \div 5 - 1) % 256
    BY <1>1, <1>2, <2>1 DEF EncodeRelative
  <2> HIDE DEF e
  <2>3. e = v
    BY <1>1, <1>2, <2>2
  <2> QED BY <1>1, <1>2, <2>3 DEF Octet, PeriodIn, DaysIn, MinutesIn
<1>3. ASSUME v \in 144..166 PROVE Shorter
  <2>1. Days(t) = 0 /\ Minutes(t) = 720 + 30 * (v - 143)
    BY <1>1, <1>3 DEF DaysIn, MinutesIn
  <2>2. HalfHours(Minutes(t)) = v - 144
    BY <1>3, <2>1 DEF HalfHours
  <2>3. e = (v - 144 + 143) % 256
    BY <1>1, <1>3, <2>1, <2>2 DEF EncodeRelative
  <2> HIDE DEF e
  <2>4. e = v - 1
    BY <1>3, <2>3
  <2> QED BY <1>1, <1>3, <2>4 DEF Octet, PeriodIn, DaysIn, MinutesIn
<1>4. ASSUME v \in 167..196 PROVE Shorter
  <2>1. Days(t) = v - 166
    BY <1>1, <1>4 DEF DaysIn
  <2>2. e = v - 166 + 166
    BY <1>4, <2>1 DEF EncodeRelative
  <2> HIDE DEF e
  <2>3. e = v
    BY <1>1, <2>2
  <2> QED BY <1>1, <1>4, <2>3 DEF Octet, PeriodIn, DaysIn, MinutesIn
<1>5. ASSUME v >= 197 PROVE Shorter
  <2>1. Days(t) = 7 * (v - 192)
    BY <1>1, <1>5 DEF DaysIn
  <2>2. e = ((7 * (v - 192) + 6) \div 7 + 192) % 256
    BY <1>1, <1>5, <2>1 DEF EncodeRelative
  <2> HIDE DEF e
  <2>3. e = v
    BY <1>1, <1>5, <2>2
  <2> QED BY <1>1, <1>5, <2>3 DEF Octet, PeriodIn, DaysIn, MinutesIn
<1> QED BY <1>1, <1>2, <1>3, <1>4, <1>5 DEF t

(* The encoder's octet is the first that covers what was asked for.         *)
LEMMA EncodesLeast ==
  ASSUME NEW t, InExactRange(t)
  PROVE  LET e == EncodeRelative(t)
         IN /\ e \in Octet /\ PeriodIn(e) >= Period(t)
            /\ \A v \in Octet : PeriodIn(v) >= Period(t) => PeriodIn(v) >= PeriodIn(e)
<1> DEFINE d == Days(t)
           m == Minutes(t)
           e == EncodeRelative(t)
<1>1. CASE d = 0 /\ m \in 1..720
  <2>1. e = ((m + 4) \div 5 - 1) % 256
    BY <1>1 DEF EncodeRelative
  <2>2. Period(t) = m
    BY <1>1 DEF Period
  <2> HIDE DEF d, m, e
  <2>3. e \in 0..143 /\ 5 * (e + 1) >= m /\ 5 * e < m
    BY <1>1, <2>1
  <2>4. PeriodIn(e) = 5 * (e + 1)
    BY <2>3 DEF PeriodIn, DaysIn, MinutesIn
  <2>5. ASSUME NEW v \in 0..255, PeriodIn(v) >= m PROVE PeriodIn(v) >= PeriodIn(e)
    BY <1>1, <2>3, <2>4, <2>5 DEF PeriodIn, DaysIn, MinutesIn
  <2> QED BY <2>2, <2>3, <2>4, <2>5 DEF Octet, e
<1>2. CASE d \in 1..30 /\ m = 0
  <2>1. e = d + 166
    BY <1>2 DEF EncodeRelative
  <2>2. Period(t) = d * 1440
    BY <1>2 DEF Period
  <2> HIDE DEF d, m, e
  <2>3. PeriodIn(e) = d * 1440 /\ e \in Octet
    BY <1>2, <2>1 DEF PeriodIn, DaysIn, MinutesIn, Octet
  <2> QED BY <1>2, <2>2, <2>3 DEF e
<1>3. CASE d \in 31..441 /\ m = 0
  <2>1. e = ((d + 6) \div 7 + 192) % 256
    BY <1>3 DEF EncodeRelative
  <2>2. Period(t) = d * 1440
    BY <1>3 DEF Period
  <2> HIDE DEF d, m, e
  <2>3. e \in 197..255 /\ 7 * (e - 192) >= d /\ 7 * (e - 193) < d
    BY <1>3, <2>1
  <2>4. PeriodIn(e) = 7 * (e - 192) * 1440
    BY <2>3 DEF PeriodIn, DaysIn, MinutesIn
  <2>5. ASSUME NEW v \in 0..255, PeriodIn(v) >= d * 1440 PROVE PeriodIn(v) >= PeriodIn(e)
    BY <1>3, <2>3, <2>4, <2>5 DEF PeriodIn, DaysIn, MinutesIn
  <2> QED BY <1>3, <2>2, <2>3, <2>4, <2>5 DEF Octet, e
<1> QED BY <1>1, <1>2, <1>3 DEF InExactRange

(* What a client has is one of 256 periods, and what it sends on is its     *)
(* octet.                                                                   *)
OnScale == format = "relative"
             => /\ heard => \E v \in Octet : time = DecodeRelative(v)
                /\ at = "wire" /\ (sent \/ heard) => data = <<EncodeRelative(time)>>

LEMMA ScaleIsKept == Inv /\ OnScale /\ [Next]_vars => OnScale'
<1> SUFFICES ASSUME Inv, OnScale, [Next]_vars PROVE OnScale'
  OBVIOUS
<1>1. CASE Encode
  BY <1>1 DEF Encode, EncodeValidity, OnScale
<1>2. CASE Decode
  <2>1. format = "relative" => data \in [1..1 -> Octet] /\ time' = DecodeRelative(data[1])
    BY <1>2 DEF Decode, Inv, OnWire
  <2>2. format = "relative" => data[1] \in Octet
    BY <2>1
  <2> QED BY <1>2, <2>1, <2>2 DEF Decode, OnScale
<1>3. CASE UNCHANGED vars
  BY <1>3 DEF vars, OnScale
<1> QED BY <1>1, <1>2, <1>3 DEF Next

LEMMA OnScaleAlways == Spec => []OnScale
<1>1. Init => OnScale
  BY DEF Init, OnScale
<1> QED BY ValidityInvariant, ScaleIsKept, <1>1, PTL DEF Spec

(* However often a period is sent on, it never gets longer: no repetition   *)
(* of encoding and decoding crosses from one scale into a longer one.       *)
THEOREM RelayingNeverLengthens == Spec => RelayNeverLengthens
<1>1. Inv /\ OnScale /\ [Next]_vars
        => [format = "relative" /\ heard => Period(time') <= Period(time)]_vars
  <2> SUFFICES ASSUME Inv, OnScale, Next, format = "relative", heard
               PROVE  Period(time') <= Period(time)
    OBVIOUS
  <2>1. PICK v \in Octet : time = DecodeRelative(v)
    BY DEF OnScale
  <2>2. Period(time) = PeriodIn(v) /\ PeriodIn(v) \in Int
    BY <2>1, RelativeMeans DEF Period, PeriodIn, DaysIn, MinutesIn, Octet
  <2>3. CASE Encode
    BY <2>2, <2>3 DEF Encode
  <2>4. CASE Decode
    <3> DEFINE e == EncodeRelative(time)
    <3>1. time' = DecodeRelative(e)
      BY <2>4 DEF Decode, OnScale
    <3>2. e \in Octet /\ PeriodIn(e) <= PeriodIn(v)
      BY <2>1, EncodesAgain
    <3>3. Period(time') = PeriodIn(e)
      BY <3>1, <3>2, RelativeMeans DEF Period, PeriodIn
    <3> QED BY <2>2, <3>2, <3>3
  <2> QED BY <2>3, <2>4 DEF Next
<1> QED BY ValidityInvariant, OnScaleAlways, <1>1, PTL DEF Spec, RelayNeverLengthens

(* The octet sent for a period of up to 12 hours, or of whole days up to 63 *)
(* weeks, is the least that covers it, whatever scale that is on.           *)
THEOREM PeriodsAreLeast == Spec => []GrantsLeast
<1>1. OnScale => GrantsLeast
  <2> SUFFICES ASSUME OnScale, JustSent, InExactRange(time)
               PROVE  Granted >= Period(time) /\ Least(Period(time))
    BY DEF GrantsLeast
  <2> DEFINE e == EncodeRelative(time)
  <2>1. data[1] = e
    BY DEF OnScale, JustSent
  <2>2. \A v \in Octet : Period(DecodeRelative(v)) = PeriodIn(v)
    BY RelativeMeans DEF Period, PeriodIn
  <2>3. /\ e \in Octet /\ PeriodIn(e) >= Period(time)
        /\ \A v \in Octet : PeriodIn(v) >= Period(time) => PeriodIn(v) >= PeriodIn(e)
    BY EncodesLeast
  <2> HIDE DEF e
  <2>4. Granted = PeriodIn(e)
    BY <2>1, <2>2, <2>3 DEF Granted
  <2> QED BY <2>2, <2>3, <2>4 DEF Least
<1> QED BY OnScaleAlways, <1>1, PTL
=============================================================================
