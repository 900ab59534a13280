------------------------------- MODULE Times -------------------------------
(***************************************************************************)
(* Digits, timestamps and relative times as octets: wms_ts_bcd_to_int,     *)
(* wms_ts_encode/decode_timestamp and wms_ts_encode/decode_relative_time.  *)
(* TPDUs carry them in a validity (Validity), CDMA bearer data the         *)
(* relative ones (BearerData).                                             *)
(*                                                                         *)
(* Fields of a timestamp are octets of two BCD digits, MSB first; on the   *)
(* wire the digits are swapped.                                            *)
(***************************************************************************)
EXTENDS Integers, Sequences

Field == {"year", "month", "day", "hour", "minute", "second"}
Octet == 0..255
Timezone == -128..127
Time == [Field \union {"timezone"} -> Int]
ValidTime(t) == (\A f \in Field : t[f] \in Octet) /\ t.timezone \in Timezone

-----------------------------------------------------------------------------
(* ---- digits ------------------------------------------------------------*)
IsBcd(b) == b % 16 <= 9 /\ b \div 16 <= 9
BcdToInt(b) == IF IsBcd(b) THEN (b % 16) + (b \div 16) * 10 ELSE 0
IntToBcd(n) == ((n % 10) + (n \div 10) * 16) % 256
Swap(b) == (b % 16) * 16 + b \div 16

(* ---- timestamps --------------------------------------------------------*)
Low == [year |-> 0, month |-> 1, day |-> 1, hour |-> 0, minute |-> 0, second |-> 0]
High == [year |-> 99, month |-> 12, day |-> 31, hour |-> 23, minute |-> 59, second |-> 59]
Good(f, b) == IsBcd(b) /\ BcdToInt(b) \in Low[f]..High[f]
GoodZone(z) == z \in -48..48
Encodable(t) == (\A f \in Field : Good(f, t[f])) /\ GoodZone(t.timezone)

(* The sign of a time zone is bit 3 of the octet.  BugZoneOctet loses it.   *)
BugZoneOctet(z) == LET a == IF z < 0 THEN -z ELSE z
                   IN (a % 10) * 16 + a \div 10

ZoneOctet(z) == LET a == IF z < 0 THEN -z ELSE z
                IN (a % 10) * 16 + a \div 10 + IF z < 0 THEN 8 ELSE 0
Zone(o) == LET a == (o % 8) * 10 + o \div 16
               z == IF (o \div 8) % 2 = 1 THEN -a ELSE a
           IN IF GoodZone(z) THEN z ELSE 0

(* Nothing is written of a timestamp with a bad field.                      *)
EncodeTimestamp(t) ==
  IF Encodable(t)
  THEN <<Swap(t.year), Swap(t.month), Swap(t.day), Swap(t.hour), Swap(t.minute),
         Swap(t.second), ZoneOctet(t.timezone)>>
  ELSE <<>>

(* A bad field is replaced by a good value; BugRepair: by 0.                *)
BugRepair(f, o) == IF Good(f, Swap(o)) THEN Swap(o) ELSE 0
Repair(f, o) == IF Good(f, Swap(o)) THEN Swap(o) ELSE Low[f]

DecodeTimestamp(d) ==
  [year |-> Repair("year", d[1]), month |-> Repair("month", d[2]),
   day |-> Repair("day", d[3]), hour |-> Repair("hour", d[4]),
   minute |-> Repair("minute", d[5]), second |-> Repair("second", d[6]),
   timezone |-> Zone(d[7])]

(* ---- relative time: one octet ------------------------------------------*)
Zero == [f \in Field \union {"timezone"} |-> 0]

(* A number of days as years of 365 and months of 30 days.                  *)
DecodeRelative(v) ==
  CASE v < 144             -> LET m == (v + 1) * 5
                              IN [Zero EXCEPT !.hour = IntToBcd(m \div 60),
                                              !.minute = IntToBcd(m % 60)]
    [] v >= 144 /\ v < 167 -> LET m == (v - 143) * 30
                              IN [Zero EXCEPT !.hour = IntToBcd(12 + m \div 60),
                                              !.minute = IntToBcd(m % 60)]
    [] v >= 167 /\ v < 197 -> LET d == v - 166
                              IN [Zero EXCEPT !.month = IntToBcd(d \div 30),
                                              !.day = IntToBcd(d % 30)]
    [] v >= 197            -> LET d == (v - 192) * 7
                              IN [Zero EXCEPT !.year = IntToBcd(d \div 365),
                                              !.month = IntToBcd((d % 365) \div 30),
                                              !.day = IntToBcd((d % 365) % 30)]

Days(t) == BcdToInt(t.year) * 365 + BcdToInt(t.month) * 30 + BcdToInt(t.day)
Minutes(t) == BcdToInt(t.hour) * 60 + BcdToInt(t.minute)

(* (i - (12 * 60 + 29)) / 30 in uint32: below zero it wraps, and            *)
(* 2^32 = 30 * 143165576 + 16.                                              *)
HalfHours(m) == IF m >= 749 THEN (m - 749) \div 30
                            ELSE 143165576 + (m - 749 + 16) \div 30

(* Broken variant: a boundary counts for the next unit, weeks do not wrap.  *)
BugEncodeRelative(t) ==
  LET d == Days(t)
      m == Minutes(t)
  IN CASE d > 30             -> (d + 6) \div 7 + 192
       [] d \in 1..30        -> d + 166
       [] d = 0 /\ m > 720   -> (HalfHours(m) + 143) % 256
       [] d = 0 /\ m <= 720  -> (m + 5) \div 5 - 1

(* Hours count only when there are no days, and no minutes at all wrap.     *)
EncodeRelative(t) ==
  LET d == Days(t)
      m == Minutes(t)
  IN CASE d > 30             -> ((d + 6) \div 7 + 192) % 256
       [] d \in 1..30        -> d + 166
       [] d = 0 /\ m > 720   -> (HalfHours(m) + 143) % 256
       [] d = 0 /\ m <= 720  -> ((m + 4) \div 5 - 1) % 256
=============================================================================
