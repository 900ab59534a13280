------------------------------ MODULE Validity ------------------------------
(***************************************************************************)
(* Validity periods between a structure and the wire, in the octets of     *)
(* Times: wms_ts_encode_gw_validity and wms_ts_decode_gw_validity.         *)
(* A validity is encoded, decoded, and encoded again, as a client does     *)
(* that sends on what it has received.                                     *)
(***************************************************************************)
EXTENDS Times

CONSTANTS Sent,       \* validities callers encode
          Arriving    \* validities that are received first

Format == {"none", "relative", "absolute", "enhanced"}

ASSUME SentAssumption ==
  Sent \subseteq {s \in [format : Format, time : Time] : ValidTime(s.time)}
ASSUME ArrivingAssumption ==
  Arriving \subseteq [format : {"relative"}, data : [1..1 -> Octet]]
           \union [format : {"absolute"}, data : [1..7 -> Octet]]

VARIABLES format,   \* validity.format
          time,     \* validity.u.time
          data,     \* the octets on the wire
          at,       \* "structure", "wire", "lost", "stopped"
          sent,     \* data comes from the encoder
          heard     \* time comes from the decoder

vars == <<format, time, data, at, sent, heard>>

-----------------------------------------------------------------------------
(* ---- wms_ts_encode_gw_validity, wms_ts_decode_gw_validity --------------*)
EncodeValidity == CASE format = "relative" -> <<EncodeRelative(time)>>
                    [] format = "absolute" -> EncodeTimestamp(time)
                    [] OTHER -> <<>>

Init == /\ \/ \E s \in Sent : /\ format = s.format /\ time = s.time
                              /\ at = "structure" /\ data = <<>>
           \/ \E s \in Arriving : /\ format = s.format /\ data = s.data
                                  /\ at = "wire" /\ time = Zero
        /\ sent = FALSE /\ heard = FALSE

(* A timestamp that cannot be encoded is only logged: nothing is written,   *)
(* nor is an enhanced validity.                                             *)
Encode == /\ at = "structure"
          /\ data' = EncodeValidity
          /\ at' = IF data' # <<>> THEN "wire" ELSE IF format = "none" THEN "stopped" ELSE "lost"
          /\ sent' = TRUE
          /\ UNCHANGED <<format, time, heard>>

(* What arrives has one of the formats with octets.                         *)
Decode == /\ at = "wire"
          /\ time' = IF format = "relative" THEN DecodeRelative(data[1])
                                            ELSE DecodeTimestamp(data)
          /\ at' = "structure" /\ heard' = TRUE
          /\ UNCHANGED <<format, data, sent>>

Next == Encode \/ Decode

Spec == Init /\ [][Next]_vars

-----------------------------------------------------------------------------
TypeOK == /\ format \in Format /\ time \in Time /\ ValidTime(time)
          /\ data \in Seq(Octet) /\ Len(data) \in {0, 1, 7}
          /\ at \in {"structure", "wire", "lost", "stopped"}
          /\ sent \in BOOLEAN /\ heard \in BOOLEAN

(* A timestamp that was encoded is decoded unaltered.                       *)
AbsoluteKept == [][format = "absolute" /\ sent /\ at' = "structure" => time' = time]_vars

(* Whatever octets arrive, the timestamp made of them can be sent on.       *)
AlwaysForwardable == heard => at # "lost"

Period(t) == Days(t) * 1440 + Minutes(t)

(* Sending a period on never makes it longer.                               *)
RelayNeverLengthens ==
  [][format = "relative" /\ heard => Period(time') <= Period(time)]_vars

(* The period a receiver grants is the least one on the wire's scale that   *)
(* covers the one asked for, where that is up to 12 hours, or whole days up *)
(* to 63 weeks.                                                             *)
Granted == Period(DecodeRelative(data[1]))
Least(p) == \A v \in Octet : LET q == Period(DecodeRelative(v)) IN q >= p => q >= Granted
JustSent == at = "wire" /\ sent /\ format = "relative"
InExactRange(t) == \/ Days(t) = 0 /\ Minutes(t) \in 1..720
                   \/ Days(t) \in 1..441 /\ Minutes(t) = 0
GrantsLeast ==
  JustSent /\ InExactRange(time) => Granted >= Period(time) /\ Least(Period(time))

(* What the encoder says of itself, "round up to the next time unit         *)
(* boundary" (wmsts.c:5040), for every period of up to a day.               *)
RoundsUp == JustSent /\ Period(time) \in 1..1440 => Granted >= Period(time)
=============================================================================
