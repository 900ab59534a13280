----------------------------- MODULE BearerData -----------------------------
(***************************************************************************)
(* The subparameters of CDMA bearer data: the fields wms_ts_encode_CDMA_bd *)
(* writes of each and the fields wms_ts_decode_CDMA_bd_from_uint8 reads,   *)
(* bit for bit; user data has a module of its own.  A structure of the     *)
(* client (wms_client_bd_s_type) is a record of the members named here and *)
(* the set `mask' of those that are present.                               *)
(***************************************************************************)
EXTENDS BitFields, FiniteSets
LOCAL INSTANCE SequencesExt
T == INSTANCE Times

ADDRESS_MAX == 48          \* WMS_ADDRESS_MAX
MAX_SERVICES == 5          \* WMS_BC_SCPT_MAX_SERVICES
LABEL_SIZE == 30           \* WMS_BC_MM_SRV_LABEL_SIZE

Id == [message_id |-> 0, user_data |-> 1, user_response |-> 2, mc_time |-> 3,
       validity_absolute |-> 4, validity_relative |-> 5, deferred_absolute |-> 6,
       deferred_relative |-> 7, priority |-> 8, privacy |-> 9, reply_option |-> 10,
       num_messages |-> 11, alert_mode |-> 12, language |-> 13, callback |-> 14,
       display_mode |-> 15, deposit_index |-> 17, scpt_data |-> 18, scpt_result |-> 19,
       delivery_status |-> 20, ip_address |-> 85, rsn_no_notify |-> 86]
Known == DOMAIN Id
Subparameter == Known \union {"other"}       \* "other": those the codec has no name for

EncodeOrder ==
  <<"message_id", "user_data", "user_response", "mc_time", "validity_absolute",
    "validity_relative", "deferred_absolute", "deferred_relative", "priority", "privacy",
    "reply_option", "num_messages", "alert_mode", "language", "callback", "display_mode",
    "scpt_data", "scpt_result", "deposit_index", "delivery_status", "ip_address",
    "rsn_no_notify", "other">>

AbsoluteTimes == {"mc_time", "validity_absolute", "deferred_absolute"}
RelativeTimes == {"validity_relative", "deferred_relative"}

Encodings == <<"octet", "is91ep", "ascii", "ia5", "unicode", "shift_jis", "korean",
               "latin_hebrew", "latin", "gsm7">>
EncodingCode(e) == CHOOSE k \in 0..9 : Encodings[k + 1] = e
EncodingOf(k) == IF k <= 9 THEN Encodings[k + 1] ELSE "octet"   \* none of the special ones
DigitSize(e) == CASE e \in {"ascii", "ia5", "gsm7"} -> 7
                  [] e = "unicode" -> 16
                  [] OTHER -> 8

(* The values that the C types of the members have: a number of type uint8  *)
(* is an octet, an enumeration and a number of type uint32 any number.      *)
Octet == 0..255
Word == 0..65535
Time == {t \in T!Time : T!ValidTime(t)}
Entry == [op_code : Nat, service : Nat, language : Nat, max_messages : Octet, alert : Nat,
          label : Seq(Octet),
          held : Word]      \* no member: see WriteService
Value ==
  [message_id |-> [type : Nat, id_number : Nat, udh_present : 0..1],
   user_data |-> [encoding : {Encodings[k] : k \in 1..10}, num : Octet, data : Seq(Octet),
                  headers : Seq(Seq(Octet)), padding : Octet, type : Nat],
   user_response |-> Octet, mc_time |-> [1..6 -> Octet], validity_absolute |-> [1..6 -> Octet],
   validity_relative |-> Time, deferred_absolute |-> [1..6 -> Octet], deferred_relative |-> Time,
   priority |-> Nat, privacy |-> Nat, reply_option |-> [1..3 -> 0..1], num_messages |-> Octet,
   alert_mode |-> Nat, language |-> Nat,
   callback |-> [digit_mode : Nat, number_type : Nat, number_plan : Nat, digits : Seq(Octet)],
   display_mode |-> [mode : Nat, download : Octet],
   scpt_data |-> [encoding : {Encodings[k] : k \in 1..10}, entries : Seq(Entry)],
   scpt_result |-> Seq([service : Nat, language : Nat, status : Nat]),
   deposit_index |-> Nat, delivery_status |-> [1..2 -> Nat], ip_address |-> [1..5 -> Octet],
   rsn_no_notify |-> Octet, other |-> Seq(Octet)]

-----------------------------------------------------------------------------
(* ---- fields written of the member v ------------------------------------*)
WriteMessageId(v) == <<<<v.type, 4>>, <<v.id_number, 16>>, <<v.udh_present, 1>>, <<0, 3>>>>
WriteOctet(v) == <<<<v, 8>>>>               \* user_response, language, rsn_no_notify
WriteRelative(v) == <<<<T!EncodeRelative(v), 8>>>>
WriteTime(v) == [k \in 1..6 |-> <<v[k], 8>>]
WriteTwoBits(v) == <<<<v, 2>>, <<0, 6>>>>   \* priority, privacy
WriteReplyOption(v) == <<<<v[1], 1>>, <<v[2], 1>>, <<v[3], 1>>, <<0, 5>>>>
WriteNumMessages(v) == <<<<v \div 10, 4>>, <<v % 10, 4>>>>

(* WMS_ALERT_MODE_OFF and WMS_ALERT_MODE_DEFAULT are both 0.                *)
WriteAlertMode(v) == IF v = 0 THEN <<>> ELSE <<<<v, 2>>, <<0, 6>>>>

(* WMS_DIGIT_MODE_8_BIT is 1; there is no type or plan of 4-bit digits.     *)
Digits(v) == [k \in DOMAIN v.digits |-> <<v.digits[k], IF v.digit_mode = 1 THEN 8 ELSE 4>>]
WriteCallback(v) ==
  <<<<v.digit_mode, 1>>>>
  \o (IF v.digit_mode = 1 THEN <<<<v.number_type, 3>>, <<v.number_plan, 4>>>> ELSE <<>>)
  \o <<<<Len(v.digits), 8>>>> \o Digits(v)

(* WMS_DISPLAY_MODE_RESERVED is 3.                                          *)
WriteDisplayMode(v) == <<<<v.mode, 2>>, <<IF v.mode = 3 THEN v.download ELSE 0, 6>>>>

(* An entry of a service category program.  Its service is cast to an octet *)
(* and handed to b_packb, which takes no more, with a width of 16.  At the  *)
(* border of an octet the high octet is cleared and the low one written.    *)
(* From another bit on, the first eight bits are not touched, those up to   *)
(* the border of the last octet are cleared, and the mask for the rest is   *)
(* shifted by a negative number: `held' has what the array has there and    *)
(* what comes of the shift, so that nothing of the service is left.         *)
WriteService(e, bit) ==
  <<IF bit = 0 THEN e.service % 256 ELSE 256 * (e.held \div 256) + (e.held % 2^bit), 16>>

(* The bit of its octet at which the service of the entry k begins: that of *)
(* the first one is behind 9 bits, and only characters of 7 bits move the   *)
(* others.                                                                  *)
ServiceBit(v, k) ==
  LET before == FlattenSeq([j \in 1..k - 1 |-> v.entries[j].label])
  IN IF DigitSize(v.encoding) = 7 THEN (9 + 7 * Len(before)) % 8 ELSE 1

WriteEntry(e, size, bit) ==
  <<<<e.op_code, 4>>, WriteService(e, bit), <<e.language, 8>>, <<e.max_messages, 8>>, <<e.alert, 4>>,
    <<IF size = 16 THEN Len(e.label) \div 2 ELSE Len(e.label), 8>>>>
  \o [k \in DOMAIN e.label |-> <<e.label[k], IF size = 16 THEN 8 ELSE size>>]
WriteScptData(v) ==
  <<<<EncodingCode(v.encoding), 5>>>>
  \o FlattenSeq([k \in DOMAIN v.entries |->
                   WriteEntry(v.entries[k], DigitSize(v.encoding), ServiceBit(v, k))])

WriteScptResult(v) ==
  FlattenSeq([k \in DOMAIN v |->
                <<<<v[k].service, 16>>, <<v[k].language, 8>>, <<v[k].status, 4>>, <<0, 4>>>>])

WriteDepositIndex(v) == <<<<v, 16>>>>
WriteDeliveryStatus(v) == <<<<v[1], 2>>, <<v[2], 6>>>>
WriteIpAddress(v) == [k \in 1..5 |-> <<v[k], 8>>]         \* four octets and is_valid

Write(p, v) ==
  CASE p = "message_id" -> WriteMessageId(v)
    [] p \in {"user_response", "language", "rsn_no_notify"} -> WriteOctet(v)
    [] p \in RelativeTimes -> WriteRelative(v)
    [] p \in AbsoluteTimes -> WriteTime(v)
    [] p \in {"priority", "privacy"} -> WriteTwoBits(v)
    [] p = "reply_option" -> WriteReplyOption(v)
    [] p = "num_messages" -> WriteNumMessages(v)
    [] p = "alert_mode" -> WriteAlertMode(v)
    [] p = "callback" -> WriteCallback(v)
    [] p = "display_mode" -> WriteDisplayMode(v)
    [] p = "scpt_data" -> WriteScptData(v)
    [] p = "scpt_result" -> WriteScptResult(v)
    [] p = "deposit_index" -> WriteDepositIndex(v)
    [] p = "delivery_status" -> WriteDeliveryStatus(v)
    [] p = "ip_address" -> WriteIpAddress(v)

-----------------------------------------------------------------------------
(* ---- the member read from the n octets of data at octet `at' of d ------*)
(* Nothing keeps a read from going beyond those n octets: what it finds     *)
(* there is the next subparameter.                                          *)
Field(d, at, offset, width) == Unpack(d, 8 * at + offset, width)

ReadMessageId(d, at) == [type |-> Field(d, at, 0, 4), id_number |-> Field(d, at, 4, 16),
                         udh_present |-> Field(d, at, 20, 1)]

(* b_unpackb with the width of all n octets: an octet keeps the last one.   *)
(* From three on it shifts by a negative number; no such n is looked at.    *)
ReadOctet(d, at, n) == OctetAt(d, at + n - 1)
ReadTime(d, at) == [k \in 1..6 |-> OctetAt(d, at + k - 1)]
ReadRelative(d, at) == T!DecodeRelative(OctetAt(d, at))
ReadTwoBits(d, at) == Field(d, at, 0, 2)
ReadReplyOption(d, at) == [k \in 1..3 |-> Field(d, at, k - 1, 1)]
ReadNumMessages(d, at) == 10 * Field(d, at, 0, 4) + Field(d, at, 4, 4)
ReadAlertMode(d, at, n) == IF n = 0 THEN 0 ELSE Field(d, at, 0, 2)

ReadDigits(d, bit, size, count) ==
  [k \in 1..count |-> Unpack(d, bit + size * (k - 1), size)]

(* A number that is too long is cut.                                        *)
ReadCallback(d, at) ==
  LET eight == Field(d, at, 0, 1) = 1
      head == IF eight THEN 8 ELSE 1
      n == Field(d, at, head, 8)
  IN [digit_mode |-> Field(d, at, 0, 1),
      number_type |-> IF eight THEN Field(d, at, 1, 3) ELSE 0,
      number_plan |-> IF eight THEN Field(d, at, 4, 4) ELSE 0,
      digits |-> ReadDigits(d, 8 * at + head + 8, IF eight THEN 8 ELSE 4,
                            IF n > ADDRESS_MAX THEN ADDRESS_MAX ELSE n)]

ReadDisplayMode(d, at) ==
  [mode |-> Field(d, at, 0, 2), download |-> IF Field(d, at, 0, 2) = 3 THEN Field(d, at, 2, 6) ELSE 0]

(* Entries until fewer than eight bits are left, or the table is full.  A   *)
(* label is cut to LABEL_SIZE octets; characters of 16 bits are two.        *)
EntryBits(d, bit, size) == 48 + size * Unpack(d, bit + 40, 8)
ReadEntry(d, bit, size) ==
  LET octets == Unpack(d, bit + 40, 8) * (IF size = 16 THEN 2 ELSE 1)
  IN [op_code |-> Unpack(d, bit, 4), service |-> Unpack(d, bit + 4, 16),
      language |-> Unpack(d, bit + 20, 8), max_messages |-> Unpack(d, bit + 28, 8),
      alert |-> Unpack(d, bit + 36, 4),
      label |-> ReadDigits(d, bit + 48, IF size = 16 THEN 8 ELSE size,
                           IF octets > LABEL_SIZE THEN LABEL_SIZE ELSE octets)]
ReadScptData(d, at, n) ==
  LET encoding == EncodingOf(Field(d, at, 0, 5))
      size == DigitSize(encoding)
      start[k \in 1..MAX_SERVICES + 1] ==
        IF k = 1 THEN 8 * at + 5 ELSE start[k - 1] + EntryBits(d, start[k - 1], size)
      Ended(k) == start[k + 1] + 7 >= 8 * (at + n)
      count == CHOOSE k \in 1..MAX_SERVICES :
                 /\ Ended(k) \/ k = MAX_SERVICES
                 /\ \A j \in 1..k - 1 : ~Ended(j)
  IN [encoding |-> encoding, entries |-> [k \in 1..count |-> ReadEntry(d, start[k], size)]]

ReadScptResult(d, at, n) ==
  LET count == IF n <= 4 THEN 1 ELSE IF n > 4 * MAX_SERVICES THEN MAX_SERVICES
               ELSE (n + 3) \div 4
  IN [k \in 1..count |-> [service |-> Field(d, at, 32 * k - 32, 16),
                          language |-> Field(d, at, 32 * k - 16, 8),
                          status |-> Field(d, at, 32 * k - 8, 4)]]

ReadDepositIndex(d, at) == Field(d, at, 0, 16)
ReadDeliveryStatus(d, at) == <<Field(d, at, 0, 2), Field(d, at, 2, 6)>>
ReadIpAddress(d, at) == [k \in 1..5 |-> OctetAt(d, at + k - 1)]

Read(p, d, at, n) ==
  CASE p = "message_id" -> ReadMessageId(d, at)
    [] p \in {"user_response", "language"} -> ReadOctet(d, at, n)
    [] p = "rsn_no_notify" -> OctetAt(d, at)
    [] p \in RelativeTimes -> ReadRelative(d, at)
    [] p \in AbsoluteTimes -> ReadTime(d, at)
    [] p \in {"priority", "privacy"} -> ReadTwoBits(d, at)
    [] p = "reply_option" -> ReadReplyOption(d, at)
    [] p = "num_messages" -> ReadNumMessages(d, at)
    [] p = "alert_mode" -> ReadAlertMode(d, at, n)
    [] p = "callback" -> ReadCallback(d, at)
    [] p = "display_mode" -> ReadDisplayMode(d, at)
    [] p = "scpt_data" -> ReadScptData(d, at, n)
    [] p = "scpt_result" -> ReadScptResult(d, at, n)
    [] p = "deposit_index" -> ReadDepositIndex(d, at)
    [] p = "delivery_status" -> ReadDeliveryStatus(d, at)
    [] p = "ip_address" -> ReadIpAddress(d, at)

(* The subparameters whose data is checked before it is read.               *)
Acceptable(p, d, at, n) ==
  /\ p = "message_id" => n >= 3
  /\ p \in {"user_response", "num_messages", "priority", "language", "display_mode"} => n >= 1
  /\ p = "num_messages" => Field(d, at, 0, 4) < 10 /\ Field(d, at, 4, 4) < 10

(* Where the next one is looked for: the times go by what they have read,   *)
(* the others by the length octet.                                          *)
Advance(p, n) == IF p \in AbsoluteTimes THEN 6 ELSE IF p \in RelativeTimes THEN 1 ELSE n
=============================================================================
