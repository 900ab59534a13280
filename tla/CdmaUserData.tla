---------------------------- MODULE CdmaUserData ----------------------------
(***************************************************************************)
(* The user data of CDMA bearer data (wms_cdma_user_data_s_type): text in  *)
(* one of ten encodings, behind a user-data header or alone, and the       *)
(* messages of IS-91 that travel as user data.                             *)
(*                                                                         *)
(* User data is a record [encoding, num, data, headers, padding, type]:    *)
(* num is number_of_digits, data the octets data_len counts, headers the   *)
(* elements of the header, each the octets it takes on the wire (their     *)
(* layouts are in UdhElements), type the message type of IS-91.            *)
(***************************************************************************)
EXTENDS BearerData
LOCAL INSTANCE SequencesExt
LOCAL INSTANCE Functions

USER_DATA_MAX == 229       \* WMS_CDMA_USER_DATA_MAX
HEADERS_MAX == 7           \* WMS_MAX_UD_HEADERS

VOICE_MAIL == 130          \* WMS_IS91EP_VOICE_MAIL and its neighbours
SHORT_FULL == 131
CLI_ORDER == 132
SHORT == 133

Septets7(e) == e \in {"ascii", "ia5", "gsm7"}
Ascii(e) == e \in {"ascii", "ia5"}
Least2(a, b) == IF a < b THEN a ELSE b

(* Of a message of IS-91 the structure has the members its digits are made  *)
(* of.                                                                      *)
BearerTyped(bd) ==
  /\ DOMAIN bd \subseteq Subparameter /\ \A p \in DOMAIN bd : bd[p] \in Value[p]
  /\ "user_data" \in DOMAIN bd /\ bd.user_data.encoding = "is91ep" =>
       /\ bd.user_data.type = CLI_ORDER => "callback" \in DOMAIN bd
       /\ bd.user_data.type = VOICE_MAIL => "num_messages" \in DOMAIN bd

-----------------------------------------------------------------------------
(* ---- wms_ts_encode_IS91EP_payload --------------------------------------*)
(* Its digits take four bits of a number and six of a text; a text begins   *)
(* with the number of messages and, where there is one, the priority, when  *)
(* it announces voice mail.  bd is the client's structure.                  *)
DigitBits(type) == IF type = CLI_ORDER THEN 4 ELSE 6
Shifted(text, by) == [k \in DOMAIN text |-> (text[k] + by + 256) % 256]

PayloadAccepts(bd) ==
  LET v == bd.user_data
  IN /\ v.num = Len(v.data)
     /\ v.type \in {CLI_ORDER, VOICE_MAIL, SHORT_FULL, SHORT}
     /\ v.type = VOICE_MAIL => bd.num_messages \div 10 <= 9
Payload(bd) ==
  LET v == bd.user_data
  IN CASE v.type = CLI_ORDER -> bd.callback.digits
       [] v.type = VOICE_MAIL ->
            <<bd.num_messages \div 10, bd.num_messages % 10>>
            \o (IF "priority" \in DOMAIN bd THEN <<IF bd.priority = 0 THEN 0 ELSE 1>> ELSE <<>>)
            \o Shifted(v.data, -32)
       [] OTHER -> Shifted(v.data, -32)

(* The members of the structure that a message of IS-91 takes with it.      *)
InPayload(bd) ==
  IF "user_data" \notin DOMAIN bd \/ bd.user_data.encoding # "is91ep" THEN {}
  ELSE CASE bd.user_data.type = CLI_ORDER -> {"callback"}
         [] bd.user_data.type = VOICE_MAIL -> {"num_messages", "priority"}
         [] OTHER -> {}

-----------------------------------------------------------------------------
(* ---- user data written, by wms_ts_encode_CDMA_bd -----------------------*)
UdhOctets(v) == LET elements == FlattenSeq(v.headers) IN <<Len(elements)>> \o elements

(* Broken variant of FillBits: a whole character of fill when none is       *)
(* needed.                                                                  *)
BugFillBits(v) ==
  LET bits == 8 * Len(UdhOctets(v))
  IN CASE Septets7(v.encoding) -> 7 - (bits % 7)
       [] v.encoding = "unicode" -> IF bits % 16 = 0 THEN 0 ELSE 8
       [] OTHER -> 0

(* Bits or octets between the header and a text that is not in octets.      *)
FillBits(v) ==
  LET bits == 8 * Len(UdhOctets(v))
  IN CASE Septets7(v.encoding) -> (7 - (bits % 7)) % 7
       [] v.encoding = "unicode" -> IF bits % 16 = 0 THEN 0 ELSE 8
       [] OTHER -> 0

(* The characters, the header counted as characters too.                    *)
NumWithHeader(v) ==
  LET size == IF v.encoding = "unicode" THEN 16 ELSE IF Septets7(v.encoding) THEN 7 ELSE 8
  IN (v.num * size + 8 * Len(UdhOctets(v)) + FillBits(v)) \div size

(* What is counted of the text is its octets, the fill bits left out.  The  *)
(* packed characters of GSM include them; those of ASCII are moved behind   *)
(* them, and the last octet of that is not counted.                         *)
ShiftedBy(d, fill) ==
  [k \in DOMAIN d |-> (d[k] \div 2^fill) + IF k = 1 THEN 0 ELSE (d[k - 1] % 2^fill) * 2^(8 - fill)]
TextOctets(v) ==
  CASE v.encoding = "gsm7" -> PackSeptets(v.data, FillBits(v))
    [] Ascii(v.encoding) -> ShiftedBy(v.data, FillBits(v))
    [] v.encoding = "unicode" -> (IF FillBits(v) = 8 THEN <<0>> ELSE <<>>) \o v.data
    [] OTHER -> v.data

(* The octets of the text field and the number written before them.  Of     *)
(* GSM texts those of at most 228 characters: longer ones are not packed,   *)
(* and raw_ts goes out as it was left.                                      *)
UserDataOctets(v, udh) ==
  IF udh = 1 THEN UdhOctets(v) \o TextOctets(v)
  ELSE IF v.encoding = "gsm7" THEN PackSeptets(v.data, 0) ELSE v.data
UserDataNum(v, udh) == (IF udh = 1 THEN NumWithHeader(v) ELSE v.num) % 256

Udh(bd) == IF "message_id" \in DOMAIN bd THEN bd.message_id.udh_present ELSE 0

(* Bits of the user data; the last octet is filled with 0.  The client says *)
(* how many bits of a text without header are padding.  Messages of IS-91   *)
(* have no header.                                                          *)
WriteUserData(bd) ==
  LET v == bd.user_data
      udh == Udh(bd)
      number == [k \in DOMAIN Payload(bd) |-> <<Payload(bd)[k], DigitBits(v.type)>>]
      text == UserDataOctets(v, udh)
      fields ==
        <<<<EncodingCode(v.encoding), 5>>>>
        \o (IF v.encoding = "is91ep" THEN <<<<v.type, 8>>, <<Len(number), 8>>>> \o number
            ELSE <<<<UserDataNum(v, udh), 8>>>> \o [k \in DOMAIN text |-> <<text[k], 8>>])
      bits == FlattenSeq([k \in DOMAIN fields |-> BitsOf(fields[k])])
  IN OctetsOf(SubSeq(bits, 1, Len(bits) - IF udh = 1 THEN 0 ELSE v.padding))

UserDataFits(bd) ==
  LET v == bd.user_data
      udh == Udh(bd)
  IN IF v.encoding = "is91ep" THEN PayloadAccepts(bd) /\ Len(Payload(bd)) <= USER_DATA_MAX
     ELSE /\ udh = 1 => Len(UdhOctets(v)) <= USER_DATA_MAX
          /\ Len(UserDataOctets(v, udh)) <= USER_DATA_MAX

-----------------------------------------------------------------------------
(* ---- user data read, by wms_ts_decode_CDMA_bd_from_uint8 ---------------*)
(* The octets (digits, of IS-91) that begin within the n octets; the last   *)
(* may end behind them.                                                     *)
TextBit(d, at) == IF Field(d, at, 0, 5) = 1 THEN 21 ELSE 13
TextSize(d, at) == IF Field(d, at, 0, 5) = 1 THEN DigitBits(Field(d, at, 5, 8)) ELSE 8
TextCount(d, at, n) ==
  IF 8 * n <= TextBit(d, at) THEN 0
  ELSE (8 * n - TextBit(d, at) + TextSize(d, at) - 1) \div TextSize(d, at)

UserDataAcceptable(d, at, n) ==
  /\ TextCount(d, at, n) <= USER_DATA_MAX
  /\ Field(d, at, 0, 5) = 1 => TextCount(d, at, n) >= Field(d, at, 13, 8)

(* data_len follows from the number of characters where their size is       *)
(* known, and otherwise from the octets, the last of which is padding.  Of  *)
(* what data_len counts beyond the octets read, the structure has others.   *)
ReadUserData(d, at, n) ==
  LET e == EncodingOf(Field(d, at, 0, 5))
      num == Field(d, at, TextBit(d, at) - 8, 8)
      count == TextCount(d, at, n)
      text == ReadDigits(d, 8 * at + TextBit(d, at), TextSize(d, at), count)
      len == CASE e = "is91ep" -> num
               [] Ascii(e) -> (7 * num + 7) \div 8
               [] e = "unicode" -> (2 * num) % 256
               [] OTHER -> (count - 1) % 256
  IN [encoding |-> e, num |-> num, headers |-> <<>>,
      data |-> [k \in 1..len |-> OctetAt(text, k - 1)],
      padding |-> IF Ascii(e) THEN 8 * len - 7 * num ELSE 0,
      type |-> IF e = "is91ep" THEN Field(d, at, 5, 8) ELSE 0]

(* The elements of a header: all of them, or none when they do not end      *)
(* where the header does.  Each is taken by the decoder of its identifier   *)
(* (UserDataHeader); here the ones a decoder takes as they are.             *)
ReadHeader(d, num) ==
  LET udhl == OctetAt(d, 0)
      walk[k \in 0..HEADERS_MAX] ==
        IF k = 0 THEN 1
        ELSE IF walk[k - 1] < udhl THEN walk[k - 1] + 2 + OctetAt(d, walk[k - 1] + 1)
        ELSE walk[k - 1]
      count == Cardinality({k \in 1..HEADERS_MAX : walk[k - 1] < udhl})
      whole == num # 0 /\ udhl # 0 /\ (count = HEADERS_MAX \/ walk[count] = udhl + 1)
  IN [udhl |-> IF whole THEN udhl ELSE 0,
      headers |-> IF whole THEN [k \in 1..count |-> [j \in 1..walk[k] - walk[k - 1] |->
                                                    OctetAt(d, walk[k - 1] + j - 1)]]
                  ELSE <<>>]

(* The text behind a header of u octets, its length octet included.  A      *)
(* header longer than the text is not looked at: its bits are negative.     *)
TextBehind(v, u) ==
  LET bits == 7 * v.num - 8 * u
      fill == IF u > 1 THEN bits % 7 ELSE 0
      rest == SubSeq(v.data, u + 1, Len(v.data))
  IN CASE v.encoding = "gsm7" ->
            LET count == IF u > 1 THEN bits \div 7 ELSE Len(v.data)
            IN [v EXCEPT !.num = count, !.data = UnpackSeptets(rest, count, fill)]
       [] Ascii(v.encoding) ->
            [v EXCEPT !.num = bits \div 7, !.padding = fill,
                      !.data = [k \in 1..bits \div 7 |-> Unpack(rest, fill + 8 * (k - 1), 8)]]
       [] v.encoding = "unicode" ->
            LET text == SubSeq(v.data, u + 1 + (u % 2), Len(v.data))
            IN [v EXCEPT !.num = Len(text) \div 2, !.padding = 8 * (u % 2), !.data = text]
       [] OTHER -> [v EXCEPT !.num = (v.num - u) % 256,
                            !.data = SubSeq(rest, 1, Least2(Len(rest), USER_DATA_MAX - 1))]

HeaderAcceptable(v) == ReadHeader(v.data, v.num).udhl + 1 <= Len(v.data)
BehindHeader(v) ==
  LET h == ReadHeader(v.data, v.num)
  IN [TextBehind(v, h.udhl + 1) EXCEPT !.headers = h.headers]
WithoutHeader(v) ==
  IF v.encoding = "gsm7" THEN [v EXCEPT !.data = UnpackSeptets(v.data, v.num, 0)] ELSE v

(* ---- wms_ts_decode_IS91EP_payload --------------------------------------*)
(* The members that the digits of a message of IS-91 stand for.             *)
DigitsAcceptable(type, digits) ==
  Len(digits) <= ADDRESS_MAX /\ type \in {CLI_ORDER, VOICE_MAIL, SHORT_FULL, SHORT}

Plain(text, type) == [encoding |-> "is91ep", num |-> Len(text), data |-> Shifted(text, 32),
                      headers |-> <<>>, padding |-> 0, type |-> type]
FromDigits(type, digits) ==
  LET urgent == OctetAt(digits, 2)
      head == IF Len(digits) > 2 /\ urgent \in {0, 1} THEN 3 ELSE 2
      text == SubSeq(digits, head + 1, Len(digits))
      announced ==
        [alert_mode |-> 0, priority |-> 2 * urgent, user_data |-> Plain(text, VOICE_MAIL),
         num_messages |-> (10 * (OctetAt(digits, 0) % 16) + (OctetAt(digits, 1) % 16)) % 256]
  IN CASE type = CLI_ORDER ->
            [alert_mode |-> 0, callback |-> [digit_mode |-> 0, number_type |-> 0, number_plan |-> 0,
                                             digits |-> digits]]
       [] type = VOICE_MAIL ->
            Restrict(announced, {"alert_mode", "num_messages"}
                                \union (IF head = 3 THEN {"priority"} ELSE {})
                                \union (IF text # <<>> THEN {"user_data"} ELSE {}))
       [] OTHER -> [alert_mode |-> 0, user_data |-> Plain(digits, SHORT)]

(* What a client finds in the text: wms_ts_unpack_ascii for packed ASCII.   *)
TextOf(v) ==
  IF Ascii(v.encoding)
  THEN [k \in 1..Least2(v.num, (8 * Len(v.data) + 6) \div 7) |-> Unpack(v.data, 7 * (k - 1), 7)]
  ELSE v.data
=============================================================================
