-------------------------------- MODULE Tpdu --------------------------------
(***************************************************************************)
(* The eight GSM/WCDMA TPDUs: the GW_PP branches of wms_ts_encode and      *)
(* wms_ts_decode with the encoder and the decoder of each TPDU, field by   *)
(* field.  A caller encodes messages into one raw_ts_data structure and,   *)
(* when told WMS_OK, hands it to a receiver, which decodes it into one     *)
(* client structure, again and again.                                      *)
(*                                                                         *)
(* Addresses, coding schemes and protocol identifiers are written and read *)
(* as they are (Address, Dcs).  Of another field only its name and the     *)
(* number of its octets are kept: the octets of user data are the subject  *)
(* of UserData, those of times of Validity.  Pointers are never NULL.      *)
(***************************************************************************)
EXTENDS Address, Dcs

CONSTANTS Message,    \* what is sent
          Leftover    \* what other members of the client's union may leave
                      \* where a member has its dcs

MAX_LEN == 255             \* WMS_MAX_LEN
COMMAND_DATA_MAX == 157    \* WMS_GW_COMMAND_DATA_MAX
UDL_MAX_8_BIT == 140       \* WMS_SMS_UDL_MAX_8_BIT
RETURN_CALL == 95          \* WMS_PID_RETURN_CALL

Kind == {"deliver", "deliver_report_ack", "deliver_report_error", "submit",
         "submit_report_ack", "submit_report_error", "status_report", "command"}
Masked == Kind \ {"deliver", "submit", "command"}   \* those with a TP-PI
Field == {"first", "mr", "address", "pid", "dcs", "timestamp", "discharge_time", "status",
          "cause", "mask", "validity", "ud", "command", "number", "command_data"}

MessageType ==
  [kind : Kind,
   mask : 0..255,              \* its last octet, the one that is sent
   address : AddressType,
   pid : 0..255,
   dcs : Scheme,
   timed : BOOLEAN,            \* the fields of all timestamps are in range
   validity : {"none", "relative", "absolute", "enhanced", "beyond"},
   length : 0..MAX_LEN,        \* wms_ts_compute_gw_user_data_length
   command_data_len : 0..255]

ASSUME LeftoverAssumption == Leftover \subseteq [alphabet : Alphabet, indication : Indication]

ASSUME MessageAssumption ==
  Message \subseteq MessageType /\ \A m \in Message : WellTyped(m.address)

VARIABLES at,       \* "idle", "encode", "encoded", "decode", "decoded", "garbled"
          msg,      \* the message encoded last
          todo,     \* the fields the function that runs has before it
          pos,      \* its position
          status,   \* st
          raw,      \* raw_ts_data: type, len, and data as fields, with the
                    \* contents of those that are kept
          kind,     \* the decoder that runs
          got,      \* the fields it has read, with their values
          held,     \* the client structure: which member of its union is
                    \* filled, and dcs.alphabet and the indication of dcs in it
          text      \* the alphabet the user data was read in

caller == <<msg, raw>>
receiver == <<kind, got, held, text>>
vars == <<at, todo, pos, status, caller, receiver>>

-----------------------------------------------------------------------------
(* ---- the fields of each TPDU, in the order they are written ------------*)
EncodeDeliver == <<"first", "address", "pid", "dcs", "timestamp", "ud">>
EncodeDeliverReportAck == <<"first", "mask", "pid", "dcs", "ud">>
EncodeDeliverReportError == <<"first", "cause", "mask", "pid", "dcs", "ud">>
EncodeStatusReport == <<"first", "mr", "address", "timestamp", "discharge_time", "status",
                        "mask", "pid", "dcs", "ud">>
EncodeCommand == <<"first", "mr", "pid", "command", "number", "address", "command_data">>
EncodeSubmit == <<"first", "mr", "address", "pid", "dcs", "validity", "ud">>
EncodeSubmitReportAck == <<"first", "mask", "timestamp", "pid", "dcs", "ud">>
EncodeSubmitReportError == <<"first", "cause", "mask", "timestamp", "pid", "dcs", "ud">>

EncodeOrder == [deliver |-> EncodeDeliver, submit |-> EncodeSubmit,
                deliver_report_ack |-> EncodeDeliverReportAck,
                deliver_report_error |-> EncodeDeliverReportError,
                submit_report_ack |-> EncodeSubmitReportAck,
                submit_report_error |-> EncodeSubmitReportError,
                status_report |-> EncodeStatusReport, command |-> EncodeCommand]

(* ---- and read ----------------------------------------------------------*)
DecodeDeliver == <<"first", "address", "pid", "dcs", "timestamp", "ud">>
DecodeDeliverReportAck == <<"first", "mask", "pid", "dcs", "ud">>
DecodeDeliverReportError == <<"first", "cause", "mask", "pid", "dcs", "ud">>
DecodeStatusReport == <<"first", "mr", "address", "timestamp", "discharge_time", "status",
                        "mask", "pid", "dcs", "ud">>
DecodeCommand == <<"first", "mr", "pid", "command", "number", "address", "command_data">>
DecodeSubmit == <<"first", "mr", "address", "pid", "dcs", "validity", "ud">>
DecodeSubmitReportAck == <<"first", "mask", "timestamp", "pid", "dcs", "ud">>
DecodeSubmitReportError == <<"first", "cause", "mask", "timestamp", "pid", "dcs", "ud">>

DecodeOrder == [deliver |-> DecodeDeliver, submit |-> DecodeSubmit,
                deliver_report_ack |-> DecodeDeliverReportAck,
                deliver_report_error |-> DecodeDeliverReportError,
                submit_report_ack |-> DecodeSubmitReportAck,
                submit_report_error |-> DecodeSubmitReportError,
                status_report |-> DecodeStatusReport, command |-> DecodeCommand]

(* WMS_TPDU_MASK_PID, _DCS and _USER_DATA.                                  *)
InMask(f, mask) == CASE f = "pid" -> mask % 2 = 1
                     [] f = "dcs" -> (mask \div 2) % 2 = 1
                     [] f = "ud"  -> (mask \div 4) % 2 = 1
                     [] OTHER     -> TRUE
Written(f) == msg.kind \in Masked => InMask(f, msg.mask)

(* The mask the decoder goes by: in a status report 0xFF stands for none.   *)
MaskRead(k, mask) == IF k = "status_report" /\ mask = 255 THEN 0 ELSE mask
Read(f) == kind \in Masked => InMask(f, MaskRead(kind, msg.mask))

-----------------------------------------------------------------------------
(* ---- octets of a field -------------------------------------------------*)
Timestamp(m) == IF m.timed THEN 7 ELSE 0

(* wms_ts_encode_gw_validity, by submit.validity                            *)
EncodedValidity(m) == CASE m.validity = "relative" -> 1
                        [] m.validity = "absolute" -> Timestamp(m)
                        [] OTHER -> 0
DecodedValidity(m) == CASE m.validity = "relative" -> 1
                        [] m.validity = "absolute" -> 7
                        [] OTHER -> 0

(* TP-CDL is limited to the size of the array, and so is what is copied.    *)
AtMost(n, limit) == IF n > limit THEN limit ELSE n
CommandData(m) == 1 + AtMost(m.command_data_len, COMMAND_DATA_MAX)

(* What is kept of it.                                                      *)
Contents(f, m) == CASE f = "address" -> EncodeAddress(m.address)
                    [] f = "pid" -> <<m.pid>>
                    [] f = "dcs" -> <<EncodeDcs(m.dcs)>>
                    [] OTHER -> <<>>

Encoded(f, m) == CASE f = "address" -> Len(EncodeAddress(m.address))
                   [] f \in {"timestamp", "discharge_time"} -> Timestamp(m)
                   [] f = "validity" -> EncodedValidity(m)
                   [] f = "ud" -> 1 + m.length
                   [] f = "command_data" -> CommandData(m)
                   [] OTHER -> 1
WithField(fields, f, m) ==
  IF Encoded(f, m) = 0 THEN fields
  ELSE Append(fields, [field |-> f, start |-> pos, octets |-> Encoded(f, m),
                       contents |-> Contents(f, m)])

(* Bits 0 and 1 of the first octet, of 0x00, 0x01, 0x02 or 0x10.            *)
FirstOctet(k) == CASE k \in {"deliver", "deliver_report_ack", "deliver_report_error"} -> 0
                   [] k \in {"submit", "submit_report_ack", "submit_report_error"} -> 1
                   [] k = "command" -> 2
                   [] k = "status_report" -> 16
Mti(k) == FirstOctet(k) % 4

-----------------------------------------------------------------------------
NoMessage == [kind |-> "none"]
NoFields == [f \in {} |-> <<>>]

Init == /\ at = "idle" /\ msg = NoMessage /\ todo = <<>> /\ pos = 0 /\ status = "OK"
        /\ raw = [type |-> "none", len |-> 0, fields |-> <<>>]
        /\ kind = "none" /\ got = NoFields
        /\ held = [kind |-> "none", alphabet |-> "eight_bit", indication |-> NoIndication]
        /\ text = "none"

(* The type is entered, and the octets of the last call are cleared.        *)
CallEncode(m) == /\ at = "idle"
                 /\ at' = "encode" /\ msg' = m
                 /\ todo' = EncodeOrder[m.kind]
                 /\ pos' = 0 /\ status' = "OK"
                 /\ raw' = [raw EXCEPT !.type = m.kind, !.fields = <<>>]
                 /\ UNCHANGED receiver

Encoding(f) == at = "encode" /\ todo # <<>> /\ f = Head(todo)

(* An address that is too long, a bad timestamp, a format of validity that  *)
(* does not exist: the encoder returns, and len stays what it was.          *)
Refused(f) == CASE f \in {"address", "timestamp", "discharge_time"} -> Encoded(f, msg) = 0
                [] f = "first" -> msg.kind = "submit" /\ msg.validity = "beyond"
                [] OTHER -> FALSE
TooLong(f) == f = "ud" /\ msg.length > UDL_MAX_8_BIT

(* Broken variants: pos is wider than len, and the length octet of command  *)
(* data is not counted; a text that is too long is left out.                *)
BugEncodeField == \E f \in Field :
  /\ Encoding(f) /\ Written(f) /\ ~Refused(f) /\ ~TooLong(f)
  /\ raw' = [raw EXCEPT !.fields = WithField(@, f, msg)]
  /\ pos' = IF f = "command_data" THEN pos + msg.command_data_len
                                  ELSE pos + Encoded(f, msg)
  /\ todo' = Tail(todo)
  /\ UNCHANGED <<at, status, msg, receiver>>

BugExceedCapacity == \E f \in Field :
  /\ Encoding(f) /\ Written(f) /\ TooLong(f)
  /\ todo' = Tail(todo)
  /\ UNCHANGED <<at, pos, status, caller, receiver>>

(* Nothing is written of a validity that cannot be encoded.  What pos       *)
(* counts of command data is what the caller asked for.                     *)
EncodeField == \E f \in Field :
  /\ Encoding(f) /\ Written(f) /\ ~Refused(f) /\ ~TooLong(f)
  /\ raw' = [raw EXCEPT !.fields = WithField(@, f, msg)]
  /\ pos' = IF f = "command_data" THEN (pos + 1 + msg.command_data_len) % 256
                                  ELSE (pos + Encoded(f, msg)) % 256
  /\ todo' = Tail(todo)
  /\ UNCHANGED <<at, status, msg, receiver>>

EncodeNothing == \E f \in Field :
  /\ Encoding(f) /\ ~Written(f)
  /\ todo' = Tail(todo)
  /\ UNCHANGED <<at, pos, status, caller, receiver>>

ExceedCapacity == \E f \in Field :
  /\ Encoding(f) /\ Written(f) /\ TooLong(f)
  /\ status' = "INVALID_USER_DATA_SIZE"
  /\ todo' = Tail(todo)
  /\ UNCHANGED <<at, pos, caller, receiver>>

RefuseField == \E f \in Field :
  /\ Encoding(f) /\ Written(f) /\ Refused(f)
  /\ status' = CASE f = "address" -> "INVALID_PARM_SIZE"
                 [] f = "first" -> "INVALID_VALIDITY_FORMAT"
                 [] OTHER -> "INVALID_PARM_VALUE"
  /\ at' = "encoded"
  /\ UNCHANGED <<todo, pos, caller, receiver>>

ReturnEncoded == /\ at = "encode" /\ todo = <<>>
                 /\ raw' = [raw EXCEPT !.len = pos]
                 /\ at' = "encoded"
                 /\ UNCHANGED <<todo, pos, status, msg, receiver>>

Encode == \/ \E m \in Message : CallEncode(m)
          \/ EncodeField \/ EncodeNothing \/ ExceedCapacity \/ RefuseField
          \/ ReturnEncoded

(* Between calls what is left is the raw structure and the client's.        *)
Forget == /\ at' = "idle"
          /\ todo' = <<>> /\ pos' = 0 /\ status' = "OK"
          /\ got' = NoFields /\ text' = "none"
          /\ UNCHANGED <<msg, raw, kind, held>>

(* A message that could not be encoded is not sent.                         *)
GiveUp == at = "encoded" /\ status # "OK" /\ Forget

-----------------------------------------------------------------------------
(* wms_ts_decode goes by raw.type, and the message is decoded into the      *)
(* member of the client's union for it: its dcs is what the last message of *)
(* that type left there, or whatever a member for another type did.         *)
Remnant(alphabet, indication) == [alphabet |-> alphabet, indication |-> indication]
Overlay(k) == IF held.kind = k THEN {Remnant(held.alphabet, held.indication)} ELSE Leftover
Holding(k, left) == [kind |-> k, alphabet |-> left.alphabet, indication |-> left.indication]

StartDecode(k, left) == /\ at' = "decode" /\ kind' = k /\ held' = Holding(k, left)
                        /\ todo' = DecodeOrder[k]
                        /\ pos' = 0 /\ status' = "OK" /\ got' = NoFields /\ text' = "none"
                        /\ UNCHANGED caller

CallDecode == /\ at = "encoded" /\ status = "OK"
              /\ \E left \in Overlay(raw.type) : StartDecode(raw.type, left)

(* wms_ts_decode_deliver_from_uint8, of octets of a type not known that a   *)
(* service centre may send.                                                 *)
FromCentre == {"deliver", "submit_report_ack", "submit_report_error", "status_report"}
CallDecodeDeliver == /\ at = "encoded" /\ status = "OK" /\ raw.type \in FromCentre
                     /\ \E left \in Overlay("deliver") : StartDecode("deliver", left)

(* `mti_reserved && (data[pos] & 0x03) == 0x11' never holds: whatever the   *)
(* caller says about reserved types, bits 0 and 1 have to be 00.            *)
AcceptsType == kind = "deliver" => Mti(raw.type) = 0

Decoding(f) == at = "decode" /\ todo # <<>> /\ f = Head(todo)

IsAt(k, f) == raw.fields[k].field = f /\ raw.fields[k].start = pos
Here(f) == \E k \in DOMAIN raw.fields : IsAt(k, f)
Found(f) == raw.fields[CHOOSE k \in DOMAIN raw.fields : IsAt(k, f)].contents

(* Octets the decoder takes, 0 when it refuses the field, and what it gets  *)
(* from them.                                                               *)
Decoded(f) == CASE f = "address" -> IF AddressAccepted(Found(f)) THEN AddressOctets(Found(f)) ELSE 0
                [] f \in {"timestamp", "discharge_time"} -> 7
                [] f = "validity" -> DecodedValidity(msg)
                [] f = "ud" -> 1 + msg.length
                [] f = "command_data" -> CommandData(msg)
                [] OTHER -> 1

(* wms_ts_decode_deliver announces voice mail for a return call unless the  *)
(* kind of the indication is that already -- of this message's or, when     *)
(* this one has none, of an earlier one's.                                  *)
ReturnCall(s) == kind = "deliver" /\ got.pid = RETURN_CALL /\ s.indication[2] # VOICEMAIL
BugSchemeRead(o) ==                        \* broken variant: whatever the identifier is
  LET s == DecodeDcs(o, held.indication)
  IN IF kind = "deliver" /\ s.indication[2] # VOICEMAIL THEN AnnounceVoicemail(s) ELSE s
SchemeRead(o) == LET s == DecodeDcs(o, held.indication)
                 IN IF ReturnCall(s) THEN AnnounceVoicemail(s) ELSE s

Value(f) == CASE f = "address" -> DecodeAddress(Found(f))
              [] f = "pid" -> Found(f)[1]
              [] f = "dcs" -> SchemeRead(Found(f)[1])
              [] OTHER -> <<>>
WithValue(f) == [g \in DOMAIN got \union {f} |-> IF g = f THEN Value(f) ELSE got[g]]
Hold(s) == [held EXCEPT !.alphabet = s.alphabet, !.indication = s.indication]

(* Broken variant: only a TP-DELIVER's dcs is stored.                       *)
BugDecodeField == \E f \in Field :
  /\ Decoding(f) /\ Read(f) /\ (f = "first" => AcceptsType)
  /\ Here(f) /\ Decoded(f) # 0
  /\ got' = WithValue(f)
  /\ pos' = pos + Decoded(f)
  /\ held' = IF f = "dcs" /\ kind = "deliver" THEN Hold(Value(f)) ELSE held
  /\ text' = IF f = "ud" THEN held.alphabet ELSE text
  /\ todo' = Tail(todo)
  /\ UNCHANGED <<at, status, caller, kind>>

(* The field is where the decoder looks for it.                             *)
DecodeField == \E f \in Field :
  /\ Decoding(f) /\ Read(f) /\ (f = "first" => AcceptsType)
  /\ Here(f) /\ Decoded(f) # 0
  /\ got' = WithValue(f)
  /\ pos' = pos + Decoded(f)
  /\ held' = IF f = "dcs" THEN Hold(Value(f)) ELSE held
  /\ text' = IF f = "ud" THEN held.alphabet ELSE text
  /\ todo' = Tail(todo)
  /\ UNCHANGED <<at, status, caller, kind>>

(* It is not sent, or there is no validity to read.                         *)
DecodeNothing == \E f \in Field :
  /\ Decoding(f)
  /\ \/ ~Read(f)
     \/ f = "validity" /\ msg.validity = "none"
  /\ todo' = Tail(todo)
  /\ UNCHANGED <<at, pos, status, caller, receiver>>

RejectField == \E f \in Field :
  /\ Decoding(f) /\ Read(f)
  /\ CASE f = "first" -> ~AcceptsType /\ status' = "INVALID_TPDU_TYPE"
       [] f = "address" -> Here(f) /\ Decoded(f) = 0 /\ status' = "INVALID_PARM_SIZE"
       [] f = "validity" -> msg.validity = "enhanced" /\ status' = "INVALID_PARM_VALUE"
       [] OTHER -> FALSE
  /\ at' = "decoded"
  /\ UNCHANGED <<todo, pos, caller, receiver>>

(* Something else is there.  What becomes of it is not followed any further.*)
Misread == \E f \in Field :
  /\ Decoding(f) /\ Read(f) /\ (f = "first" => AcceptsType)
  /\ ~Here(f) /\ (f = "validity" => DecodedValidity(msg) # 0)
  /\ at' = "garbled"
  /\ UNCHANGED <<todo, pos, status, caller, receiver>>

ReturnDecoded == /\ at = "decode" /\ todo = <<>>
                 /\ at' = "decoded"
                 /\ UNCHANGED <<todo, pos, status, caller, receiver>>

Done == at \in {"decoded", "garbled"} /\ Forget

Decode == \/ CallDecode \/ CallDecodeDeliver
          \/ DecodeField \/ DecodeNothing \/ RejectField \/ Misread
          \/ ReturnDecoded \/ Done

Next == Encode \/ GiveUp \/ Decode

Spec == Init /\ [][Next]_vars

-----------------------------------------------------------------------------
Status == {"OK", "INVALID_USER_DATA_SIZE", "INVALID_PARM_SIZE", "INVALID_PARM_VALUE",
           "INVALID_VALIDITY_FORMAT", "INVALID_TPDU_TYPE"}

TypeOK == /\ at \in {"idle", "encode", "encoded", "decode", "decoded", "garbled"}
          /\ msg \in Message \union {NoMessage} /\ todo \in Seq(Field)
          /\ pos \in 0..MAX_LEN + COMMAND_DATA_MAX /\ status \in Status
          /\ raw.type \in Kind \union {"none"} /\ raw.len \in 0..MAX_LEN
          /\ raw.fields \in Seq([field : Field, start : 0..MAX_LEN, octets : 1..MAX_LEN,
                                contents : Seq(0..255)])
          /\ DOMAIN got \subseteq Field
          /\ "address" \in DOMAIN got => got.address \in AddressType
          /\ "pid" \in DOMAIN got => got.pid \in 0..255
          /\ "dcs" \in DOMAIN got => got.dcs \in Scheme
          /\ kind \in Kind \union {"none"} /\ held.kind = kind
          /\ held.alphabet \in Alphabet /\ held.indication \in Indication
          /\ text \in Alphabet \union {"none"}

EncodedOk == at = "encoded" /\ status = "OK"
EndOf(k) == IF k = 0 THEN 0 ELSE raw.fields[k].start + raw.fields[k].octets
Sent == {raw.fields[k].field : k \in 1..Len(raw.fields)}

(* The fields are one behind the other, without a gap or an overlap, and    *)
(* raw_ts_data.len, counted in a uint8 on the way, is where the last one    *)
(* ends, if the caller keeps command_data_len to its array.                 *)
LengthIsExact ==
  EncodedOk =>
    /\ \A k \in DOMAIN raw.fields : raw.fields[k].start = EndOf(k - 1)
    /\ msg.command_data_len <= COMMAND_DATA_MAX => raw.len = EndOf(Len(raw.fields))

(* A message whose every part has an encoding the decoders know.            *)
Sendable == /\ msg.validity # "enhanced"
            /\ msg.validity = "absolute" => msg.timed
            /\ msg.address.type = ALPHANUMERIC => Len(msg.address.digits) <= 11
            /\ msg.kind = "status_report" => msg.mask # 255

(* WMS_OK is said only of a message that is written whole.                  *)
Whole == {EncodeOrder[msg.kind][k] : k \in 1..Len(EncodeOrder[msg.kind])}
Due == {f \in Whole : Written(f) /\ (f = "validity" => msg.validity # "none")}
OkIsWhole == EncodedOk /\ Sendable => Sent = Due

(* What the receiver has of a coding scheme that has an octet of its own.   *)
(* Where the scheme says nothing of waiting messages, the indication is an  *)
(* earlier message's.  A return call always is of voice mail: a scheme with *)
(* another indication becomes an announcement, and one with none either     *)
(* becomes one or not, as the kind of the earlier indication decides.       *)
AsSent(s, t) == t.waiting = s.waiting /\ (Waits(s.waiting) => t.indication = s.indication)
Announced(s, t) == /\ t.waiting = "store" /\ t.indication = <<TRUE, VOICEMAIL>>
                   /\ Waits(s.waiting) => s.indication[2] # VOICEMAIL

SchemeArrives(s, t, returnCall) ==
  /\ t.class = s.class /\ t.alphabet = s.alphabet /\ t.compressed = s.compressed
  /\ AsSent(s, t) \/ (returnCall /\ Announced(s, t))
  /\ returnCall => t.indication[2] = VOICEMAIL

(* The receiver finds every field where the sender put it and takes each of *)
(* them, whatever was encoded and decoded in these structures before.  The  *)
(* address and the protocol identifier it gets are the sender's, and of a   *)
(* coding scheme that has an octet of its own it gets what SchemeArrives    *)
(* says: class, alphabet and compression always, the rest but for stale     *)
(* indications and for what the decoder makes of a return call.             *)
ReadAsWritten ==
  at \in {"decoded", "garbled"} /\ kind = raw.type /\ Sendable =>
    /\ at = "decoded" /\ status = "OK" /\ DOMAIN got = Sent
    /\ "address" \in Sent => got.address = msg.address
    /\ "pid" \in Sent => got.pid = msg.pid
    /\ "dcs" \in Sent /\ msg.dcs \in Expressible =>
         SchemeArrives(msg.dcs, got.dcs, kind = "deliver" /\ msg.pid = RETURN_CALL)

(* A text that comes with a coding scheme is read in the sender's alphabet, *)
(* and not in that of an earlier message.                                   *)
TextInItsAlphabet ==
  at = "decoded" /\ kind = raw.type /\ {"dcs", "ud"} \subseteq DOMAIN got
    /\ msg.dcs \in Expressible => text = msg.dcs.alphabet

(* A status report, whose encoder says it writes its type to bits 0 and 1   *)
(* (wmsts.c:1718), is not taken for a TP-DELIVER.                           *)
StatusReportIsNoDeliver ==
  at \in {"decoded", "garbled"} /\ kind = "deliver" /\ raw.type = "status_report" => got = NoFields
=============================================================================
