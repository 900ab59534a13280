----------------------------- MODULE CdmaMessage -----------------------------
(***************************************************************************)
(* A CDMA message from a client to a client: bearer data is encoded        *)
(* subparameter by subparameter (wms_ts_encode_bearer_data), the transport *)
(* layer is put around it (wms_ts_cdma_cl2OTA), a receiver takes the       *)
(* octets apart (wms_ts_cdma_OTA2cl, wms_ts_decode_bearer_data) and asks a *)
(* second time for the subparameters that the codec has no name for        *)
(* (wms_ts_decode_cdma_bd_with_other).  Messages of other origin arrive as *)
(* well.  A refusal is one whatever its status.                            *)
(*                                                                         *)
(* The receiver uses one structure for one message after the other, and of *)
(* what it holds only message_id.udh_present is ever read before it is     *)
(* written.                                                                *)
(***************************************************************************)
EXTENDS CdmaUserData
LOCAL INSTANCE FiniteSetsExt
TL == INSTANCE TransportLayer

CONSTANTS Messages,   \* what clients send
          Arriving,   \* [format, data]: octets of other origin
          NoMessage

(* Clients fill structures of the types in C, and octets arrive.            *)
Format == {"cdma", "awisms"} \union DOMAIN TL!Bare
ASSUME MessagesAssumption ==
  \A m \in Messages :
    \/ m.kind = "message" /\ TL!ClientTyped(m.tl) /\ BearerTyped(m.bd)
    \/ m.kind = "raw" /\ TL!ClientTyped(m.tl) /\ m.format \in Format /\ m.raw \in Seq(Octet)
    \/ m.kind = "ack" /\ m.tl.type \in 0..2 /\ m.tl.is_mo \in BOOLEAN /\ TL!PartsTyped(m.tl.parts)
ASSUME ArrivingAssumption == \A m \in Arriving : m.format \in Format /\ m.data \in Seq(Octet)

VARIABLES at,         \* the function that runs, or where the message is
          client,     \* the message that was sent
          last,       \* of an encoder: index of the parameter written last
          bearer,     \* wms_raw_ts_data_s_type.data
          format,     \* .. and .format
          ota,        \* wms_OTA_message_type.data
          pos,
          tl,         \* wms_tl_message_type
          got,        \* wms_client_bd_s_type: the members in the mask
          others,     \* other.other_data
          desired,    \* other.desired_other_len
          room,       \* other.input_other_len; 0 when it is not asked for
          udh         \* message_id.udh_present of the structure

vars == <<at, client, last, bearer, format, ota, pos, tl, got, others, desired, room, udh>>
reading == <<pos, tl, got, others, desired, room, udh>>

Blank == [type |-> 0, is_mo |-> FALSE, parts |-> <<>>]

(* The member k of a structure, and its bit in the mask, are set.          *)
Put(f, k, v) == [x \in DOMAIN f \union {k} |-> IF x = k THEN v ELSE f[x]]

Init == /\ at = "idle" /\ client = NoMessage /\ last = 0
        /\ bearer = <<>> /\ format = "cdma" /\ ota = <<>>
        /\ pos = 0 /\ tl = Blank /\ got = <<>>
        /\ others = <<>> /\ desired = 0 /\ room = 0
        /\ udh = 0

-----------------------------------------------------------------------------
(* ---- sending -----------------------------------------------------------*)
(* A client has bearer data encoded, or has raw octets of another format,   *)
(* or acknowledges.                                                         *)
Send(m) ==
  /\ at = "idle"
  /\ client' = m /\ last' = 0
  /\ at' = IF m.kind = "message" THEN "encode_bearer" ELSE "encode_transport"
  /\ bearer' = IF m.kind = "raw" THEN m.raw ELSE <<>>
  /\ format' = IF m.kind = "raw" THEN m.format ELSE "cdma"
  /\ UNCHANGED <<ota, reading>>

(* Parameters of order that are present and not yet written.                *)
Pending(order, present) == {k \in DOMAIN order : k > last /\ order[k] \in present}
Chunk(id, octets) == <<id, Len(octets) % 256>> \o octets

ToWrite == DOMAIN client.bd \ InPayload(client.bd)

(* The tens of a number of messages must be a digit: seen after it is       *)
(* written.                                                                 *)
Encodable(p) ==
  /\ p = "user_data" => UserDataFits(client.bd)
  /\ p = "num_messages" => client.bd.num_messages <= 99
Octets(p) == CASE p = "other" -> client.bd.other
               [] p = "user_data" -> Chunk(Id[p], WriteUserData(client.bd))
               [] OTHER -> Chunk(Id[p], Pack(Write(p, client.bd[p])))

EncodeSubparameter ==
  /\ at = "encode_bearer" /\ Pending(EncodeOrder, ToWrite) # {}
  /\ LET k == Min(Pending(EncodeOrder, ToWrite))
     IN /\ last' = k
        /\ at' = IF Encodable(EncodeOrder[k]) THEN at ELSE "not_sent"
        /\ bearer' = IF Encodable(EncodeOrder[k]) THEN bearer \o Octets(EncodeOrder[k]) ELSE bearer
  /\ UNCHANGED <<client, format, ota, reading>>

EndEncodeBearer ==
  /\ at = "encode_bearer" /\ Pending(EncodeOrder, ToWrite) = {}
  /\ last' = 0
  /\ at' = IF Len(bearer) <= TL!MAX_LEN THEN "encode_transport" ELSE "not_sent"
  /\ UNCHANGED <<client, bearer, format, ota, reading>>

(* The transport layer of the message: wms_ts_convert_cl2tl, but for an     *)
(* acknowledgement, which the caller gives as it is.                        *)
Outgoing == IF client.kind = "ack" THEN client.tl ELSE TL!FromClient(client.tl, bearer)
IsBareMessage == "teleservice" \in DOMAIN Outgoing.parts /\ TL!IsBare(Outgoing.parts.teleservice)
TransportOrder == TL!EncodeOrder
Unsent == Pending(TransportOrder, DOMAIN Outgoing.parts)

ParameterOctets(p, v) == IF p = "bearer" THEN v ELSE Pack(TL!Write(p, v))

BeginTransport ==
  /\ at = "encode_transport"
  /\ IF Outgoing.type = TL!Broadcast /\ "service" \notin DOMAIN Outgoing.parts
     THEN at' = "not_sent" /\ UNCHANGED <<ota, format>>
     ELSE IF IsBareMessage
     THEN at' = "air" /\ ota' = bearer /\ UNCHANGED format
     ELSE at' = "encode_parameters" /\ ota' = <<Outgoing.type>> /\ format' = "cdma"
  /\ UNCHANGED <<client, last, bearer, reading>>

EncodeParameter ==
  /\ at = "encode_parameters" /\ Unsent # {}
  /\ LET p == TransportOrder[Min(Unsent)]
         v == Outgoing.parts[p]
     IN IF TL!Writable(p, v)
        THEN /\ ota' = ota \o Chunk(TL!IdOf(p, Outgoing.is_mo), ParameterOctets(p, v))
             /\ last' = Min(Unsent) /\ UNCHANGED at
        ELSE at' = "not_sent" /\ UNCHANGED <<ota, last>>
  /\ UNCHANGED <<client, bearer, format, reading>>

EndTransport ==
  /\ at = "encode_parameters" /\ Unsent = {}
  /\ at' = IF Len(ota) <= TL!TL_MAX_LEN THEN "air" ELSE "not_sent"
  /\ UNCHANGED <<client, last, bearer, format, ota, reading>>

Arrive(m) ==
  /\ at = "idle"
  /\ at' = "air" /\ ota' = m.data /\ format' = m.format
  /\ UNCHANGED <<client, last, bearer, reading>>

-----------------------------------------------------------------------------
(* ---- receiving the transport layer -------------------------------------*)
sending == <<client, last, format, ota>>
BareFormat == DOMAIN TL!Bare

(* A message waiting indication may be a single octet.                      *)
BeginReceive ==
  /\ at = "air"
  /\ IF Len(ota) \notin 1..TL!MAX_LEN \/ (Len(ota) = 1 /\ format # "mwi")
     THEN at' = "refused" /\ UNCHANGED <<pos, tl, bearer>>
     ELSE IF format \in BareFormat
     THEN /\ tl' = [Blank EXCEPT !.parts = Put(<<>>, "teleservice", TL!Bare[format])]
          /\ bearer' = ota /\ at' = "read_bare" /\ UNCHANGED pos
     ELSE IF ota[1] \notin {TL!PointToPoint, TL!Broadcast, TL!Ack}
     THEN at' = "refused" /\ UNCHANGED <<pos, tl, bearer>>
     ELSE /\ tl' = [type |-> ota[1], is_mo |-> FALSE, parts |-> <<>>]
          /\ pos' = 1 /\ at' = "read_transport" /\ UNCHANGED bearer
  /\ UNCHANGED <<sending, got, others, desired, room, udh>>

(* The parameter at pos of the octets d: its identifier and its length.     *)
IdAt(d) == d[pos + 1]
LengthAt(d) == d[pos + 2]
Whole(d) == pos + 2 <= Len(d) /\ pos + 2 + LengthAt(d) <= Len(d)

(* Where the next one begins.  BugBehind forgets the first two octets.      *)
BugBehind(d) == pos + LengthAt(d)
Behind(d) == pos + 2 + LengthAt(d)

Identifier == 0..8                     \* of the transport layer

(* The mask says what came already; BugFresh does not look.                 *)
BugFresh(id) == id \in Identifier
Fresh(id) == id \in Identifier /\ TL!ParameterOf(id) \notin DOMAIN tl.parts
TakesParameter == TL!Acceptable(TL!ParameterOf(IdAt(ota)), ota, pos + 2, LengthAt(ota))

InTransport == at = "read_transport" /\ pos # Len(ota)

RefuseParameter ==
  /\ InTransport
  /\ Whole(ota) => Fresh(IdAt(ota)) /\ ~TakesParameter
  /\ at' = "refused"
  /\ UNCHANGED <<sending, bearer, reading>>

(* A parameter that came before, or is unknown, is skipped.                 *)
SkipParameter ==
  /\ InTransport /\ Whole(ota) /\ ~Fresh(IdAt(ota))
  /\ pos' = Behind(ota)
  /\ UNCHANGED <<at, sending, bearer, tl, got, others, desired, room, udh>>

TakeParameter ==
  /\ InTransport /\ Whole(ota) /\ Fresh(IdAt(ota)) /\ TakesParameter
  /\ LET p == TL!ParameterOf(IdAt(ota))
     IN tl' = [type |-> tl.type,
               is_mo |-> IF p \in {"address", "subaddress"} THEN IdAt(ota) \in {4, 5} ELSE tl.is_mo,
               parts |-> Put(tl.parts, p, TL!Read(p, ota, pos + 2, LengthAt(ota)))]
  /\ pos' = Behind(ota)
  /\ UNCHANGED <<at, sending, bearer, got, others, desired, room, udh>>

EndReadTransport ==
  /\ at = "read_transport" /\ pos = Len(ota)
  /\ bearer' = IF "bearer" \in DOMAIN tl.parts THEN tl.parts.bearer ELSE <<>>
  /\ at' = IF format = "cdma" /\ TL!Mandatory(tl.type) \notin DOMAIN tl.parts THEN "refused"
           ELSE IF tl.type = TL!Ack THEN "acknowledged"
           ELSE "begin_bearer"
  /\ UNCHANGED <<sending, reading>>

-----------------------------------------------------------------------------
(* ---- receiving the bearer data -----------------------------------------*)
BeginBearer ==
  /\ at = "begin_bearer"
  /\ pos' = 0 /\ got' = <<>> /\ others' = <<>> /\ desired' = 0
  /\ at' = CASE Len(bearer) = 0 -> "received"
             [] Len(bearer) = 1 -> "refused"
             [] OTHER -> "read_bearer"
  /\ UNCHANGED <<sending, bearer, tl, room, udh>>

InBearer == at = "read_bearer" /\ pos # Len(bearer)
Kind(id) == IF \E p \in Known : Id[p] = id THEN CHOOSE p \in Known : Id[p] = id ELSE "other"
KindAt == Kind(IdAt(bearer))

TakesSubparameter ==
  IF KindAt = "user_data" THEN UserDataAcceptable(bearer, pos + 2, LengthAt(bearer))
  ELSE Acceptable(KindAt, bearer, pos + 2, LengthAt(bearer))

BugSeen(p) == FALSE
Seen(p) == p \in DOMAIN got

RefuseSubparameter ==
  /\ InBearer
  /\ Whole(bearer) => KindAt # "other" /\ ~Seen(KindAt) /\ ~TakesSubparameter
  /\ at' = "refused"
  /\ UNCHANGED <<sending, bearer, reading>>

SkipSubparameter ==
  /\ InBearer /\ Whole(bearer) /\ Seen(KindAt)
  /\ pos' = Behind(bearer)
  /\ UNCHANGED <<at, sending, bearer, tl, got, others, desired, room, udh>>

TakeSubparameter ==
  /\ InBearer /\ Whole(bearer) /\ KindAt \in Known /\ ~Seen(KindAt) /\ TakesSubparameter
  /\ LET v == IF KindAt = "user_data" THEN ReadUserData(bearer, pos + 2, LengthAt(bearer))
              ELSE Read(KindAt, bearer, pos + 2, LengthAt(bearer))
     IN /\ got' = Put(got, KindAt, v)
        /\ udh' = IF KindAt = "message_id" THEN v.udh_present ELSE udh
  /\ pos' = pos + 2 + Advance(KindAt, LengthAt(bearer))
  /\ UNCHANGED <<at, sending, bearer, tl, others, desired, room>>

(* A subparameter without a name is counted, and copied when there is room. *)
(* The broken variants count, or make room for, its data alone.             *)
BugCounted(n) == (desired + n) % 256
Counted(n) == (desired + n + 2) % 256
BugRoom(n) == room >= desired + n
Room(n) == room >= desired + n + 2
TakeOther ==
  /\ InBearer /\ Whole(bearer) /\ KindAt = "other"
  /\ others' = IF Room(LengthAt(bearer))
               THEN others \o SubSeq(bearer, pos + 1, pos + 2 + LengthAt(bearer)) ELSE others
  /\ desired' = Counted(LengthAt(bearer))
  /\ pos' = Behind(bearer)
  /\ UNCHANGED <<at, sending, bearer, tl, got, room, udh>>

(* A message of IS-91 stands for other members, and only the message        *)
(* identifier stays beside them.                                            *)
IsIs91 == "user_data" \in DOMAIN got /\ got.user_data.encoding = "is91ep"
Is91Digits == got.user_data.data
Members ==
  IF ~IsIs91 THEN got
  ELSE LET digits == FromDigits(got.user_data.type, Is91Digits)
       IN [p \in DOMAIN digits \union (DOMAIN got \intersect {"message_id"}) |->
             IF p \in DOMAIN digits THEN digits[p] ELSE got[p]]

(* With udh the user data is taken for text with a header, also when the    *)
(* message has none: then it is that of an earlier message, and whether it  *)
(* has a header depends on it.                                              *)
EndBearer ==
  /\ at = "read_bearer" /\ pos = Len(bearer)
  /\ IF IsIs91 /\ ~DigitsAcceptable(got.user_data.type, Is91Digits)
     THEN at' = "refused" /\ UNCHANGED got
     ELSE IF "user_data" \notin DOMAIN Members
     THEN at' \in (IF udh = 1 THEN {"received", "refused"} ELSE {"received"}) /\ got' = Members
     ELSE IF udh = 1 /\ ~HeaderAcceptable(Members.user_data)
     THEN at' = "refused" /\ UNCHANGED got
     ELSE /\ at' = "received"
          /\ got' = [Members EXCEPT !.user_data = IF udh = 1 THEN BehindHeader(@) ELSE WithoutHeader(@)]
  /\ UNCHANGED <<sending, bearer, pos, tl, others, desired, room, udh>>

(* Bearer data of the analog formats is digits, an indication one number.   *)
BareType == CASE format = "cli" -> CLI_ORDER
              [] format = "voice_mail" -> VOICE_MAIL
              [] OTHER -> SHORT
ReadBare ==
  /\ at = "read_bare"
  /\ IF format = "mwi"
     THEN at' = "received" /\ got' = [num_messages |-> bearer[1]]
     ELSE IF DigitsAcceptable(BareType, bearer)
     THEN at' = "received" /\ got' = FromDigits(BareType, bearer)
     ELSE at' = "refused" /\ got' = <<>>
  /\ UNCHANGED <<sending, bearer, pos, tl, others, desired, room, udh>>

(* The client gets memory for the others, enough or one octet less, and has *)
(* the bearer data decoded again.                                           *)
AskForOthers ==
  /\ at = "received" /\ room = 0 /\ desired > 0
  /\ room' \in {desired - 1, desired}
  /\ at' = "begin_bearer"
  /\ UNCHANGED <<sending, bearer, pos, tl, got, others, desired, udh>>

(* The next message finds the structure as it was left.                     *)
NextMessage ==
  /\ at \in {"received", "acknowledged", "refused", "not_sent"}
  /\ at' = "idle" /\ client' = NoMessage /\ last' = 0
  /\ bearer' = <<>> /\ format' = "cdma" /\ ota' = <<>>
  /\ pos' = 0 /\ tl' = Blank /\ got' = <<>>
  /\ others' = <<>> /\ desired' = 0 /\ room' = 0
  /\ UNCHANGED udh

Encode == EncodeSubparameter \/ EndEncodeBearer \/ BeginTransport \/ EncodeParameter \/ EndTransport
Decode == \/ BeginReceive \/ RefuseParameter \/ SkipParameter \/ TakeParameter \/ EndReadTransport
          \/ BeginBearer \/ RefuseSubparameter \/ SkipSubparameter \/ TakeSubparameter \/ TakeOther
          \/ EndBearer \/ ReadBare
Codec == Encode \/ Decode
Client == \/ \E m \in Messages : Send(m)
          \/ \E m \in Arriving : Arrive(m)
          \/ AskForOthers \/ NextMessage

Next == Codec \/ Client

Spec == Init /\ [][Next]_vars

(* A call that was made runs on; clients may call or not.  This is          *)
(* WF_vars(Codec), with what it says of ENABLED <<Codec>>_vars written out: *)
(* every phase of a call has a step, and a step of a loop changes something *)
(* when the loop moves on.                                                  *)
Busy == at \notin {"idle", "received", "acknowledged", "refused", "not_sent"}
MovesOn == /\ InTransport /\ Whole(ota) => Behind(ota) # pos
           /\ InBearer /\ Whole(bearer) => Behind(bearer) # pos
Fairness == []<>~(Busy /\ MovesOn) \/ []<><<Codec>>_vars
FairSpec == Spec /\ Fairness

-----------------------------------------------------------------------------
(* ---- properties --------------------------------------------------------*)
Phase == {"idle", "encode_bearer", "encode_transport", "encode_parameters", "air", "read_transport",
          "read_bare", "begin_bearer", "read_bearer", "received", "acknowledged", "refused", "not_sent"}
TypeOK ==
  /\ at \in Phase /\ client \in Messages \union {NoMessage}
  /\ last \in 0..Len(EncodeOrder)
  /\ bearer \in Seq(Octet) /\ ota \in Seq(Octet)
  /\ format \in Format
  /\ pos \in 0..TL!MAX_LEN + 6
  /\ tl.type \in 0..2 /\ tl.is_mo \in BOOLEAN /\ DOMAIN tl.parts \subseteq TL!Parameter
  /\ DOMAIN got \subseteq Known
  /\ others \in Seq(Octet) /\ desired \in Octet /\ room \in Octet /\ Len(others) <= room
  /\ udh \in 0..1

(* Bearer data that arrives as it was sent is that of a message of its own  *)
(* kind; see the README for what the others become.                         *)
Representable == {T!DecodeRelative(v) : v \in Octet \ (144..166)}
Promised(bd) ==
  /\ DOMAIN bd = {} \/ "message_id" \in DOMAIN bd
  /\ \A p \in RelativeTimes \intersect DOMAIN bd : bd[p] \in Representable
  /\ "user_data" \in DOMAIN bd =>
       LET v == bd.user_data
       IN /\ Udh(bd) = 1 <=> v.headers # <<>>
          /\ Ascii(v.encoding) /\ Udh(bd) = 1 => 8 * Len(v.data) - 7 * v.num >= FillBits(v)
          /\ v.encoding = "is91ep" =>
               /\ DOMAIN bd \subseteq {"message_id", "user_data"} \union InPayload(bd)
               /\ v.type = VOICE_MAIL =>
                    IF "priority" \in DOMAIN bd THEN bd.priority \in {0, 2}
                    ELSE v.data = <<>> \/ v.data[1] \notin {32, 33}
               /\ Len(Payload(bd)) <= ADDRESS_MAX
  /\ Udh(bd) = 1 => "user_data" \in DOMAIN bd

SameText(v, w) == /\ v.encoding = w.encoding /\ v.num = w.num /\ v.headers = w.headers
                  /\ TextOf(v) = TextOf(w)

(* The service of an entry arrives only where it begins at the border of an *)
(* octet, and then only if it is one: wmstscdma.c:994 writes nothing of it  *)
(* otherwise.                                                               *)
ServiceIsWritten(v, k) == ServiceBit(v, k) = 0 /\ v.entries[k].service < 256
SameEntry(e, f) == /\ e.op_code = f.op_code /\ e.language = f.language /\ e.alert = f.alert
                   /\ e.max_messages = f.max_messages /\ e.label = f.label
SameEntries(v, w) ==
  /\ v.encoding = w.encoding /\ Len(v.entries) = Len(w.entries)
  /\ \A k \in 1..Len(v.entries) :
       /\ SameEntry(v.entries[k], w.entries[k])
       /\ ServiceIsWritten(v, k) => v.entries[k].service = w.entries[k].service
Same(p, v, w) == CASE p = "user_data" -> SameText(v, w)
                   [] p = "scpt_data" -> SameEntries(v, w)
                   [] OTHER -> v = w

(* A message of IS-91 without text stands for its other members alone, and  *)
(* each one brings an alert mode.                                           *)
Is91(bd) == "user_data" \in DOMAIN bd /\ bd.user_data.encoding = "is91ep"
Textless(bd) == Is91(bd) /\ (bd.user_data.type = CLI_ORDER
                             \/ (bd.user_data.type = VOICE_MAIL /\ bd.user_data.data = <<>>))
Expected(bd) == DOMAIN bd \ ({"other"} \union (IF Textless(bd) THEN {"user_data"} ELSE {}))

OtherOf(bd) == IF "other" \in DOMAIN bd THEN bd.other ELSE <<>>

SameBearer(bd) ==
  /\ DOMAIN got = Expected(bd) \union (IF Is91(bd) THEN {"alert_mode"} ELSE {})
  /\ \A p \in Expected(bd) : Same(p, bd[p], got[p])
  /\ desired = Len(OtherOf(bd))

SameTransport(c) ==
  LET r == TL!ToClient(tl)
  IN /\ r.teleservice = c.teleservice /\ r.is_mo = c.is_mo /\ r.address = c.address
     /\ DOMAIN r.optional = DOMAIN c.optional
     /\ \A p \in DOMAIN c.optional \ {"reply"} : r.optional[p] = c.optional[p]

(* What the encoders accept, the receiver gets: the transport layer field   *)
(* for field, and of the bearer data exactly the subparameters that were    *)
(* sent, with their values but for the services of a service category       *)
(* program that are not written; an acknowledgement with its cause.         *)
ReceivedAsSent ==
  client # NoMessage =>
    /\ client.kind = "message" /\ Promised(client.bd) =>
         /\ at # "refused"
         /\ at = "received" => SameTransport(client.tl) /\ SameBearer(client.bd)
    /\ at = "acknowledged" => tl = client.tl

(* The two passes agree: with the memory the first asked for, the second    *)
(* hands over every subparameter without a name, whole, in order and        *)
(* nothing else; with less it hands over fewer, none in part.  Those of a   *)
(* client's own message, in a transport layer, are those it was sent with.  *)
Tiled(d) == LET walk[k \in 0..Len(d)] ==
                  IF k = 0 THEN 0
                  ELSE IF walk[k - 1] + 2 <= Len(d) /\ Kind(d[walk[k - 1] + 1]) = "other"
                  THEN walk[k - 1] + 2 + d[walk[k - 1] + 2]
                  ELSE walk[k - 1]
            IN walk[Len(d)] = Len(d)
Wrapped(c) == c.kind = "message" /\ ~TL!IsBare(c.tl.teleservice)
OthersArriveWhole ==
  at = "received" /\ room > 0 =>
    /\ Tiled(others)
    /\ Len(others) <= room
    /\ room = desired => Len(others) = desired
    /\ client # NoMessage /\ Wrapped(client) /\ Tiled(OtherOf(client.bd)) /\ room = desired =>
         others = OtherOf(client.bd)

TransportReader ==
  INSTANCE ParameterReader WITH
    data <- ota, pos <- pos,
    taken <- IF at = "read_transport" THEN tl.parts ELSE <<>>,
    state <- CASE at = "read_transport" -> "reading" [] at = "refused" -> "refused"
               [] OTHER -> "elsewhere"
BearerReader ==
  INSTANCE ParameterReader WITH
    data <- bearer, pos <- pos,
    taken <- IF at = "read_bearer" THEN got ELSE <<>>,
    state <- CASE at = "read_bearer" -> "reading" [] at = "refused" -> "refused"
               [] OTHER -> "elsewhere"

(* Each decoding loop is a reader of parameters, for any octets at all.     *)
ReadsTransport == TransportReader!Spec
ReadsBearer == BearerReader!Spec

(* And comes to an end: a length octet of 0 or 255 keeps neither going.     *)
ReadingEnds == TransportReader!Ends /\ BearerReader!Ends
=============================================================================
