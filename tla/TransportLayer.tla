--------------------------- MODULE TransportLayer ---------------------------
(***************************************************************************)
(* The transport layer of CDMA messages: the parameters that               *)
(* wms_ts_encode_CDMA_tl writes and wms_ts_decode_CDMA_tl reads, and their *)
(* conversion from and to the client's message, wms_ts_convert_cl2tl and   *)
(* wms_ts_convert_tl2cl.  A message is [type, is_mo, parts]: parts is a    *)
(* function on the parameters that are present (its mask).                 *)
(***************************************************************************)
EXTENDS BitFields

ADDRESS_MAX == 48          \* WMS_ADDRESS_MAX and WMS_SUBADDRESS_MAX
MAX_LEN == 255             \* WMS_MAX_LEN
TL_MAX_LEN == 246          \* WMS_TL_MAX_LEN

PointToPoint == 0          \* wms_tl_message_type_e_type
Broadcast == 1
Ack == 2
TELESERVICE_BROADCAST == 327680       \* 0x00050000, beyond the 16 bits on the wire
TELESERVICE_UNKNOWN == 268435455      \* 0x0FFFFFFF

(* Of an address and a subaddress the identifier says whose they are.       *)
EncodeOrder == <<"teleservice", "service", "address", "subaddress", "reply", "cause", "bearer">>
Parameter == {EncodeOrder[k] : k \in DOMAIN EncodeOrder}
IdOf(p, is_mo) == CASE p = "teleservice" -> 0
                    [] p = "service" -> 1
                    [] p = "address" -> IF is_mo THEN 4 ELSE 2
                    [] p = "subaddress" -> IF is_mo THEN 5 ELSE 3
                    [] p = "reply" -> 6
                    [] p = "cause" -> 7
                    [] p = "bearer" -> 8
ParameterOf(id) == EncodeOrder[CASE id \in {2, 4} -> 3
                                 [] id \in {3, 5} -> 4
                                 [] id \in {0, 1} -> id + 1
                                 [] id \in 6..8 -> id - 1]

(* The teleservices that are messages of another format: no transport layer *)
(* is put around them.                                                      *)
Bare == [cli |-> 65536, voice_mail |-> 131072, sms |-> 196608, mwi |-> 262144]
IsBare(teleservice) == \E f \in DOMAIN Bare : Bare[f] = teleservice

(* The values that the C types of the members have; an enumeration is a     *)
(* number.                                                                  *)
Octet == 0..255
Value == [teleservice |-> Nat, service |-> Nat,
          address |-> [digit_mode : Nat, number_mode : Nat, type : Nat, plan : Nat, digits : Seq(Octet)],
          subaddress |-> [type : Nat, odd : Octet, digits : Seq(Octet)],
          reply |-> Octet, cause |-> [number : Octet, class : Nat, status : Octet],
          bearer |-> Seq(Octet)]
PartsTyped(f) == DOMAIN f \subseteq Parameter /\ \A p \in DOMAIN f : f[p] \in Value[p]

-----------------------------------------------------------------------------
(* ---- wms_ts_convert_cl2tl, wms_ts_convert_tl2cl ------------------------*)
(* A client's message has a teleservice, an address, is_mo, and in          *)
(* `optional' those of service, subaddress and reply that it has; an empty  *)
(* subaddress is none.                                                      *)
Optional == {"service", "subaddress", "reply"}
ClientTyped(c) ==
  /\ c.teleservice \in Nat /\ c.is_mo \in BOOLEAN /\ c.address \in Value.address
  /\ DOMAIN c.optional \subseteq Optional /\ PartsTyped(c.optional)
FromClient(c, bearer) ==
  [type |-> IF c.teleservice = TELESERVICE_BROADCAST THEN Broadcast ELSE PointToPoint,
   is_mo |-> c.is_mo,
   parts |-> [p \in {"teleservice", "address"} \union DOMAIN c.optional
                     \union (IF bearer # <<>> THEN {"bearer"} ELSE {}) |->
                CASE p \in {"teleservice", "address"} -> c[p]
                  [] p = "bearer" -> bearer
                  [] OTHER -> c.optional[p]]]

NoAddress == [digit_mode |-> 0, number_mode |-> 0, type |-> 0, plan |-> 0, digits |-> <<>>]
Among(f, keys) == [k \in DOMAIN f \intersect keys |-> f[k]]
ToClient(t) ==
  [teleservice |-> IF t.type = Broadcast THEN TELESERVICE_BROADCAST
                   ELSE IF "teleservice" \in DOMAIN t.parts THEN t.parts.teleservice
                   ELSE TELESERVICE_UNKNOWN,
   is_mo |-> t.is_mo,
   address |-> IF "address" \in DOMAIN t.parts THEN t.parts.address ELSE NoAddress,
   optional |-> Among(t.parts, Optional)]

-----------------------------------------------------------------------------
(* ---- parameters written ------------------------------------------------*)
(* Digits of 4 bits have no type, and only numbers outside data networks    *)
(* have a plan.                                                             *)
AddressHead(digit_mode, number_mode) ==
  IF digit_mode = 1 THEN IF number_mode = 0 THEN 9 ELSE 5 ELSE 2
DigitFields(digits, size) == [k \in DOMAIN digits |-> <<digits[k], size>>]
WriteAddress(a) ==
  <<<<a.digit_mode, 1>>, <<a.number_mode, 1>>>>
  \o (IF a.digit_mode = 1 THEN <<<<a.type, 3>>>> ELSE <<>>)
  \o (IF a.digit_mode = 1 /\ a.number_mode = 0 THEN <<<<a.plan, 4>>>> ELSE <<>>)
  \o <<<<Len(a.digits), 8>>>>
  \o DigitFields(a.digits, IF a.digit_mode = 1 THEN 8 ELSE 4)

WriteSubaddress(a) ==
  <<<<a.type, 3>>, <<a.odd, 1>>, <<Len(a.digits), 8>>>> \o DigitFields(a.digits, 8) \o <<<<0, 4>>>>

WriteReply(number) == <<<<number, 6>>, <<0, 2>>>>

(* The status goes with an error only.                                      *)
WriteCause(c) == <<<<c.number, 6>>, <<c.class, 2>>>>
                 \o (IF c.class # 0 THEN <<<<c.status, 8>>>> ELSE <<>>)

(* The fields of a parameter; the octets of bearer data are ready.          *)
Write(p, v) == CASE p \in {"teleservice", "service"} -> <<<<v, 16>>>>
                 [] p = "address" -> WriteAddress(v)
                 [] p = "subaddress" -> WriteSubaddress(v)
                 [] p = "reply" -> WriteReply(v)
                 [] p = "cause" -> WriteCause(v)

Writable(p, v) == p = "bearer" => Len(v) \in 1..MAX_LEN

-----------------------------------------------------------------------------
(* ---- parameters read from the n octets at octet `at' of d --------------*)
Field(d, at, offset, width) == Unpack(d, 8 * at + offset, width)
ReadDigits(d, bit, size, count) ==
  [k \in 1..count |-> Unpack(d, bit + size * (k - 1), size)]

(* The number of digits is at bit `head', and so many bits are taken.       *)
DigitsFit(d, at, n, head, size) ==
  LET count == Field(d, at, head, 8)
  IN count <= ADDRESS_MAX /\ head + 8 + size * count <= 8 * n

ReadAddress(d, at) ==
  LET eight == Field(d, at, 0, 1) = 1
      planned == eight /\ Field(d, at, 1, 1) = 0
      head == AddressHead(Field(d, at, 0, 1), Field(d, at, 1, 1))
  IN [digit_mode |-> Field(d, at, 0, 1), number_mode |-> Field(d, at, 1, 1),
      type |-> IF eight THEN Field(d, at, 2, 3) ELSE 0,
      plan |-> IF planned THEN Field(d, at, 5, 4) ELSE 0,
      digits |-> ReadDigits(d, 8 * at + head + 8, IF eight THEN 8 ELSE 4, Field(d, at, head, 8))]
AddressAcceptable(d, at, n) ==
  DigitsFit(d, at, n, AddressHead(Field(d, at, 0, 1), Field(d, at, 1, 1)),
            IF Field(d, at, 0, 1) = 1 THEN 8 ELSE 4)

ReadSubaddress(d, at) ==
  [type |-> Field(d, at, 0, 3), odd |-> Field(d, at, 3, 1),
   digits |-> ReadDigits(d, 8 * at + 12, 8, Field(d, at, 4, 8))]
SubaddressAcceptable(d, at, n) == DigitsFit(d, at, n, 4, 8)

ReadCause(d, at, n) == [number |-> Field(d, at, 0, 6), class |-> Field(d, at, 6, 2),
                        status |-> IF n = 2 THEN Field(d, at, 8, 8) ELSE 0]
CauseAcceptable(d, at, n) == (n = 1 /\ Field(d, at, 6, 2) = 0) \/ n = 2

(* Bearer data that ends with the last octet a message can have is not      *)
(* copied, though its length is set: the array was cleared before.          *)
ReadBearer(d, at, n) ==
  IF at + n < MAX_LEN THEN SubSeq(d, at + 1, at + n) ELSE [k \in 1..n |-> 0]

Read(p, d, at, n) == CASE p \in {"teleservice", "service"} -> Field(d, at, 0, 16)
                       [] p = "address" -> ReadAddress(d, at)
                       [] p = "subaddress" -> ReadSubaddress(d, at)
                       [] p = "reply" -> Field(d, at, 0, 6)
                       [] p = "cause" -> ReadCause(d, at, n)
                       [] p = "bearer" -> ReadBearer(d, at, n)

Acceptable(p, d, at, n) ==
  CASE p \in {"teleservice", "service"} -> n = 2
    [] p = "address" -> AddressAcceptable(d, at, n)
    [] p = "subaddress" -> SubaddressAcceptable(d, at, n)
    [] p = "reply" -> n = 1
    [] p = "cause" -> CauseAcceptable(d, at, n)
    [] p = "bearer" -> n # 0

(* What a message of each type must have.                                   *)
Mandatory(type) == CASE type = PointToPoint -> "address"
                     [] type = Broadcast -> "service"
                     [] type = Ack -> "cause"
=============================================================================
