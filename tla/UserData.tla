------------------------------ MODULE UserData ------------------------------
(***************************************************************************)
(* The user data of a TPDU from the sender's structure to the receiver's:  *)
(* the capacity check every TPDU encoder makes                             *)
(* (wms_ts_compute_gw_user_data_length), wms_ts_encode_gw_user_data with   *)
(* the loop of wms_ts_encode_user_data_header, and                         *)
(* wms_ts_decode_gw_user_data with the decoder of UserDataHeader.          *)
(*                                                                         *)
(* Octets are counted, not written: what a text septet or an element holds *)
(* is the subject of Septets and UdhElements.  The caller has set          *)
(* user_data_header_present just when there are headers.                   *)
(***************************************************************************)
EXTENDS UdhElements, Integers, Sequences

CONSTANTS MaxHeaders,   \* WMS_MAX_UD_HEADERS
          UserDatum     \* what callers may send

UDL_MAX_7_BIT == 160    \* WMS_SMS_UDL_MAX_7_BIT
UDL_MAX_8_BIT == 140    \* WMS_SMS_UDL_MAX_8_BIT
MAX_LEN == 255          \* WMS_MAX_LEN

UserDatumType == {u \in [seven : BOOLEAN, headers : Seq(Header), sm_len : 0..MAX_LEN] :
                    /\ Len(u.headers) <= MaxHeaders
                    /\ \A k \in 1..Len(u.headers) : Holdable(u.headers[k])}

ASSUME MaxHeadersAssumption == MaxHeaders \in Nat \ {0}
ASSUME UserDatumAssumption == UserDatum \subseteq UserDatumType

VARIABLES ud,        \* the sender's dcs->alphabet and user_data
          at,        \* where the sender is; "sent", "refused" at its end
          lengths,   \* the values `length' has had in the computation
          i,         \* the loop variable of the header encoder
          pos,       \* its octets, the length octet included
          wire,      \* the elements it has written
          udl, fill, octets,   \* data[0], the fill bits, octets after data[0]
          msg, dat, dpos, headers, result,    \* the header decoder's
          got        \* the receiver's structure

sender == <<ud, lengths, i, pos, wire, udl, fill, octets>>
decoder == <<msg, dat, dpos, headers, result>>
vars == <<sender, at, decoder, got>>

(* What lies behind a header that ends where it says it ends. *)
Text == [id |-> "other", iedl |-> 0, w8 |-> 0, h |-> 0, total |-> 0, seq |-> 0]
Received == [udhl |-> pos - 1,
             elements |-> [k \in 1..MaxHeaders |-> IF k <= Len(wire) THEN wire[k] ELSE Text]]

(* The decoder is started on what the sender has produced (not by its Init).*)
Decoder == INSTANCE UserDataHeader
             WITH MaxLen <- MAX_LEN, Message <- {}, at <- dat, pos <- dpos

NumHeaders == Len(ud.headers)
HeaderLength == lengths[Len(lengths)]
OctetsFor(septets) == (septets * 7 + 7) \div 8
(* Broken variants: the last, partial octet of septets is not counted, or    *)
(* septets are counted as octets.                                           *)
BugCapacity == HeaderLength + IF ud.seven THEN (ud.sm_len * 7) \div 8 ELSE ud.sm_len
BugCapacitySeptets == HeaderLength + ud.sm_len

Capacity == HeaderLength + IF ud.seven THEN OctetsFor(ud.sm_len) ELSE ud.sm_len

NotGot == [sm_len |-> 0, shift |-> 0, from |-> 0, headers |-> <<>>]

Init == /\ ud \in UserDatum
        /\ at = "compute" /\ i = 1 /\ pos = 0 /\ wire = <<>>
        /\ lengths = <<IF NumHeaders > 0 THEN 1 ELSE 0>>
        /\ udl = 0 /\ fill = 0 /\ octets = 0
        /\ msg = [udhl |-> 0, elements |-> [k \in 1..MaxHeaders |-> Text]]
        /\ dat = "idle" /\ dpos = 0 /\ headers = <<>> /\ result = 0
        /\ got = NotGot

(* length += wms_ts_get_udh_length(&headers[i])                             *)
ComputeHeader == /\ at = "compute" /\ Len(lengths) <= NumHeaders
                 /\ lengths' = Append(lengths, HeaderLength + UdhLength(ud.headers[Len(lengths)]))
                 /\ UNCHANGED <<at, ud, i, pos, wire, udl, fill, octets, decoder, got>>

Computed == at = "compute" /\ Len(lengths) = NumHeaders + 1

(* WMS_INVALID_USER_DATA_SIZE_S: no user data is written.                   *)
TooLong == /\ Computed /\ Capacity > UDL_MAX_8_BIT
           /\ at' = "refused"
           /\ UNCHANGED <<sender, decoder, got>>

(* data[0] = sm_len, and the length octet of the header is left for later.  *)
(* The header alone is compared with the capacity again: never too long.    *)
BeginEncode == /\ Computed /\ Capacity <= UDL_MAX_8_BIT
               /\ udl' = ud.sm_len
               /\ IF NumHeaders > 0 THEN at' = "headers" /\ pos' = 1
                                    ELSE at' = "text" /\ UNCHANGED pos
               /\ UNCHANGED <<ud, lengths, i, wire, fill, octets, decoder, got>>

EncodeHeader ==
  LET hd == ud.headers[i]
  IN /\ at = "headers" /\ i <= NumHeaders
     /\ pos' = pos + Written(hd)
     /\ wire' = IF Dropped(hd) THEN wire ELSE Append(wire, OnWire(hd))
     /\ i' = i + 1
     /\ UNCHANGED <<at, ud, lengths, udl, fill, octets, decoder, got>>

(* Broken variants: a whole septet of fill bits, fill bits that data[0]     *)
(* leaves out.                                                              *)
BugFillBits ==
  LET bits == pos * 8
      pad == 7 - (bits % 7)
  IN /\ at = "headers" /\ i > NumHeaders
     /\ at' = "text"
     /\ IF ud.seven
          THEN /\ fill' = pad
               /\ udl' = ((bits + pad + ud.sm_len * 7) \div 7) % 256
          ELSE udl' = (ud.sm_len + pos) % 256 /\ UNCHANGED fill
     /\ UNCHANGED <<ud, lengths, i, pos, wire, octets, decoder, got>>

BugEndHeaders ==
  LET bits == pos * 8
  IN /\ at = "headers" /\ i > NumHeaders
     /\ at' = "text"
     /\ IF ud.seven
          THEN /\ fill' = IF bits % 7 = 0 THEN 0 ELSE 7 - (bits % 7)
               /\ udl' = (bits \div 7 + ud.sm_len) % 256
          ELSE udl' = (ud.sm_len + pos) % 256 /\ UNCHANGED fill
     /\ UNCHANGED <<ud, lengths, i, pos, wire, octets, decoder, got>>

(* data[0] and, for septets, the fill bits up to the next septet boundary.  *)
EndHeaders ==
  LET bits == pos * 8
      pad == IF bits % 7 = 0 THEN 0 ELSE 7 - (bits % 7)
  IN /\ at = "headers" /\ i > NumHeaders
     /\ at' = "text"
     /\ IF ud.seven
          THEN /\ fill' = pad
               /\ udl' = ((bits + pad + ud.sm_len * 7) \div 7) % 256
          ELSE udl' = (ud.sm_len + pos) % 256 /\ UNCHANGED fill
     /\ UNCHANGED <<ud, lengths, i, pos, wire, octets, decoder, got>>

(* wms_ts_pack_gw_7_bit_chars (module Septets) or memcpy.                   *)
EncodeText == /\ at = "text"
              /\ at' = "sent"
              /\ octets' = pos + IF ud.seven THEN (fill + ud.sm_len * 7 + 7) \div 8
                                             ELSE ud.sm_len
              /\ UNCHANGED <<ud, lengths, i, pos, wire, udl, fill, decoder, got>>

Send == \/ ComputeHeader \/ TooLong \/ BeginEncode
        \/ EncodeHeader \/ EndHeaders \/ EncodeText

(* ---- wms_ts_decode_gw_user_data ----------------------------------------*)
LongestUdl == IF ud.seven THEN UDL_MAX_7_BIT ELSE UDL_MAX_8_BIT

(* Too long a text, or none: the zeroed structure is returned.              *)
RefuseText == /\ at = "sent" /\ dat = "idle"
              /\ udl = 0 \/ udl > LongestUdl
              /\ at' = "got"
              /\ UNCHANGED <<sender, decoder, got>>

BeginDecode == /\ at = "sent" /\ dat = "idle"
               /\ udl # 0 /\ udl <= LongestUdl
               /\ IF NumHeaders > 0 THEN dat' = "enter" /\ msg' = Received
                                    ELSE dat' = "done" /\ UNCHANGED msg
               /\ UNCHANGED <<sender, at, dpos, headers, result, got>>

DecodeHeader == /\ at = "sent" /\ Decoder!Next
                /\ UNCHANGED <<sender, at, got>>

(* Broken variant: the fill bits themselves are taken for the shift.        *)
BugDecodeText ==
  LET bits == udl * 7 - (result + 1) * 8
  IN /\ at = "sent" /\ dat = "done"
     /\ at' = "got"
     /\ got' = IF result > udl THEN [NotGot EXCEPT !.headers = headers]
          ELSE IF ud.seven
            THEN [headers |-> headers,
                  sm_len |-> IF result > 0 THEN (bits \div 7) % 256 ELSE udl,
                  shift |-> IF result > 0 THEN bits % 7 ELSE 0,
                  from |-> IF result > 0 THEN result + 1 ELSE 0]
            ELSE [headers |-> headers, shift |-> 0,
                  sm_len |-> IF NumHeaders > 0 THEN (udl - result - 1) % 256 ELSE udl,
                  from |-> IF NumHeaders > 0 THEN result + 1 ELSE 0]
     /\ UNCHANGED <<sender, decoder>>

(* The text is what the length octet covers behind the header.  A header of *)
(* 7-bit text that is not understood is read as text, one of other text     *)
(* loses its first octet.                                                   *)
DecodeText ==
  LET bits == udl * 7 - (result + 1) * 8
  IN /\ at = "sent" /\ dat = "done"
     /\ at' = "got"
     /\ got' = IF result > udl THEN [NotGot EXCEPT !.headers = headers]
          ELSE IF ud.seven
            THEN [headers |-> headers,
                  sm_len |-> IF result > 0 THEN (bits \div 7) % 256 ELSE udl,
                  shift |-> IF result > 0 /\ bits % 7 # 0 THEN 8 - (bits % 7) ELSE 0,
                  from |-> IF result > 0 THEN result + 1 ELSE 0]
            ELSE [headers |-> headers, shift |-> 0,
                  sm_len |-> IF NumHeaders > 0 THEN (udl - result - 1) % 256 ELSE udl,
                  from |-> IF NumHeaders > 0 THEN result + 1 ELSE 0]
     /\ UNCHANGED <<sender, decoder>>

Receive == RefuseText \/ BeginDecode \/ DecodeHeader \/ DecodeText

Next == Send \/ Receive

Spec == Init /\ [][Next]_vars

-----------------------------------------------------------------------------
TypeOK == /\ ud \in UserDatum
          /\ at \in {"compute", "headers", "text", "sent", "refused", "got"}
          /\ lengths \in Seq(Nat) /\ i \in 1..MaxHeaders + 1 /\ pos \in Nat
          /\ wire \in Seq(Wire) /\ Len(wire) <= MaxHeaders
          /\ udl \in 0..255 /\ fill \in 0..6 /\ octets \in Nat
          /\ dat \in {"idle", "enter", "loop", "done"}
          /\ dpos \in 0..255 /\ result \in 0..255
          /\ got.sm_len \in 0..255 /\ got.shift \in 0..7 /\ got.from \in 0..256

(* The length the check uses covers what the header encoder writes, element *)
(* by element, although it is another function (wmsts.c:5305 and 693-1094). *)
LengthCovers == at = "headers" => pos <= lengths[i]

(* What passes the capacity check fits a TPDU in octets and in septets,     *)
(* with the fill bits, which the check leaves out.                          *)
WithinCapacity ==
  at = "sent" => octets <= UDL_MAX_8_BIT /\ udl <= LongestUdl

(* The length octet tells the receiver exactly how many octets there are.   *)
UdlCountsOctets ==
  at = "sent" => octets = IF ud.seven THEN OctetsFor(udl) ELSE udl

(* Nothing that would fit is refused, unless an element is dropped, which   *)
(* the check still counts.                                                  *)
Behind == Offsets(1, [k \in 1..NumHeaders |-> Written(ud.headers[k])], NumHeaders)
HeaderOctets == IF NumHeaders = 0 THEN 0 ELSE Behind[NumHeaders + 1]
NoneDropped == \A k \in 1..NumHeaders : ~Dropped(ud.headers[k])
RefusalIsNeeded ==
  at = "refused" /\ NoneDropped =>
    HeaderOctets + (IF ud.seven THEN OctetsFor(ud.sm_len) ELSE ud.sm_len) > UDL_MAX_8_BIT

(* A header is understood by the receiver if each element that is sent can  *)
(* be read and an extended object has the layout its segment calls for.     *)
Understood ==
  /\ wire # <<>>
  /\ \A k \in 1..NumHeaders :
       /\ Readable(ud.headers[k])
       /\ ud.headers[k].id = "eo" => ud.headers[k].flag = Decoder!FirstSegment(Received)

(* The receiver finds the text where the sender put it, as long as it was,  *)
(* and gets the elements that were not dropped, in their order.             *)
MessageArrives ==
  at = "got" /\ (Understood \/ NumHeaders = 0) =>
    /\ got.sm_len = ud.sm_len /\ got.from = pos
    /\ got.shift = IF fill = 0 THEN 0 ELSE 8 - fill
    /\ [k \in 1..Len(got.headers) |-> got.headers[k].element] = wire
=============================================================================
