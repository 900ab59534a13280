--------------------------- MODULE UserDataProofs ---------------------------
(***************************************************************************)
(* The capacity check before the encoder and the encoder agree: for every  *)
(* number of headers, every mix of elements and every length of text, what *)
(* passes wms_ts_compute_gw_user_data_length fits a TPDU.                  *)
(***************************************************************************)
EXTENDS UserData, TLAPS

(* lengths is the trace of the variable `length': it makes the sum over the *)
(* headers available one term at a time, so that the encoder's pos can be   *)
(* compared with it at each header.                                         *)
Trace == /\ lengths \in Seq(Nat)
         /\ Len(lengths) \in 1..NumHeaders + 1
         /\ lengths[1] = IF NumHeaders > 0 THEN 1 ELSE 0
         /\ \A k \in 1..Len(lengths) - 1 :
              lengths[k + 1] = lengths[k] + UdhLength(ud.headers[k])

(* The check has been passed. *)
Checked == /\ Len(lengths) = NumHeaders + 1
           /\ Capacity <= UDL_MAX_8_BIT

(* The length octet is final: it counts header, fill bits and text.         *)
Sized == /\ pos <= HeaderLength
         /\ ud.seven => 7 * udl = 8 * pos + fill + 7 * ud.sm_len
         /\ ~ud.seven => udl = ud.sm_len + pos

Filled == octets = pos + IF ud.seven THEN (fill + ud.sm_len * 7 + 7) \div 8 ELSE ud.sm_len

IInv == /\ ud \in UserDatumType
        /\ at \in {"compute", "headers", "text", "sent", "refused", "got"}
        /\ Trace
        /\ i \in 1..NumHeaders + 1 /\ pos \in Nat /\ udl \in Nat /\ fill \in 0..6
        /\ octets \in Nat
        /\ at = "compute" => i = 1 /\ pos = 0 /\ fill = 0
        /\ at = "headers" => /\ NumHeaders > 0 /\ Checked
                             /\ pos >= 1 /\ pos <= lengths[i] /\ fill = 0
        /\ at = "text" => Checked /\ Sized
        /\ at = "sent" => Checked /\ Sized /\ Filled

-----------------------------------------------------------------------------
LEMMA PixelsNat == ASSUME NEW hd \in Header PROVE Pixels(hd) \in Nat
<1>1. hd.h \in Nat /\ hd.w \in Nat
  BY DEF Header
<1>2. hd.h * hd.w \in Nat
  BY <1>1
<1> QED BY <1>2 DEF Pixels

(* The two functions that give the size of an element: no encoder writes    *)
(* more octets than wms_ts_get_udh_length announces, if the structure can   *)
(* hold the content; they differ for an element that is dropped.            *)
LEMMA LengthIsEnough ==
  ASSUME NEW hd \in Header, Holdable(hd)
  PROVE  /\ Written(hd) \in Nat /\ UdhLength(hd) \in Nat
         /\ Written(hd) <= UdhLength(hd)
         /\ ~Dropped(hd) => Written(hd) = UdhLength(hd)
         /\ Content(hd) \in 0..253
<1> DEFINE p == Pixels(hd)
<1>1. hd.n \in 0..255 /\ hd.id \in Id /\ hd.flag \in BOOLEAN
  BY DEF Header
<1>2. CASE hd.id = "var_picture"
  <2>1. p \in 0..134
    BY <1>2, PixelsNat DEF Holdable, VAR_PIC_MAX
  <2>2. Content(hd) = p + 3 /\ UdhLength(hd) = (2 + ((p % 256) + 3)) % 256
    BY <1>2 DEF Content, UdhLength
  <2>3. UdhLength(hd) = p + 5
    BY <2>1, <2>2
  <2>4. ~Dropped(hd)
    BY <1>2 DEF Dropped, Concat
  <2> QED BY <2>1, <2>2, <2>3, <2>4 DEF Written
<1>3. CASE hd.id # "var_picture"
  <2>1. Content(hd) \in 0..253
    <3>1. CASE hd.id = "user_def_sound"
      BY <1>1, <3>1 DEF Content, Holdable, SOUND_MAX
    <3>2. CASE hd.id = "eo"
      BY <1>1, <3>2 DEF Content, Holdable, EoLength, EO_HEADER, EO_SEGMENT_MAX
    <3>3. CASE hd.id = "other"
      BY <1>1, <3>3 DEF Content, Holdable, OTHER_MAX
    <3>4. CASE hd.id \notin {"user_def_sound", "eo", "other"}
      <4>1. Content(hd) = FixedLength(hd)
        BY <1>3, <3>4 DEF Content
      <4>2. FixedLength(hd) \in 1..129
        BY <1>1, <1>3, <3>4 DEF FixedLength, Id, Concat
      <4> QED BY <4>1, <4>2
    <3> QED BY <3>1, <3>2, <3>3, <3>4
  <2>2. UdhLength(hd) = (2 + Content(hd)) % 256
    BY <1>3 DEF UdhLength
  <2>3. UdhLength(hd) = 2 + Content(hd)
    BY <2>1, <2>2
  <2> QED BY <2>1, <2>3 DEF Written
<1> QED BY <1>2, <1>3

(* Arithmetic of the fill bits: what the capacity check leaves out is never *)
(* enough to break a limit, because 140 octets are exactly 160 septets.     *)
LEMMA FillFits ==
  ASSUME NEW h \in Nat, NEW p \in Nat, NEW n \in Nat, NEW f \in 0..6, NEW u \in Nat,
         p <= h, h + ((n * 7 + 7) \div 8) <= 140, 7 * u = 8 * p + f + 7 * n
  PROVE  /\ u <= 160
         /\ p + ((f + n * 7 + 7) \div 8) <= 140
         /\ p + ((f + n * 7 + 7) \div 8) = (u * 7 + 7) \div 8
<1>1. 8 * h + 7 * n <= 1120
  OBVIOUS
<1>2. 7 * u <= 1126
  BY <1>1
<1>3. u <= 160
  BY <1>2
<1>4. p + ((f + n * 7 + 7) \div 8) = (u * 7 + 7) \div 8
  OBVIOUS
<1>5. (u * 7 + 7) \div 8 <= 140
  BY <1>3
<1> QED BY <1>3, <1>4, <1>5

(* The padded header is a whole number of septets.                          *)
LEMMA PadIsSeptet ==
  ASSUME NEW p \in Nat, NEW n \in Nat
  PROVE  LET bits == p * 8
             pad == IF bits % 7 = 0 THEN 0 ELSE 7 - (bits % 7)
         IN pad \in 0..6 /\ 7 * ((bits + pad + n * 7) \div 7) = 8 * p + pad + 7 * n
<1> DEFINE bits == p * 8
           pad == IF bits % 7 = 0 THEN 0 ELSE 7 - (bits % 7)
<1>1. bits \in Nat /\ pad \in 0..6
  OBVIOUS
<1>2. (bits + pad) % 7 = 0
  OBVIOUS
<1> DEFINE q == (bits + pad) \div 7
<1>3. q \in Nat /\ bits + pad = 7 * q
  BY <1>1, <1>2
<1> HIDE DEF q
<1>4. (bits + pad + n * 7) \div 7 = q + n
  BY <1>1, <1>3
<1>5. 7 * ((bits + pad + n * 7) \div 7) = bits + pad + 7 * n
  BY <1>1, <1>3, <1>4
<1> QED BY <1>1, <1>5

-----------------------------------------------------------------------------
LEMMA InitIInv == Init => IInv
<1> SUFFICES ASSUME Init PROVE IInv
  OBVIOUS
<1>1. ud \in UserDatumType /\ NumHeaders \in Nat
  BY UserDatumAssumption DEF Init, UserDatumType, NumHeaders
<1> QED BY <1>1 DEF Init, IInv, Trace

LEMMA IInvTypes ==
  IInv => /\ NumHeaders \in Nat /\ Len(lengths) \in Nat /\ HeaderLength \in Nat
          /\ ud.sm_len \in Nat /\ pos \in Nat /\ udl \in Nat /\ fill \in 0..6
          /\ ud.seven \in BOOLEAN /\ ud.headers \in Seq(Header)
          /\ \A k \in 1..NumHeaders : ud.headers[k] \in Header /\ Holdable(ud.headers[k])
<1> SUFFICES ASSUME IInv
             PROVE  /\ NumHeaders \in Nat /\ Len(lengths) \in Nat /\ HeaderLength \in Nat
                    /\ ud.sm_len \in Nat /\ pos \in Nat /\ udl \in Nat /\ fill \in 0..6
                    /\ ud.seven \in BOOLEAN /\ ud.headers \in Seq(Header)
                    /\ \A k \in 1..NumHeaders :
                          ud.headers[k] \in Header /\ Holdable(ud.headers[k])
  OBVIOUS
<1>1. /\ ud.seven \in BOOLEAN /\ ud.headers \in Seq(Header)
      /\ \A k \in 1..Len(ud.headers) : Holdable(ud.headers[k])
  BY DEF IInv, UserDatumType
<1> DEFINE n == ud.sm_len
<1>a. n \in 0..255
  BY DEF IInv, UserDatumType, MAX_LEN
<1> HIDE DEF n
<1>b. n \in Nat
  BY <1>a
<1>2. ud.sm_len \in Nat
  BY <1>b DEF n
<1>3. NumHeaders \in Nat /\ \A k \in 1..NumHeaders : ud.headers[k] \in Header
  BY <1>1 DEF NumHeaders
<1>4. lengths \in Seq(Nat) /\ Len(lengths) \in 1..NumHeaders + 1
  BY DEF IInv, Trace
<1>5. Len(lengths) \in Nat /\ HeaderLength \in Nat
  BY <1>3, <1>4 DEF HeaderLength
<1>6. pos \in Nat /\ udl \in Nat /\ fill \in 0..6
  BY DEF IInv
<1> QED BY <1>1, <1>2, <1>3, <1>5, <1>6 DEF NumHeaders

(* The steps of the decoder leave the sender alone.                         *)
LEMMA ReceiveKeepsIInv == IInv /\ Receive => IInv'
<1> SUFFICES ASSUME IInv, Receive PROVE IInv'
  OBVIOUS
<1>1. UNCHANGED sender
  BY DEF Receive, RefuseText, BeginDecode, DecodeHeader, DecodeText, sender
<1>2. at = "sent" /\ at' \in {"sent", "got"}
  BY DEF Receive, RefuseText, BeginDecode, DecodeHeader, DecodeText, vars
<1> QED BY <1>1, <1>2 DEF IInv, Trace, Checked, Sized, Filled, Capacity, HeaderLength,
                         NumHeaders, sender

LEMMA SendKeepsIInv == IInv /\ Send => IInv'
<1> SUFFICES ASSUME IInv, Send PROVE IInv'
  OBVIOUS
<1>0. /\ NumHeaders \in Nat /\ Len(lengths) \in Nat /\ HeaderLength \in Nat
      /\ ud.sm_len \in Nat /\ pos \in Nat /\ udl \in Nat /\ fill \in 0..6
      /\ ud.seven \in BOOLEAN /\ ud.headers \in Seq(Header)
      /\ \A k \in 1..NumHeaders : ud.headers[k] \in Header /\ Holdable(ud.headers[k])
  BY IInvTypes
<1>1. CASE ComputeHeader
  <2> DEFINE k0 == Len(lengths)
  <2>1. k0 \in 1..NumHeaders /\ UdhLength(ud.headers[k0]) \in Nat
    BY <1>0, <1>1, LengthIsEnough DEF ComputeHeader, IInv, Trace
  <2>2. UNCHANGED <<ud, at, i, pos, udl, fill, octets>> /\ at = "compute"
    BY <1>1 DEF ComputeHeader
  <2>3. lengths' = Append(lengths, lengths[k0] + UdhLength(ud.headers[k0]))
    BY <1>1 DEF ComputeHeader, HeaderLength
  <2>4. Trace'
    BY <1>0, <2>1, <2>2, <2>3 DEF IInv, Trace, NumHeaders
  <2> QED BY <2>2, <2>4 DEF IInv, NumHeaders
<1>2. CASE TooLong
  BY <1>2 DEF TooLong, sender, IInv, Trace, NumHeaders
<1>3. CASE BeginEncode
  <2>1. UNCHANGED <<ud, lengths, i, fill, octets>> /\ i = 1 /\ pos = 0 /\ fill = 0
    BY <1>3 DEF BeginEncode, Computed, IInv
  <2>2. Trace' /\ Checked' /\ NumHeaders' = NumHeaders
    BY <1>3, <2>1 DEF BeginEncode, Computed, Checked, IInv, Trace, NumHeaders, Capacity,
                      HeaderLength
  <2>0. udl' = ud.sm_len /\ udl' \in Nat
    BY <1>0, <1>3 DEF BeginEncode
  <2>3. CASE NumHeaders > 0
    <3>1. at' = "headers" /\ pos' = 1
      BY <1>3, <2>3 DEF BeginEncode
    <3>2. lengths'[i'] = 1
      BY <2>1, <2>3 DEF IInv, Trace
    <3> QED BY <1>0, <2>0, <2>1, <2>2, <2>3, <3>1, <3>2 DEF IInv
  <2>4. CASE NumHeaders = 0
    <3>1. at' = "text" /\ UNCHANGED pos
      BY <1>3, <2>4 DEF BeginEncode
    <3>2. HeaderLength' \in Nat
      BY <1>0, <2>1 DEF HeaderLength
    <3>3. Sized'
      BY <1>0, <2>0, <2>1, <3>1, <3>2 DEF Sized
    <3> QED BY <1>0, <2>0, <2>1, <2>2, <2>4, <3>1, <3>3 DEF IInv
  <2> QED BY <1>0, <2>3, <2>4
<1>4. CASE EncodeHeader
  <2>1. i \in 1..NumHeaders /\ UNCHANGED <<at, ud, lengths, udl, fill, octets>>
    BY <1>4 DEF EncodeHeader, IInv
  <2>2. Written(ud.headers[i]) \in Nat
        /\ Written(ud.headers[i]) <= UdhLength(ud.headers[i])
        /\ UdhLength(ud.headers[i]) \in Nat
    BY <1>0, <2>1, LengthIsEnough
  <2>3. lengths[i + 1] = lengths[i] + UdhLength(ud.headers[i])
        /\ lengths[i] \in Nat
    BY <1>0, <1>4, <2>1, SMTT(30) DEF EncodeHeader, IInv, Checked, Trace
  <2>4. pos' = pos + Written(ud.headers[i]) /\ i' = i + 1 /\ at = "headers"
    BY <1>4 DEF EncodeHeader
  <2>5. pos' <= lengths[i'] /\ pos' \in Nat /\ pos' >= 1
    BY <2>2, <2>3, <2>4 DEF IInv
  <2>6. Trace' /\ Checked' /\ NumHeaders' = NumHeaders
    BY <2>1, <2>4 DEF IInv, Trace, Checked, NumHeaders, Capacity, HeaderLength
  <2> QED BY <1>0, <2>1, <2>4, <2>5, <2>6 DEF IInv
<1>5. CASE EndHeaders
  <2>1. UNCHANGED <<ud, lengths, i, pos, octets>> /\ at = "headers" /\ at' = "text"
    BY <1>5 DEF EndHeaders
  <2>2. Trace' /\ Checked' /\ NumHeaders' = NumHeaders /\ HeaderLength' = HeaderLength
    BY <2>1 DEF IInv, Trace, Checked, NumHeaders, Capacity, HeaderLength
  <2>3. i = NumHeaders + 1 /\ pos <= HeaderLength
    <3>1. i \in 1..NumHeaders + 1 /\ i > NumHeaders
      BY <1>5 DEF EndHeaders, IInv
    <3>2. i = NumHeaders + 1
      BY <1>0, <3>1
    <3>3. Len(lengths) = NumHeaders + 1 /\ pos <= lengths[i]
      BY <2>1 DEF IInv, Checked
    <3> QED BY <3>2, <3>3 DEF HeaderLength
  <2>4. CASE ud.seven
    <3> DEFINE pad == IF (pos * 8) % 7 = 0 THEN 0 ELSE 7 - ((pos * 8) % 7)
               u == (pos * 8 + pad + ud.sm_len * 7) \div 7
    <3>1. fill' = pad /\ udl' = u % 256
      BY <1>5, <2>4 DEF EndHeaders
    <3>2. pad \in 0..6 /\ 7 * u = 8 * pos + pad + 7 * ud.sm_len
      BY <1>0, PadIsSeptet
    <3>3. u \in Nat
      BY <1>0, <3>2
    <3>4. HeaderLength + ((ud.sm_len * 7 + 7) \div 8) <= 140
      BY <2>1, <2>4 DEF IInv, Checked, Capacity, OctetsFor, UDL_MAX_8_BIT
    <3> HIDE DEF u, pad
    <3>5. u <= 160
      BY <1>0, <2>3, <3>2, <3>3, <3>4, FillFits
    <3>6. udl' = u
      BY <3>1, <3>3, <3>5
    <3>7. Sized'
      BY <2>1, <2>2, <2>3, <2>4, <3>1, <3>2, <3>6 DEF Sized
    <3> QED BY <2>1, <2>2, <3>1, <3>2, <3>3, <3>6, <3>7 DEF IInv
  <2>5. CASE ~ud.seven
    <3>1. udl' = (ud.sm_len + pos) % 256 /\ UNCHANGED fill
      BY <1>5, <2>5 DEF EndHeaders
    <3>2. HeaderLength + ud.sm_len <= 140
      BY <2>1, <2>5 DEF IInv, Checked, Capacity, UDL_MAX_8_BIT
    <3>3. udl' = ud.sm_len + pos
      <4> DEFINE n == ud.sm_len
      <4>1. n \in Nat /\ pos \in Nat /\ HeaderLength \in Nat /\ pos <= HeaderLength
            /\ HeaderLength + n <= 140 /\ udl' = (n + pos) % 256
        BY <1>0, <2>3, <3>1, <3>2
      <4> HIDE DEF n
      <4>2. (n + pos) % 256 = n + pos
        BY <4>1
      <4> QED BY <4>1, <4>2 DEF n
    <3>4. Sized'
      BY <2>1, <2>2, <2>3, <2>5, <3>1, <3>3 DEF Sized
    <3> QED BY <1>0, <2>1, <2>2, <3>1, <3>3, <3>4 DEF IInv
  <2> QED BY <2>4, <2>5
<1>6. CASE EncodeText
  <2>1. UNCHANGED <<ud, lengths, i, pos, udl, fill>> /\ at = "text" /\ at' = "sent"
    BY <1>6 DEF EncodeText
  <2>2. Trace' /\ Checked' /\ Sized' /\ NumHeaders' = NumHeaders
    BY <2>1 DEF IInv, Trace, Checked, Sized, NumHeaders, Capacity, HeaderLength
  <2>3. Filled'
    BY <1>6, <2>1 DEF EncodeText, Filled
  <2>4. octets' \in Nat
    <3>1. fill + ud.sm_len * 7 + 7 \in Nat /\ ud.sm_len \in Nat /\ pos \in Nat
      BY <1>0
    <3> DEFINE bits == fill + ud.sm_len * 7 + 7
    <3>2. octets' = pos + IF ud.seven THEN bits \div 8 ELSE ud.sm_len
      BY <2>1, <2>3 DEF Filled
    <3> HIDE DEF bits
    <3>3. bits \div 8 \in Nat
      BY <3>1 DEF bits
    <3> QED BY <3>1, <3>2, <3>3
  <2> QED BY <2>1, <2>2, <2>3, <2>4 DEF IInv
<1> QED BY <1>1, <1>2, <1>3, <1>4, <1>5, <1>6 DEF Send

LEMMA NextKeepsIInv == IInv /\ [Next]_vars => IInv'
<1>1. IInv /\ UNCHANGED vars => IInv'
  BY DEF IInv, vars, sender, Trace, Checked, Sized, Filled, Capacity, HeaderLength, NumHeaders
<1> QED BY <1>1, SendKeepsIInv, ReceiveKeepsIInv DEF Next

LEMMA IInvIsInvariant == Spec => []IInv
BY InitIInv, NextKeepsIInv, PTL DEF Spec

-----------------------------------------------------------------------------
(* At every header the encoder's position is covered by the length that was *)
(* checked.                                                                 *)
THEOREM LengthAlwaysCovers == Spec => []LengthCovers
<1>1. IInv => LengthCovers
  BY DEF IInv, LengthCovers
<1> QED BY <1>1, IInvIsInvariant, PTL

LEMMA CheckedFits == IInv => WithinCapacity
<1> SUFFICES ASSUME IInv, at = "sent"
             PROVE  octets <= UDL_MAX_8_BIT /\ udl <= LongestUdl
  BY DEF WithinCapacity
<1>0. /\ ud.sm_len \in Nat /\ HeaderLength \in Nat /\ ud.seven \in BOOLEAN
      /\ pos \in Nat /\ udl \in Nat /\ fill \in 0..6
      /\ Checked /\ Sized /\ Filled
  BY IInvTypes DEF IInv
<1>1. CASE ud.seven
  <2>1. octets = pos + ((fill + ud.sm_len * 7 + 7) \div 8)
    BY <1>0, <1>1 DEF Filled
  <2>2. HeaderLength + ((ud.sm_len * 7 + 7) \div 8) <= 140
    BY <1>0, <1>1 DEF Checked, Capacity, OctetsFor, UDL_MAX_8_BIT
  <2>3. pos <= HeaderLength /\ 7 * udl = 8 * pos + fill + 7 * ud.sm_len
    BY <1>0, <1>1 DEF Sized
  <2>4. udl <= 160 /\ octets <= 140
    BY <1>0, <2>1, <2>2, <2>3, FillFits
  <2> QED BY <1>1, <2>4 DEF LongestUdl, UDL_MAX_8_BIT, UDL_MAX_7_BIT
<1>2. CASE ~ud.seven
  BY <1>0, <1>2 DEF IInv, Checked, Sized, Filled, Capacity, LongestUdl, UDL_MAX_8_BIT
<1> QED BY <1>1, <1>2

(* Whatever passes the capacity check fits 140 octets, 160 septets.         *)
THEOREM CheckedDataFits == Spec => []WithinCapacity
BY CheckedFits, IInvIsInvariant, PTL

(* The length octet determines the number of octets that follow.            *)
THEOREM LengthOctetIsExact == Spec => []UdlCountsOctets
<1>1. IInv => UdlCountsOctets
  <2> SUFFICES ASSUME IInv, at = "sent"
               PROVE  octets = IF ud.seven THEN OctetsFor(udl) ELSE udl
    BY DEF UdlCountsOctets
  <2>0. /\ ud.sm_len \in Nat /\ HeaderLength \in Nat /\ ud.seven \in BOOLEAN
        /\ pos \in Nat /\ udl \in Nat /\ fill \in 0..6
        /\ Checked /\ Sized /\ Filled
    BY IInvTypes DEF IInv
  <2>1. CASE ud.seven
    <3>1. octets = pos + ((fill + ud.sm_len * 7 + 7) \div 8)
      BY <2>0, <2>1 DEF Filled
    <3>2. HeaderLength + ((ud.sm_len * 7 + 7) \div 8) <= 140
      BY <2>0, <2>1 DEF Checked, Capacity, OctetsFor, UDL_MAX_8_BIT
    <3>3. pos <= HeaderLength /\ 7 * udl = 8 * pos + fill + 7 * ud.sm_len
      BY <2>0, <2>1 DEF Sized
    <3>4. pos + ((fill + ud.sm_len * 7 + 7) \div 8) = (udl * 7 + 7) \div 8
      BY <2>0, <3>2, <3>3, FillFits
    <3>5. octets = (udl * 7 + 7) \div 8
      BY <3>1, <3>4, Zenon
    <3> QED BY <2>1, <3>5 DEF OctetsFor
  <2>2. CASE ~ud.seven
    BY <2>0, <2>2 DEF IInv, Sized, Filled
  <2> QED BY <2>1, <2>2
<1> QED BY <1>1, IInvIsInvariant, PTL

-----------------------------------------------------------------------------
(* ---- what is refused ---------------------------------------------------*)
(* The theorems about the decoder, with the assumptions they need here.     *)
HP == INSTANCE UserDataHeaderProofs
        WITH MaxLen <- MAX_LEN, Message <- {}, at <- dat, pos <- dpos

LEMMA HeaderAssumptions ==
  HP!MaxHeadersAssumption /\ HP!MaxLenAssumption /\ HP!MessageAssumption
BY MaxHeadersAssumption
   DEF MAX_LEN, HP!MaxHeadersAssumption, HP!MaxLenAssumption, HP!MessageAssumption

LEMMA Induction ==
  ASSUME NEW S, 0 \in S, \A n \in Nat : n \in S => n + 1 \in S
  PROVE  \A n \in Nat : n \in S
BY HeaderAssumptions, HP!NatSetInduction, Zenon

LEMMA OffsetsDef ==
  ASSUME NEW N \in Nat, NEW a \in Nat, NEW d \in [1..N -> Nat]
  PROVE  /\ Offsets(a, d, N) \in [1..N + 1 -> Nat]
         /\ Offsets(a, d, N)[1] = a
         /\ \A k \in 1..N : Offsets(a, d, N)[k + 1] = Offsets(a, d, N)[k] + d[k]
<1>1. HP!Offsets(a, d, N) = Offsets(a, d, N)
  BY DEF HP!Offsets, Offsets
<1>2. /\ HP!Offsets(a, d, N) \in [1..N + 1 -> Nat]
      /\ HP!Offsets(a, d, N)[1] = a
      /\ \A k \in 1..N : HP!Offsets(a, d, N)[k + 1] = HP!Offsets(a, d, N)[k] + d[k]
  BY HeaderAssumptions, HP!OffsetsDef, ZenonT(40)
<1> QED BY <1>1, <1>2, Zenon

(* When no element is dropped the length that was checked is the length of  *)
(* the header.                                                              *)
LEMMA CheckedIsLength ==
  ASSUME IInv, NoneDropped, Len(lengths) = NumHeaders + 1
  PROVE  HeaderOctets = HeaderLength
<1>1. /\ NumHeaders \in Nat /\ lengths \in Seq(Nat)
      /\ lengths[1] = IF NumHeaders > 0 THEN 1 ELSE 0
      /\ \A k \in 1..NumHeaders : lengths[k + 1] = lengths[k] + UdhLength(ud.headers[k])
      /\ \A k \in 1..NumHeaders : ud.headers[k] \in Header /\ Holdable(ud.headers[k])
  BY IInvTypes DEF IInv, Trace
<1>2. CASE NumHeaders = 0
  BY <1>1, <1>2 DEF HeaderOctets, HeaderLength
<1>3. CASE NumHeaders > 0
  <2> DEFINE d == [k \in 1..NumHeaders |-> Written(ud.headers[k])]
             S == {n \in Nat : n <= NumHeaders => Behind[n + 1] = lengths[n + 1]}
  <2>1. \A k \in 1..NumHeaders : d[k] \in Nat /\ d[k] = UdhLength(ud.headers[k])
    BY <1>1, LengthIsEnough DEF NoneDropped
  <2>2. d \in [1..NumHeaders -> Nat] /\ 1 \in Nat
    BY <2>1
  <2>3. Behind = Offsets(1, d, NumHeaders)
    BY DEF Behind
  <2> HIDE DEF d
  <2>4. Behind[1] = 1 /\ \A k \in 1..NumHeaders : Behind[k + 1] = Behind[k] + d[k]
    BY <1>1, <2>2, <2>3, OffsetsDef, Zenon
  <2>5. 0 \in S
    BY <1>1, <1>3, <2>4
  <2>6. ASSUME NEW n \in Nat, n \in S PROVE n + 1 \in S
    <3> SUFFICES ASSUME n + 1 <= NumHeaders PROVE Behind[n + 2] = lengths[n + 2]
      OBVIOUS
    <3>1. n + 1 \in 1..NumHeaders /\ (n + 1) + 1 = n + 2 /\ n <= NumHeaders
      BY <1>1
    <3>2. Behind[n + 2] = Behind[n + 1] + d[n + 1]
      BY <2>4, <3>1
    <3>3. lengths[n + 2] = lengths[n + 1] + d[n + 1]
      BY <1>1, <2>1, <3>1
    <3> QED BY <2>6, <3>1, <3>2, <3>3
  <2>7. NumHeaders \in S
    <3> HIDE DEF S
    <3> QED BY <1>1, <2>5, <2>6, Induction
  <2> QED BY <1>1, <1>3, <2>7 DEF HeaderOctets, HeaderLength
<1> QED BY <1>1, <1>2, <1>3

Refused == at = "refused" => Len(lengths) = NumHeaders + 1 /\ Capacity > UDL_MAX_8_BIT

LEMMA NextKeepsRefused == IInv /\ Refused /\ [Next]_vars => Refused'
<1> SUFFICES ASSUME IInv, Refused, [Next]_vars PROVE Refused'
  OBVIOUS
<1>1. CASE TooLong
  BY <1>1 DEF TooLong, Refused, Computed, sender, Capacity, HeaderLength, NumHeaders
<1>2. CASE UNCHANGED vars
  BY <1>2 DEF vars, sender, Refused, Capacity, HeaderLength, NumHeaders
<1>3. CASE Receive
  BY <1>3 DEF Receive, RefuseText, BeginDecode, DecodeHeader, DecodeText, Refused, vars
<1>4. CASE Send /\ ~TooLong
  BY <1>4 DEF Send, ComputeHeader, BeginEncode, EncodeHeader, EndHeaders, EncodeText, Refused
<1> QED BY <1>1, <1>2, <1>3, <1>4 DEF Next

(* User data is refused only if it would not have fitted, elements that are *)
(* dropped aside.                                                           *)
THEOREM RefusalsAreNeeded == Spec => []RefusalIsNeeded
<1>1. Init => Refused
  BY DEF Init, Refused
<1>2. IInv /\ Refused => RefusalIsNeeded
  BY CheckedIsLength DEF Refused, RefusalIsNeeded, Capacity
<1> QED BY <1>1, <1>2, InitIInv, NextKeepsIInv, NextKeepsRefused, PTL DEF Spec

-----------------------------------------------------------------------------
(* ---- what arrives ------------------------------------------------------*)
(* Sums of the same sizes are the same, whatever follows.                   *)
LEMMA OffsetsAgree ==
  ASSUME NEW N \in Nat, NEW a \in Nat, NEW d \in [1..N -> Nat], NEW e \in [1..N -> Nat],
         NEW m \in 0..N, \A k \in 1..m : d[k] = e[k]
  PROVE  Offsets(a, d, N)[m + 1] = Offsets(a, e, N)[m + 1]
<1> DEFINE f == Offsets(a, d, N)
           g == Offsets(a, e, N)
           S == {n \in Nat : n <= m => f[n + 1] = g[n + 1]}
<1>1. f[1] = a /\ g[1] = a
  BY OffsetsDef
<1>2. \A k \in 1..N : f[k + 1] = f[k] + d[k] /\ g[k + 1] = g[k] + e[k]
  BY OffsetsDef
<1> HIDE DEF f, g
<1>3. 0 \in S
  BY <1>1
<1>4. ASSUME NEW n \in Nat, n \in S PROVE n + 1 \in S
  <2> SUFFICES ASSUME n + 1 <= m PROVE f[n + 2] = g[n + 2]
    OBVIOUS
  <2>1. n + 1 \in 1..N /\ n + 1 \in 1..m /\ (n + 1) + 1 = n + 2 /\ n <= m
    OBVIOUS
  <2>2. f[n + 1] = g[n + 1] /\ d[n + 1] = e[n + 1]
    BY <1>4, <2>1
  <2> QED BY <1>2, <2>1, <2>2
<1>5. m \in Nat /\ m <= m
  OBVIOUS
<1>6. m \in S
  <2> HIDE DEF S
  <2> QED BY <1>3, <1>4, <1>5, Induction
<1> QED BY <1>5, <1>6 DEF f, g

(* The receiver finds the end of the elements written where the sender is.  *)
Sizes(w) == [k \in 1..MaxHeaders |-> 2 + (IF k <= Len(w) THEN w[k] ELSE Text).iedl]
EndOf(w) == Offsets(1, Sizes(w), MaxHeaders)[Len(w) + 1]

LEMMA WireLength == ASSUME NEW e \in Wire PROVE e.iedl \in Nat
<1>1. e.iedl \in 0..255
  BY DEF Wire
<1>2. \A x \in 0..255 : x \in Nat
  OBVIOUS
<1> QED BY <1>1, <1>2, Zenon

LEMMA SizesType ==
  ASSUME NEW w \in Seq(Wire)
  PROVE  Sizes(w) \in [1..MaxHeaders -> Nat] /\ MaxHeaders \in Nat /\ 1 \in Nat
<1>1. ASSUME NEW k \in 1..MaxHeaders
      PROVE  2 + (IF k <= Len(w) THEN w[k] ELSE Text).iedl \in Nat
  <2>1. CASE k <= Len(w)
    <3>1. w[k] \in Wire
      BY <2>1, MaxHeadersAssumption
    <3> QED BY <2>1, <3>1, WireLength
  <2>2. CASE ~(k <= Len(w))
    BY <2>2 DEF Text
  <2> QED BY <2>1, <2>2
<1> QED BY <1>1, MaxHeadersAssumption DEF Sizes

LEMMA EndMoves ==
  ASSUME NEW w \in Seq(Wire), NEW e \in Wire, Len(w) < MaxHeaders
  PROVE  EndOf(Append(w, e)) = EndOf(w) + 2 + e.iedl
<1> DEFINE n == Len(w)
           v == Append(w, e)
<1>1. n \in 0..MaxHeaders - 1 /\ n + 1 \in 1..MaxHeaders /\ MaxHeaders \in Nat
  BY MaxHeadersAssumption
<1>2. v \in Seq(Wire) /\ Len(v) = n + 1 /\ v[n + 1] = e /\ \A k \in 1..n : v[k] = w[k]
  OBVIOUS
<1>3. /\ Sizes(v) \in [1..MaxHeaders -> Nat] /\ Sizes(w) \in [1..MaxHeaders -> Nat]
      /\ 1 \in Nat
  BY <1>2, SizesType
<1>4. Sizes(v)[n + 1] = 2 + e.iedl
  BY <1>1, <1>2 DEF Sizes
<1>5. ASSUME NEW k \in 1..n PROVE Sizes(v)[k] = Sizes(w)[k]
  <2>1. k \in 1..MaxHeaders /\ k <= Len(v) /\ k <= Len(w) /\ v[k] = w[k]
    BY <1>1, <1>2
  <2> QED BY <2>1 DEF Sizes
<1> HIDE DEF n, v
<1>6. Offsets(1, Sizes(v), MaxHeaders)[n + 1] = Offsets(1, Sizes(w), MaxHeaders)[n + 1]
  <2>1. n \in 0..MaxHeaders
    BY <1>1
  <2> QED BY ONLY <1>1, <1>3, <1>5, <2>1, OffsetsAgree
<1>7. /\ Offsets(1, Sizes(v), MaxHeaders) \in [1..MaxHeaders + 1 -> Nat]
      /\ Offsets(1, Sizes(v), MaxHeaders)[(n + 1) + 1]
           = Offsets(1, Sizes(v), MaxHeaders)[n + 1] + Sizes(v)[n + 1]
  BY ONLY <1>1, <1>3, OffsetsDef
<1>8. EndOf(v) = EndOf(w) + (2 + e.iedl)
  <2>1. Len(v) + 1 = (n + 1) + 1 /\ Len(w) = n
    BY <1>2 DEF n
  <2> QED BY <1>4, <1>6, <1>7, <2>1 DEF EndOf
<1>9. EndOf(w) \in Nat
  <2>1. Offsets(1, Sizes(v), MaxHeaders)[n + 1] \in Nat
    BY <1>1, <1>7
  <2> QED BY <1>6, <2>1 DEF EndOf, n
<1>10. EndOf(w) + (2 + e.iedl) = EndOf(w) + 2 + e.iedl
  BY <1>9, WireLength
<1> QED BY <1>8, <1>10 DEF v

(* An element is written as it can be read: its length octet does not wrap, *)
(* and its decoder takes it if the receiver knows the layout.               *)
LEMMA SentOnWire ==
  ASSUME NEW hd \in Header, Holdable(hd)
  PROVE  /\ OnWire(hd) \in Wire /\ OnWire(hd).iedl = Content(hd)
         /\ ~Dropped(hd) => Written(hd) = 2 + OnWire(hd).iedl
<1>1. Iedl(hd) = Content(hd) /\ Iedl(hd) \in 0..255
  <2>1. Content(hd) \in 0..253
    BY LengthIsEnough
  <2> DEFINE c == Content(hd)
  <2> HIDE DEF c
  <2>2. c \in 0..253 => c % 256 = c /\ c \in 0..255
    OBVIOUS
  <2> QED BY <2>1, <2>2 DEF c, Iedl
<1>2. hd.w \div 8 \in 0..255
  <2> DEFINE w == hd.w
  <2>1. w \in 0..255
    BY DEF Header
  <2> HIDE DEF w
  <2>2. w \div 8 \in 0..255
    BY <2>1
  <2> QED BY <2>2 DEF w
<1>3. OnWire(hd) \in Wire
  BY <1>1, <1>2, Zenon DEF OnWire, Wire, Header
<1> QED BY <1>1, <1>3 DEF OnWire, Written

LEMMA PictureIsRead ==
  ASSUME NEW hd \in Header, hd.w % 8 = 0
  PROVE  (hd.w \div 8) * hd.h = Pixels(hd)
<1> DEFINE q == hd.w \div 8
           h == hd.h
           w == hd.w
<1>1. w \in 0..255 /\ h \in 0..255
  BY DEF Header
<1> HIDE DEF w, h
<1>2. w = 8 * (w \div 8) /\ w \div 8 \in Nat /\ h \in Nat
  BY <1>1 DEF w
<1>3. q = w \div 8
  BY DEF w
<1> HIDE DEF q
<1>4. q * h \in Nat /\ h * w = 8 * (q * h)
  BY <1>2, <1>3
<1>5. (8 * (q * h)) \div 8 = q * h
  BY <1>4
<1>6. (h * w) \div 8 = q * h
  BY <1>4, <1>5
<1> QED BY <1>6 DEF Pixels, q, h, w

LEMMA SentIsRead ==
  ASSUME NEW hd \in Header, Readable(hd), ~Dropped(hd), NEW f \in BOOLEAN,
         hd.id = "eo" => hd.flag = f
  PROVE  DecodedLength(OnWire(hd), f) # 0
<1>1. Holdable(hd)
  BY DEF Readable
<1>2. /\ OnWire(hd).iedl = Content(hd) /\ Content(hd) \in 0..253 /\ OnWire(hd).id = hd.id
      /\ hd.id \in Id /\ hd.n \in 0..255 /\ hd.flag \in BOOLEAN
  BY <1>1, SentOnWire, LengthIsEnough DEF OnWire, Header
<1>3. Taken(OnWire(hd), f)
  <2>1. CASE hd.id = "var_picture"
    <3>1. Pixels(hd) <= VAR_PIC_MAX /\ hd.w % 8 = 0 /\ Pixels(hd) \in Nat
      BY <1>1, <2>1, PixelsNat DEF Readable, Holdable
    <3>2. OnWire(hd).w8 * OnWire(hd).h = Pixels(hd)
      BY <3>1, PictureIsRead DEF OnWire
    <3>3. Content(hd) = Pixels(hd) + 3
      BY <2>1 DEF Content
    <3> QED BY <1>2, <2>1, <3>1, <3>2, <3>3 DEF Taken, VAR_PIC_MAX
  <2>2. CASE hd.id = "user_def_sound"
    BY <1>1, <1>2, <2>2 DEF Taken, Content, Holdable, SOUND_MAX
  <2>3. CASE hd.id = "eo"
    BY <1>1, <1>2, <2>3 DEF Taken, Content, EoLength, EO_HEADER, Readable
  <2>4. CASE hd.id = "other"
    BY <1>1, <1>2, <2>4 DEF Taken, Content, Holdable, OTHER_MAX
  <2>5. CASE hd.id \in Concat
    <3>1. Plausible(hd.total, hd.seq)
      BY <2>5, Zenon DEF Dropped
    <3>2. OnWire(hd).total = hd.total /\ OnWire(hd).seq = hd.seq
      BY DEF OnWire
    <3>3. CASE hd.id = "concat8"
      <4>1. Content(hd) = 3
        BY <3>3 DEF Content, FixedLength
      <4> QED BY <1>2, <3>1, <3>2, <3>3, <4>1 DEF Taken
    <3>4. CASE hd.id = "concat16"
      <4>1. Content(hd) = 4
        BY <3>4 DEF Content, FixedLength
      <4> QED BY <1>2, <3>1, <3>2, <3>4, <4>1 DEF Taken
    <3> QED BY <2>5, <3>3, <3>4 DEF Concat
  <2>6. CASE hd.id \notin Concat \union {"var_picture", "user_def_sound", "eo", "other"}
    <3>1. Content(hd) = FixedLength(hd)
      BY <2>6 DEF Content
    <3>2. CASE hd.id \in {"special_sm", "port8", "pre_def_sound", "pre_def_anim"}
      <4>1. Content(hd) = 2
        BY <3>1, <3>2 DEF FixedLength
      <4>2. CASE hd.id = "special_sm"
        BY <1>2, <4>1, <4>2 DEF Taken
      <4>3. CASE hd.id = "port8"
        BY <1>2, <4>1, <4>3 DEF Taken
      <4>4. CASE hd.id = "pre_def_sound"
        BY <1>2, <4>1, <4>4 DEF Taken
      <4>5. CASE hd.id = "pre_def_anim"
        BY <1>2, <4>1, <4>5 DEF Taken
      <4> QED BY <3>2, <4>2, <4>3, <4>4, <4>5
    <3>3. CASE hd.id = "port16"
      <4>1. Content(hd) = 4
        BY <3>1, <3>3 DEF FixedLength
      <4> QED BY <1>2, <3>3, <4>1 DEF Taken
    <3>5. CASE hd.id = "text_format"
      <4>1. Content(hd) >= 3
        BY <3>1, <3>5 DEF FixedLength
      <4> QED BY <1>2, <3>5, <4>1 DEF Taken
    <3>6. CASE hd.id \in {"user_prompt", "rfc822"}
      <4>1. Content(hd) = 1
        BY <3>1, <3>6 DEF FixedLength
      <4>2. CASE hd.id = "user_prompt"
        BY <1>2, <4>1, <4>2 DEF Taken
      <4>3. CASE hd.id = "rfc822"
        BY <1>2, <4>1, <4>3 DEF Taken
      <4> QED BY <3>6, <4>2, <4>3
    <3>4. CASE hd.id \in {"large_anim", "large_picture", "small_anim", "small_picture"}
      BY <1>2, <3>1, <3>4 DEF Taken, FixedLength
    <3> QED BY <1>2, <2>6, <3>2, <3>3, <3>4, <3>5, <3>6 DEF Id, Concat
  <2> QED BY <2>1, <2>2, <2>3, <2>4, <2>5, <2>6
<1>4. (Content(hd) + 1) % 256 # 0 /\ 2 + Content(hd) # 0
  <2> DEFINE c == Content(hd)
  <2>1. c \in 0..253
    BY <1>2
  <2> HIDE DEF c
  <2>2. (c + 1) % 256 # 0 /\ 2 + c # 0
    BY <2>1
  <2> QED BY <2>2 DEF c
<1> QED BY <1>2, <1>3, <1>4 DEF DecodedLength

(* What has been written are elements of the sender's that were not dropped,*)
(* and they end where the encoder stands.                                   *)
WireInv ==
  /\ wire \in Seq(Wire) /\ Len(wire) < i
  /\ \A k \in 1..Len(wire) : \E j \in 1..NumHeaders :
       ~Dropped(ud.headers[j]) /\ wire[k] = OnWire(ud.headers[j])
  /\ NumHeaders = 0 \/ at \in {"compute", "refused"} => wire = <<>> /\ pos = 0 /\ fill = 0
  /\ NumHeaders > 0 /\ at \in {"headers", "text", "sent", "got"} => pos = EndOf(wire)
  /\ ~ud.seven => fill = 0

LEMMA NextKeepsWire == IInv /\ WireInv /\ [Next]_vars => WireInv'
<1> SUFFICES ASSUME IInv, WireInv, [Next]_vars PROVE WireInv'
  OBVIOUS
<1>0. /\ NumHeaders \in Nat /\ i \in 1..NumHeaders + 1 /\ pos \in Nat
      /\ \A k \in 1..NumHeaders : ud.headers[k] \in Header /\ Holdable(ud.headers[k])
      /\ NumHeaders <= MaxHeaders /\ MaxHeaders \in Nat
  BY IInvTypes, MaxHeadersAssumption DEF IInv, UserDatumType, NumHeaders
<1>1. CASE ComputeHeader \/ TooLong \/ RefuseText \/ BeginDecode \/ DecodeHeader \/ DecodeText
           \/ UNCHANGED vars
  <2>1. UNCHANGED <<ud, i, pos, wire, fill>>
    BY <1>1 DEF ComputeHeader, TooLong, RefuseText, BeginDecode, DecodeHeader, DecodeText,
                vars, sender
  <2>2. \/ at' = at
        \/ at = "sent" /\ at' = "got"
        \/ at = "compute" /\ at' = "refused"
    BY <1>1 DEF ComputeHeader, TooLong, Computed, RefuseText, BeginDecode, DecodeHeader,
                DecodeText, vars
  <2> QED BY <2>1, <2>2 DEF WireInv, NumHeaders, EndOf, Sizes
<1>2. CASE BeginEncode
  <2>1. /\ UNCHANGED <<ud, i, wire, fill>> /\ wire = <<>> /\ pos = 0 /\ fill = 0
        /\ IF NumHeaders > 0 THEN pos' = 1 ELSE pos' = pos
    BY <1>2 DEF BeginEncode, Computed, WireInv
  <2>2. EndOf(<<>>) = 1
    <3>1. <<>> \in Seq(Wire) /\ Len(<<>>) + 1 = 1
      OBVIOUS
    <3>2. Sizes(<<>>) \in [1..MaxHeaders -> Nat] /\ 1 \in Nat
      BY <3>1, SizesType
    <3>3. Offsets(1, Sizes(<<>>), MaxHeaders)[1] = 1
      BY ONLY <1>0, <3>2, OffsetsDef
    <3> QED BY <3>1, <3>3 DEF EndOf
  <2>3. NumHeaders' = NumHeaders
    BY <2>1 DEF NumHeaders
  <2>4. CASE NumHeaders > 0
    <3>1. at' = "headers" /\ pos' = EndOf(wire')
      BY <1>2, <2>1, <2>2, <2>4 DEF BeginEncode
    <3> QED BY <1>0, <2>1, <2>3, <2>4, <3>1 DEF WireInv, EndOf, Sizes
  <2>5. CASE NumHeaders = 0
    BY <1>0, <2>1, <2>3, <2>5 DEF WireInv
  <2> QED BY <1>0, <2>4, <2>5
<1>3. CASE EncodeHeader
  <2> DEFINE hd == ud.headers[i]
  <2>1. /\ at = "headers" /\ i \in 1..NumHeaders /\ i' = i + 1 /\ UNCHANGED <<at, ud, fill>>
        /\ pos' = pos + Written(hd) /\ NumHeaders > 0
        /\ wire' = IF Dropped(hd) THEN wire ELSE Append(wire, OnWire(hd))
    BY <1>0, <1>3 DEF EncodeHeader
  <2>2. hd \in Header /\ Holdable(hd) /\ NumHeaders' = NumHeaders /\ pos = EndOf(wire)
    BY <1>0, <2>1 DEF NumHeaders, WireInv
  <2>3. /\ wire \in Seq(Wire) /\ Len(wire) \in Nat /\ Len(wire) < i
        /\ \A k \in 1..Len(wire) : \E j \in 1..NumHeaders :
             ~Dropped(ud.headers[j]) /\ wire[k] = OnWire(ud.headers[j])
    BY DEF WireInv
  <2>4. CASE Dropped(hd)
    <3>1. wire' = wire /\ pos' = pos
      BY <1>0, <2>1, <2>4 DEF Written
    <3>2. Len(wire') < i'
      BY <1>0, <2>1, <2>3, <3>1
    <3> QED BY <2>1, <2>2, <2>3, <3>1, <3>2 DEF WireInv, EndOf, Sizes
  <2>5. CASE ~Dropped(hd)
    <3> DEFINE e == OnWire(hd)
               n == Len(wire)
    <3>1. e \in Wire /\ Written(hd) = 2 + e.iedl /\ wire' = Append(wire, e) /\ e.iedl \in Nat
      BY <2>1, <2>2, <2>5, SentOnWire, WireLength
    <3> HIDE DEF e
    <3>2. wire' \in Seq(Wire) /\ Len(wire') = n + 1 /\ wire'[n + 1] = e
          /\ \A k \in 1..n : wire'[k] = wire[k]
      BY <2>3, <3>1
    <3>3. n < MaxHeaders
      BY <1>0, <2>1, <2>3
    <3>4. EndOf(Append(wire, e)) = EndOf(wire) + 2 + e.iedl
      BY <2>3, <3>1, <3>3, EndMoves
    <3>5. pos' = EndOf(wire')
      <4>1. pos' = pos + (2 + e.iedl)
        BY <2>1, <3>1
      <4>2. pos' = EndOf(Append(wire, e))
        BY <1>0, <2>2, <3>1, <3>4, <4>1, SMTT(30)
      <4> QED BY <3>1, <4>2
    <3>6. ASSUME NEW k \in 1..n + 1
          PROVE  \E j \in 1..NumHeaders :
                   ~Dropped(ud.headers[j]) /\ wire'[k] = OnWire(ud.headers[j])
      <4>1. CASE k = n + 1
        BY <2>1, <2>5, <3>2, <4>1 DEF e
      <4>2. CASE k \in 1..n
        BY <2>3, <3>2, <4>2
      <4> QED BY <2>3, <4>1, <4>2
    <3>7. Len(wire') < i'
      BY <1>0, <2>1, <2>3, <3>2
    <3>8. (pos = EndOf(wire))'
      BY <3>5 DEF EndOf, Sizes
    <3> HIDE DEF n, hd
    <3>9. (\A k \in 1..Len(wire) : \E j \in 1..NumHeaders :
             ~Dropped(ud.headers[j]) /\ wire[k] = OnWire(ud.headers[j]))'
      BY <2>1, <2>2, <3>2, <3>6
    <3>10. (NumHeaders # 0 /\ at \notin {"compute", "refused"})'
      BY <2>1, <2>2
    <3>11. (~ud.seven => fill = 0)'
      BY <2>1 DEF WireInv
    <3>12. (wire \in Seq(Wire) /\ Len(wire) < i)'
      BY <3>2, <3>7
    <3> QED BY <3>8, <3>9, <3>10, <3>11, <3>12, Zenon DEF WireInv
  <2> QED BY <2>4, <2>5
<1>4. CASE EndHeaders
  <2>1. /\ UNCHANGED <<ud, i, wire, pos>> /\ at = "headers" /\ at' = "text"
        /\ NumHeaders' = NumHeaders /\ NumHeaders > 0
    BY <1>4 DEF EndHeaders, NumHeaders, IInv
  <2>2. ~ud.seven => fill' = fill
    BY <1>4 DEF EndHeaders
  <2> QED BY <2>1, <2>2 DEF WireInv, EndOf, Sizes
<1>5. CASE EncodeText
  <2>1. UNCHANGED <<ud, i, wire, pos, fill>> /\ at = "text" /\ at' = "sent"
    BY <1>5 DEF EncodeText
  <2> QED BY <2>1 DEF WireInv, NumHeaders, EndOf, Sizes
<1> QED BY <1>1, <1>2, <1>3, <1>4, <1>5 DEF Next, Send, Receive

(* The decoder of UserData is that of UserDataHeader.                       *)
LEMMA SameDecoder ==
  /\ \A m : Decoder!FirstSegment(m) = HP!FirstSegment(m)
  /\ Decoder!Next => HP!Next
<1>1. \A m : Decoder!FirstSegment(m) = HP!FirstSegment(m)
  BY DEF HP!FirstSegment, Decoder!FirstSegment, HP!Start, Decoder!Start, HP!Offsets,
         Decoder!Offsets
<1>2. \A e, f : Decoder!DecodedLength(e, f) = HP!DecodedLength(e, f)
  BY DEF HP!DecodedLength, Decoder!DecodedLength, HP!Taken, Decoder!Taken, HP!Plausible,
         Decoder!Plausible, HP!SOUND_MAX, Decoder!SOUND_MAX, HP!EO_HEADER, Decoder!EO_HEADER,
         HP!VAR_PIC_MAX, Decoder!VAR_PIC_MAX, HP!OTHER_MAX, Decoder!OTHER_MAX
<1>3. Decoder!Found = HP!Found /\ Decoder!InLoop = HP!InLoop
  BY <1>1 DEF Decoder!Found, HP!Found, Decoder!InLoop, HP!InLoop
<1>4. Decoder!Size = HP!Size
  BY <1>2, <1>3 DEF Decoder!Size, HP!Size
<1>5. Decoder!Next => HP!Next
  BY <1>3, <1>4 DEF Decoder!Next, HP!Next, Decoder!Enter, HP!Enter, Decoder!TakeElement,
     HP!TakeElement, Decoder!Refuse, HP!Refuse, Decoder!Leave, HP!Leave
<1> QED BY <1>1, <1>5

LEMMA EndPositive ==
  ASSUME NEW w \in Seq(Wire), Len(w) <= MaxHeaders
  PROVE  EndOf(w) \in Nat /\ EndOf(w) >= 1
<1> DEFINE f == Offsets(1, Sizes(w), MaxHeaders)
<1>1. Sizes(w) \in [1..MaxHeaders -> Nat] /\ MaxHeaders \in Nat /\ 1 \in Nat
  BY SizesType
<1>2. /\ f \in [1..MaxHeaders + 1 -> Nat] /\ f[1] = 1
      /\ \A k \in 1..MaxHeaders : f[k + 1] = f[k] + Sizes(w)[k]
  BY ONLY <1>1, OffsetsDef
<1> HIDE DEF f
<1>3. \A j \in 1..MaxHeaders + 1, k \in 1..MaxHeaders + 1 : j <= k => f[j] <= f[k]
  BY <1>1, <1>2, HeaderAssumptions, HP!OffsetsGrow
<1>4. Len(w) + 1 \in 1..MaxHeaders + 1 /\ 1 \in 1..MaxHeaders + 1 /\ 1 <= Len(w) + 1
  BY <1>1
<1>5. EndOf(w) = f[Len(w) + 1]
  BY DEF EndOf, f
<1> QED BY <1>2, <1>3, <1>4, <1>5

(* What the receiver is given: a header that ends where the sender stopped. *)
LEMMA ReceivedHeader ==
  ASSUME IInv, WireInv, at = "sent", NumHeaders > 0
  PROVE  /\ Received \in HP!MessageType /\ Received.udhl = pos - 1 /\ pos \in 1..140
         /\ Len(wire) \in 0..MaxHeaders /\ wire \in Seq(Wire)
         /\ HP!Start(Received)[Len(wire) + 1] = pos
         /\ \A k \in 1..Len(wire) : Received.elements[k] = wire[k]
<1>1. /\ NumHeaders \in Nat /\ NumHeaders <= MaxHeaders /\ MaxHeaders \in Nat /\ i \in 1..NumHeaders + 1
      /\ HeaderLength \in Nat /\ ud.sm_len \in Nat /\ ud.seven \in BOOLEAN /\ pos \in Nat
      /\ Checked /\ Sized
  BY IInvTypes, MaxHeadersAssumption DEF IInv, UserDatumType, NumHeaders
<1>2. wire \in Seq(Wire) /\ Len(wire) \in 0..MaxHeaders /\ pos = EndOf(wire)
  BY <1>1 DEF WireInv
<1>3. pos <= 140
  <2>1. CASE ud.seven
    <3> DEFINE n == ud.sm_len
    <3>1. HeaderLength + ((n * 7 + 7) \div 8) <= 140 /\ pos <= HeaderLength
      BY <1>1, <2>1 DEF Checked, Capacity, OctetsFor, UDL_MAX_8_BIT, Sized
    <3>2. n \in Nat
      BY <1>1
    <3> HIDE DEF n
    <3> QED BY <1>1, <3>1, <3>2
  <2>2. CASE ~ud.seven
    BY <1>1, <2>2 DEF Checked, Capacity, UDL_MAX_8_BIT, Sized
  <2> QED BY <1>1, <2>1, <2>2
<1>4. pos \in 1..140
  <2>1. Len(wire) <= MaxHeaders
    BY <1>1, <1>2
  <2>2. EndOf(wire) >= 1
    BY <1>2, <2>1, EndPositive
  <2>3. pos >= 1 /\ pos \in Nat
    BY <1>1, <1>2, <2>2
  <2> QED BY <1>3, <2>3
<1>5. Received \in HP!MessageType
  <2>1. pos - 1 \in 0..255
    BY <1>4
  <2>2. Text \in Wire
    BY DEF Text, Wire, Id, Concat
  <2>3. ASSUME NEW k \in 1..MaxHeaders PROVE (IF k <= Len(wire) THEN wire[k] ELSE Text) \in Wire
    BY <1>1, <1>2, <2>2
  <2>4. Wire = HP!Wire
    BY DEF Wire, HP!Wire, Id, HP!Id, Concat, HP!Concat
  <2> QED BY <2>1, <2>3, <2>4, Zenon DEF Received, HP!MessageType
<1>6. HP!Start(Received) = Offsets(1, Sizes(wire), MaxHeaders)
  <2>1. HP!Start(Received)
          = HP!Offsets(1, [k \in 1..MaxHeaders |-> 2 + Received.elements[k].iedl], MaxHeaders)
    BY DEF HP!Start
  <2>2. [k \in 1..MaxHeaders |-> 2 + Received.elements[k].iedl] = Sizes(wire)
    BY DEF Sizes, Received
  <2>3. HP!Offsets(1, Sizes(wire), MaxHeaders) = Offsets(1, Sizes(wire), MaxHeaders)
    BY DEF HP!Offsets, Offsets
  <2> QED BY <2>1, <2>2, <2>3
<1>7. \A k \in 1..Len(wire) : Received.elements[k] = wire[k]
  BY <1>1, <1>2 DEF Received
<1>8. Received.udhl = pos - 1
  BY DEF Received
<1> QED BY <1>2, <1>4, <1>5, <1>6, <1>7, <1>8 DEF EndOf

(* The decoder runs on what was sent, or not at all.                        *)
DecoderInv ==
  /\ at \notin {"sent", "got"} => dat = "idle"
  /\ dat = "idle" => dpos = 0 /\ headers = <<>> /\ result = 0
  /\ at # "got" => got = NotGot
  /\ at = "sent" /\ dat # "idle" =>
       IF NumHeaders = 0 THEN dat = "done" /\ headers = <<>> /\ result = 0
                         ELSE msg = Received /\ HP!IInv /\ HP!ReadInv

LEMMA NextKeepsDecoder == IInv /\ WireInv /\ DecoderInv /\ [Next]_vars => DecoderInv'
<1> SUFFICES ASSUME IInv, WireInv, DecoderInv, [Next]_vars PROVE DecoderInv'
  OBVIOUS
<1>1. CASE BeginDecode
  <2>1. /\ at = "sent" /\ dat = "idle" /\ UNCHANGED <<sender, at, dpos, headers, result, got>>
        /\ dpos = 0 /\ headers = <<>> /\ result = 0
        /\ NumHeaders' = NumHeaders /\ Received' = Received
    BY <1>1 DEF BeginDecode, DecoderInv, sender, NumHeaders, Received
  <2>2. CASE NumHeaders > 0
    <3>1. dat' = "enter" /\ msg' = Received /\ Received \in HP!MessageType
      BY <1>1, <2>1, <2>2, ReceivedHeader DEF BeginDecode
    <3>2. HP!IInv' /\ HP!ReadInv'
      BY <2>1, <3>1, MaxHeadersAssumption
         DEF HP!IInv, HP!Contiguous, HP!ReadInv, HP!Leading
    <3>3. (dat # "idle" /\ msg = Received /\ HP!IInv /\ HP!ReadInv)'
      BY <2>1, <3>1, <3>2
    <3>4. NumHeaders' # 0
      BY <2>1, <2>2
    <3> QED BY <2>1, <3>3, <3>4 DEF DecoderInv
  <2>3. CASE ~(NumHeaders > 0)
    <3>1. dat' = "done" /\ NumHeaders = 0
      BY <1>1, <2>3, IInvTypes DEF BeginDecode
    <3> QED BY <2>1, <3>1 DEF DecoderInv
  <2> QED BY <2>2, <2>3
<1>2. CASE DecodeHeader
  <2>1. /\ HP!Next /\ at = "sent" /\ UNCHANGED <<sender, at, got>> /\ dat \in {"enter", "loop"}
        /\ UNCHANGED msg
    BY <1>2, SameDecoder DEF DecodeHeader, HP!Next, HP!Enter, HP!TakeElement, HP!Refuse,
                             HP!Leave, HP!InLoop
  <2>2. NumHeaders # 0 /\ msg = Received /\ HP!IInv /\ HP!ReadInv
    BY <2>1 DEF DecoderInv
  <2>3. HP!IInv' /\ HP!ReadInv'
    BY <2>1, <2>2, HeaderAssumptions, HP!NextKeepsIInv, HP!NextKeepsReading
  <2>4. dat' # "idle"
    BY <2>3 DEF HP!IInv
  <2>5. (msg = Received)' /\ NumHeaders' # 0
    BY <2>1, <2>2 DEF sender, Received, NumHeaders
  <2> QED BY <2>1, <2>3, <2>4, <2>5 DEF DecoderInv
<1>3. CASE RefuseText \/ DecodeText
  BY <1>3 DEF RefuseText, DecodeText, DecoderInv, decoder
<1>4. CASE Send
  <2>1. /\ UNCHANGED <<dat, dpos, headers, result, got>> /\ at \notin {"sent", "got"}
        /\ dat = "idle" /\ dpos = 0 /\ headers = <<>> /\ result = 0
    BY <1>4 DEF Send, ComputeHeader, TooLong, Computed, BeginEncode, EncodeHeader, EndHeaders,
                EncodeText, decoder, DecoderInv
  <2> QED BY <2>1 DEF DecoderInv
<1>5. CASE UNCHANGED vars
  <2>1. UNCHANGED <<ud, pos, wire, at, dat, dpos, headers, result, msg, got>>
    BY <1>5 DEF vars, sender, decoder
  <2>2. HP!IInv /\ HP!ReadInv => HP!IInv' /\ HP!ReadInv'
    <3>1. UNCHANGED HP!vars
      BY <2>1 DEF HP!vars
    <3> QED BY <3>1, HeaderAssumptions, HP!NextKeepsIInv, HP!NextKeepsReading
  <2>3. Received' = Received /\ NumHeaders' = NumHeaders
    BY <2>1 DEF Received, NumHeaders
  <2> QED BY <2>1, <2>2, <2>3 DEF DecoderInv
<1> QED BY <1>1, <1>2, <1>3, <1>4, <1>5 DEF Next, Receive

(* A header the receiver understands is well-formed, and what the decoder   *)
(* reports of it are the elements written, all of them and no others.       *)
LEMMA Delivered ==
  ASSUME IInv, WireInv, at = "sent", NumHeaders > 0, Understood,
         dat = "done", msg = Received, HP!IInv, HP!ReadInv
  PROVE  /\ result = pos - 1 /\ result \in Nat \ {0} /\ pos \in Nat
         /\ [k \in 1..Len(headers) |-> headers[k].element] = wire
<1> DEFINE n == Len(wire)
           m == Received
           S == HP!Start(m)
<1>1. /\ m \in HP!MessageType /\ m.udhl = pos - 1 /\ pos \in 1..140 /\ pos \in Nat
      /\ n \in 0..MaxHeaders /\ n \in Nat /\ wire \in Seq(Wire) /\ MaxHeaders \in Nat \ {0}
      /\ S[n + 1] = pos
      /\ \A k \in 1..n : m.elements[k] = wire[k]
  <2>1. /\ m \in HP!MessageType /\ m.udhl = pos - 1 /\ pos \in 1..140
        /\ n \in 0..MaxHeaders /\ wire \in Seq(Wire) /\ S[n + 1] = pos
        /\ \A k \in 1..n : m.elements[k] = wire[k]
    BY ReceivedHeader, Zenon
  <2>2. n \in Nat /\ MaxHeaders \in Nat \ {0} /\ pos \in Nat
    BY <2>1, MaxHeadersAssumption
  <2> QED BY <2>1, <2>2, Zenon
<1>2. /\ S \in [1..MaxHeaders + 1 -> Nat]
      /\ \A k \in 1..MaxHeaders : /\ m.elements[k].iedl \in Nat
                                  /\ S[k + 1] = S[k] + 2 + m.elements[k].iedl
      /\ \A j \in 1..MaxHeaders + 1, k \in 1..MaxHeaders + 1 : j <= k => S[j] <= S[k]
  BY <1>1, HeaderAssumptions, HP!StartDef
<1>3. n # 0
  BY <1>1 DEF Understood
<1>4. ASSUME NEW k \in 1..n PROVE HP!Decodes(m, k)
  <2>1. HP!DecodedLength(m.elements[k], HP!FirstSegment(m)) # 0
    <3>1. PICK j \in 1..NumHeaders : ~Dropped(ud.headers[j]) /\ wire[k] = OnWire(ud.headers[j])
      BY <1>4 DEF WireInv
    <3> DEFINE hd == ud.headers[j]
               f == HP!FirstSegment(m)
    <3>2. hd \in Header /\ Readable(hd) /\ ~Dropped(hd) /\ f \in BOOLEAN
      BY <3>1, IInvTypes DEF Understood, HP!FirstSegment
    <3>3. hd.id = "eo" => hd.flag = f
      BY SameDecoder DEF Understood
    <3> HIDE DEF hd, f
    <3>4. DecodedLength(OnWire(hd), f) # 0
      BY <3>2, <3>3, SentIsRead
    <3>5. HP!DecodedLength(OnWire(hd), f) = DecodedLength(OnWire(hd), f)
      BY DEF HP!DecodedLength, DecodedLength, HP!Taken, Taken, HP!Plausible, Plausible,
             HP!SOUND_MAX, SOUND_MAX, HP!EO_HEADER, EO_HEADER, HP!VAR_PIC_MAX, VAR_PIC_MAX,
             HP!OTHER_MAX, OTHER_MAX
    <3>6. m.elements[k] = OnWire(hd)
      BY <1>1, <1>4, <3>1 DEF hd
    <3> QED BY <3>4, <3>5, <3>6 DEF f
  <2> HIDE DEF S, m, n
  <2>2. /\ k \in 1..MaxHeaders /\ k \in 1..MaxHeaders + 1 /\ k + 1 \in 1..MaxHeaders + 1
        /\ n + 1 \in 1..MaxHeaders + 1 /\ k + 1 <= n + 1
    BY <1>1, <1>4
  <2>3. S[k + 1] = S[k] + 2 + m.elements[k].iedl /\ m.elements[k].iedl \in Nat /\ S[k] \in Nat
        /\ S[k + 1] <= pos
    BY <1>1, <1>2, <2>2
  <2>4. S[k] < pos - 1 /\ S[k + 1] <= MAX_LEN
    BY <1>1, <2>3, SMTT(30) DEF MAX_LEN
  <2> QED BY <1>1, <2>1, <2>4 DEF HP!Decodes, S
<1>5. HP!Wellformed(m)
  <2>1. m.udhl < 255
    BY <1>1
  <2>2. n \in 1..MaxHeaders /\ S[n + 1] = m.udhl + 1
    BY <1>1, <1>3
  <2> QED BY <1>4, <2>1, <2>2 DEF HP!Wellformed
<1>6. result # 0 /\ result = pos - 1
  <2>1. result # 0
    BY <1>5 DEF HP!ReadInv
  <2> QED BY <1>1, <2>1 DEF HP!IInv, HP!Verdict
<1> DEFINE l == Len(headers)
<1>7. /\ l \in Nat /\ l <= MaxHeaders
      /\ \A k \in 1..l : headers[k].element = m.elements[k] /\ S[k] < pos - 1
      /\ l = MaxHeaders \/ S[l + 1] = pos
  <2>1. /\ l \in Nat /\ l <= MaxHeaders /\ HP!Leading /\ HP!Contiguous
    BY DEF HP!IInv, HP!ReadInv
  <2>2. l = MaxHeaders \/ S[l + 1] = m.udhl + 1
    BY <1>6 DEF HP!ReadInv
  <2> QED BY <1>1, <2>1, <2>2 DEF HP!Leading, HP!Decodes, HP!Contiguous
<1> HIDE DEF l, n, S, m
<1>8. l = n
  <2>1. CASE l > n
    <3>1. n + 1 \in 1..l
      BY <1>1, <1>7, <2>1
    <3> QED BY <1>1, <1>7, <3>1
  <2>2. CASE l < n
    <3>1. /\ l + 1 \in 1..MaxHeaders /\ l + 2 \in 1..MaxHeaders + 1 /\ n + 1 \in 1..MaxHeaders + 1
          /\ l + 2 <= n + 1 /\ (l + 1) + 1 = l + 2 /\ l # MaxHeaders
      BY <1>1, <1>7, <2>2
    <3>2. S[l + 2] = S[l + 1] + 2 + m.elements[l + 1].iedl /\ m.elements[l + 1].iedl \in Nat
          /\ S[l + 2] <= S[n + 1] /\ S[l + 1] = pos
      BY <1>2, <1>7, <3>1
    <3> QED BY <1>1, <3>2
  <2> QED BY <1>1, <1>7, <2>1, <2>2
<1>9. [k \in 1..l |-> headers[k].element] = wire
  <2>1. wire = [k \in 1..n |-> wire[k]]
    BY <1>1 DEF n
  <2>2. \A k \in 1..n : headers[k].element = wire[k]
    BY <1>1, <1>7, <1>8
  <2> QED BY <1>8, <2>1, <2>2
<1> QED BY <1>1, <1>6, <1>9 DEF l

(* The receiver divides the length octet as the sender made it up.          *)
LEMMA TextIsFound ==
  ASSUME NEW u \in Nat, NEW p \in Nat, NEW f \in 0..6, NEW n \in 0..255, 7 * u = 8 * p + f + 7 * n
  PROVE  LET bits == u * 7 - p * 8
         IN /\ (bits \div 7) % 256 = n /\ bits % 7 = f /\ p <= u
<1>1. u * 7 - p * 8 = f + 7 * n /\ p <= u
  OBVIOUS
<1>2. (f + 7 * n) \div 7 = n /\ (f + 7 * n) % 7 = f /\ n % 256 = n
  OBVIOUS
<1> QED BY <1>1, <1>2

LEMMA DecodeTextArrives == IInv /\ WireInv /\ DecoderInv /\ DecodeText => MessageArrives'
<1> SUFFICES ASSUME IInv, WireInv, DecoderInv, DecodeText, (Understood \/ NumHeaders = 0)'
             PROVE  (/\ got.sm_len = ud.sm_len /\ got.from = pos
                     /\ got.shift = IF fill = 0 THEN 0 ELSE 8 - fill
                     /\ [k \in 1..Len(got.headers) |-> got.headers[k].element] = wire)'
  BY DEF MessageArrives
<1> DEFINE n == ud.sm_len
           bits == udl * 7 - (result + 1) * 8
           rest == (udl - result - 1) % 256
<1>1. /\ UNCHANGED <<ud, pos, wire, fill, udl, headers>> /\ at = "sent" /\ dat = "done"
      /\ (Understood' <=> Understood) /\ NumHeaders' = NumHeaders
      /\ got' = IF result > udl THEN [NotGot EXCEPT !.headers = headers]
          ELSE IF ud.seven
            THEN [headers |-> headers,
                  sm_len |-> IF result > 0 THEN (bits \div 7) % 256 ELSE udl,
                  shift |-> IF result > 0 /\ bits % 7 # 0 THEN 8 - (bits % 7) ELSE 0,
                  from |-> IF result > 0 THEN result + 1 ELSE 0]
            ELSE [headers |-> headers, shift |-> 0,
                  sm_len |-> IF NumHeaders > 0 THEN rest ELSE udl,
                  from |-> IF NumHeaders > 0 THEN result + 1 ELSE 0]
  BY DEF DecodeText, sender, decoder, Understood, NumHeaders, Received
<1>2. /\ n \in 0..255 /\ ud.seven \in BOOLEAN /\ pos \in Nat /\ udl \in Nat /\ fill \in 0..6
      /\ NumHeaders \in Nat
      /\ ud.seven => 7 * udl = 8 * pos + fill + 7 * n
      /\ ~ud.seven => udl = n + pos /\ fill = 0
  <2>1. Sized /\ n \in 0..255
    BY <1>1 DEF IInv, UserDatumType, MAX_LEN
  <2>2. ~ud.seven => fill = 0
    BY DEF WireInv
  <2> QED BY <2>1, <2>2, IInvTypes DEF Sized
<1> HIDE DEF n
<1>3. CASE NumHeaders = 0
  <2>1. result = 0 /\ headers = <<>> /\ wire = <<>> /\ pos = 0 /\ fill = 0
    BY <1>1, <1>3 DEF DecoderInv, WireInv
  <2>2. udl = n
    BY <1>2, <2>1
  <2>3. got'.sm_len = n /\ got'.from = 0 /\ got'.shift = 0 /\ got'.headers = <<>>
    BY <1>1, <1>2, <1>3, <2>1, <2>2
  <2>4. [k \in 1..Len(got'.headers) |-> got'.headers[k].element] = <<>>
    BY <2>3
  <2> QED BY <1>1, <2>1, <2>3, <2>4 DEF n
<1>4. CASE NumHeaders > 0
  <2>1. Understood /\ NumHeaders # 0
    BY <1>1, <1>2, <1>4
  <2>2. msg = Received /\ HP!IInv /\ HP!ReadInv
    BY <1>1, <2>1 DEF DecoderInv
  <2>3. /\ result = pos - 1 /\ result \in Nat \ {0}
        /\ [k \in 1..Len(headers) |-> headers[k].element] = wire
    BY <1>1, <1>4, <2>1, <2>2, Delivered
  <2>4. pos \in Nat /\ result + 1 = pos /\ result > 0
    BY <1>2, <2>3
  <2>5. CASE ud.seven
    <3>1. (bits \div 7) % 256 = n /\ bits % 7 = fill /\ pos <= udl
      <4>1. bits = udl * 7 - pos * 8
        BY <2>4
      <4>2. 7 * udl = 8 * pos + fill + 7 * n
        BY <1>2, <2>5
      <4>3. udl \in Nat /\ pos \in Nat /\ fill \in 0..6 /\ n \in 0..255
        BY <1>2
      <4>4. /\ ((udl * 7 - pos * 8) \div 7) % 256 = n /\ (udl * 7 - pos * 8) % 7 = fill
            /\ pos <= udl
        BY ONLY <4>2, <4>3, TextIsFound
      <4> HIDE DEF bits
      <4> QED BY <4>1, <4>4
    <3> HIDE DEF bits, rest
    <3>2. ~(result > udl)
      <4>1. udl \in Nat /\ result \in Nat /\ pos = result + 1 /\ pos <= udl
        BY <1>2, <2>3, <2>4, <3>1
      <4> QED BY ONLY <4>1
    <3>3. /\ got'.sm_len = n /\ got'.from = pos /\ got'.headers = headers
          /\ got'.shift = IF fill = 0 THEN 0 ELSE 8 - fill
      BY <1>1, <2>4, <2>5, <3>1, <3>2
    <3> QED BY <1>1, <2>3, <3>3 DEF n
  <2>6. CASE ~ud.seven
    <3>1. rest = n
      <4>2. udl = n + pos /\ n \in 0..255 /\ pos = result + 1 /\ result \in Nat
        BY <1>2, <2>3, <2>4, <2>6
      <4>1. udl - result - 1 = n /\ n % 256 = n
        BY ONLY <4>2
      <4> QED BY <4>1
    <3> HIDE DEF bits, rest
    <3>2. ~(result > udl) /\ fill = 0
      <4>1. udl = n + pos /\ n \in 0..255 /\ pos = result + 1 /\ result \in Nat /\ fill = 0
        BY <1>2, <2>3, <2>4, <2>6
      <4> QED BY ONLY <4>1
    <3>3. /\ got'.sm_len = n /\ got'.from = pos /\ got'.headers = headers
          /\ got'.shift = 0
      BY <1>1, <1>4, <2>4, <2>6, <3>1, <3>2
    <3> QED BY <1>1, <2>3, <3>2, <3>3 DEF n
  <2> QED BY <1>2, <2>5, <2>6
<1> QED BY <1>2, <1>3, <1>4

(* No length at all means no text and no header.                            *)
LEMMA RefuseTextArrives == IInv /\ WireInv /\ DecoderInv /\ RefuseText => MessageArrives'
<1> SUFFICES ASSUME IInv, WireInv, DecoderInv, RefuseText PROVE MessageArrives'
  OBVIOUS
<1> DEFINE n == ud.sm_len
<1>1. /\ UNCHANGED sender /\ UNCHANGED got /\ at = "sent" /\ udl = 0
  <2>1. WithinCapacity /\ at = "sent"
    BY CheckedFits DEF RefuseText
  <2>2. udl <= LongestUdl /\ udl \in Nat /\ LongestUdl \in Nat
    BY <2>1, IInvTypes DEF WithinCapacity, LongestUdl, UDL_MAX_7_BIT, UDL_MAX_8_BIT
  <2> QED BY <2>1, <2>2 DEF RefuseText
<1>2. n = 0 /\ pos = 0 /\ fill = 0
  <2>1. /\ n \in Nat /\ pos \in Nat /\ fill \in 0..6 /\ ud.seven \in BOOLEAN
        /\ ud.seven => 7 * udl = 8 * pos + fill + 7 * n
        /\ ~ud.seven => udl = n + pos /\ fill = 0
    BY <1>1, IInvTypes DEF IInv, Sized, WireInv
  <2> HIDE DEF n
  <2> QED BY <1>1, <2>1
<1>3. NumHeaders = 0 /\ wire = <<>>
  <2>1. CASE NumHeaders > 0
    BY <1>1, <1>2, <2>1, ReceivedHeader
  <2> QED BY <2>1, IInvTypes DEF WireInv
<1>4. got = NotGot
  BY <1>1 DEF DecoderInv
<1> QED BY <1>1, <1>2, <1>3, <1>4 DEF MessageArrives, NotGot, sender

LEMMA OthersArrive == MessageArrives /\ [Next]_vars => MessageArrives' \/ RefuseText \/ DecodeText
<1> SUFFICES ASSUME MessageArrives, [Next]_vars, ~RefuseText, ~DecodeText PROVE MessageArrives'
  OBVIOUS
<1>1. CASE UNCHANGED vars
  BY <1>1 DEF vars, sender, MessageArrives, Understood, NumHeaders, Received
<1>2. CASE Send
  <2>1. at' # "got"
    BY <1>2 DEF Send, ComputeHeader, TooLong, BeginEncode, EncodeHeader, EndHeaders, EncodeText
  <2> QED BY <2>1 DEF MessageArrives
<1>3. CASE BeginDecode \/ DecodeHeader
  <2>1. at' # "got"
    BY <1>3 DEF BeginDecode, DecodeHeader
  <2> QED BY <2>1 DEF MessageArrives
<1> QED BY <1>1, <1>2, <1>3 DEF Next, Receive

LEMMA WholeInvIsInvariant == Spec => [](IInv /\ WireInv /\ DecoderInv)
<1>1. Init => WireInv /\ DecoderInv
  <2> SUFFICES ASSUME Init PROVE WireInv /\ DecoderInv
    OBVIOUS
  <2>1. wire = <<>> /\ Len(wire) = 0 /\ wire \in Seq(Wire)
    BY DEF Init
  <2> QED BY <2>1 DEF Init, WireInv, DecoderInv
<1>2. IInv /\ WireInv /\ DecoderInv /\ [Next]_vars => (IInv /\ WireInv /\ DecoderInv)'
  BY NextKeepsIInv, NextKeepsWire, NextKeepsDecoder
<1> QED BY <1>1, <1>2, InitIInv, PTL DEF Spec

(* Whatever the sender puts into a message, for any number of headers and   *)
(* any length of text: if it passes the capacity check and the receiver can *)
(* read its headers, the receiver finds all of the text where it is, with   *)
(* the shift it was written with, and exactly the headers written.          *)
THEOREM MessagesArrive == Spec => []MessageArrives
<1>1. Init => MessageArrives
  BY DEF Init, MessageArrives
<1>2. IInv /\ WireInv /\ DecoderInv /\ MessageArrives /\ [Next]_vars => MessageArrives'
  BY RefuseTextArrives, DecodeTextArrives, OthersArrive
<1> QED BY <1>1, <1>2, WholeInvIsInvariant, PTL DEF Spec

-----------------------------------------------------------------------------
(* The variables that are octets in the code.                               *)
Octets == /\ ud \in UserDatum /\ udl \in 0..255
          /\ dat \in {"idle", "enter", "loop", "done"} /\ dpos \in 0..255 /\ result \in 0..255
          /\ got.sm_len \in 0..255 /\ got.shift \in 0..7 /\ got.from \in 0..256

LEMMA NextKeepsOctets == IInv /\ DecoderInv /\ Octets /\ [Next]_vars => Octets'
<1> SUFFICES ASSUME IInv, DecoderInv, Octets, [Next]_vars PROVE Octets'
  OBVIOUS
<1>1. CASE Send
  <2>1. UNCHANGED <<ud, dat, dpos, result, got>>
    BY <1>1 DEF Send, ComputeHeader, TooLong, BeginEncode, EncodeHeader, EndHeaders, EncodeText,
                sender, decoder
  <2>2. \/ udl' = udl
        \/ udl' = ud.sm_len
        \/ \E x \in Nat : udl' = x % 256
    <3>1. CASE EndHeaders
      <4> DEFINE pad == IF (pos * 8) % 7 = 0 THEN 0 ELSE 7 - ((pos * 8) % 7)
                 u == (pos * 8 + pad + ud.sm_len * 7) \div 7
      <4>1. udl' = u % 256 \/ udl' = (ud.sm_len + pos) % 256
        BY <3>1 DEF EndHeaders
      <4>2. pos \in Nat /\ ud.sm_len \in Nat
        BY IInvTypes
      <4>3. pad \in Nat
        BY <4>2
      <4>4. u \in Nat /\ ud.sm_len + pos \in Nat
        <5> HIDE DEF pad
        <5> QED BY <4>2, <4>3
      <4> HIDE DEF u
      <4> QED BY <4>1, <4>4
    <3>2. CASE ~EndHeaders
      BY <1>1, <3>2 DEF Send, ComputeHeader, TooLong, BeginEncode, EncodeHeader, EncodeText,
                        sender
    <3> QED BY <3>1, <3>2
  <2>3. ud.sm_len \in 0..255
    BY DEF IInv, UserDatumType, MAX_LEN
  <2>4. \A x \in Nat : x % 256 \in 0..255
    OBVIOUS
  <2>5. udl' \in 0..255
    BY <2>2, <2>3, <2>4 DEF Octets
  <2> QED BY <2>1, <2>5 DEF Octets
<1>2. CASE RefuseText \/ BeginDecode \/ UNCHANGED vars
  <2>1. /\ UNCHANGED <<ud, udl, dpos, result, got>>
        /\ dat' \in {dat, "enter", "done"}
    BY <1>2 DEF RefuseText, BeginDecode, vars, sender, decoder
  <2> QED BY <2>1 DEF Octets
<1>3. CASE DecodeHeader
  <2>1. /\ HP!Next /\ at = "sent" /\ UNCHANGED <<sender, got>> /\ dat \in {"enter", "loop"}
        /\ dat' \in {"enter", "loop", "done"}
    BY <1>3, SameDecoder DEF DecodeHeader, HP!Next, HP!Enter, HP!TakeElement, HP!Refuse,
                             HP!Leave, HP!InLoop
  <2>2. HP!IInv /\ HP!Bytes
    BY <2>1 DEF DecoderInv, Octets, HP!Bytes
  <2>3. HP!Bytes'
    BY <2>1, <2>2, HeaderAssumptions, HP!NextKeepsBytes
  <2> QED BY <2>1, <2>3 DEF Octets, HP!Bytes, sender
<1>4. CASE DecodeText
  <2> DEFINE bits == udl * 7 - (result + 1) * 8
             x == (bits \div 7) % 256
             y == bits % 7
             z == (udl - result - 1) % 256
  <2>1. udl \in 0..255 /\ result \in 0..255 /\ bits \in Int
    BY DEF Octets
  <2>2. x \in 0..255 /\ y \in 0..6 /\ z \in 0..255 /\ result + 1 \in 0..256
    <3> HIDE DEF bits
    <3>1. bits \div 7 \in Int /\ bits % 7 \in 0..6 /\ udl - result - 1 \in Int
      BY <2>1
    <3> QED BY <2>1, <3>1
  <2>3. /\ UNCHANGED <<ud, udl, dat, dpos, result>>
        /\ got' = IF result > udl THEN [NotGot EXCEPT !.headers = headers]
          ELSE IF ud.seven
            THEN [headers |-> headers,
                  sm_len |-> IF result > 0 THEN x ELSE udl,
                  shift |-> IF result > 0 /\ y # 0 THEN 8 - y ELSE 0,
                  from |-> IF result > 0 THEN result + 1 ELSE 0]
            ELSE [headers |-> headers, shift |-> 0,
                  sm_len |-> IF NumHeaders > 0 THEN z ELSE udl,
                  from |-> IF NumHeaders > 0 THEN result + 1 ELSE 0]
    BY <1>4 DEF DecodeText, sender, decoder
  <2> HIDE DEF bits, x, y, z
  <2>4. /\ got'.sm_len \in {0, x, udl, z} /\ got'.from \in {0, result + 1}
        /\ got'.shift = 0 \/ (y # 0 /\ got'.shift = 8 - y)
    BY <2>3 DEF NotGot
  <2>5. got'.sm_len \in 0..255 /\ got'.from \in 0..256
    BY <2>1, <2>2, <2>4
  <2>6. got'.shift \in 0..7
    BY <2>2, <2>4
  <2> QED BY <2>3, <2>5, <2>6 DEF Octets
<1> QED BY <1>1, <1>2, <1>3, <1>4 DEF Next, Receive

(* Every variable keeps its type.                                           *)
THEOREM TypesAreKept == Spec => []TypeOK
<1>1. Init => Octets
  BY DEF Init, Octets, NotGot
<1>2. IInv /\ WireInv /\ Octets => TypeOK
  <2> SUFFICES ASSUME IInv, WireInv, Octets PROVE TypeOK
    OBVIOUS
  <2>1. /\ NumHeaders \in Nat /\ NumHeaders <= MaxHeaders /\ MaxHeaders \in Nat
        /\ i \in 1..NumHeaders + 1 /\ lengths \in Seq(Nat) /\ Len(wire) \in Nat
    BY IInvTypes, MaxHeadersAssumption DEF IInv, UserDatumType, NumHeaders, Trace, WireInv
  <2>2. i \in 1..MaxHeaders + 1 /\ Len(wire) <= MaxHeaders
    BY <2>1 DEF WireInv
  <2> QED BY <2>1, <2>2 DEF IInv, WireInv, Octets, TypeOK
<1> QED BY <1>1, <1>2, WholeInvIsInvariant, NextKeepsOctets, PTL DEF Spec
=============================================================================
