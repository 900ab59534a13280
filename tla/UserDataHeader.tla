--------------------------- MODULE UserDataHeader ---------------------------
(***************************************************************************)
(* wms_ts_decode_user_data_header: the loop that takes a received          *)
(* user-data header apart.  One action is one information element.         *)
(*                                                                         *)
(* The octets after the first one are given as the MaxHeaders elements a   *)
(* reader finds that steps from length octet to length octet (neither loop *)
(* of the code looks at more); the last ones may lie in the text behind    *)
(* the header, which is what the decoder would read there.                 *)
(*                                                                         *)
(* The caller has set *num_headers_ptr to 0; elements are short enough for *)
(* pos of the first-segment check not to wrap, and the content of an eo is *)
(* no longer than its array.                                               *)
(***************************************************************************)
EXTENDS UdhElements, Sequences

CONSTANTS MaxHeaders,   \* WMS_MAX_UD_HEADERS
          MaxLen,       \* WMS_MAX_LEN
          Message       \* the user data that may arrive

MessageType == [udhl : 0..255, elements : [1..MaxHeaders -> Wire]]

ASSUME MaxHeadersAssumption == MaxHeaders \in Nat \ {0}
ASSUME MaxLenAssumption == MaxLen \in 0..255
ASSUME MessageAssumption == Message \subseteq MessageType

VARIABLES msg,       \* data: data[0] and the elements behind it
          at,        \* "enter", "loop", "done"
          pos,       \* octet the next element starts at
          headers,   \* udh_ptr[0 .. num_headers - 1], and where each was found
          result     \* the value returned: the length of the header or 0

vars == <<msg, at, pos, headers, result>>

(* Where element k starts, for a reader that checks nothing.                *)
Start(m) == Offsets(1, [k \in 1..MaxHeaders |-> 2 + m.elements[k].iedl], MaxHeaders)

(* Broken variant: only the first element is looked at.                     *)
BugFirstSegment(m) == m.elements[1].id = "concat16" /\ 1 < m.udhl => m.elements[1].seq = 1

(* wms_ts_udh_decode_first_seg_check: the first 16-bit concatenation among  *)
(* the first MaxHeaders elements decides.                                   *)
FirstSegment(m) ==
  LET seen == {k \in 1..MaxHeaders : Start(m)[k] < m.udhl}
      cat == {k \in seen : m.elements[k].id = "concat16"}
  IN \A k \in cat : (\A j \in cat : k <= j) => m.elements[k].seq = 1

Init == /\ msg \in Message
        /\ at = "enter" /\ pos = 0 /\ headers = <<>> /\ result = 0

Enter == /\ at = "enter"
         /\ IF msg.udhl = 0 THEN at' = "done" /\ UNCHANGED pos
                            ELSE at' = "loop" /\ pos' = 1
         /\ UNCHANGED <<msg, headers, result>>

InLoop == at = "loop" /\ pos < msg.udhl /\ Len(headers) < MaxHeaders

Found == [element |-> msg.elements[Len(headers) + 1], pos |-> pos,
          first |-> FirstSegment(msg)]
Size == DecodedLength(Found.element, Found.first)

(* Broken variants: an element is taken without a look at the buffer, or    *)
(* without the step over its content,                                       *)
BugTakeElement == /\ InLoop
                  /\ Size # 0
                  /\ pos' = pos + Size
                  /\ headers' = Append(headers, Found)
                  /\ UNCHANGED <<msg, at, result>>

BugStepElement == /\ InLoop
                  /\ Size # 0 /\ pos + Size <= MaxLen
                  /\ pos' = pos + Size - 1
                  /\ headers' = Append(headers, Found)
                  /\ UNCHANGED <<msg, at, result>>

(* An element its decoder takes and that ends inside the buffer.            *)
TakeElement == /\ InLoop
               /\ Size # 0 /\ pos + Size <= MaxLen
               /\ pos' = pos + Size
               /\ headers' = Append(headers, Found)
               /\ UNCHANGED <<msg, at, result>>

(* SHORT-RETURN: one bad element, and nothing of the header is reported.    *)
Refuse == /\ InLoop
          /\ Size = 0 \/ pos + Size > MaxLen
          /\ at' = "done" /\ headers' = <<>>
          /\ UNCHANGED <<msg, pos, result>>

(* Behind the loop: a full table counts as the end of the header; otherwise *)
(* the last element must have ended where the header does.  pos is a uint8, *)
(* and a header of 255 octets never ends.                                   *)
BugLeave == /\ at = "loop" /\ ~InLoop              \* the headers found are kept,
            /\ at' = "done"                          \* and pos is wider
            /\ pos' = IF Len(headers) >= MaxHeaders THEN msg.udhl + 1 ELSE pos
            /\ result' = IF pos' = msg.udhl + 1 THEN msg.udhl ELSE 0
            /\ UNCHANGED <<msg, headers>>

Leave == /\ at = "loop" /\ ~InLoop
         /\ at' = "done"
         /\ pos' = IF Len(headers) >= MaxHeaders THEN (msg.udhl + 1) % 256 ELSE pos
         /\ IF pos' = msg.udhl + 1 THEN result' = msg.udhl /\ UNCHANGED headers
                                   ELSE result' = 0 /\ headers' = <<>>
         /\ UNCHANGED msg

Next == Enter \/ TakeElement \/ Refuse \/ Leave

Spec == Init /\ [][Next]_vars

-----------------------------------------------------------------------------
Reported == [element : Wire, pos : 0..255, first : BOOLEAN]

TypeOK == /\ msg \in Message
          /\ at \in {"enter", "loop", "done"}
          /\ pos \in 0..255
          /\ headers \in Seq(Reported) /\ Len(headers) <= MaxHeaders
          /\ result \in 0..255

(* The octet behind the element reported last. *)
End == IF headers = <<>> THEN 1
       ELSE headers[Len(headers)].pos + 2 + headers[Len(headers)].element.iedl

(* The headers found are the leading elements of the message, each one      *)
(* starting where the one before it ends, and the loop stands behind the    *)
(* last of them.                                                            *)
Contiguous ==
  /\ \A k \in 1..Len(headers) :
       /\ headers[k].element = msg.elements[k]
       /\ headers[k].pos = IF k = 1 THEN 1
                           ELSE headers[k - 1].pos + 2 + headers[k - 1].element.iedl
       /\ DecodedLength(headers[k].element, headers[k].first) # 0
  /\ at = "loop" => pos = End

(* What a caller that gets a length back may rely on: the reported elements *)
(* fill the header exactly, or the table of headers is full.                *)
AcceptedIsTiled ==
  at = "done" /\ result # 0 =>
    /\ result = msg.udhl
    /\ End = msg.udhl + 1 \/ Len(headers) = MaxHeaders

(* All or nothing: a caller that is told of a header also gets headers, and *)
(* one that is not sees none of the elements found before the bad one.      *)
AllOrNothing == at = "done" => (result = 0 <=> headers = <<>>)

(* A reference definition without a loop: some number of leading elements   *)
(* decodes, and they end where the header does or fill the table.           *)
Decodes(m, k) == DecodedLength(m.elements[k], FirstSegment(m)) # 0
                 /\ Start(m)[k] < m.udhl /\ Start(m)[k + 1] <= MaxLen
Wellformed(m) ==
  /\ m.udhl < 255
  /\ \E k \in 1..MaxHeaders : /\ \A j \in 1..k : Decodes(m, j)
                              /\ k = MaxHeaders \/ Start(m)[k + 1] = m.udhl + 1
AcceptsWellformed == at = "done" => (result # 0 <=> Wellformed(msg))

(* An extended object is read with the layout of a first segment just when  *)
(* no concatenation of the accepted header, before or behind it, says that  *)
(* the message is a later segment.  (Concatenations with an 8-bit reference *)
(* do not count, and of several 16-bit ones the first decides.)             *)
Concats == {k \in 1..Len(headers) : headers[k].element.id = "concat16"}
FirstSegmentKnown ==
  at = "done" =>
    \A k \in 1..Len(headers) : headers[k].element.id = "eo" =>
      (headers[k].first <=>
         \A c \in Concats : (\A j \in Concats : c <= j) => headers[c].element.seq = 1)
=============================================================================
