-------------------------------- MODULE Dcs --------------------------------
(***************************************************************************)
(* The data coding scheme of a TPDU: wms_ts_encode_dcs and                 *)
(* wms_ts_decode_dcs.  One octet in four groups: a general one, one with a *)
(* class alone (1111), two in which messages wait, and reserved values.    *)
(*                                                                         *)
(* A scheme is [class, waiting, alphabet, compressed, indication]: class   *)
(* is 4 for none, and indication is <<active, kind>>, which is written and *)
(* read where messages wait and left alone elsewhere: a structure that is  *)
(* decoded into keeps that of an earlier message.                          *)
(***************************************************************************)
EXTENDS Integers

NO_CLASS == 4              \* WMS_MESSAGE_CLASS_NONE
Alphabets == <<"seven_bit", "eight_bit", "ucs2">>
Alphabet == {Alphabets[k] : k \in 1..3}
AlphabetNumber(a) == (CHOOSE k \in 1..3 : Alphabets[k] = a) - 1

Waits(waiting) == waiting \in {"discard", "store"}
VOICEMAIL == 0             \* WMS_GW_MSG_WAITING_VOICEMAIL
Indication == BOOLEAN \X (0..3)
NoIndication == <<FALSE, VOICEMAIL>>
Scheme == [class : 0..NO_CLASS, waiting : {"none", "discard", "store", "none_1111"},
           alphabet : Alphabet, compressed : BOOLEAN, indication : Indication]

MakeScheme(class, waiting, alphabet, compressed, indication) ==
  [class |-> class, waiting |-> waiting, alphabet |-> alphabet, compressed |-> compressed,
   indication |-> indication]

-----------------------------------------------------------------------------
Bit(condition, n) == IF condition THEN n ELSE 0

EncodeDcs(s) ==
  CASE s.waiting = "none" ->
         Bit(s.compressed, 32) + Bit(s.class # NO_CLASS, 16)
         + 4 * AlphabetNumber(s.alphabet) + (s.class % 4)
    [] s.waiting = "none_1111" -> 240 + Bit(s.alphabet = "eight_bit", 4) + (s.class % 4)
    [] Waits(s.waiting) ->
         (CASE s.waiting = "discard" -> 192
            [] s.waiting = "store" /\ s.alphabet = "seven_bit" -> 208
            [] OTHER -> 224)
         + Bit(s.indication[1], 8) + s.indication[2]

(* The group is in bits 7 to 4.  The fourth alphabet of the general group,  *)
(* and the reserved groups, are taken for 7-bit.                            *)
HasBit(o, n) == (o \div n) % 2 = 1
AlphabetIn(o) == IF (o \div 4) % 4 = 3 THEN "seven_bit" ELSE Alphabets[((o \div 4) % 4) + 1]

(* The octet o, into a structure that holds the indication before.          *)
DecodeDcs(o, before) ==
  LET group == o \div 16
      indication == <<HasBit(o, 8), o % 4>>
  IN CASE group <= 3 -> MakeScheme(IF HasBit(o, 16) THEN o % 4 ELSE NO_CLASS, "none",
                                   AlphabetIn(o), HasBit(o, 32), before)
       [] group \in 4..11 -> MakeScheme(NO_CLASS, "none", "seven_bit", FALSE, before)
       [] group = 12 -> MakeScheme(NO_CLASS, "discard", "seven_bit", FALSE, indication)
       [] group = 13 -> MakeScheme(NO_CLASS, "store", "seven_bit", FALSE, indication)
       [] group = 14 -> MakeScheme(NO_CLASS, "store", "ucs2", FALSE, indication)
       [] group = 15 -> MakeScheme(o % 4, "none_1111",
                                   IF HasBit(o, 4) THEN "eight_bit" ELSE "seven_bit",
                                   FALSE, before)

(* What some octet stands for; of the rest, such as UCS2 in a message that  *)
(* is to be discarded, the encoder keeps what it can.                       *)
Expressible == {DecodeDcs(o, before) : o \in 0..255, before \in Indication}

(* A scheme that is received: its own indication only where messages wait.  *)
Received(s, before) == IF Waits(s.waiting) THEN s ELSE [s EXCEPT !.indication = before]

(* What the decoder of a TP-DELIVER makes of a return call.                 *)
AnnounceVoicemail(s) == [s EXCEPT !.waiting = "store", !.indication = <<TRUE, VOICEMAIL>>]
=============================================================================
