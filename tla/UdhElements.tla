---------------------------- MODULE UdhElements ----------------------------
(***************************************************************************)
(* The information elements of a user-data header: what each encoder       *)
(* writes, what wms_ts_get_udh_length expects it to write, and which       *)
(* elements each decoder takes.                                            *)
(*                                                                         *)
(* Contents are left out except where a length or a check depends on them: *)
(*   n      octets of content (user_def_sound, eo, other)                  *)
(*   w, h   width and height of a var_picture, in pixels                   *)
(*   flag   is_color_present of text_format, first_segment of eo           *)
(*   total, seq   of a concatenation                                       *)
(***************************************************************************)
EXTENDS Naturals

EO_HEADER == 7          \* WMS_UDH_OCTETS_EO_HEADER
EO_SEGMENT_MAX == 131   \* WMS_UDH_EO_DATA_SEGMENT_MAX
SOUND_MAX == 128        \* WMS_UDH_MAX_SND_SIZE
VAR_PIC_MAX == 134      \* WMS_UDH_VAR_PIC_SIZE
OTHER_MAX == 226        \* WMS_UDH_OTHER_SIZE

Concat == {"concat8", "concat16"}
Id == Concat \union
      {"special_sm", "port8", "port16", "text_format", "pre_def_sound", "user_def_sound",
       "pre_def_anim", "large_anim", "small_anim", "large_picture", "small_picture",
       "var_picture", "user_prompt", "eo", "rfc822", "other"}
Header == [id : Id, n : 0..255, w : 0..255, h : 0..255, flag : BOOLEAN,
           total : 0..255, seq : 0..255]

(* Octets after the length octet, for the elements whose size is fixed.     *)
FixedLength(hd) ==
  CASE hd.id \in {"concat8"}                                     -> 3
    [] hd.id \in {"concat16", "port16"}                          -> 4
    [] hd.id \in {"special_sm", "port8", "pre_def_sound", "pre_def_anim"} -> 2
    [] hd.id = "text_format"                                     -> IF hd.flag THEN 4 ELSE 3
    [] hd.id \in {"large_anim", "large_picture"}                 -> 129
    [] hd.id \in {"small_anim", "small_picture"}                 -> 33
    [] hd.id \in {"user_prompt", "rfc822"}                       -> 1

Pixels(hd) == (hd.h * hd.w) \div 8         \* octets of a var_picture
EoLength(hd) == hd.n + IF hd.flag THEN EO_HEADER ELSE 0

(* What the caller's structure can hold.                                    *)
Holdable(hd) ==
  /\ hd.id = "user_def_sound" => hd.n <= SOUND_MAX
  /\ hd.id = "eo" => hd.n <= EO_SEGMENT_MAX
  /\ hd.id = "other" => hd.n <= OTHER_MAX
  /\ hd.id = "var_picture" => Pixels(hd) <= VAR_PIC_MAX

Plausible(total, seq) == total # 0 /\ seq # 0 /\ seq <= total

(* The encoders that write nothing: an implausible concatenation, an        *)
(* extended object that is too long.                                        *)
Dropped(hd) == \/ hd.id \in Concat /\ ~Plausible(hd.total, hd.seq)
               \/ hd.id = "eo" /\ EoLength(hd) % 256 > EO_SEGMENT_MAX

(* Octets the encoder of hd writes after the identifier and the length.     *)
Content(hd) == CASE hd.id = "user_def_sound" -> hd.n + 1
                 [] hd.id = "var_picture"    -> Pixels(hd) + 3
                 [] hd.id = "eo"             -> EoLength(hd)
                 [] hd.id = "other"          -> hd.n
                 [] OTHER                    -> FixedLength(hd)

(* pos of the wms_ts_encode_udh_.. functions at their return.               *)
Written(hd) == IF Dropped(hd) THEN 0 ELSE 2 + Content(hd)

(* The length octet on the wire; it is a uint8.                             *)
Iedl(hd) == Content(hd) % 256

(* Broken variant: the position octet of a small picture or animation  *)
(* and the colour octet of a text format are forgotten.                     *)
BugUdhLength(hd) ==
  CASE hd.id = "text_format" -> 2 + 3
    [] hd.id \in {"small_anim", "small_picture"} -> 2 + 32
    [] hd.id = "var_picture" -> (2 + (Pixels(hd) % 256) + 3) % 256
    [] OTHER -> (2 + Content(hd)) % 256

(* wms_ts_get_udh_length: a uint8, too, and no element counts as dropped.   *)
UdhLength(hd) ==
  (2 + IF hd.id = "var_picture" THEN (Pixels(hd) % 256) + 3 ELSE Content(hd)) % 256

(* Where each of n parts of the sizes d starts, and at n + 1 where the last *)
(* one ends, if the first starts at `first'.                                *)
Offsets(first, d, n) ==
  LET s[k \in 1..n + 1] == IF k = 1 THEN first ELSE s[k - 1] + d[k - 1]
  IN s

-----------------------------------------------------------------------------
(* An element as it arrives: identifier, length octet, and of the octets    *)
(* after it those that are looked at.                                       *)
Wire == [id : Id, iedl : 0..255, w8 : 0..255, h : 0..255, total : 0..255, seq : 0..255]

OnWire(hd) == [id |-> hd.id, iedl |-> Iedl(hd), w8 |-> hd.w \div 8, h |-> hd.h,
               total |-> hd.total, seq |-> hd.seq]

(* The checks of the wms_ts_decode_udh_.. functions.  first is what         *)
(* wms_ts_udh_decode_first_seg_check said.                                  *)
Taken(e, first) ==
  CASE e.id = "concat8"        -> e.iedl >= 3 /\ Plausible(e.total, e.seq)
    [] e.id = "concat16"       -> e.iedl >= 4 /\ Plausible(e.total, e.seq)
    [] e.id \in {"special_sm", "port8", "pre_def_sound"} -> e.iedl >= 2
    [] e.id = "port16"         -> e.iedl >= 4
    [] e.id = "text_format"    -> e.iedl >= 3
    [] e.id = "pre_def_anim"   -> e.iedl = 2
    [] e.id = "user_def_sound" -> e.iedl > 0 /\ e.iedl - 1 <= SOUND_MAX
    [] e.id \in {"large_anim", "large_picture"} -> e.iedl = 129
    [] e.id \in {"small_anim", "small_picture"} -> e.iedl = 33
    [] e.id = "var_picture"    -> e.iedl <= VAR_PIC_MAX + 3 /\ e.iedl = e.w8 * e.h + 3
    [] e.id \in {"user_prompt", "rfc822"} -> e.iedl >= 1
    [] e.id = "eo"             -> e.iedl > 0 /\ (first => e.iedl >= EO_HEADER)
    [] e.id = "other"          -> e.iedl <= OTHER_MAX

(* header_length, counted from the identifier: 0 when the element is        *)
(* refused.  udh[0] + 1 is a uint8, so that a length octet of 255 reads as  *)
(* a refusal.                                                               *)
DecodedLength(e, first) ==
  IF Taken(e, first) /\ (e.iedl + 1) % 256 # 0 THEN 2 + e.iedl ELSE 0

-----------------------------------------------------------------------------
(* A header that its decoder reads back.  Whether it is sent is decided by  *)
(* Dropped; the width of a picture travels in units of eight pixels.        *)
Readable(hd) == /\ Holdable(hd)
                /\ hd.id = "var_picture" => hd.w % 8 = 0
                /\ hd.id = "eo" => hd.n > 0 \/ hd.flag
=============================================================================
