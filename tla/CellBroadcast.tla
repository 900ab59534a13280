--------------------------- MODULE CellBroadcast ---------------------------
(***************************************************************************)
(* wms_ts_encode_gw_cb and wms_ts_decode_gw_cb: a page of a GSM cell       *)
(* broadcast between the client's structure and the 88 octets of a page,   *)
(* encoded, decoded, and encoded again by a client that passes it on.      *)
(*                                                                         *)
(* The body of a page is a sequence of septets when its coding scheme says *)
(* 7-bit and of octets otherwise: how septets lie in octets is Septets.    *)
(* What is here is how many there are.                                     *)
(***************************************************************************)
EXTENDS Integers, Sequences, SequencesExt

CONSTANTS Sent,       \* pages clients encode
          Arriving,   \* pages the network sends
          Unset       \* what an octet that nobody wrote may hold

HEADER_LEN == 6
PAGE_SIZE == 88
PAGE_TEXT_MAX == 93     \* WMS_GW_CB_MAX_PAGE_USER_DATA_LEN
MAX_LEN == 255
CR == 13

Octet == 0..255
UINT16_MAX == 65535
UInt16 == 0..UINT16_MAX
Alphabet == [SEVEN_BIT |-> 0, EIGHT_BIT |-> 1, UCS2 |-> 2]
NONE == 4               \* WMS_MESSAGE_CLASS_NONE
UNSPECIFIED == 15
ISO_639 == 16
NoLanguage == <<0, 0, 0>>

VARIABLES page,       \* wms_gw_cb_ts_data_s_type
          raw,        \* wms_raw_ts_data_s_type
          at,         \* "structure", "wire", "refused"
          sent,       \* raw comes from the encoder
          heard       \* page comes from the decoder

vars == <<page, raw, at, sent, heard>>

-----------------------------------------------------------------------------
(* ---- wms_ts_decode_gw_cb_dcs -------------------------------------------*)
(* Group 1 has two members.                                                 *)
DcsGroup(d) == CASE d \div 16 \in {0, 2, 3, 4, 5, 6, 7, 15} \/ d \in {16, 17} -> "defined"
                 [] d \div 16 = 14 -> "wap"
                 [] OTHER -> "reserved"

(* The fourth alphabet is the default one.                                  *)
DcsAlphabet(d) ==
  CASE d = 17 -> Alphabet.UCS2
    [] d \div 16 \in 4..7 /\ (d \div 4) % 4 # 3 -> (d \div 4) % 4
    [] d \div 16 = 15 -> (d \div 4) % 2
    [] OTHER -> Alphabet.SEVEN_BIT

DcsClass(d) == CASE d \div 16 \in {5, 7} -> d % 4
                 [] d \div 16 = 15 /\ d % 4 # 0 -> d % 4
                 [] OTHER -> NONE

DcsLanguage(d) == CASE d \div 16 \in {0, 2, 3} -> d
                    [] d \in {16, 17} -> ISO_639
                    [] OTHER -> UNSPECIFIED

(* The language is the first two septets of the body, in whatever alphabet  *)
(* the rest of it is.  BugDcsIsoLanguage forgets a mask.                    *)
BugDcsIsoLanguage(d, body) ==
  CASE d = 16 -> <<body[1], body[2], CR>>
    [] d = 17 -> <<body[1] % 128, body[1] \div 128 + body[2] * 2, CR>>
    [] OTHER -> NoLanguage

DcsIsoLanguage(d, body) ==
  CASE d = 16 -> <<body[1], body[2], CR>>
    [] d = 17 -> <<body[1] % 128, body[1] \div 128 + (body[2] % 64) * 2, CR>>
    [] OTHER -> NoLanguage

Dcs(d, body) ==
  [group |-> DcsGroup(d), msg_class |-> DcsClass(d),
   is_compressed |-> d \div 16 \in {6, 7}, alphabet |-> DcsAlphabet(d),
   language |-> DcsLanguage(d), iso_639_lang |-> DcsIsoLanguage(d, body), raw_dcs_data |-> d]

-----------------------------------------------------------------------------
(* ---- the page header ---------------------------------------------------*)
SerialNumber(n) == [geo_scope |-> n \div 16384, message_code |-> (n \div 16) % 1024,
                    update_number |-> n % 16, raw_serial_number |-> n]

(* A page number or a total of 0 makes the page the only one.               *)
PageNumbers(r) == IF r.page_number = 0 \/ r.total_pages = 0 THEN <<1, 1>>
                  ELSE <<r.page_number, r.total_pages>>

-----------------------------------------------------------------------------
(* ---- the body ----------------------------------------------------------*)
SevenBit(p) == p.dcs.alphabet = Alphabet.SEVEN_BIT
HasLanguage(p) == p.dcs.language = ISO_639

(* Octets that hold n septets, and septets that lie in n octets: when the   *)
(* last octet has seven bits to spare, one more than were put in.           *)
(* BugSeptetsIn divides the wrong way round.                                *)
OctetsFor(n) == (7 * n + 7) \div 8
BugSeptetsIn(n) == (7 * n) \div 8
SeptetsIn(n) == (8 * n) \div 7
BodyOf(s) == s \o [i \in 1..(SeptetsIn(OctetsFor(Len(s))) - Len(s)) |-> 0]

(* gw_user_data: the language, with its CR, and the text (BugSeptets7: no   *)
(* CR).                                                                     *)
BugSeptets7(p) == IF HasLanguage(p) THEN SubSeq(p.dcs.iso_639_lang, 1, 2) \o p.text ELSE p.text
Septets7(p) == IF HasLanguage(p) THEN p.dcs.iso_639_lang \o p.text ELSE p.text

Header(p) == [raw_serial_number |-> p.serial.raw_serial_number, cb_srv_id |-> p.cb_srv_id,
              raw_dcs_data |-> p.dcs.raw_dcs_data,
              page_number |-> p.page_number % 16, total_pages |-> p.total_pages % 16]

-----------------------------------------------------------------------------
(* ---- wms_ts_encode_gw_cb -----------------------------------------------*)
(* A text that fills gw_user_data is left out.                              *)
Encoded7Bit(p) ==
  LET s == IF Len(Septets7(p)) < MAX_LEN THEN Septets7(p) ELSE <<>>
  IN [header |-> Header(p), body |-> BodyOf(s), len |-> HEADER_LEN + OctetsFor(Len(s))]

EncodedOctets(p) ==
  [header |-> Header(p), body |-> p.text, len |-> HEADER_LEN + Len(p.text)]

(* Two octets of the language are copied to data, not to data + len: they   *)
(* become the serial number, and the body begins with two octets that are   *)
(* not written.                                                             *)
EncodeOctetsWithLanguage ==
  /\ HasLanguage(page)
  /\ LET lang == page.dcs.iso_639_lang
     IN \E a, b \in Unset :
          raw' = [header |-> [Header(page) EXCEPT !.raw_serial_number = lang[1] * 256 + lang[2]],
                  body |-> <<a, b>> \o page.text,
                  len |-> HEADER_LEN + 2 + Len(page.text)]

Encode == /\ at = "structure"
          /\ \/ SevenBit(page) /\ raw' = Encoded7Bit(page)
             \/ ~SevenBit(page) /\ ~HasLanguage(page) /\ raw' = EncodedOctets(page)
             \/ ~SevenBit(page) /\ EncodeOctetsWithLanguage
          /\ at' = "wire" /\ sent' = TRUE
          /\ UNCHANGED <<page, heard>>

-----------------------------------------------------------------------------
(* ---- wms_ts_decode_gw_cb -----------------------------------------------*)
Acceptable(r) == /\ r.len <= PAGE_SIZE
                 /\ PageNumbers(r.header)[1] <= PageNumbers(r.header)[2]

(* Two septets of language are left out, not three.                         *)
BugText(d, r) == LET octets == r.len - HEADER_LEN
                     count == IF d.alphabet = Alphabet.SEVEN_BIT THEN SeptetsIn(octets) ELSE octets
                 IN SubSeq(r.body, IF d.language = ISO_639 THEN 3 ELSE 1, count)

(* The number of septets comes from the number of octets; the comparison    *)
(* with PAGE_TEXT_MAX is of octets, which are never that many here.         *)
Text(d, r) ==
  LET octets == r.len - HEADER_LEN
      skip == IF d.language # ISO_639 THEN 0
              ELSE IF d.alphabet = Alphabet.SEVEN_BIT THEN 3 ELSE 2
      count == IF d.alphabet = Alphabet.SEVEN_BIT THEN SeptetsIn(octets) ELSE octets
  IN SubSeq(r.body, skip + 1, count)

Decoded(r) ==
  LET d == Dcs(r.header.raw_dcs_data, r.body)
  IN [serial |-> SerialNumber(r.header.raw_serial_number), cb_srv_id |-> r.header.cb_srv_id,
      dcs |-> d, page_number |-> PageNumbers(r.header)[1],
      total_pages |-> PageNumbers(r.header)[2], text |-> Text(d, r)]

Decode == /\ at = "wire" /\ Acceptable(raw)
          /\ DcsAlphabet(raw.header.raw_dcs_data) = Alphabet.SEVEN_BIT
               => raw.len - HEADER_LEN <= PAGE_TEXT_MAX
          /\ page' = Decoded(raw)
          /\ at' = "structure" /\ heard' = TRUE
          /\ UNCHANGED <<raw, sent>>

(* WMS_INVALID_CB_DATA_S                                                    *)
Refuse == /\ at = "wire" /\ ~Acceptable(raw)
          /\ at' = "refused"
          /\ UNCHANGED <<page, raw, sent, heard>>

-----------------------------------------------------------------------------
Blank == [serial |-> SerialNumber(0), cb_srv_id |-> 0, dcs |-> Dcs(0, <<>>),
          page_number |-> 1, total_pages |-> 1, text |-> <<>>]
BlankRaw == [header |-> Header(Blank), body |-> <<>>, len |-> HEADER_LEN]

Init == /\ \/ page \in Sent /\ raw = BlankRaw /\ at = "structure"
           \/ raw \in Arriving /\ page = Blank /\ at = "wire"
        /\ sent = FALSE /\ heard = FALSE

Next == Encode \/ Decode \/ Refuse

Spec == Init /\ [][Next]_vars

-----------------------------------------------------------------------------
(* ---- what a page is ----------------------------------------------------*)
HeaderType == [raw_serial_number : UInt16, cb_srv_id : UInt16, raw_dcs_data : Octet,
               page_number : 0..15, total_pages : 0..15]
DcsType == [group : {"defined", "wap", "reserved"}, msg_class : 0..NONE,
            is_compressed : BOOLEAN, alphabet : 0..2, language : Octet,
            iso_639_lang : [1..3 -> 0..127], raw_dcs_data : Octet]
SerialType == [geo_scope : 0..3, message_code : 0..1023, update_number : 0..15,
               raw_serial_number : UInt16]

PageType == [serial : SerialType, cb_srv_id : UInt16, dcs : DcsType,
             page_number : Octet, total_pages : Octet, text : Seq(Octet)]
RawType == [header : HeaderType, body : Seq(Octet), len : UInt16]

(* A client says the same thing in the octet and in the decoded fields.     *)
ClientPage(p) ==
  /\ p \in PageType
  /\ p.dcs = [Dcs(p.dcs.raw_dcs_data, <<0, 0>>) EXCEPT !.iso_639_lang = p.dcs.iso_639_lang]
  /\ p.serial = SerialNumber(p.serial.raw_serial_number)
  /\ p.text \in Seq(IF SevenBit(p) THEN 0..127 ELSE Octet)
  /\ IF HasLanguage(p) THEN p.dcs.iso_639_lang[3] = CR ELSE p.dcs.iso_639_lang = NoLanguage

(* Beyond these lengths the encoder writes outside its buffers.             *)
InBuffers(p) == IF SevenBit(p) THEN Len(p.text) <= MAX_LEN - IF HasLanguage(p) THEN 4 ELSE 0
                ELSE Len(p.text) <= MAX_LEN - HEADER_LEN - 2

ASSUME SentAssumption == \A p \in Sent : ClientPage(p) /\ InBuffers(p)

(* A page of the network has a body, with its language if it has one.       *)
NetworkPage(r) ==
  /\ r \in RawType /\ r.len \in (HEADER_LEN + 3)..MAX_LEN
  /\ LET octets == r.len - HEADER_LEN
     IN IF DcsAlphabet(r.header.raw_dcs_data) = Alphabet.SEVEN_BIT
        THEN r.body \in Seq(0..127) /\ Len(r.body) = SeptetsIn(octets)
        ELSE Len(r.body) = octets

ASSUME ArrivingAssumption == \A r \in Arriving : NetworkPage(r)
ASSUME UnsetAssumption == Unset \subseteq Octet /\ Unset # {}

-----------------------------------------------------------------------------
TypeOK == /\ page \in PageType /\ raw \in RawType
          /\ at \in {"structure", "wire", "refused"}
          /\ sent \in BOOLEAN /\ heard \in BOOLEAN

(* In its alphabet, the language has a place of its own.                    *)
InPlace(p) == SevenBit(p) \/ ~HasLanguage(p)
BodyLen(p) == IF SevenBit(p) THEN OctetsFor(Len(Septets7(p))) ELSE Len(p.text)
Numbered(p) == 1 <= p.page_number /\ p.page_number <= p.total_pages /\ p.total_pages <= 15
Fits(p) == BodyLen(p) <= PAGE_SIZE - HEADER_LEN

(* A numbered page whose text and language fit into the 82 octets of a body *)
(* is accepted and read as it was written, but for one septet 0 at the end  *)
(* of a text that leaves seven bits to spare.                               *)
PageArrives ==
  [][at = "wire" /\ sent /\ InPlace(page) /\ Fits(page) /\ Numbered(page)
     => /\ at' = "structure"
        /\ [page' EXCEPT !.text = page.text] = page
        /\ page'.text # page.text => /\ SevenBit(page) /\ Len(Septets7(page)) % 8 = 7
                                     /\ page'.text = Append(page.text, 0)]_vars

(* A text that does not fit is never delivered in part: the page is refused *)
(* (a 7-bit text of 255 characters is the one that is left out instead).    *)
NeverInPart ==
  [][at = "wire" /\ sent /\ InPlace(page) /\ at' = "structure" /\ Len(page.text) < MAX_LEN
     => IsPrefix(page.text, page'.text)]_vars

(* A page that was received and is passed on is the same page: its length,  *)
(* body and header do not drift, except for the numbers of a page that had  *)
(* none and the septet behind a language, which becomes a CR.               *)
RelayKeepsPage ==
  [][at = "structure" /\ heard /\ InPlace(page)
     => /\ raw'.len = raw.len
        /\ raw'.body = IF HasLanguage(page) THEN [raw.body EXCEPT ![3] = CR] ELSE raw.body
        /\ <<raw'.header.page_number, raw'.header.total_pages>> = PageNumbers(raw.header)
        /\ [raw'.header EXCEPT !.page_number = raw.header.page_number,
                               !.total_pages = raw.header.total_pages] = raw.header]_vars

(* "First 3 characters of user data are Language" and "First 2 characters   *)
(* of user data are Language" (wmsts.c:2304 and 2329).                      *)
LanguageLeads ==
  at = "wire" /\ sent /\ HasLanguage(page)
    => LET n == IF SevenBit(page) THEN 3 ELSE 2
       IN SubSeq(raw.body, 1, n) = SubSeq(page.dcs.iso_639_lang, 1, n)
=============================================================================
