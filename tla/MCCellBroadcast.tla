-------------------------- MODULE MCCellBroadcast --------------------------
(* CellBroadcast for TLC: every coding scheme, texts around the capacity of *)
(* a page (82 octets, 93 septets) and of gw_user_data, page numbers in and  *)
(* out of range.  A text is the letters from A on, so that a shift shows.   *)
EXTENDS CellBroadcast

Letters(n) == [i \in 1..n |-> 65 + (i % 26)]
Lang == <<69, 78, CR>>

(* Octets 16 and 17 have a language. *)
MCDcs(d) == [Dcs(d, <<0, 0>>) EXCEPT !.iso_639_lang = IF d \in {16, 17} THEN Lang ELSE NoLanguage]

Page(d, n, number, total) ==
  [serial |-> SerialNumber(40961), cb_srv_id |-> 4370, dcs |-> MCDcs(d),
   page_number |-> number, total_pages |-> total, text |-> Letters(n)]

Lengths == (0..17) \union (80..96) \union {246, 247, 250, 251, 254, 255}

Allowed(P) == {p \in P : InBuffers(p)}
MCSent == Allowed({Page(d, n, 1, 1) : d \in {0, 16, 17, 68, 76, 245}, n \in Lengths})
          \union {Page(d, 5, 2, 3) : d \in Octet}
          \union {Page(0, 5, i, t) : i \in 0..17, t \in 0..17}

Received(d, octets, number, total) ==
  [header |-> [raw_serial_number |-> 21845, cb_srv_id |-> 50, raw_dcs_data |-> d,
               page_number |-> number, total_pages |-> total],
   body |-> Letters(IF DcsAlphabet(d) = Alphabet.SEVEN_BIT THEN SeptetsIn(octets) ELSE octets),
   len |-> HEADER_LEN + octets]

MCArriving == {Received(d, n, 1, 1) : d \in {1, 16, 17, 72}, n \in (3..17) \union (80..84)}
              \union {Received(d, 82, 0, 2) : d \in Octet}
              \union {Received(1, 82, i, t) : i \in 0..15, t \in 0..15}
=============================================================================
