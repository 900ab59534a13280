------------------------------- MODULE MCTpdu -------------------------------
(***************************************************************************)
(* Tpdu for TLC: a good message of every type, and its variations, one at  *)
(* a time: masks, addresses of every type and at their limits, every       *)
(* coding scheme, return calls, times, user data, command data.            *)
(***************************************************************************)
EXTENDS Tpdu

International(n) == [type |-> 1, plan |-> 1, digits |-> [k \in 1..n |-> (7 * k) % 16]]
Name(n) == [type |-> ALPHANUMERIC, plan |-> 0, digits |-> [k \in 1..n |-> (45 * k) % 128]]

Plain(k) == [kind |-> k, mask |-> 7, address |-> International(11), pid |-> 0,
             dcs |-> MakeScheme(NO_CLASS, "none", "seven_bit", FALSE, NoIndication),
             timed |-> TRUE, validity |-> "none", length |-> 140, command_data_len |-> 0]
Coded(k, a) == [Plain(k) EXCEPT !.dcs = MakeScheme(NO_CLASS, "none", a, FALSE, NoIndication)]

Masks == {[Plain(k) EXCEPT !.mask = m] : k \in Masked, m \in {0, 2, 5, 7}}
         \union {[Plain("status_report") EXCEPT !.mask = 255]}

Addresses ==
  {[Plain(k) EXCEPT !.address = a] : k \in {"deliver", "submit", "status_report", "command"},
     a \in {International(20), International(21), Name(11), Name(12)}}
  \union {[Plain("deliver") EXCEPT !.address = a] :
            a \in {International(0), International(1), Name(0), Name(1), Name(7), Name(8), Name(20), Name(21)}}
  \union {[Plain("submit") EXCEPT !.address.type = t, !.address.plan = 15 - t] :
            t \in (0..7) \ {ALPHANUMERIC}}

(* Every scheme an octet stands for where no indication is left, and some   *)
(* that none does.                                                          *)
Schemes == {[Plain("deliver") EXCEPT !.dcs = s] :
              s \in {DecodeDcs(o, NoIndication) : o \in 0..255}
                    \union {MakeScheme(NO_CLASS, w, a, FALSE, NoIndication) :
                              a \in Alphabet, w \in {"discard", "store", "none_1111"}}}

(* Return calls that announce something, or nothing; and one that is no     *)
(* TP-DELIVER.                                                              *)
ReturnCalls ==
  {[Plain("deliver") EXCEPT !.pid = RETURN_CALL, !.dcs = DecodeDcs(o, <<TRUE, 2>>)] :
     o \in {0, 4, 64, 192, 194, 208, 217, 232, 234, 241}}
  \union {[Plain("submit") EXCEPT !.pid = RETURN_CALL]}

Times == {[Plain(k) EXCEPT !.timed = FALSE] : k \in Kind}
         \union {[Plain("submit") EXCEPT !.timed = t, !.validity = v] :
                   t \in BOOLEAN, v \in {"relative", "absolute", "enhanced", "beyond"}}

Texts == {[Coded(k, "ucs2") EXCEPT !.length = n] : k \in Kind \ {"command"}, n \in {140, 141}}

Commands == {[Plain("command") EXCEPT !.address = International(20), !.command_data_len = n] :
               n \in {1, 157, 158, 255}}

MCMessage == {Coded(k, a) : k \in Kind, a \in Alphabet} \union Masks \union Addresses \union Schemes \union Times
             \union Texts \union Commands \union ReturnCalls

(* One of voice mail and one of another kind.                               *)
MCLeftover == {Remnant("eight_bit", <<FALSE, VOICEMAIL>>), Remnant("ucs2", <<TRUE, 3>>)}
=============================================================================
