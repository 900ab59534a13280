--------------------------- MODULE MCCdmaMessage ---------------------------
(***************************************************************************)
(* Messages for CdmaMessage: each subparameter and each parameter by       *)
(* itself, at and around its limits, all subparameters at once, texts of   *)
(* every encoding with and without header, and octets of other origin with *)
(* every pair of parameters behind each other.                             *)
(***************************************************************************)
EXTENDS CdmaMessage
LOCAL INSTANCE TLC

Rep(x, n) == [k \in 1..n |-> x]
Upto(n) == [k \in 1..n |-> (37 * k) % 128]

Address(mode, network, digits) ==
  [digit_mode |-> mode, number_mode |-> network, type |-> IF mode = 1 THEN 2 ELSE 0,
   plan |-> IF mode = 1 /\ network = 0 THEN 9 ELSE 0, digits |-> digits]
Plain4 == Address(0, 0, <<1, 10, 15>>)
Tl(teleservice, optional) ==
  [teleservice |-> teleservice, is_mo |-> TRUE, address |-> Plain4, optional |-> optional]
Cmt == Tl(4098, <<>>)

IdOfMessage(u) == ("message_id" :> [type |-> 2, id_number |-> 43981, udh_present |-> u])
Message(tlm, bd) == [kind |-> "message", tl |-> tlm, bd |-> bd]
With(p, v) == Message(Cmt, IdOfMessage(0) @@ (p :> v))

Number(mode, digits) == [digit_mode |-> mode, number_type |-> 5 * mode, number_plan |-> 9 * mode,
                         digits |-> digits]
Category(label, op) ==
  [op_code |-> op, service |-> 31, language |-> 1, max_messages |-> 255, alert |-> 3, label |-> label,
   held |-> 21845]
Wide(label, op) == [Category(label, op) EXCEPT !.service = 4097, !.held = 65535]
Scpt(e, entries) == [encoding |-> e, entries |-> entries]
Result(n) == [k \in 1..n |-> [service |-> 4096 + k, language |-> k, status |-> 2 * k]]

Values ==
  [user_response |-> {0, 255}, mc_time |-> {<<1, 18, 49, 35, 89, 0>>}, validity_absolute |-> {Rep(153, 6)},
   validity_relative |-> {T!DecodeRelative(0), T!DecodeRelative(197)},
   deferred_absolute |-> {Rep(18, 6)}, deferred_relative |-> {T!DecodeRelative(143), T!DecodeRelative(150)},
   priority |-> {0, 3}, privacy |-> {1}, reply_option |-> {<<1, 0, 1>>},
   num_messages |-> {0, 99, 100}, alert_mode |-> {0, 2}, language |-> {6},
   callback |-> {Number(0, Rep(10, 3)), Number(1, Rep(57, 48)), Number(0, <<>>)},
   display_mode |-> {[mode |-> 1, download |-> 0], [mode |-> 3, download |-> 33]},
   scpt_data |-> {Scpt("octet", <<Category(Upto(3), 1)>>), Scpt("ascii", <<Category(Upto(5), 2), Category(<<>>, 0)>>),
                  Scpt("ascii", <<Wide(Upto(7), 1), Category(Upto(2), 2), Category(<<>>, 3), Wide(Upto(1), 4)>>),
                  Scpt("gsm7", <<Category(Upto(1), 1), Category(Upto(4), 2), Wide(Upto(4), 3), Category(<<>>, 4)>>),
                  Scpt("unicode", <<Category(Upto(30), 1), Category(Upto(2), 9), Category(Upto(4), 9)>>)},
   scpt_result |-> {Result(1), Result(5)}, deposit_index |-> {65535}, delivery_status |-> {<<2, 33>>},
   ip_address |-> {<<10, 0, 0, 1, 1>>}, rsn_no_notify |-> {255},
   other |-> {<<200, 2, 7, 8, 99, 0>>, <<16, 1, 5>>}]
One == {With(p, v) : <<p, v>> \in UNION {{p} \X Values[p] : p \in DOMAIN Values}}

Ud(e, num, data, headers) ==
  [encoding |-> e, num |-> num, data |-> data, headers |-> headers, padding |-> 0, type |-> 0]
Is91Data(type, text) == [Ud("is91ep", Len(text), text, <<>>) EXCEPT !.type = type]
Headers == {<<>>, <<<<0, 3, 9, 2, 1>>>>, <<<<0, 3, 9, 2, 1>>, <<4, 2, 7, 8>>>>,
            <<<<112, 4, 1, 2, 3, 4>>>>,
            <<<<112, 1, 5>>, <<112, 2, 5, 6>>, <<112, 3, 1, 2, 3>>>>}
Texts == {Ud("octet", 3, Upto(3), <<>>), Ud("latin", 0, <<>>, <<>>), Ud("unicode", 2, Upto(4), <<>>)}
         \union {Ud("gsm7", n, Upto(n), <<>>) : n \in {0, 1, 7, 8}}
         \union {Ud(e, n, [k \in 1..(7 * n + 7) \div 8 |-> (91 * k) % 256], <<>>) :
                   e \in {"ascii", "ia5"}, n \in {1, 4, 7, 8}}
TextMessage(v, hs) ==
  Message(Cmt, IdOfMessage(IF hs = <<>> THEN 0 ELSE 1) @@ ("user_data" :> [v EXCEPT !.headers = hs])
               @@ ("rsn_no_notify" :> 255))
Text == {TextMessage(v, hs) : v \in Texts, hs \in Headers}
        \union {TextMessage(Ud("octet", n, Rep(255, n), <<>>), <<>>) : n \in {220, 221, 229, 230}}
        \union {TextMessage([Ud("ascii", 5, Upto(5), <<>>) EXCEPT !.padding = 5], <<>>)}

Caller == ("callback" :> [Number(0, <<4, 5, 6>>) EXCEPT !.digit_mode = 0])
Analog ==
  {Message(Cmt, IdOfMessage(0) @@ b) :
     b \in {("user_data" :> Is91Data(CLI_ORDER, <<>>)) @@ Caller,
            ("user_data" :> Is91Data(SHORT_FULL, <<65, 66, 95>>)),
            ("user_data" :> Is91Data(SHORT, Rep(64, 48))), ("user_data" :> Is91Data(SHORT, Rep(64, 49)))}
           \union {("user_data" :> Is91Data(VOICE_MAIL, t)) @@ ("num_messages" :> n) @@ pr :
                     t \in {<<>>, <<65, 32>>, <<33>>}, n \in {7, 42, 100},
                     pr \in {<<>>, ("priority" :> 2), ("priority" :> 1)}}}

Everything ==
  Message(Tl(4100, ("service" :> 7) @@ ("reply" :> 63)
                   @@ ("subaddress" :> [type |-> 1, odd |-> 1, digits |-> <<9, 8>>])),
          IdOfMessage(0) @@ ("user_data" :> Ud("octet", 2, <<1, 2>>, <<>>))
          @@ [p \in DOMAIN Values \ {"num_messages", "deferred_relative"} |-> CHOOSE v \in Values[p] : TRUE]
          @@ ("num_messages" :> 10) @@ ("deferred_relative" :> T!DecodeRelative(9)))

Transports ==
  {Tl(TL!TELESERVICE_BROADCAST, o) : o \in {<<>>, ("service" :> 31)}}
  \union {[Cmt EXCEPT !.address = a, !.is_mo = mo] :
            a \in {Address(0, 1, <<>>), Address(1, 0, Upto(4)), Address(1, 1, Upto(48))},
            mo \in BOOLEAN}
  \union {Tl(4098, ("subaddress" :> [type |-> 3, odd |-> 0, digits |-> Upto(n)]) @@ ("reply" :> 63)) : n \in {1, 48}}
Outside == {Message(t, IdOfMessage(0)) : t \in Transports} \union {Message(Cmt, <<>>)}

Raw(f, d) == [kind |-> "raw", tl |-> Tl(TL!Bare[f], <<>>), format |-> f, raw |-> d]
Bares == {Raw("cli", <<1, 2, 3>>), Raw("cli", <<5>>), Raw("voice_mail", <<2, 3, 1, 40>>), Raw("sms", Rep(33, 49)), Raw("mwi", <<3>>)}

Cause(n, c, s) == [number |-> n, class |-> c, status |-> s]
Ackn(parts) == [kind |-> "ack", tl |-> [type |-> TL!Ack, is_mo |-> FALSE, parts |-> parts]]
Acks == {Ackn("cause" :> c) : c \in {Cause(0, 0, 0), Cause(63, 2, 33), Cause(5, 3, 255)}}
        \union {Ackn(("cause" :> Cause(0, 0, 0)) @@ ("bearer" :> <<>>))}

SentMessages == One \union Text \union Analog \union Outside \union Bares \union Acks \union {Everything}

-----------------------------------------------------------------------------
(* Subparameters of other origin: known twice, unknown, of odd lengths, and *)
(* a text whose header goes on behind it.                                   *)
HeaderOnly == <<1, 6>> \o SubSeq(Pack(<<<<8, 5>>, <<5, 8>>, <<4, 8>>, <<0, 8>>, <<2, 8>>, <<1, 16>>>>), 1, 6)
Pieces == {HeaderOnly, <<0, 3, 18, 52, 80>>, <<0, 3, 18, 52, 88>>, <<0, 2, 1, 2>>, <<1, 4, 8, 16, 171, 205>>,
           <<1, 3, 72, 8, 11>>, <<2, 2, 1, 2>>, <<4, 1, 7>>, <<5, 2, 9, 9>>, <<8, 1, 128>>, <<8, 0>>, <<11, 1, 71>>,
           <<11, 1, 170>>, <<14, 2, 1, 17>>, <<200, 1, 5>>, <<99, 0>>, <<20>>}
Foreign == {a \o b \o c : a \in Pieces, b \in Pieces \union {<<>>}, c \in {<<>>, <<1, 2, 64, 0>>, <<0, 3, 18, 52, 88>>}}
           \union {a \o b \o c : a \in {<<200, 1, 5>>, <<8, 1, 128>>}, b \in {<<8, 1, 64>>, <<99, 0>>},
                                 c \in {<<201, 2, 1, 1>>, <<8, 1, 192>>, <<200, 9, 0>>}}
Ota(parts) == <<0, 2, 2, 0, 32>> \o parts
WithBearer(b) == Ota(<<8, Len(b)>> \o b)

TlPieces == {<<0, 2, 16, 2>>, <<0, 2, 16, 3>>, <<0, 1, 16>>, <<1, 2, 0, 9>>, <<2, 2, 0, 64>>, <<4, 3, 0, 72, 192>>, <<3, 2, 0, 0>>,
             <<3, 1, 0>>, <<6, 1, 255>>, <<6, 2, 0, 0>>, <<7, 1, 8>>, <<7, 1, 9>>, <<7, 2, 9, 33>>, <<8, 0>>, <<8, 2, 99, 0>>,
             <<9, 1, 1>>, <<2>>}
ForeignTl == {<<type>> \o a \o b : type \in 0..3, a \in TlPieces, b \in TlPieces \union {<<>>}}

Foreigners == {[format |-> "cdma", data |-> d] : d \in {WithBearer(b) : b \in Foreign} \union ForeignTl \union {<<>>, <<0>>}}
              \union {[format |-> f, data |-> d] : f \in {"cli", "awisms"}, d \in {<<1, 2>>, <<0, 8, 1, 7>>}}
=============================================================================
