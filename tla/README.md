# Verification of the SMS codec of sms_ts

This directory specifies, checks and proves what the SMS transport-service codec
under `src/` does. The specifications are written in TLA+, checked with TLC on
small instances and, where it matters most, proved with TLAPS for every value of
the constants. Line numbers below are those of `src/sms/wmsts/wmsts.c` unless
another file is named.

## 1. The system

The repository is a C library (no README worth the name, no tests; the comments
and the declarations in `wmsts.h` are all the documentation there is). Its core
is `wmsts.c`: it turns a client structure into the octets of a short message and
back. Around it lie a CDMA counterpart, a second and much smaller codec, and the
beginnings of a program interface.

| part | code | state it keeps | operations |
|---|---|---|---|
| entry points | 2363-2471, 4868-4979 | `wmsts_mutex`, and the statics it guards: `const_header`, `gw_user_data`, `raw_ts` and `cdma_user_data` (`wmstscdma.c`) | `wms_ts_encode`, `wms_ts_decode`; about thirty functions `wmsts.h` exports besides take no lock |
| 7-bit packing | 327-465 | locals of two loops | pack, unpack |
| user-data header (UDH) | 693-1210, 2761-3663, 5305-5505 | `const_header` | one encoder and one decoder for each information element, two loops, the length computation |
| user data | 1228-1318, 3682-3786, 5524-5551 | none | capacity check, encode, decode |
| validity and time | 103-145, 569-690, 1337-1374, 2622-2758, 3805-3850, 4982-5110 | none | encode and decode of timestamps, relative time, validity |
| TPDUs | 1393-2240, 3870-4754 | the caller's raw structure and client union, which live on between calls | eight encoders, eight decoders |
| addresses, coding schemes | 165-309, 483-550, 2489-2604 | none | encode, decode |
| cell broadcast | 2242-2344, 4757-4849, 5112-5286 | `gw_user_data` | encode, decode, page header, coding scheme |
| CDMA | `wmstscdma.c` | `raw_ts`, `cdma_user_data`, IS-91 buffers, `ota_data`, `tl_msg` | bearer data, transport-layer parameters |
| bit fields | `bit.c` | none | pack, unpack |
| stand-alone codec | `sms_coding.c`, `dcs_convert.c` | none | a submit encoder, a deliver decoder, a second 7-bit conversion |
| program interface | `sms_core.c`, `sms_ts.c` | none | unfinished: it calls functions that do not exist |

How they interact: any thread may call the entry points. These take the mutex,
go by the format, and call one TPDU (or cell-broadcast, or bearer-data) function;
that one calls the field functions in the order of the octets and adds up the
lengths they return; user data calls the header functions and the packer. Shared
state is reached through file statics rather than arguments, which is why the
lock matters. Nothing is persisted, nothing is sent, there are no callbacks and
no timers: there is nothing to crash in the middle of, lose or retry.

What is hard: calls that interleave, some of which take no lock; buffers that
carry what an earlier call left there; loops over bits, and lengths counted in
octets here, septets there, in variables of 8 bits; decoders that follow lengths
found in the message; encoders and decoders of the same thing written apart; one
field of many failing. `PROJECT.json` lists these hazards with their lines and the
properties aimed at each.

What makes each part correct:

* entry points: a reply depends on the arguments of its own call alone; a call
  that is made returns;
* packing: every bit is where the alphabet's definition puts it, none beyond the
  octets produced is looked at, unpacking undoes packing;
* header: what is reported tiles the header, all of it or nothing;
* user data: what passes the capacity check fits with its fill bits, the length
  octet is exact, the text arrives;
* validity: what arrives can be sent on, and relaying never lengthens it;
* TPDU: every field is read where it was written, in the alphabet of its message;
* cell broadcast: a page arrives whole or is refused, and passing it on keeps it;
* CDMA: a message arrives as it was sent, and octets of whatever origin are read
  from parameter to parameter, without going back, without overwriting what was
  taken, within the memory the client gave, and to an end.

## 2. The modules

| module | models | its state |
|---|---|---|
| `TsService` | what callers are promised: a call returns the answer to its job | `request`, `reply` |
| `WmsTs` | entry points, lock, four statics, every kind of call, the unlocked exports | the mutex, the statics, per thread its position, arguments, loop variable, selected id, output and reply |
| `Septets` | the two loops over octets and characters | cursors `pos`, `i`, `shift`; the set of bits laid down and the set taken |
| `UdhElements` | the layout of an information element: lengths on both sides | none (operators) |
| `UserDataHeader` | the decoding loop and the first-segment check | `pos`, the elements reported, the result |
| `UserData` | capacity check, encoder with its header loop, decoder (which is `UserDataHeader`, instantiated) | the lengths computed, position, wire, length octet, fill bits, the receiver's copy |
| `Times` | BCD digits, timestamps, relative time | none (operators) |
| `Validity` | the four formats, over several hops | the structure and the octets, turn by turn |
| `BitFields` | `b_packb` and its kin, 7-bit characters in octets | none (operators) |
| `Address` | an address of a TPDU, octet by octet | none (operators) |
| `Dcs` | the coding scheme of a TPDU, group by group | none (operators) |
| `Tpdu` | the eight TPDUs field by field, with their addresses and coding schemes | raw structure, position, status, client structure and its union |
| `CellBroadcast` | a page, its header and coding scheme, between structure and wire | the structure and the raw page, turn by turn |
| `BearerData` | every subparameter of CDMA bearer data but one: the fields written and the fields read | none (operators) |
| `CdmaUserData` | that one: text in ten encodings, with and without header, and the messages of IS-91 | none (operators) |
| `TransportLayer` | the transport-layer parameters and the client's message they are converted from and to | none (operators) |
| `ParameterReader` | what a reader of parameters promises | the octets, position, what was taken, whether it still reads |
| `CdmaMessage` | a CDMA message from client to client, and octets of other origin: the two encoders, the two decoding loops, the second pass | where the message is, both octet arrays, position, both client structures, the memory for nameless subparameters |
| `WmsTsProofs`, `SeptetsProofs`, `UserDataHeaderProofs`, `UserDataProofs`, `ValidityProofs`, `TpduProofs`, `CellBroadcastProofs`, `CdmaMessageProofs` | theorems about the module of the same name | |
| `MC...` | what TLC puts for the constants | |

`UserData` composes `UserDataHeader` and `UdhElements`; `Validity` and `BearerData`
share `Times`, `Address` and the CDMA modules share `BitFields`; `Tpdu` is built on
`Address` and `Dcs`, `CdmaMessage` on `BearerData`, `CdmaUserData` and
`TransportLayer`. `WmsTs` refines `TsService`, and each of the two loops of
`CdmaMessage` refines `ParameterReader` under a mapping of its own. `Tpdu` takes user
data and times as fields of known length, which is what `UserData` and `Validity`
establish of them.

Correspondence to the code. An action is a function, or a turn of its loop, or
in `WmsTs` one access to a static. Names are those of the code where they can be:
`const_header`, `fill`, `udl`, `mutex`, `pos`. `map` in `PROJECT.json` gives the
lines of every definition. Definitions whose name begins with `Bug` are broken
variants of the definition that follows them, each a mistake one could make in
the code; they occur in no specification and serve to show that the property
named with them in `PROJECT.json` notices.

What each abstracts:

* `WmsTs`: an information element is its kind, whether a concatenation check
  passes, and a body; a text is a value. Every read and write of a static that
  another call could come between is a step of its own; the work on locals is
  not.
* `Septets`: octets are sets of bits with the character and bit they came from,
  so that a bit lost, doubled or misplaced is seen whatever the text says. Shifts
  by a whole octet are as in the code.
* `UdhElements`, `UserDataHeader`: an element is its kind and the numbers lengths
  are computed from (length octet, picture sizes, concatenation total and
  sequence number). Contents are not. Positions are the code's `uint8`.
* `UserData`: text is a length; where it starts and by which shift it is read
  decide whether it arrives. Lengths are `uint8` or `uint16` as in the code.
* `Times`, `Validity`: all fields and octets as numbers, arithmetic of 8 and 32 bits.
* `Address`, `Dcs`: nothing; every octet.
* `Tpdu`: addresses, protocol identifiers and coding schemes are octets, written and
  read; any other field is its name and its number of octets; `pos` in 8 bits. Of the
  client's union the model keeps which member was filled last and, of its coding scheme,
  what a decoder may leave alone: the alphabet and the indication. A message of the same
  type finds those; a message of another type finds what the earlier member has at that
  place, which is any element of the constant `Leftover`. When a decoder looks
  for a field where something else is, the model stops ("garbled"): what it would
  make of those octets is not followed.
* `CellBroadcast`: a body is a sequence of septets or of octets, as its coding
  scheme says; how septets lie in octets is `Septets`, how many there are is
  here. `gw_user_data` needs no variable: `WmsTs` shows that a call sees its own.
* `BearerData`, `CdmaUserData`, `TransportLayer`, `CdmaMessage`: subparameters and
  parameters bit for bit. An element of a header is the octets it takes on the wire,
  since `UdhElements` has its layout. A refusal is one whatever its status.
  `cdma_user_data` and `raw_ts` need no variable, for the reason given above.
  What is read behind the end of a message is 0: the arrays were cleared before.

Assumptions, all about callers: pointers are not NULL; `user_data_header_present`
agrees with `num_headers`; `*num_headers_ptr` is 0 when the header decoder is
called; the content of an extended object is no longer than its array (131);
elements are short enough for `pos` of the first-segment check not to wrap; the
digits of a number are digits, four bits each; a page of a cell broadcast has at
least 9 octets and a text that stays in the buffers (`InBuffers`), since with others
the code computes wrapped lengths. `raw_ts_len` is written and never read, and is
left out.

## 3. What TLC checks

Each passing run ends without error; the last column is the number of distinct
states.

| run | question | bounds, and why they suffice | states |
|---|---|---|---|
| `wmsts` | do locked calls keep out of each other's data, and return? | 2 threads, 7 jobs: TPDU with three headers of which one is dropped and one is beyond the limit, pages with and without a language, bearer data both ways, an unknown format. Interference takes two; each static is used by two jobs or left dirty by one | 297,632 |
| `wmsts_unlocked` | is an unlocked export safe beside them? No | one thread of the two without the lock, sharing `const_header` | violation |
| `septets` | are the loops right? | 0 to 17 characters (two turns of the shift and more), 0 to 6 fill bits, a buffer that suffices and one that ends inside | 4,299 |
| `udh` | are exactly the well-formed headers accepted? | 3 elements instead of 7 out of 12 that reach every branch, header lengths 0..22 and 255, a buffer of 20 octets, so that table, buffer and `uint8` all come to their limits | 158,690 |
| `userdata` | does what is accepted fit and arrive? | all texts around the limits, up to 2 headers, which is one behind another, both alphabets | 122,832 |
| `validity` | is time kept over several hops? | all 256 octets of relative time, every minute of a day and periods up to and over the last unit, timestamps with every field at and beyond its limits | 38,722 |
| `validity_roundsup` | is a period rounded up, as announced? No | the same | violation |
| `tpdu` | is every field read as written? | a good message of each type and its variations one at a time, in any order, again and again, through the same structures: all 256 coding schemes and some that no octet stands for, return calls with indications of both kinds and with none, numbers and names around their limits and of every type, masks, validities, command data and lengths; two remnants of other union members (an indication of voice mail and one that is not, two alphabets), which is all the code tells apart | 1,128,457 |
| `tpdu_statusreport` | is a status report told from a TP-DELIVER? No | the same | violation |
| `cellbroadcast` | does a page arrive whole or not at all, and stay the same when passed on? | all 256 coding schemes; texts of 0 to 17, 80 to 96 and 246 to 255 characters, around an octet boundary, the page and the buffer; all page numbers of 4 bits and two beyond | 8,932 |
| `cellbroadcast_language` | do the user data begin with the language? No | the same | violation |
| `cdma` | does a message arrive as sent, and is any other read safely? | each subparameter and parameter alone at and around its limits, one message with all of them, texts of every encoding with 0 to 3 headers, IS-91 messages of each type, the bare formats, acknowledgements; of other origin every pair and some triples of 17 subparameters, and every pair of 17 parameters, that repeat, lie about their length, are cut off or have no name, under every message type; service category programs whose entries begin at and inside octets | 32,144 |

Properties and what would break them are at their definitions. In short:

* `WmsTs`: `StaticsHoldOwn`, what each static holds at every point of a call;
  `ReplyIsOwn`; `ImplementsService`, refinement of `TsService` including its liveness,
  so that every call returns.
* `Septets`: `PackedIsStream` and `TakenFromStream` against the alphabet's
  definition; `RoundTrip`, which includes that the unpacker looks at no octet behind
  the packed ones; `Terminates`.
* `UserDataHeader`: `AcceptedIsTiled`, `AllOrNothing`, `AcceptsWellformed`
  (against a definition without a loop), `FirstSegmentKnown`.
* `UserData`: `LengthCovers`, `WithinCapacity`, `UdlCountsOctets`,
  `RefusalIsNeeded`, `MessageArrives`.
* `Validity`: `AbsoluteKept`, `AlwaysForwardable`, `RelayNeverLengthens`,
  `GrantsLeast` (against a search over all octets).
* `Tpdu`: `LengthIsExact`, `OkIsWhole`, `ReadAsWritten` (fields, addresses, protocol
  identifiers, and of coding schemes what `SchemeArrives` says: everything but stale
  indications and what the decoder makes of a return call), `TextInItsAlphabet`.
* `CellBroadcast`: `PageArrives`, `NeverInPart`, `RelayKeepsPage`.
* `CdmaMessage`: `ReceivedAsSent`, `OthersArriveWhole`; `ReadsTransport` and
  `ReadsBearer`, refinement of `ParameterReader`; `ReadingEnds`.

Deadlock is checked where a system goes on for ever (`WmsTs`, `Tpdu`); the other
specifications stop when their function returns.

Fairness. `WmsTs`: weak fairness of a thread's steps inside a call, since a
thread that can run is run, and strong fairness of taking the lock, since the
mutex is free again and again and the scheduler does not pass one waiter over for
ever. Nobody has to call. `Septets`: weak fairness of the next step of a sequential
function. `CdmaMessage`: weak fairness of the codec's steps, again those of a
sequential function, with ENABLED written out as a state predicate (`Busy`,
`MovesOn`); nobody has to send. The others have no liveness property and no fairness.

## 4. Disagreements found

Each is a run that TLC ends with a counterexample, and a finding in `PROJECT.json`.

* `wms_ts_encode_user_data_header` is exported as having no side effects and
  takes no lock, yet stores `const_header` (1130): beside `wms_ts_encode`, one
  message gets an element of the other.
* Relative validity between 12 and 24 hours (5094) subtracts 29 minutes where it
  should add them: the period is rounded down, against the comment at 5039, and
  from 12:01 to 12:28 it wraps to less than two hours.
* The language of a cell-broadcast page that is not 7-bit is copied over the page
  header (2330), and the two octets at which user data begin are counted but not
  written, against the comment at 2329.
* A status report's type is written to bit 4 instead of bits 0 and 1 (1718), so
  that `wms_ts_decode_deliver_from_uint8` takes it for a TP-DELIVER.

Met while modelling and stated in the modules' comments, without a run, since no
text of the repository says otherwise. In `wmsts.c`: the switch for reserved types
compares two bits with 0x11 (3921) and is never true; `wms_ts_encode_submit` answers
`WMS_OK_S` when the validity could not be encoded (1994); only 16-bit concatenations
count as segments (2911); an alphanumeric address of 12 to 20 characters is encoded
but refused by the decoder (186, 261); the length of command data beyond 157 octets is
added to `pos` although they are cut (1906); a status report's mask of 0xFF is encoded with
all fields and decoded with none (4292); UCS2 cannot be said of a message that is to
be discarded, nor 8-bit data of one that waits. A coding scheme that says nothing of
waiting messages leaves the indication of an earlier message, or the bytes of another
member of the union, where the client reads its own (2505). A TP-DELIVER of a return
call is turned into an announcement of voice mail unless its indication is of that kind
(3958), and as it may have none, the kind that decides is then the one left over: the
same message, decoded twice, may come out differently. `SchemeArrives` says of each case
what the receiver has.

In `wmstscdma.c`, and excluded from what `ReceivedAsSent` promises (`Promised`) or
modelled as it is:

* ASCII and IA5 text behind a header loses its last bits unless the caller's padding
  covers the fill bits; `udh_present` without a header is written and then misread;
  without a message identifier the receiver's `udh_present` is the previous message's.
* A time is passed over by 6 octets or 1 whatever its length octet says; relative
  times of 144 to 166 are rounded down on the way.
* An IS-91 message resets the mask, so that subparameters before it are lost; a short
  message of more than 48 characters is refused; a voice mail's text that starts with
  a space or an exclamation mark is taken for its priority, and priorities 1 and 3
  become 2.
* `num_messages` above 99 is refused after it was written; a reply's sequence number
  of 255 becomes 63; a callback number of 4-bit digits has no type and plan.
* The service of an entry of a service category program is lost (994): it is cast to an
  octet, and `b_packb`, which is made for at most 8 bits, is told to write 16. Inside an
  octet, where the first entry always begins its own, it leaves the first 8 bits of the
  field as the array had them, clears those up to the next octet and shifts the last
  mask by a negative number; only after 7-bit labels that end suitably does an entry
  begin its service at an octet, and then a service below 256 arrives
  (`ServiceIsWritten`).
* GSM 7-bit text as long as the array is not packed, and what `raw_ts` held goes out
  instead (476, 549, 594).
* A parameter of length 0 or 1 where two octets of header are taken off leaves a
  length of 255; bearer data that ends at octet 255 is not copied; a transport-layer
  acknowledgement returns before the rest of its octets is looked at.

## 5. What is proved

All theorems hold for every value of the constants that satisfies the named
assumptions of the module (`ASSUME`), which TLC evaluates on its instances. The type
invariant of every module is proved (`TypesAreKept`, in `CellBroadcastProofs`
`PagesAreTyped`), and so is every other invariant the runs check but one
(`ReceivedAsSent`, see the end of this section).

What a definition recursive over data computes is proved by induction all the same.
Recursion is written as functions, never with RECURSIVE, and the induction takes no
operator: of a set of numbers that is not empty the well-founded order `<` has a least
member (`WFMin`), so a set that has 0, and with every number the next, has all of them
(`NatSetInduction`, `Induction`). For that `Offsets` (where each of n parts starts),
`FlattenSeq` and the walk in `Tiled` are first shown to exist and to satisfy their
recursive equations.

**`WmsTsProofs`**, for any set of threads, jobs, headers and any limit, under
`AllLocked` (no thread makes direct calls). `StaticsAreOwn`: `TypeOK`,
mutual exclusion and `StaticsHoldOwn` are one inductive invariant. Mutual
exclusion alone says nothing about data, and `ReplyIsOwn` alone is not inductive:
the last step of a call copies a static whose value was built by earlier steps, so
the invariant has to say what it holds after each of them, as a function of the
job (`HoldsOwn`). Since `mutex = t` wherever a call works on a static, a step of
one thread cannot disturb what `HoldsOwn` says of another. `RepliesAreOwn` follows,
and with it `CodecImplementsService`: the call step of the service is `Call`, its
return step is `Unlock`, with the right answer, and every other step stutters.
`AllLocked` is needed: `wmsts_unlocked` shows what happens without it.

**`SeptetsProofs`**, for any number of characters and any capacity. The key is
that three cursors agree: the next octet begins with bit `shift` of character `i`,
`8 * pos = fill + 7 * i + shift` (`CursorsAgree`), through the branch where the
shift comes round and one octet completes two characters. With it
`PackerIsCorrect` (each octet continues the bit stream, and as many are returned
as the bits need or the buffer has) and `UnpackerIsCorrect`. `RoundTripIsExact` needs a
second invariant of the unpacker alone (`RoundInv`): every bit of the characters before
the cursor was taken (`AllTaken`), and the cursor may be one character beyond the text,
but then on the boundary of an octet. That is why the unpacker, which may make two
characters of one octet, looks at no octet behind those the packer returned.

**`UserDataHeaderProofs`**, for any messages, table and buffer. `HeadersAreContiguous`
is the loop invariant: the elements found are the leading ones, end to end, and
`pos` is behind the last. From the loop's exit and it follow
`AcceptedHeadersAreTiled` and `AcceptanceIsAllOrNothing`. `AcceptanceIsRight` compares
the loop with a definition without a loop: the invariant `ReadInv` says that each
element found decodes, that the loop stands where the next one starts for a reader
that checks nothing (`Start`), and that its verdict is the reference's. The starts
grow (`OffsetsGrow`, by induction), so an element that crosses the end of the header
is refused here and there. `SegmentIsKnown`: what the loop took for the first segment
of a message is what the walk in front of it says.

**`UserDataProofs`**, for any user data. `LengthAlwaysCovers` compares two functions
that were written apart: element by element, what `wms_ts_get_udh_length` says is
at least what the encoder writes. `CheckedDataFits`: although the capacity check
ignores fill bits, whatever passes it fits with them, since rounding the header
up to a septet and the text up to an octet never costs an octet more than
rounding the text alone. `LengthOctetIsExact` is the same arithmetic for the
length octet. `RefusalsAreNeeded` is its converse, with the sum over the elements by
induction. `MessagesArrive` goes through both sides: what is on the wire are elements of
the sender's that were not dropped, ending where the encoder stands (`WireInv`); while
the decoder runs, its octets are those and the invariants of `UserDataHeaderProofs`
hold of it (`DecoderInv`), since `UserData` contains that decoder by INSTANCE and the
lemmas are used of the instance (`SameDecoder`); every element that was written is one
the decoder takes (`SentIsRead`), with as many octets; so the header is taken to its
end, and the text starts, with the same shift, where it was put (`TextIsFound`).

**`ValidityProofs`**, for any validities sent and any octets received.
`AlwaysCanBeSentOn`: the invariant adds to `TypeOK` that a received timestamp is
`Encodable`, because each field is good already or replaced by a good value, and
that what is on the wire has the octets of its format; neither `TypeOK` nor
`AlwaysForwardable` says that. `AbsoluteIsKept` needs in addition that a timestamp
on the wire is the encoding of the one in the structure (`SentIsEncoded`), and that
`DecodeTimestamp` undoes `EncodeTimestamp`, field by field, with the sign of the
time zone in bit 3. `RelayingNeverLengthens` and `PeriodsAreLeast` follow the four
scales of the relative octet: `RelativeMeans` says which period each octet stands for,
and the invariant `OnScale` that a period a client received is one of those 256 and
its octet on the wire the encoder's. What was decoded is encoded as the octet it came
from, but between 12 and 24 hours as the one before, half an hour shorter.

**`TpduProofs`**, for any messages, sent in any order through the same structures.
`SchemesAreKept`: a coding scheme that some octet stands for is encoded and decoded
to itself, group by group, through the arithmetic of the bits, but that a scheme
without an indication leaves the one that was there. `NumbersAreKept`: a
number of any type, plan and length up to the limit is decoded to itself, and as many
octets are taken as were written; each digit is followed into its half octet and back.
`NamesAreKept` says it of names of up to eleven characters, each followed bit by bit
from the septet into one octet or two and back.
`TextIsInItsAlphabet` needs three things that the property does not say: the raw
structure's fields are those of the message encoded last (`RawIsOfMessage`), every
decoder has its coding scheme before its user data in what is left to read
(`DcsFirst`, an invariant of the list of fields), and once the coding scheme was read
the client structure holds its alphabet, whatever was there when the decoder started
(`ReadInOrder`); with `SchemesAreKept` the alphabet is the sender's. `OkMeansWhole`
rests on one more invariant, `WrittenOrLeft`: while the status is still `WMS_OK`, each
field that is due was written or is still to come, and a format of validity that does
not exist is refused with the first octet.

`LengthsAreExact` rests on `Layout`: each field starts where the one before it ends, the
position is the end of the last, and with what the fields still to come can take at
most it stays within the array, so that the count of type `uint8` cannot wrap; command
data are cut to what the array holds, and of their length the property speaks only when
the caller keeps to it. `EveryFieldIsRead` has the decoder in step with
that layout (`InStep`): it stands behind the first j fields, those are the ones it
has, and the fields of its own list that it has not come to are those from j + 1 on. A
field it looks for and finds is at its position (`FieldIsRead`); one it passes over was
not due (`BehindSkip`). What was read of an address or a protocol identifier is the
sender's (`Faithful`), by the theorems on numbers and names; what was read of a coding
scheme is what `SchemeArrives` says, by `SchemesAreKept` for whatever indication was
left over, and with the identifier read before it for a return call.

**`CellBroadcastProofs`**, for any pages sent or received and passed on. The invariant
`IInv` relates what the properties compare: on the wire is the encoding of the page in
the structure (unless a language was written over the header), in the structure is
the decoding of the raw page, and either is one that a client or the network could
have sent (`PageIsSound`, `RawIsSound`), so that decoding never makes a page the
encoder is not meant for. `SentPagesArrive` and `PagesAreWhole` follow since the decoder
undoes the encoder (`TextIsReadBack`, `LanguageIsReadBack`), `RelayedPagesAreKept` since
the encoder undoes the decoder (`BodyIsKept`, `HeaderIsKept`). The arithmetic is in
`SeptetsBack` and `OctetsBack`: n septets lie in octets that hold n septets or n + 1,
but the septets of n octets always fill n octets.

**`CdmaMessageProofs`**, for any messages and whatever octets arrive. The assumptions
are the C types of the structures clients fill (`MessagesAssumption`: numbers of type
`uint8` are octets, enumerations and wider numbers any number; the members that
an IS-91 message is made of are there, as they always are in a C structure) and that
what arrives are octets (`ArrivingAssumption`). That what the encoders write are octets
is proved from these, for every parameter and subparameter, down to
the fields of so many bits they are packed from (`TransportFields`, `BearerFields`,
`OctetsTyped`). `TransportIsRead` and `BearerIsRead`: both decoding loops implement
`ParameterReader`, so that they never go back, take the first of each kind and accept
only at the exact end. `OthersFit`: what is copied of nameless subparameters never
exceeds the memory the client gave. The invariant behind them, `ReadingStaysWithin`,
says that what is read is no longer than a length octet can say and that what is
counted was passed over, so that no 8-bit count wraps.

`OthersArrive` has two parts. Of any octets, what the second pass copies is a sequence
of whole subparameters, and all of them when there was room (`OthersWhole`): a walk over
what was copied before goes on over what is copied next (`TheWalk`, `WalkGoesOn`). Of a
client's own message, it is what the client put there, which takes an invariant of the
whole way, `Journey`. While bearer data are encoded they are
subparameters with names, then those without (`Carries`); while the transport
layer is encoded, and when it has arrived, its octets are parameters of other kinds,
then the bearer data (`Encloses`); the first decoder goes along the boundaries of these
and so takes the bearer data octet for octet, which is `BearerArrives`; the second goes
along the boundaries of the named subparameters and counts nothing, then along those of
the others and counts each. That the last message's state cannot show through is part
of it: each phase says what is in the arrays it has not come to.

`FieldsAreKept` is about the bits of every parameter: a field of up to 16 bits with a
value it can hold is read by `Unpack` where `Pack` wrote it, whatever fields are before
and behind, and wherever in the message the octets are. The bits of a number make that
number again (`FieldIsNumber`), the bits of fields joined are their bits joined
(`FieldBitsJoined`), so the octets hold each field's bits at its offset (`PackedAreHeld`),
and `Unpack` reads them although the field may begin and end within an octet
(`UnpackedBits`). With it `ParametersAreKept`: of the transport layer each parameter but
bearer data, which is copied, is accepted and read as it was written, the three forms
of an address and the two of a cause included. Its hypothesis `FieldsHold` is needed: a C
enumeration may have a value that its field cannot, a digit of 4 bits be an octet, and
what is not sent of an address or a cause is read as 0. `SubparametersAreKept` says the
same of every subparameter of bearer data but user data, with the hypothesis
`SubparameterFits`. Of the entries of a service category program it says what
`SameEntries` says: all members but the service, and the service where it is written
(`ServiceIsSent`).

Only model-checked: all liveness (`Terminates`, `ReadingEnds`, the liveness half of
`ImplementsService`), since fairness and ENABLED are out of the prover's reach; and
`ReceivedAsSent` as a whole. Of what it promises, `ParametersAreKept`,
`SubparametersAreKept` and `BearerArrives` are proved. Missing are user data, with its ten
encodings and its header, and an invariant of the journey that puts the subparameters
together; as a theorem it would also say of their values that the fields hold them,
which the messages of the run meet but the C types do not promise.

## 6. Not modelled

* The stand-alone codec (`sms_coding.c`, `dcs_convert.c`) is unfinished: it compares a
  character with a string, decodes addresses into variables that some paths leave
  unset, and its only caller does not compile. Of most calls the outcome is undefined,
  so a model would consist of choices nobody made. Two of its flaws are among the
  hazards nevertheless: the decoder drops the digits 0 and 9 (`sms_coding.c:491`), the
  packer reads one septet too many (`dcs_convert.c:32`).
* The program interface (`sms_core.c`, `sms_ts.c`) calls functions that do not exist,
  with arguments missing: there is no behaviour.
* `wms_ts_ascii_to_bcd` and `wms_ts_bcd_to_ascii`: character tables no function here
  calls. Logging, and the type names of `dcs_comdef.h`.
* Of `wms.h`, nine thousand lines of types of a client API, only what the codec uses.

The theorem still worth proving is `ReceivedAsSent`: user data by lemmas of their own from
`FieldsAreKept`, as `SubparametersAreKept` does it for the other subparameters, and
`Journey` extended from the nameless subparameters to the named ones.
