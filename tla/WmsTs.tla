------------------------------- MODULE WmsTs -------------------------------
(***************************************************************************)
(* The entry points of the transport-service codec and the file-static     *)
(* state they share.                                                       *)
(*                                                                         *)
(* wms_ts_encode and wms_ts_decode hold wmsts_mutex from their pointer     *)
(* checks to their return.  Under it they use const_header (the header     *)
(* being encoded), gw_user_data (a cell-broadcast page), raw_ts (a CDMA    *)
(* user-data field under construction) and cdma_user_data (the one being   *)
(* taken apart).  wms_ts_encode_user_data_header and                       *)
(* wms_ts_decode_cdma_bd_with_other are exported too and take no lock:     *)
(* the threads of DirectThread call those.                                 *)
(*                                                                         *)
(* One action is one access to a static, so that every interleaving of two *)
(* calls the statics could tell apart is a behaviour of this module.       *)
(***************************************************************************)
EXTENDS Naturals, Sequences, FiniteSets

CONSTANTS Thread,        \* threads calling wms_ts_encode / wms_ts_decode
          DirectThread,  \* those that call the exported unlocked functions
          Body,          \* contents of an information element
          Text,          \* contents of a user-data field
          Job,           \* the calls a thread may make
          MaxHeaders,    \* WMS_MAX_UD_HEADERS
          NoThread, NoHeader, NoText, NoJob, NoReply

(* const_header->header_id, and whether the concat check passes (it is read *)
(* for a concatenation element only).                                       *)
Header == [id : {"concat8", "port8"}, complete : BOOLEAN, body : Body]

LockedKind == {"gw_pp_encode", "gw_cb_encode", "gw_cb_decode",
               "cdma_encode", "cdma_decode", "bad_format"}
DirectKind == {"udh_encode", "cdma_decode"}
Kind == LockedKind \union DirectKind
JobType == [kind : Kind, headers : Seq(Header),
            lang : Text \union {NoText}, text : Text \union {NoText}]

ASSUME ThreadAssumption == DirectThread \subseteq Thread /\ NoThread \notin Thread
ASSUME JobAssumption == Job \subseteq JobType /\ NoJob \notin JobType
ASSUME MaxHeadersAssumption == MaxHeaders \in Nat

VARIABLES mutex,           \* wmsts_mutex: its owner or NoThread
          const_header, gw_user_data, raw_ts, cdma_user_data,
          pc, job,         \* where a thread is, and the arguments of its call
          i,               \* the loop variable of encode_user_data_header
          id,              \* the value its switch selected on
          out,             \* the caller's output structure
          reply            \* what the last call returned

statics == <<const_header, gw_user_data, raw_ts, cdma_user_data>>
vars == <<mutex, statics, pc, job, i, id, out, reply>>

Empty == [udh |-> <<>>, lang |-> NoText, text |-> NoText, st |-> "ok"]

(* The octets of one information element: the helper the switch chose on id *)
(* reads the header it finds through const_header.  A concatenation that    *)
(* is not plausible encodes to nothing.                                     *)
Element(x, h) == IF x = "concat8" /\ ~h.complete THEN <<>> ELSE <<x, h.body>>

Sent(j) == IF Len(j.headers) <= MaxHeaders THEN Len(j.headers) ELSE MaxHeaders
Elements(j, n) == [k \in 1..n |-> Element(j.headers[k].id, j.headers[k])]
Encoded(j, n) == [Empty EXCEPT !.udh = Elements(j, n)]

(* The decoder refuses the whole header for one implausible concatenation.  *)
Decoded(j) ==
  IF \E k \in 1..Sent(j) : Elements(j, Sent(j))[k] = <<>>
    THEN Empty ELSE Encoded(j, Sent(j))

(* What a call returns when it runs alone. *)
Answer(j) ==
  CASE j.kind = "gw_pp_encode" -> [Encoded(j, Sent(j)) EXCEPT !.text = j.text]
    [] j.kind = "cdma_encode"  -> [Encoded(j, Sent(j)) EXCEPT !.text = j.text]
    [] j.kind = "udh_encode"   -> Encoded(j, Sent(j))
    [] j.kind = "gw_cb_encode" -> [Empty EXCEPT !.lang = j.lang, !.text = j.text]
    [] j.kind = "gw_cb_decode" -> [Empty EXCEPT !.text = j.text]
    [] j.kind = "cdma_decode"  -> [Decoded(j) EXCEPT !.text = j.text]
    [] j.kind = "bad_format"   -> [Empty EXCEPT !.st = "invalid_format"]

Init == /\ mutex = NoThread
        /\ const_header = NoHeader
        /\ gw_user_data = Empty /\ raw_ts = Empty /\ cdma_user_data = Empty
        /\ pc = [t \in Thread |-> "idle"]
        /\ job = [t \in Thread |-> NoJob]
        /\ i = [t \in Thread |-> 1]
        /\ id = [t \in Thread |-> "concat8"]
        /\ out = [t \in Thread |-> Empty]
        /\ reply = [t \in Thread |-> NoReply]

Goto(t, l) == pc' = [pc EXCEPT ![t] = l]
Step(t, from, to) == pc[t] = from /\ Goto(t, to)
IsDirect(t) == t \in DirectThread
Finished(t) == IF IsDirect(t) THEN "return" ELSE "unlock"
Local == <<mutex, job, reply>>

Call(t, j) ==
  /\ pc[t] = "idle"
  /\ j.kind \in IF IsDirect(t) THEN DirectKind ELSE LockedKind
  /\ Goto(t, IF IsDirect(t) THEN "start" ELSE "lock")
  /\ job' = [job EXCEPT ![t] = j]
  /\ UNCHANGED <<mutex, statics, i, id, out, reply>>

(* pthread_mutex_lock *)
Lock(t) == /\ mutex = NoThread
           /\ Step(t, "lock", "start")
           /\ mutex' = t
           /\ UNCHANGED <<statics, job, i, id, out, reply>>

(* ---- wms_ts_encode_user_data_header, on a TPDU or into raw_ts ---------- *)
BeginUdh(t) == /\ Step(t, "start", "udh_next")
               /\ job[t].kind \in {"gw_pp_encode", "udh_encode"}
               /\ UNCHANGED <<Local, statics, i, id, out>>

(* Definitions named Bug.. are broken variants of the one that follows, for *)
(* showing that the properties would notice.  Here: raw_ts is not cleared.  *)
BugBeginCdmaEncode(t) == /\ Step(t, "start", "udh_next")
                         /\ job[t].kind = "cdma_encode"
                         /\ UNCHANGED <<Local, statics, i, id, out>>

BeginCdmaEncode(t) == /\ Step(t, "start", "udh_next")      \* memset(raw_ts.data, 0, ..)
                      /\ job[t].kind = "cdma_encode"
                      /\ raw_ts' = Empty
                      /\ UNCHANGED <<Local, const_header, gw_user_data, cdma_user_data,
                                     i, id, out>>

SelectHeader(t) == /\ Step(t, "udh_next", "udh_switch")   \* const_header = &headers[i]
                   /\ i[t] <= Sent(job[t])
                   /\ const_header' = job[t].headers[i[t]]
                   /\ UNCHANGED <<Local, gw_user_data, raw_ts, cdma_user_data, i, id, out>>

SwitchHeader(t) == /\ Step(t, "udh_switch", "udh_write")  \* switch(const_header->header_id)
                   /\ id' = [id EXCEPT ![t] = const_header.id]
                   /\ UNCHANGED <<Local, statics, i, out>>

WriteHeader(t) == LET e == Element(id[t], const_header) IN \* pos += wms_ts_encode_udh_..
  /\ Step(t, "udh_write", "udh_next")
  /\ IF job[t].kind = "cdma_encode"
       THEN raw_ts' = [raw_ts EXCEPT !.udh = Append(@, e)] /\ UNCHANGED out
       ELSE out' = [out EXCEPT ![t].udh = Append(@, e)] /\ UNCHANGED raw_ts
  /\ i' = [i EXCEPT ![t] = @ + 1]
  /\ UNCHANGED <<Local, const_header, gw_user_data, cdma_user_data, id>>

(* The loop is left; the caller of the header encoder appends the text. *)
EndUdh(t) == /\ pc[t] = "udh_next"
             /\ i[t] > Sent(job[t])
             /\ Goto(t, IF job[t].kind = "cdma_encode" THEN "raw_text" ELSE Finished(t))
             /\ out' = IF job[t].kind = "gw_pp_encode"
                         THEN [out EXCEPT ![t].text = job[t].text] ELSE out
             /\ UNCHANGED <<Local, statics, i, id>>

RawText(t) == /\ Step(t, "raw_text", "raw_copy")          \* pack / memcpy into raw_ts.data
              /\ raw_ts' = [raw_ts EXCEPT !.text = job[t].text]
              /\ UNCHANGED <<Local, const_header, gw_user_data, cdma_user_data, i, id, out>>

RawCopy(t) == /\ Step(t, "raw_copy", Finished(t))         \* b_packb(raw_ts.data[i], ..)
              /\ out' = [out EXCEPT ![t] = raw_ts]
              /\ UNCHANGED <<Local, statics, i, id>>

(* ---- wms_ts_encode_gw_cb and wms_ts_decode_gw_cb, 7-bit pages ---------- *)
(* The page of the last call is not cleared. *)
BugCbReset(t) == /\ Step(t, "start", "cb_lang")
                 /\ job[t].kind = "gw_cb_encode"
                 /\ UNCHANGED <<Local, statics, i, id, out>>

CbReset(t) == /\ Step(t, "start", "cb_lang")             \* gw_user_data.sm_len = 0
              /\ job[t].kind = "gw_cb_encode"
              /\ gw_user_data' = Empty
              /\ UNCHANGED <<Local, const_header, raw_ts, cdma_user_data, i, id, out>>

CbLanguage(t) == /\ Step(t, "cb_lang", "cb_text")         \* if ISO 639: memcpy the code
                 /\ gw_user_data' = IF job[t].lang # NoText
                                      THEN [gw_user_data EXCEPT !.lang = job[t].lang]
                                      ELSE gw_user_data
                 /\ UNCHANGED <<Local, const_header, raw_ts, cdma_user_data, i, id, out>>

CbText(t) == /\ Step(t, "cb_text", "cb_pack")
             /\ gw_user_data' = [gw_user_data EXCEPT !.text = job[t].text]
             /\ UNCHANGED <<Local, const_header, raw_ts, cdma_user_data, i, id, out>>

CbPack(t) == /\ Step(t, "cb_pack", Finished(t))
             /\ out' = [out EXCEPT ![t] = gw_user_data]
             /\ UNCHANGED <<Local, statics, i, id>>

CbUnpack(t) == /\ Step(t, "start", "cb_copy")
               /\ job[t].kind = "gw_cb_decode"
               /\ gw_user_data' = [Empty EXCEPT !.lang = job[t].lang, !.text = job[t].text]
               /\ UNCHANGED <<Local, const_header, raw_ts, cdma_user_data, i, id, out>>

CbCopy(t) == /\ Step(t, "cb_copy", Finished(t))           \* skips the language code
             /\ out' = [out EXCEPT ![t].text = gw_user_data.text]
             /\ UNCHANGED <<Local, statics, i, id>>

(* ---- wms_ts_decode_CDMA_bd_from_uint8, user data with headers ---------- *)
UdSave(t) == /\ Step(t, "start", "ud_headers")               \* cdma_user_data = cl_bd->user_data
             /\ job[t].kind = "cdma_decode"
             /\ cdma_user_data' = [Decoded(job[t]) EXCEPT !.text = job[t].text]
             /\ UNCHANGED <<Local, const_header, gw_user_data, raw_ts, i, id, out>>

UdHeaders(t) == /\ Step(t, "ud_headers", "ud_text")
                /\ out' = [out EXCEPT ![t].udh = cdma_user_data.udh]
                /\ UNCHANGED <<Local, statics, i, id>>

UdText(t) == /\ Step(t, "ud_text", Finished(t))
             /\ out' = [out EXCEPT ![t].text = cdma_user_data.text]
             /\ UNCHANGED <<Local, statics, i, id>>

(* ---- the default branch of the format switch --------------------------- *)
BugBadFormat(t) ==      \* broken variant: it returns at once and keeps wmsts_mutex
  /\ Step(t, "start", "return")
  /\ job[t].kind = "bad_format"
  /\ out' = [out EXCEPT ![t].st = "invalid_format"]
  /\ UNCHANGED <<Local, statics, i, id>>

BadFormat(t) == /\ Step(t, "start", Finished(t))
                /\ job[t].kind = "bad_format"
                /\ out' = [out EXCEPT ![t].st = "invalid_format"]
                /\ UNCHANGED <<Local, statics, i, id>>

Return(t) == /\ Goto(t, "idle")
             /\ reply' = [reply EXCEPT ![t] = out[t]]
             /\ job' = [job EXCEPT ![t] = NoJob]
             /\ i' = [i EXCEPT ![t] = 1]                   \* the locals go out of scope
             /\ id' = [id EXCEPT ![t] = "concat8"]
             /\ out' = [out EXCEPT ![t] = Empty]
             /\ UNCHANGED statics

(* pthread_mutex_unlock; return st.  An exported function just returns. *)
Unlock(t) == /\ pc[t] = Finished(t)
             /\ mutex' = IF IsDirect(t) THEN mutex ELSE NoThread
             /\ Return(t)

Udh(t) == BeginUdh(t) \/ SelectHeader(t) \/ SwitchHeader(t) \/ WriteHeader(t) \/ EndUdh(t)
Cdma(t) == BeginCdmaEncode(t) \/ RawText(t) \/ RawCopy(t)
           \/ UdSave(t) \/ UdHeaders(t) \/ UdText(t)
CellBroadcast(t) == CbReset(t) \/ CbLanguage(t) \/ CbText(t) \/ CbPack(t)
                    \/ CbUnpack(t) \/ CbCopy(t)

(* Every step of a call after it has the lock. *)
Work(t) == Udh(t) \/ Cdma(t) \/ CellBroadcast(t) \/ BadFormat(t) \/ Unlock(t)

Next == \E t \in Thread : Lock(t) \/ Work(t) \/ \E j \in Job : Call(t, j)

(* A thread that is running keeps running, and the scheduler does not let  *)
(* one waiter lose wmsts_mutex for ever.                                   *)
Fairness == \A t \in Thread : WF_vars(Work(t)) /\ SF_vars(Lock(t))

Spec == Init /\ [][Next]_vars
FairSpec == Spec /\ Fairness

-----------------------------------------------------------------------------
Label == {"idle", "lock", "start", "udh_next", "udh_switch", "udh_write", "raw_text",
          "raw_copy", "cb_lang", "cb_text", "cb_pack", "cb_copy", "ud_headers",
          "ud_text", "unlock", "return"}
InCall == Label \ {"idle", "lock"}

(* What a caller's output structure and the static buffers hold. *)
Item == {<<>>} \union ({"concat8", "port8"} \X Body)
Output == [udh : Seq(Item), lang : Text \union {NoText}, text : Text \union {NoText},
           st : {"ok", "invalid_format"}]

(* The type invariant: every static holds whole values, every thread that  *)
(* is in a call has the arguments of that call, and only a call that did    *)
(* not take wmsts_mutex returns without passing its unlock.                 *)
TypeOK ==
  /\ mutex \in Thread \union {NoThread}
  /\ pc \in [Thread -> Label]
  /\ job \in [Thread -> Job \union {NoJob}]
  /\ i \in [Thread -> Nat \ {0}]
  /\ id \in [Thread -> {"concat8", "port8"}]
  /\ const_header \in Header \union {NoHeader}
  /\ gw_user_data \in Output /\ raw_ts \in Output /\ cdma_user_data \in Output
  /\ out \in [Thread -> Output]
  /\ \A t \in Thread : /\ pc[t] # "idle" => job[t] \in Job
                       /\ pc[t] = "idle" => job[t] = NoJob
                       /\ pc[t] = "return" => IsDirect(t)

(* Only the owner of wmsts_mutex is between pthread_mutex_lock and         *)
(* pthread_mutex_unlock of wms_ts_encode / wms_ts_decode.                  *)
MutualExclusion ==
  \A t \in Thread \ DirectThread : pc[t] \in InCall <=> mutex = t

(* What a call is about to return is a function of its own arguments: no   *)
(* octet of another caller's message comes out of the static buffers.      *)
ReplyIsOwn ==
  \A t \in Thread : pc[t] \in {"unlock", "return"} => out[t] = Answer(job[t])

(* The codec implements the service its callers see: a call is answered     *)
(* with its own message, and every call is answered, also one whose format *)
(* or TPDU type is not supported (the error paths unlock as well).          *)
Service == INSTANCE TsService WITH request <- job, reply <- reply
ImplementsService == Service!Spec

(* What each static and each output structure holds at each point of a      *)
(* call, in terms of the arguments of the call that holds the lock.  With   *)
(* TypeOK and MutualExclusion it is inductive when no thread makes direct   *)
(* calls, and it implies ReplyIsOwn.                                        *)
UdhLabel == {"udh_next", "udh_switch", "udh_write"}
HoldsOwn(t) ==
  LET j == job[t] IN
  /\ pc[t] \in {"idle", "lock", "start"} => i[t] = 1 /\ out[t] = Empty
  /\ pc[t] \in UdhLabel =>
       /\ i[t] \in 1..Sent(j) + 1
       /\ \/ j.kind = "cdma_encode" /\ raw_ts = Encoded(j, i[t] - 1) /\ out[t] = Empty
          \/ j.kind \in {"gw_pp_encode", "udh_encode"} /\ out[t] = Encoded(j, i[t] - 1)
  /\ pc[t] \in {"udh_switch", "udh_write"} =>
       i[t] <= Sent(j) /\ const_header = j.headers[i[t]]
  /\ pc[t] = "udh_write" => id[t] = const_header.id
  /\ pc[t] = "raw_text" => j.kind = "cdma_encode" /\ raw_ts = Encoded(j, Sent(j))
  /\ pc[t] = "raw_copy" => raw_ts = Answer(j)
  /\ pc[t] = "cb_lang" => j.kind = "gw_cb_encode" /\ gw_user_data = Empty
  /\ pc[t] = "cb_text" => j.kind = "gw_cb_encode" /\ gw_user_data = [Empty EXCEPT !.lang = j.lang]
  /\ pc[t] = "cb_pack" => gw_user_data = Answer(j)
  /\ pc[t] = "cb_copy" => /\ j.kind = "gw_cb_decode" /\ out[t] = Empty
                          /\ gw_user_data.text = j.text
  /\ pc[t] \in {"ud_headers", "ud_text"} =>
       /\ j.kind = "cdma_decode" /\ cdma_user_data = Answer(j)
       /\ out[t] = IF pc[t] = "ud_text" THEN Decoded(j) ELSE Empty
  /\ pc[t] \in {"unlock", "return"} => out[t] = Answer(j)
StaticsHoldOwn == \A t \in Thread : HoldsOwn(t)
=============================================================================
