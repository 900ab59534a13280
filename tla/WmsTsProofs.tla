---------------------------- MODULE WmsTsProofs ----------------------------
(***************************************************************************)
(* For any number of threads and any jobs, as long as every thread goes    *)
(* through wms_ts_encode / wms_ts_decode: the statics a call uses hold its *)
(* own data, its reply is a function of its arguments, and the codec       *)
(* implements TsService.  The inductive invariant is                       *)
(* TypeOK /\ MutualExclusion /\ StaticsHoldOwn of WmsTs.                    *)
(***************************************************************************)
EXTENDS WmsTs, SequenceTheorems, TLAPS

(* The callers respect the lock: nobody uses the exported unlocked functions. *)
AllLocked == DirectThread = {}

IInv == TypeOK /\ MutualExclusion /\ StaticsHoldOwn

-----------------------------------------------------------------------------
LEMMA ItemType ==
  ASSUME NEW x \in {"concat8", "port8"}, NEW h \in Header
  PROVE  Element(x, h) \in Item
BY DEF Element, Item, Header

LEMMA SentType ==
  ASSUME NEW j \in JobType
  PROVE  Sent(j) \in Nat /\ Sent(j) <= Len(j.headers)
<1>1. Len(j.headers) \in Nat
  BY DEF JobType
<1> QED BY <1>1, MaxHeadersAssumption DEF Sent

LEMMA HeaderType ==
  ASSUME NEW j \in JobType, NEW k \in 1..Sent(j)
  PROVE  j.headers[k] \in Header
<1>1. j.headers \in Seq(Header) BY DEF JobType
<1>2. Sent(j) \in Nat /\ Sent(j) <= Len(j.headers) BY SentType
<1>3. k \in 1..Len(j.headers) BY <1>1, <1>2
<1> QED BY <1>1, <1>3

LEMMA ElementsType ==
  ASSUME NEW j \in JobType, NEW n \in 0..Sent(j)
  PROVE  Elements(j, n) \in Seq(Item) /\ Len(Elements(j, n)) = n
<1>0. Sent(j) \in Nat BY SentType
<1>1. \A k \in 1..n : j.headers[k] \in Header BY HeaderType, <1>0
<1>2. \A k \in 1..n : j.headers[k].id \in {"concat8", "port8"} BY <1>1 DEF Header
<1>3. \A k \in 1..n : Element(j.headers[k].id, j.headers[k]) \in Item
  BY <1>1, <1>2, ItemType
<1>4. Elements(j, n) \in [1..n -> Item] BY <1>3 DEF Elements
<1>5. n \in Nat BY <1>0
<1> QED BY <1>4, <1>5

LEMMA EmptyType == Empty \in Output
BY DEF Empty, Output

(* One more turn of the loop of wms_ts_encode_user_data_header. *)
LEMMA ElementsStep ==
  ASSUME NEW j \in JobType, NEW n \in Nat, n + 1 <= Sent(j)
  PROVE  Append(Elements(j, n), Element(j.headers[n + 1].id, j.headers[n + 1]))
           = Elements(j, n + 1)
<1>0. Sent(j) \in Nat BY SentType
<1>1. Elements(j, n) \in Seq(Item) /\ Len(Elements(j, n)) = n BY ElementsType, <1>0
<1>2. Elements(j, n + 1) \in Seq(Item) /\ Len(Elements(j, n + 1)) = n + 1
  BY ElementsType, <1>0
<1> DEFINE e == Element(j.headers[n + 1].id, j.headers[n + 1])
           a == Append(Elements(j, n), e)
<1>3. e \in Item
  <2>1. j.headers[n + 1] \in Header BY HeaderType, <1>0
  <2> QED BY <2>1, ItemType DEF Header
<1>4. a \in Seq(Item) /\ Len(a) = n + 1 BY <1>1, <1>3
<1>5. ASSUME NEW k \in 1..n + 1 PROVE a[k] = Elements(j, n + 1)[k]
  <2>1. CASE k = n + 1
    <3>1. a[k] = e BY <1>1, <1>3, <2>1
    <3>2. Elements(j, n + 1)[k] = e BY <2>1 DEF Elements
    <3> QED BY <3>1, <3>2
  <2>2. CASE k \in 1..n
    <3>1. a[k] = Elements(j, n)[k] BY <1>1, <1>3, <2>2
    <3> QED BY <3>1, <2>2 DEF Elements
  <2>3. k = n + 1 \/ k \in 1..n OBVIOUS
  <2> QED BY <2>1, <2>2, <2>3
<1> HIDE DEF a
<1>6. a = Elements(j, n + 1) BY <1>2, <1>4, <1>5
<1> QED BY <1>6 DEF a

LEMMA EncodedType ==
  ASSUME NEW j \in JobType, NEW n \in 0..Sent(j)
  PROVE  Encoded(j, n) \in Output
BY ElementsType, EmptyType DEF Encoded, Output, Empty

LEMMA DecodedType ==
  ASSUME NEW j \in JobType
  PROVE  Decoded(j) \in Output
BY SentType, EncodedType, EmptyType DEF Decoded

LEMMA AnswerType ==
  ASSUME NEW j \in JobType
  PROVE  Answer(j) \in Output
<1>1. Encoded(j, Sent(j)) \in Output /\ Decoded(j) \in Output
  BY SentType, EncodedType, DecodedType
<1>2. Empty \in Output BY EmptyType
<1>3. j.kind \in Kind /\ j.lang \in Text \union {NoText} /\ j.text \in Text \union {NoText}
  BY DEF JobType
<1> HIDE DEF Output
<1>4. ASSUME NEW o \in Output, NEW x \in Text \union {NoText}
      PROVE  /\ [o EXCEPT !.text = x] \in Output
             /\ [o EXCEPT !.lang = x] \in Output
             /\ [o EXCEPT !.st = "invalid_format"] \in Output
  BY DEF Output
<1>5. [[Empty EXCEPT !.lang = j.lang] EXCEPT !.text = j.text] \in Output
  BY <1>2, <1>3, <1>4
<1>6. [Empty EXCEPT !.lang = j.lang, !.text = j.text]
        = [[Empty EXCEPT !.lang = j.lang] EXCEPT !.text = j.text]
  BY DEF Empty
<1> QED BY <1>1, <1>2, <1>3, <1>4, <1>5, <1>6 DEF Answer, Kind, LockedKind, DirectKind

-----------------------------------------------------------------------------
(* The initial state. *)
LEMMA InitIInv == AllLocked /\ Init => IInv
<1> SUFFICES ASSUME AllLocked, Init PROVE IInv OBVIOUS
<1>1. TypeOK BY EmptyType DEF Init, TypeOK, Label
<1>2. MutualExclusion BY ThreadAssumption DEF Init, MutualExclusion, InCall, Label
<1>3. StaticsHoldOwn BY DEF Init, StaticsHoldOwn, HoldsOwn, UdhLabel
<1> QED BY <1>1, <1>2, <1>3 DEF IInv

-----------------------------------------------------------------------------
(* A step of t leaves what belongs to the other threads alone. *)
Others(t) ==
  \A s \in Thread \ {t} : /\ pc'[s] = pc[s] /\ job'[s] = job[s] /\ i'[s] = i[s]
                          /\ id'[s] = id[s] /\ out'[s] = out[s]

(* The actions between lock and unlock. *)
Inside(t) == Udh(t) \/ Cdma(t) \/ CellBroadcast(t) \/ BadFormat(t)

(* What every action inside the critical section establishes. *)
InsideOK(t) == /\ TypeOK' /\ HoldsOwn(t)' /\ Others(t)
               /\ pc[t] \in InCall /\ pc'[t] \in InCall /\ mutex' = mutex

LEMMA JobInCall ==
  ASSUME TypeOK, NEW t \in Thread, pc[t] # "idle"
  PROVE  job[t] \in Job /\ job[t] \in JobType
BY JobAssumption DEF TypeOK

LEMMA FinishedUnlocks ==
  ASSUME AllLocked, NEW t
  PROVE  Finished(t) = "unlock"
BY DEF AllLocked, Finished, IsDirect

LEMMA UnlockReleases ==
  ASSUME AllLocked, NEW t \in Thread, Unlock(t)
  PROVE  pc[t] = "unlock" /\ mutex' = NoThread /\ Return(t)
BY FinishedUnlocks DEF AllLocked, Unlock, IsDirect

LEMMA UdhStep ==
  ASSUME AllLocked, IInv, NEW t \in Thread, Udh(t)
  PROVE  InsideOK(t)
<1> USE DEF IInv, TypeOK, Step, Goto, Local, statics, InCall, Label, Others, InsideOK
<1>0. HoldsOwn(t) BY DEF StaticsHoldOwn
<1>1. CASE BeginUdh(t)
  <2>1. job[t] \in JobType BY <1>1, JobInCall DEF BeginUdh
  <2>2. Sent(job[t]) \in Nat BY <2>1, SentType
  <2>3. Encoded(job[t], 0) = Empty BY DEF Encoded, Elements, Empty
  <2>4. TypeOK' BY <1>1 DEF BeginUdh
  <2>5. HoldsOwn(t)' BY <1>0, <1>1, <2>2, <2>3 DEF BeginUdh, HoldsOwn, UdhLabel
  <2> QED BY <1>1, <2>4, <2>5 DEF BeginUdh
<1>2. CASE SelectHeader(t)
  <2>1. job[t] \in JobType BY <1>2, JobInCall DEF SelectHeader
  <2>2. Sent(job[t]) \in Nat BY <2>1, SentType
  <2>3. i[t] \in 1..Sent(job[t]) BY <1>0, <1>2, <2>2 DEF SelectHeader, HoldsOwn, UdhLabel
  <2>4. const_header' \in Header BY <1>2, <2>1, <2>3, HeaderType DEF SelectHeader
  <2>5. TypeOK' BY <1>2, <2>4 DEF SelectHeader
  <2>6. HoldsOwn(t)' BY <1>0, <1>2, <2>3 DEF SelectHeader, HoldsOwn, UdhLabel
  <2> QED BY <1>2, <2>5, <2>6 DEF SelectHeader
<1>3. CASE SwitchHeader(t)
  <2>1. job[t] \in JobType BY <1>3, JobInCall DEF SwitchHeader
  <2>2. Sent(job[t]) \in Nat BY <2>1, SentType
  <2>3. i[t] \in 1..Sent(job[t]) /\ const_header = job[t].headers[i[t]]
    BY <1>0, <1>3, <2>2 DEF SwitchHeader, HoldsOwn, UdhLabel
  <2>4. const_header \in Header BY <2>1, <2>3, HeaderType
  <2>5. TypeOK' BY <1>3, <2>4 DEF SwitchHeader, Header
  <2>6. HoldsOwn(t)' BY <1>0, <1>3, <2>3 DEF SwitchHeader, HoldsOwn, UdhLabel
  <2> QED BY <1>3, <2>5, <2>6 DEF SwitchHeader
<1>4. CASE WriteHeader(t)
  <2> DEFINE j == job[t]
             n == i[t] - 1
             e == Element(id[t], const_header)
  <2>1. j \in JobType BY <1>4, JobInCall DEF WriteHeader
  <2>2. Sent(j) \in Nat BY <2>1, SentType
  <2>3. /\ i[t] \in 1..Sent(j) /\ const_header = j.headers[i[t]]
        /\ id[t] = const_header.id
    BY <1>0, <1>4, <2>2 DEF WriteHeader, HoldsOwn, UdhLabel
  <2>4. const_header \in Header BY <2>1, <2>3, HeaderType
  <2>5. e \in Item BY <2>4, <2>3, ItemType DEF Header
  <2>6. n \in Nat /\ n + 1 <= Sent(j) /\ n + 1 = i[t] BY <2>2, <2>3
  <2>7. Append(Elements(j, n), e) = Elements(j, n + 1)
    BY <2>1, <2>3, <2>6, ElementsStep
  <2>8. [Encoded(j, n) EXCEPT !.udh = Append(@, e)] = Encoded(j, n + 1)
    BY <2>7 DEF Encoded, Empty
  <2>9. Encoded(j, n + 1) \in Output BY <2>1, <2>2, <2>6, EncodedType
  <2>10. i'[t] = n + 2 /\ i'[t] - 1 = n + 1 /\ i'[t] \in 1..Sent(j) + 1
    BY <1>4, <2>2, <2>3, <2>6 DEF WriteHeader
  <2>11. CASE j.kind = "cdma_encode"
    <3>1. raw_ts = Encoded(j, n) /\ out[t] = Empty
      BY <1>0, <1>4, <2>11 DEF WriteHeader, HoldsOwn, UdhLabel
    <3>2. raw_ts' = Encoded(j, n + 1) /\ UNCHANGED out
      BY <1>4, <2>8, <2>11, <3>1 DEF WriteHeader
    <3>3. TypeOK' BY <1>4, <2>9, <3>2 DEF WriteHeader
    <3>4. HoldsOwn(t)' BY <1>4, <2>10, <2>11, <3>1, <3>2 DEF WriteHeader, HoldsOwn, UdhLabel
    <3> QED BY <1>4, <3>2, <3>3, <3>4 DEF WriteHeader
  <2>12. CASE j.kind # "cdma_encode"
    <3>1. j.kind \in {"gw_pp_encode", "udh_encode"} /\ out[t] = Encoded(j, n)
      BY <1>0, <1>4, <2>12 DEF WriteHeader, HoldsOwn, UdhLabel
    <3>2. out' = [out EXCEPT ![t] = Encoded(j, n + 1)] /\ UNCHANGED raw_ts
      BY <1>4, <2>8, <2>12, <3>1 DEF WriteHeader
    <3>3. TypeOK' BY <1>4, <2>9, <3>2 DEF WriteHeader
    <3>4. HoldsOwn(t)' BY <1>4, <2>10, <2>12, <3>1, <3>2 DEF WriteHeader, HoldsOwn, UdhLabel
    <3> QED BY <1>4, <3>2, <3>3, <3>4 DEF WriteHeader
  <2> QED BY <2>11, <2>12
<1>5. CASE EndUdh(t)
  <2> DEFINE j == job[t]
  <2>1. j \in JobType BY <1>5, JobInCall DEF EndUdh
  <2>2. Sent(j) \in Nat BY <2>1, SentType
  <2>3. i[t] - 1 = Sent(j) BY <1>0, <1>5, <2>2 DEF EndUdh, HoldsOwn, UdhLabel
  <2>4. Encoded(j, Sent(j)) \in Output BY <2>1, <2>2, EncodedType
  <2>5. Finished(t) = "unlock" BY FinishedUnlocks
  <2>6. j.text \in Text \union {NoText} BY <2>1 DEF JobType
  <2>7. CASE j.kind = "gw_pp_encode"
    <3>1. out[t] = Encoded(j, Sent(j))
      BY <1>0, <1>5, <2>3, <2>7 DEF EndUdh, HoldsOwn, UdhLabel
    <3>2. out' = [out EXCEPT ![t] = [@ EXCEPT !.text = j.text]]
      BY <1>5, <2>7 DEF EndUdh
    <3>3. out'[t] = Answer(j) BY <2>7, <3>1, <3>2 DEF Answer
    <3>4. [out[t] EXCEPT !.text = j.text] \in Output BY <2>6 DEF Output
    <3>5. out' \in [Thread -> Output] BY <3>2, <3>4
    <3>6. TypeOK' BY <1>5, <2>5, <2>7, <3>5 DEF EndUdh
    <3>7. HoldsOwn(t)' BY <1>5, <2>5, <2>7, <3>3 DEF EndUdh, HoldsOwn, UdhLabel
    <3> QED BY <1>5, <2>5, <2>7, <3>2, <3>6, <3>7 DEF EndUdh
  <2>8. CASE j.kind = "udh_encode"
    <3>1. out[t] = Answer(j)
      BY <1>0, <1>5, <2>3, <2>8 DEF EndUdh, HoldsOwn, UdhLabel, Answer
    <3>2. TypeOK' BY <1>5, <2>5, <2>8 DEF EndUdh
    <3>3. HoldsOwn(t)' BY <1>5, <2>5, <2>8, <3>1 DEF EndUdh, HoldsOwn, UdhLabel
    <3> QED BY <1>5, <2>5, <2>8, <3>2, <3>3 DEF EndUdh
  <2>9. CASE j.kind = "cdma_encode"
    <3>1. raw_ts = Encoded(j, Sent(j))
      BY <1>0, <1>5, <2>3, <2>9 DEF EndUdh, HoldsOwn, UdhLabel
    <3>2. TypeOK' BY <1>5, <2>9 DEF EndUdh
    <3>3. HoldsOwn(t)' BY <1>5, <2>9, <3>1 DEF EndUdh, HoldsOwn, UdhLabel
    <3> QED BY <1>5, <2>9, <3>2, <3>3 DEF EndUdh
  <2> QED BY <1>0, <1>5, <2>7, <2>8, <2>9 DEF EndUdh, HoldsOwn, UdhLabel
<1> QED BY <1>1, <1>2, <1>3, <1>4, <1>5 DEF Udh

LEMMA CdmaStep ==
  ASSUME AllLocked, IInv, NEW t \in Thread, Cdma(t)
  PROVE  InsideOK(t)
<1> USE DEF IInv, TypeOK, Step, Goto, Local, statics, InCall, Label, Others, InsideOK
<1> DEFINE j == job[t]
<1>0. HoldsOwn(t) BY DEF StaticsHoldOwn
<1>a. j \in JobType
  BY JobInCall DEF Cdma, BeginCdmaEncode, RawText, RawCopy, UdSave, UdHeaders, UdText
<1>b. Sent(j) \in Nat BY <1>a, SentType
<1>c. Finished(t) = "unlock" BY FinishedUnlocks
<1>d. Answer(j) \in Output /\ Decoded(j) \in Output BY <1>a, AnswerType, DecodedType
<1>e. j.text \in Text \union {NoText} BY <1>a DEF JobType
<1>1. CASE BeginCdmaEncode(t)
  <2>1. Encoded(j, 0) = Empty BY DEF Encoded, Elements, Empty
  <2>2. TypeOK' BY <1>1, EmptyType DEF BeginCdmaEncode
  <2>3. HoldsOwn(t)' BY <1>0, <1>1, <1>b, <2>1 DEF BeginCdmaEncode, HoldsOwn, UdhLabel
  <2> QED BY <1>1, <2>2, <2>3 DEF BeginCdmaEncode
<1>2. CASE RawText(t)
  <2>1. j.kind = "cdma_encode" /\ raw_ts = Encoded(j, Sent(j))
    BY <1>0, <1>2 DEF RawText, HoldsOwn
  <2>2. raw_ts' = Answer(j) BY <1>2, <2>1 DEF RawText, Answer
  <2>3. TypeOK' BY <1>2, <1>d, <2>2 DEF RawText
  <2>4. HoldsOwn(t)' BY <1>2, <2>2 DEF RawText, HoldsOwn, UdhLabel
  <2> QED BY <1>2, <2>3, <2>4 DEF RawText
<1>3. CASE RawCopy(t)
  <2>1. raw_ts = Answer(j) BY <1>0, <1>3 DEF RawCopy, HoldsOwn
  <2>2. out'[t] = Answer(j) BY <1>3, <2>1 DEF RawCopy
  <2>3. TypeOK' BY <1>3, <1>c DEF RawCopy
  <2>4. HoldsOwn(t)' BY <1>3, <1>c, <2>2 DEF RawCopy, HoldsOwn, UdhLabel
  <2> QED BY <1>3, <1>c, <2>3, <2>4 DEF RawCopy
<1>4. CASE UdSave(t)
  <2>1. cdma_user_data' = Answer(j) BY <1>4 DEF UdSave, Answer
  <2>2. TypeOK' BY <1>4, <1>d, <2>1 DEF UdSave
  <2>3. HoldsOwn(t)' BY <1>0, <1>4, <2>1 DEF UdSave, HoldsOwn, UdhLabel
  <2> QED BY <1>4, <2>2, <2>3 DEF UdSave
<1>5. CASE UdHeaders(t)
  <2>1. j.kind = "cdma_decode" /\ cdma_user_data = Answer(j) /\ out[t] = Empty
    BY <1>0, <1>5 DEF UdHeaders, HoldsOwn
  <2>2. [Empty EXCEPT !.udh = Answer(j).udh] = Decoded(j)
    BY <2>1 DEF Answer, Decoded, Encoded, Empty
  <2>3. out' = [out EXCEPT ![t] = Decoded(j)]
    BY <1>5, <2>1, <2>2 DEF UdHeaders
  <2>4. TypeOK' BY <1>5, <1>d, <2>3 DEF UdHeaders
  <2>5. HoldsOwn(t)' BY <1>5, <2>1, <2>3 DEF UdHeaders, HoldsOwn, UdhLabel
  <2> QED BY <1>5, <2>4, <2>5 DEF UdHeaders
<1>6. CASE UdText(t)
  <2>1. j.kind = "cdma_decode" /\ cdma_user_data = Answer(j) /\ out[t] = Decoded(j)
    BY <1>0, <1>6 DEF UdText, HoldsOwn
  <2>2. [Decoded(j) EXCEPT !.text = Answer(j).text] = Answer(j)
    BY <2>1 DEF Answer, Decoded, Encoded, Empty
  <2>3. out' = [out EXCEPT ![t] = Answer(j)]
    BY <1>6, <2>1, <2>2 DEF UdText
  <2>4. TypeOK' BY <1>6, <1>c, <1>d, <2>3 DEF UdText
  <2>5. HoldsOwn(t)' BY <1>6, <1>c, <2>3 DEF UdText, HoldsOwn, UdhLabel
  <2> QED BY <1>6, <1>c, <2>3, <2>4, <2>5 DEF UdText
<1> QED BY <1>1, <1>2, <1>3, <1>4, <1>5, <1>6 DEF Cdma

LEMMA CellBroadcastStep ==
  ASSUME AllLocked, IInv, NEW t \in Thread, CellBroadcast(t) \/ BadFormat(t)
  PROVE  InsideOK(t)
<1> USE DEF IInv, TypeOK, Step, Goto, Local, statics, InCall, Label, Others, InsideOK
<1> DEFINE j == job[t]
<1>0. HoldsOwn(t) BY DEF StaticsHoldOwn
<1>a. j \in JobType
  BY JobInCall
     DEF CellBroadcast, BadFormat, CbReset, CbLanguage, CbText, CbPack, CbUnpack, CbCopy
<1>c. Finished(t) = "unlock" BY FinishedUnlocks
<1>d. Answer(j) \in Output BY <1>a, AnswerType
<1>e. /\ j.text \in Text \union {NoText} /\ j.lang \in Text \union {NoText}
      /\ Empty \in Output
  BY <1>a, EmptyType DEF JobType
<1>1. CASE CbReset(t)
  <2>1. TypeOK' BY <1>1, <1>e DEF CbReset
  <2>2. HoldsOwn(t)' BY <1>0, <1>1 DEF CbReset, HoldsOwn, UdhLabel
  <2> QED BY <1>1, <2>1, <2>2 DEF CbReset
<1>2. CASE CbLanguage(t)
  <2>1. j.kind = "gw_cb_encode" /\ gw_user_data = Empty
    BY <1>0, <1>2 DEF CbLanguage, HoldsOwn
  <2>2. gw_user_data' = [Empty EXCEPT !.lang = j.lang]
    BY <1>2, <2>1 DEF CbLanguage, Empty
  <2>3. [Empty EXCEPT !.lang = j.lang] \in Output BY <1>e DEF Output
  <2>4. TypeOK' BY <1>2, <2>2, <2>3 DEF CbLanguage
  <2>5. HoldsOwn(t)' BY <1>2, <2>1, <2>2 DEF CbLanguage, HoldsOwn, UdhLabel
  <2> QED BY <1>2, <2>4, <2>5 DEF CbLanguage
<1>3. CASE CbText(t)
  <2>1. j.kind = "gw_cb_encode" /\ gw_user_data = [Empty EXCEPT !.lang = j.lang]
    BY <1>0, <1>3 DEF CbText, HoldsOwn
  <2>2. gw_user_data' = Answer(j) BY <1>3, <2>1 DEF CbText, Answer, Empty
  <2>3. TypeOK' BY <1>3, <1>d, <2>2 DEF CbText
  <2>4. HoldsOwn(t)' BY <1>3, <2>1, <2>2 DEF CbText, HoldsOwn, UdhLabel
  <2> QED BY <1>3, <2>3, <2>4 DEF CbText
<1>4. CASE CbPack(t)
  <2>1. out'[t] = Answer(j) BY <1>0, <1>4 DEF CbPack, HoldsOwn
  <2>2. TypeOK' BY <1>4, <1>c DEF CbPack
  <2>3. HoldsOwn(t)' BY <1>4, <1>c, <2>1 DEF CbPack, HoldsOwn, UdhLabel
  <2> QED BY <1>4, <1>c, <2>2, <2>3 DEF CbPack
<1>5. CASE CbUnpack(t)
  <2>1. gw_user_data' \in Output BY <1>5, <1>e DEF CbUnpack, Output, Empty
  <2>2. gw_user_data'.text = j.text BY <1>5 DEF CbUnpack, Empty
  <2>3. TypeOK' BY <1>5, <2>1 DEF CbUnpack
  <2>4. HoldsOwn(t)' BY <1>0, <1>5, <2>2 DEF CbUnpack, HoldsOwn, UdhLabel
  <2> QED BY <1>5, <2>3, <2>4 DEF CbUnpack
<1>6. CASE CbCopy(t)
  <2>1. j.kind = "gw_cb_decode" /\ gw_user_data.text = j.text /\ out[t] = Empty
    BY <1>0, <1>6 DEF CbCopy, HoldsOwn
  <2>2. out' = [out EXCEPT ![t] = Answer(j)]
    BY <1>6, <2>1 DEF CbCopy, Answer
  <2>3. TypeOK' BY <1>6, <1>c, <1>d, <2>2 DEF CbCopy
  <2>4. HoldsOwn(t)' BY <1>6, <1>c, <2>2 DEF CbCopy, HoldsOwn, UdhLabel
  <2> QED BY <1>6, <1>c, <2>2, <2>3, <2>4 DEF CbCopy
<1>7. CASE BadFormat(t)
  <2>1. out[t] = Empty /\ j.kind = "bad_format" BY <1>0, <1>7 DEF BadFormat, HoldsOwn
  <2>2. out' = [out EXCEPT ![t] = Answer(j)]
    BY <1>7, <2>1 DEF BadFormat, Answer
  <2>3. TypeOK' BY <1>7, <1>c, <1>d, <2>2 DEF BadFormat
  <2>4. HoldsOwn(t)' BY <1>7, <1>c, <2>2 DEF BadFormat, HoldsOwn, UdhLabel
  <2> QED BY <1>7, <1>c, <2>2, <2>3, <2>4 DEF BadFormat
<1> QED BY <1>1, <1>2, <1>3, <1>4, <1>5, <1>6, <1>7 DEF CellBroadcast

-----------------------------------------------------------------------------
(* A thread outside the lock has touched nothing yet; one inside it is the *)
(* owner, so a step of another thread cannot reach its data.               *)
LEMMA InsideKeepsIInv ==
  ASSUME AllLocked, IInv, NEW t \in Thread, InsideOK(t)
  PROVE  IInv'
<1> USE DEF IInv, InsideOK, AllLocked
<1>1. TypeOK' OBVIOUS
<1>2. \A s \in Thread : (pc[s] \in InCall <=> mutex = s) BY DEF MutualExclusion
<1>3. \A s \in Thread : (pc'[s] \in InCall <=> mutex' = s) BY <1>2 DEF Others
<1>4. MutualExclusion' BY <1>3 DEF MutualExclusion
<1>5. ASSUME NEW s \in Thread, s # t PROVE HoldsOwn(s)'
  <2>1. pc[s] \notin InCall BY <1>2, <1>5
  <2>2. pc[s] \in {"idle", "lock"} BY <2>1 DEF TypeOK, InCall, Label
  <2>3. i[s] = 1 /\ out[s] = Empty BY <2>2 DEF StaticsHoldOwn, HoldsOwn
  <2>4. pc'[s] \in {"idle", "lock"} /\ i'[s] = 1 /\ out'[s] = Empty
    BY <1>5, <2>2, <2>3 DEF Others
  <2> QED BY <2>4 DEF HoldsOwn, UdhLabel
<1>6. StaticsHoldOwn' BY <1>5 DEF StaticsHoldOwn
<1> QED BY <1>1, <1>4, <1>6

(* Call, Lock and Unlock: the steps that do not run under the lock. *)
LEMMA BoundaryKeepsIInv ==
  ASSUME AllLocked, IInv, NEW t \in Thread,
         Lock(t) \/ Unlock(t) \/ \E j \in Job : Call(t, j)
  PROVE  IInv'
<1> USE DEF IInv, AllLocked
<1>0. \A s \in Thread : HoldsOwn(s) BY DEF StaticsHoldOwn
<1>1. \A s \in Thread : (pc[s] \in InCall <=> mutex = s) BY DEF MutualExclusion
<1>2. CASE \E j \in Job : Call(t, j)
  <2>1. PICK j \in Job : Call(t, j) BY <1>2
  <2>2. TypeOK' BY <2>1 DEF Call, Goto, IsDirect, TypeOK, statics, Label
  <2>3. \A s \in Thread : (pc'[s] \in InCall <=> mutex' = s)
    BY <1>1, <2>1 DEF Call, Goto, IsDirect, TypeOK, InCall, Label
  <2>4. ASSUME NEW s \in Thread PROVE HoldsOwn(s)'
    <3>1. CASE s = t
      BY <1>0, <2>1, <3>1
         DEF Call, Goto, IsDirect, TypeOK, HoldsOwn, statics, UdhLabel
    <3>2. CASE s # t
      <4>1. /\ pc'[s] = pc[s] /\ job'[s] = job[s] /\ i'[s] = i[s]
            /\ id'[s] = id[s] /\ out'[s] = out[s] /\ UNCHANGED statics
        BY <2>1, <3>2 DEF Call, Goto, TypeOK
      <4> QED BY <1>0, <4>1 DEF HoldsOwn, statics
    <3> QED BY <3>1, <3>2
  <2> QED BY <2>2, <2>3, <2>4 DEF MutualExclusion, StaticsHoldOwn
<1>3. CASE Lock(t)
  <2>1. TypeOK' BY <1>3 DEF Lock, Step, Goto, TypeOK, statics, Label
  <2>2. \A s \in Thread : (pc'[s] \in InCall <=> mutex' = s)
    BY <1>1, <1>3, ThreadAssumption DEF Lock, Step, Goto, TypeOK, InCall, Label
  <2>3. ASSUME NEW s \in Thread PROVE HoldsOwn(s)'
    <3>1. CASE s = t
      BY <1>0, <1>3, <3>1 DEF Lock, Step, Goto, TypeOK, HoldsOwn, statics, UdhLabel
    <3>2. CASE s # t
      <4>1. /\ pc'[s] = pc[s] /\ job'[s] = job[s] /\ i'[s] = i[s]
            /\ id'[s] = id[s] /\ out'[s] = out[s] /\ UNCHANGED statics
        BY <1>3, <3>2 DEF Lock, Step, Goto, TypeOK
      <4> QED BY <1>0, <4>1 DEF HoldsOwn, statics
    <3> QED BY <3>1, <3>2
  <2> QED BY <2>1, <2>2, <2>3 DEF MutualExclusion, StaticsHoldOwn
<1>4. CASE Unlock(t)
  <2>0. pc[t] = "unlock" /\ mutex' = NoThread /\ Return(t) BY <1>4, UnlockReleases
  <2>1. TypeOK'
    BY <2>0, EmptyType DEF Return, Goto, TypeOK, statics, Label
  <2>2. mutex = t BY <1>1, <2>0 DEF InCall, Label
  <2>3. \A s \in Thread : (pc'[s] \in InCall <=> mutex' = s)
    BY <1>1, <2>0, <2>2, ThreadAssumption DEF Return, Goto, TypeOK, InCall, Label
  <2>4. ASSUME NEW s \in Thread PROVE HoldsOwn(s)'
    <3>1. CASE s = t
      BY <1>0, <2>0, <3>1 DEF Return, Goto, TypeOK, HoldsOwn, statics, UdhLabel
    <3>2. CASE s # t
      <4>1. /\ pc'[s] = pc[s] /\ job'[s] = job[s] /\ i'[s] = i[s]
            /\ id'[s] = id[s] /\ out'[s] = out[s] /\ UNCHANGED statics
        BY <2>0, <3>2 DEF Return, Goto, TypeOK
      <4> QED BY <1>0, <4>1 DEF HoldsOwn, statics
    <3> QED BY <3>1, <3>2
  <2> QED BY <2>1, <2>3, <2>4 DEF MutualExclusion, StaticsHoldOwn
<1> QED BY <1>2, <1>3, <1>4

LEMMA NextKeepsIInv ==
  ASSUME AllLocked, IInv, [Next]_vars
  PROVE  IInv'
<1>1. CASE UNCHANGED vars
  <2>1. TypeOK' BY <1>1 DEF IInv, TypeOK, vars, statics
  <2>2. MutualExclusion' BY <1>1 DEF IInv, MutualExclusion, vars
  <2>3. StaticsHoldOwn'
    BY <1>1 DEF IInv, StaticsHoldOwn, HoldsOwn, vars, statics
  <2> QED BY <2>1, <2>2, <2>3 DEF IInv
<1>2. CASE Next
  <2>1. PICK t \in Thread : Lock(t) \/ Work(t) \/ \E j \in Job : Call(t, j)
    BY <1>2 DEF Next
  <2>2. CASE Lock(t) \/ Unlock(t) \/ \E j \in Job : Call(t, j)
    BY <2>2, BoundaryKeepsIInv
  <2>3. CASE Udh(t) BY <2>3, UdhStep, InsideKeepsIInv
  <2>4. CASE Cdma(t) BY <2>4, CdmaStep, InsideKeepsIInv
  <2>5. CASE CellBroadcast(t) \/ BadFormat(t)
    BY <2>5, CellBroadcastStep, InsideKeepsIInv
  <2> QED BY <2>1, <2>2, <2>3, <2>4, <2>5 DEF Work
<1> QED BY <1>1, <1>2

-----------------------------------------------------------------------------
(* Callers that keep to wms_ts_encode and wms_ts_decode find, at every      *)
(* point of every call, their own data in the statics that call uses.       *)
THEOREM StaticsAreOwn == AllLocked /\ Spec => [](TypeOK /\ MutualExclusion /\ StaticsHoldOwn)
<1>1. AllLocked /\ Init => IInv BY InitIInv
<1>2. AllLocked /\ IInv /\ [Next]_vars => IInv' BY NextKeepsIInv
<1>3. AllLocked => AllLocked' BY DEF AllLocked
<1> QED BY <1>1, <1>2, <1>3, PTL DEF Spec, IInv

(* Program counters, jobs and statics keep their types: no thread is ever  *)
(* at a label of a job it does not run.                                     *)
THEOREM TypesAreKept == AllLocked /\ Spec => []TypeOK
<1>1. TypeOK /\ MutualExclusion /\ StaticsHoldOwn => TypeOK OBVIOUS
<1> QED BY <1>1, StaticsAreOwn, PTL

(* Every reply is a function of the arguments of the call it answers.      *)
THEOREM RepliesAreOwn == AllLocked /\ Spec => []ReplyIsOwn
<1>1. ASSUME IInv PROVE ReplyIsOwn
  BY <1>1 DEF IInv, ReplyIsOwn, StaticsHoldOwn, HoldsOwn
<1> QED BY <1>1, StaticsAreOwn, PTL DEF IInv

(* Every step of the codec is a call, a return with the right answer, or a *)
(* stutter of the service its callers see.                                 *)
LEMMA StepImplements ==
  ASSUME AllLocked, IInv, [Next]_vars
  PROVE  [Service!Next]_(Service!vars)
<1>0. job \in [Thread -> Job \union {NoJob}] /\ pc \in [Thread -> Label]
  BY DEF IInv, TypeOK
<1>1. CASE UNCHANGED vars BY <1>1 DEF vars, Service!vars
<1>2. ASSUME NEW t \in Thread, NEW j \in Job, Call(t, j)
      PROVE  Service!Next
  <2>1. job[t] = NoJob BY <1>2 DEF Call, IInv, TypeOK
  <2> QED BY <1>2, <2>1 DEF Service!Next, Service!Call, Call
<1>3. ASSUME NEW t \in Thread, Lock(t) PROVE UNCHANGED Service!vars
  BY <1>3 DEF Lock, Service!vars
<1>4. ASSUME NEW t \in Thread, Inside(t) PROVE UNCHANGED Service!vars
  <2>1. CASE Udh(t)
    BY <2>1 DEF Udh, BeginUdh, SelectHeader, SwitchHeader, WriteHeader, EndUdh,
                Local, Service!vars
  <2>2. CASE Cdma(t)
    BY <2>2 DEF Cdma, BeginCdmaEncode, RawText, RawCopy, UdSave, UdHeaders, UdText,
                Local, Service!vars
  <2>3. CASE CellBroadcast(t) \/ BadFormat(t)
    BY <2>3 DEF CellBroadcast, CbReset, CbLanguage, CbText, CbPack, CbUnpack, CbCopy,
                BadFormat, Local, Service!vars
  <2> QED BY <1>4, <2>1, <2>2, <2>3 DEF Inside
<1>5. ASSUME NEW t \in Thread, Unlock(t) PROVE Service!Next
  <2>0. pc[t] = "unlock" /\ Return(t) BY <1>5, UnlockReleases
  <2>1. out[t] = Answer(job[t]) BY <2>0 DEF IInv, StaticsHoldOwn, HoldsOwn
  <2>2. job[t] # NoJob BY <2>0, JobAssumption DEF IInv, TypeOK
  <2>3. Service!Return(t) BY <2>0, <2>1, <2>2 DEF Return, Service!Return
  <2> QED BY <2>3 DEF Service!Next
<1> QED BY <1>1, <1>2, <1>3, <1>4, <1>5 DEF Next, Work, Inside

(* The codec implements the service its callers see, whatever the number   *)
(* of threads: each call takes effect as if it ran alone.                  *)
THEOREM CodecImplementsService == AllLocked /\ Spec => Service!SafeSpec
<1>1. Init => Service!Init BY DEF Init, Service!Init
<1>2. AllLocked /\ IInv /\ [Next]_vars => [Service!Next]_(Service!vars)
  BY StepImplements
<1>3. AllLocked => AllLocked' BY DEF AllLocked
<1> QED BY <1>1, <1>2, <1>3, StaticsAreOwn, PTL DEF Spec, Service!SafeSpec, IInv
=============================================================================
