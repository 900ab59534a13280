------------------------ MODULE UserDataHeaderProofs ------------------------
(***************************************************************************)
(* What a caller of wms_ts_decode_user_data_header may rely on, for every  *)
(* size of the header table and of the buffer and for every message.       *)
(***************************************************************************)
EXTENDS UserDataHeader, WellFoundedInduction, TLAPS

(* The verdict at the end, and what makes it so: a loop that is still       *)
(* running has found the end of the elements taken so far.                  *)
Verdict == /\ result = 0 <=> headers = <<>>
           /\ result # 0 => /\ result = msg.udhl
                            /\ End = msg.udhl + 1 \/ Len(headers) = MaxHeaders

IInv == /\ msg \in MessageType
        /\ at \in {"enter", "loop", "done"}
        /\ pos \in Nat
        /\ headers \in Seq(Reported) /\ Len(headers) <= MaxHeaders
        /\ Contiguous
        /\ at = "enter" => headers = <<>> /\ result = 0
        /\ at = "loop" => result = 0 /\ msg.udhl # 0
        /\ at = "done" => Verdict

-----------------------------------------------------------------------------
LEMMA InitIInv == Init => IInv
<1> SUFFICES ASSUME Init PROVE IInv
  OBVIOUS
<1>1. msg \in MessageType
  BY MessageAssumption DEF Init
<1>2. headers = <<>> /\ Len(headers) = 0
  BY DEF Init
<1>3. Contiguous
  BY <1>2 DEF Init, Contiguous
<1> QED BY <1>1, <1>2, <1>3, MaxHeadersAssumption DEF Init, IInv

(* A decoder that takes an element steps over all of it.                    *)
LEMMA TakenWhole ==
  ASSUME NEW e \in Wire, NEW f \in BOOLEAN, DecodedLength(e, f) # 0
  PROVE  DecodedLength(e, f) = 2 + e.iedl
BY DEF DecodedLength

LEMMA TakeKeepsIInv == IInv /\ TakeElement => IInv'
<1> SUFFICES ASSUME IInv, TakeElement PROVE IInv'
  OBVIOUS
<1> DEFINE n == Len(headers)
           e == msg.elements[n + 1]
           f == FirstSegment(msg)
<1>1. /\ headers \in Seq(Reported) /\ n \in Nat /\ n + 1 <= MaxHeaders
      /\ at = "loop" /\ UNCHANGED <<msg, at, result>> /\ result = 0 /\ msg.udhl # 0
  BY MaxHeadersAssumption DEF IInv, TakeElement, InLoop
<1>2. e \in Wire /\ e.iedl \in Nat
  <2>1. msg.elements \in [1..MaxHeaders -> Wire] /\ n + 1 \in 1..MaxHeaders
    BY <1>1, MaxHeadersAssumption DEF IInv, MessageType
  <2>2. e \in Wire
    BY <2>1
  <2>3. e.iedl \in 0..255
    BY <2>2 DEF Wire
  <2>4. \A x \in 0..255 : x \in Nat
    OBVIOUS
  <2> QED BY <2>2, <2>3, <2>4, Zenon
<1>3. f \in BOOLEAN
  BY DEF FirstSegment
<1>4. pos \in 0..255 /\ pos = End
  <2>1. pos \in Nat /\ pos < msg.udhl /\ msg.udhl \in 0..255
    BY DEF IInv, TakeElement, InLoop, MessageType
  <2>2. pos = End
    BY <1>1 DEF IInv, Contiguous
  <2> QED BY <2>1, <2>2
<1>5. DecodedLength(e, f) # 0 /\ pos' = pos + 2 + e.iedl
  <2>1. Size = DecodedLength(e, f) /\ Size # 0 /\ pos' = pos + Size
    BY DEF TakeElement, Size, Found
  <2>2. Size = 2 + e.iedl
    BY <2>1, <1>2, <1>3, TakenWhole
  <2> QED BY <1>2, <1>4, <2>1, <2>2
<1> DEFINE r == [element |-> e, pos |-> pos, first |-> f]
<1>6. r \in Reported /\ headers' = Append(headers, r)
  BY <1>2, <1>3, <1>4 DEF Reported, TakeElement, Found
<1>7. /\ headers' \in Seq(Reported) /\ Len(headers') = n + 1
      /\ headers'[n + 1] = r
      /\ \A k \in 1..n : headers'[k] = headers[k]
  BY <1>1, <1>6
<1>8. Contiguous'
  <2>1. pos' = End'
    <3>1. headers' # <<>>
      BY <1>1, <1>7
    <3>2. End' = r.pos + 2 + r.element.iedl
      BY <1>7, <3>1 DEF End
    <3> QED BY <1>5, <3>2
  <2>2. ASSUME NEW k \in 1..n + 1
        PROVE  /\ headers'[k].element = msg.elements[k]
               /\ headers'[k].pos = IF k = 1 THEN 1
                      ELSE headers'[k - 1].pos + 2 + headers'[k - 1].element.iedl
               /\ DecodedLength(headers'[k].element, headers'[k].first) # 0
    <3>1. CASE k \in 1..n
      <4>1. headers'[k] = headers[k] /\ (k # 1 => headers'[k - 1] = headers[k - 1])
        BY <1>1, <1>7, <3>1
      <4> QED BY <3>1, <4>1 DEF IInv, Contiguous
    <3>2. CASE k = n + 1
      <4>1. headers'[k] = r
        BY <1>7, <3>2
      <4>2. CASE n = 0
        <5>1. headers = <<>>
          BY <1>1, <4>2
        <5>2. pos = 1
          BY <1>4, <5>1 DEF End
        <5> QED BY <1>5, <3>2, <4>1, <4>2, <5>2
      <4>3. CASE n > 0
        <5>1. pos = headers[n].pos + 2 + headers[n].element.iedl
          BY <1>1, <1>4, <4>3 DEF End
        <5>2. k - 1 = n /\ headers'[k - 1] = headers[n]
          BY <1>1, <1>7, <3>2, <4>3
        <5> QED BY <1>5, <3>2, <4>1, <4>3, <5>1, <5>2
      <4> QED BY <1>1, <4>2, <4>3
    <3> QED BY <1>1, <3>1, <3>2
  <2> QED BY <1>1, <1>7, <2>1, <2>2 DEF Contiguous
<1>9. pos' \in Nat
  BY <1>2, <1>4, <1>5
<1> QED BY <1>1, <1>7, <1>8, <1>9 DEF IInv

LEMMA LeaveKeepsIInv == IInv /\ Leave => IInv'
<1> SUFFICES ASSUME IInv, Leave PROVE IInv'
  OBVIOUS
<1>1. /\ at = "loop" /\ at' = "done" /\ UNCHANGED msg
      /\ msg.udhl \in 0..255 /\ msg.udhl # 0 /\ pos \in Nat /\ pos = End
      /\ headers \in Seq(Reported) /\ Len(headers) \in Nat /\ Len(headers) <= MaxHeaders
  BY DEF IInv, Leave, MessageType, Contiguous
<1>2. pos' \in Nat
  <2> DEFINE u == msg.udhl
  <2>1. u \in 0..255
    BY <1>1
  <2>2. pos' = IF Len(headers) >= MaxHeaders THEN (u + 1) % 256 ELSE pos
    BY DEF Leave
  <2> HIDE DEF u
  <2>3. (u + 1) % 256 \in Nat
    BY <2>1
  <2> QED BY <1>1, <2>2, <2>3
<1>3. CASE pos' = msg.udhl + 1
  <2>1. result' = msg.udhl /\ UNCHANGED headers
    BY <1>3 DEF Leave
  <2>2. Contiguous'
    BY <1>1, <2>1 DEF IInv, Contiguous, End
  <2>3. CASE Len(headers) >= MaxHeaders
    <3>1. Len(headers) = MaxHeaders /\ headers # <<>>
      BY <1>1, <2>3, MaxHeadersAssumption
    <3> QED BY <1>1, <1>2, <2>1, <2>2, <3>1 DEF IInv, Verdict, End
  <2>4. CASE ~(Len(headers) >= MaxHeaders)
    <3>1. End = msg.udhl + 1
      BY <1>1, <1>3, <2>4 DEF Leave
    <3>2. headers # <<>>
      <4>1. SUFFICES ASSUME headers = <<>> PROVE FALSE
        OBVIOUS
      <4>2. End = 1
        BY <4>1 DEF End
      <4> DEFINE u == msg.udhl
      <4>3. u \in 0..255 /\ u # 0 /\ u + 1 = 1
        BY <1>1, <3>1, <4>2
      <4> HIDE DEF u
      <4> QED BY <4>3
    <3> QED BY <1>1, <1>2, <2>1, <2>2, <3>1, <3>2 DEF IInv, Verdict, End
  <2> QED BY <2>3, <2>4
<1>4. CASE pos' # msg.udhl + 1
  <2>1. result' = 0 /\ headers' = <<>>
    BY <1>4 DEF Leave
  <2>2. Contiguous'
    BY <1>1, <2>1 DEF Contiguous
  <2> QED BY <1>1, <1>2, <2>1, <2>2, MaxHeadersAssumption DEF IInv, Verdict
<1> QED BY <1>3, <1>4

LEMMA NextKeepsIInv == IInv /\ [Next]_vars => IInv'
<1> SUFFICES ASSUME IInv, [Next]_vars PROVE IInv'
  OBVIOUS
<1>1. CASE Enter
  <2>1. headers = <<>> /\ headers' = <<>> /\ UNCHANGED <<msg, result>> /\ result = 0
        /\ msg.udhl \in 0..255
    BY <1>1 DEF Enter, IInv, MessageType
  <2>2. CASE msg.udhl = 0
    BY <1>1, <2>1, <2>2, MaxHeadersAssumption DEF Enter, IInv, Contiguous, Verdict
  <2>3. CASE msg.udhl # 0
    <3>1. at' = "loop" /\ pos' = 1 /\ Contiguous'
      BY <1>1, <2>1, <2>3 DEF Enter, Contiguous, End
    <3> QED BY <1>1, <2>1, <2>3, <3>1, MaxHeadersAssumption DEF IInv
  <2> QED BY <2>2, <2>3
<1>2. CASE TakeElement
  BY <1>2, TakeKeepsIInv
<1>3. CASE Refuse
  <2>1. headers' = <<>> /\ result' = 0 /\ at' = "done" /\ UNCHANGED <<msg, pos>>
    BY <1>3 DEF Refuse, InLoop, IInv
  <2>2. Contiguous'
    BY <2>1 DEF Contiguous
  <2> QED BY <2>1, <2>2, MaxHeadersAssumption DEF IInv, Verdict
<1>4. CASE Leave
  BY <1>4, LeaveKeepsIInv
<1>5. CASE UNCHANGED vars
  BY <1>5 DEF IInv, vars, Contiguous, End, Verdict
<1> QED BY <1>1, <1>2, <1>3, <1>4, <1>5 DEF Next

LEMMA IInvIsInvariant == Spec => []IInv
BY InitIInv, NextKeepsIInv, PTL DEF Spec

-----------------------------------------------------------------------------
(* Each reported header is the element of the message it should be, and     *)
(* starts where the one before it ended.                                    *)
THEOREM HeadersAreContiguous == Spec => []Contiguous
<1>1. IInv => Contiguous
  BY DEF IInv
<1> QED BY <1>1, IInvIsInvariant, PTL

(* A length is returned only for a header the reported elements fill        *)
(* exactly, or when the table is full.                                      *)
THEOREM AcceptedHeadersAreTiled == Spec => []AcceptedIsTiled
<1>1. IInv => AcceptedIsTiled
  BY DEF IInv, AcceptedIsTiled, Verdict
<1> QED BY <1>1, IInvIsInvariant, PTL

(* A header that is refused leaves no element behind, an accepted one at    *)
(* least one.                                                               *)
THEOREM AcceptanceIsAllOrNothing == Spec => []AllOrNothing
<1>1. IInv => AllOrNothing
  BY DEF IInv, AllOrNothing, Verdict
<1> QED BY <1>1, IInvIsInvariant, PTL

-----------------------------------------------------------------------------
(* ---- where the elements start ------------------------------------------*)
(* Induction without an operator: of a non-empty set of numbers the         *)
(* well-founded order < has a least member.                                 *)
LEMMA NatSetInduction ==
  ASSUME NEW S, 0 \in S, \A n \in Nat : n \in S => n + 1 \in S
  PROVE  \A n \in Nat : n \in S
<1> DEFINE R == OpToRel(<, Nat)
           T == Nat \ S
<1>1. IsWellFoundedOn(R, Nat)
  BY NatLessThanWellFounded
<1> SUFFICES ASSUME T # {} PROVE FALSE
  OBVIOUS
<1>2. PICK x \in T : \A y \in T : <<y, x>> \notin R
  <2>1. T \subseteq Nat
    OBVIOUS
  <2> HIDE DEF R, T
  <2> QED BY <1>1, <2>1, WFMin
<1>3. x \in Nat /\ x # 0 /\ x \notin S
  OBVIOUS
<1>4. x - 1 \in Nat /\ x - 1 < x /\ (x - 1) + 1 = x
  BY <1>3
<1>5. x - 1 \notin T
  <2>1. <<x - 1, x>> \in R
    BY <1>3, <1>4 DEF OpToRel
  <2> HIDE DEF R, T
  <2> QED BY <1>2, <2>1
<1>6. x - 1 \in S
  BY <1>4, <1>5
<1>7. x \in S
  BY <1>4, <1>6, Zenon
<1> QED BY <1>3, <1>7

(* What a recursion has that finds the starts of n parts of the sizes d; it *)
(* is built up part by part.                                                *)
AreOffsets(f, a, d, n) ==
  /\ f \in [1..n + 1 -> Nat]
  /\ \A k \in 1..n + 1 : f[k] = IF k = 1 THEN a ELSE f[k - 1] + d[k - 1]

LEMMA OffsetsExist ==
  ASSUME NEW N \in Nat, NEW a \in Nat, NEW d \in [1..N -> Nat]
  PROVE  \E f : AreOffsets(f, a, d, N)
<1> USE DEF AreOffsets
<1> DEFINE P(f, n) == AreOffsets(f, a, d, n)
           S == {n \in Nat : n <= N => \E f : P(f, n)}
<1>1. 0 \in S
  <2> DEFINE f == [k \in 1..1 |-> a]
  <2>1. P(f, 0)
    <3>1. \A k \in 1..0 + 1 : k = 1
      OBVIOUS
    <3> QED BY <3>1
  <2> HIDE DEF P, AreOffsets
  <2> QED BY <2>1
<1>2. ASSUME NEW n \in Nat, n \in S, n + 1 <= N PROVE \E g : P(g, n + 1)
  <2>1. PICK f : P(f, n)
    <3> HIDE DEF P, AreOffsets
    <3> QED BY <1>2
  <2> DEFINE g == [k \in 1..n + 2 |-> IF k = n + 2 THEN f[n + 1] + d[n + 1] ELSE f[k]]
  <2>2. d[n + 1] \in Nat /\ f[n + 1] \in Nat
    BY <1>2, <2>1
  <2>3. g \in [1..n + 2 -> Nat]
    BY <2>1, <2>2
  <2>4. ASSUME NEW k \in 1..n + 2 PROVE g[k] = IF k = 1 THEN a ELSE g[k - 1] + d[k - 1]
    <3>1. CASE k = n + 2
      BY <3>1
    <3>2. CASE k \in 1..n + 1
      BY <2>1, <3>2
    <3> QED BY <3>1, <3>2
  <2>5. P(g, n + 1)
    BY <2>3, <2>4
  <2> QED BY <2>5
<1>3. N \in S
  <2> HIDE DEF P, AreOffsets
  <2>1. \A n \in Nat : n \in S => n + 1 \in S
    BY <1>2
  <2> HIDE DEF S
  <2> QED BY <1>1, <2>1, NatSetInduction
<1>4. \E f : P(f, N)
  <2> HIDE DEF P, AreOffsets
  <2> QED BY <1>3
<1> HIDE DEF AreOffsets
<1> QED BY <1>4

(* The recursion of Offsets has a value, and what it says is true of it.     *)
LEMMA OffsetsDef ==
  ASSUME NEW N \in Nat, NEW a \in Nat, NEW d \in [1..N -> Nat]
  PROVE  /\ Offsets(a, d, N) \in [1..N + 1 -> Nat]
         /\ Offsets(a, d, N)[1] = a
         /\ \A k \in 1..N : Offsets(a, d, N)[k + 1] = Offsets(a, d, N)[k] + d[k]
<1>1. PICK f : AreOffsets(f, a, d, N)
  BY OffsetsExist, Zenon
<1>2. f = [k \in 1..N + 1 |-> IF k = 1 THEN a ELSE f[k - 1] + d[k - 1]]
  BY <1>1 DEF AreOffsets
<1> DEFINE G == CHOOSE s : s = [k \in 1..N + 1 |-> IF k = 1 THEN a ELSE s[k - 1] + d[k - 1]]
<1>3. Offsets(a, d, N) = G
  BY DEF Offsets
<1>4. G = [k \in 1..N + 1 |-> IF k = 1 THEN a ELSE G[k - 1] + d[k - 1]]
  BY <1>2
<1> HIDE DEF G
<1>5. G[1] = a
  BY <1>4
<1>6. ASSUME NEW k \in 1..N PROVE G[k + 1] = G[k] + d[k]
  BY <1>4
<1> DEFINE S == {n \in Nat : n <= N => G[n + 1] \in Nat}
<1>7. 0 \in S
  BY <1>5
<1>8. ASSUME NEW n \in Nat, n \in S PROVE n + 1 \in S
  <2> SUFFICES ASSUME n + 1 <= N PROVE G[n + 2] \in Nat
    OBVIOUS
  <2>1. G[n + 2] = G[n + 1] + d[n + 1]
    BY <1>6
  <2> QED BY <1>8, <2>1
<1>9. \A n \in Nat : n \in S
  <2> HIDE DEF S
  <2> QED BY <1>7, <1>8, NatSetInduction
<1>10. ASSUME NEW k \in 1..N + 1 PROVE G[k] \in Nat
  <2>1. k - 1 \in Nat /\ k - 1 <= N /\ (k - 1) + 1 = k
    OBVIOUS
  <2> QED BY <1>9, <2>1
<1>11. G \in [1..N + 1 -> Nat]
  BY <1>4, <1>10
<1> QED BY <1>3, <1>5, <1>6, <1>11

(* Parts follow each other. *)
LEMMA OffsetsGrow ==
  ASSUME NEW N \in Nat, NEW f \in [1..N + 1 -> Nat], NEW d \in [1..N -> Nat],
         \A k \in 1..N : f[k + 1] = f[k] + d[k]
  PROVE  \A j \in 1..N + 1, k \in 1..N + 1 : j <= k => f[j] <= f[k]
<1> SUFFICES ASSUME NEW j \in 1..N + 1
             PROVE  \A k \in 1..N + 1 : j <= k => f[j] <= f[k]
  OBVIOUS
<1> DEFINE S == {n \in Nat : j + n <= N + 1 => f[j] <= f[j + n]}
<1>1. 0 \in S
  OBVIOUS
<1>2. ASSUME NEW n \in Nat, n \in S PROVE n + 1 \in S
  <2> SUFFICES ASSUME j + n + 1 <= N + 1 PROVE f[j] <= f[j + n + 1]
    OBVIOUS
  <2>1. f[j + n + 1] = f[j + n] + d[j + n] /\ d[j + n] \in Nat
    OBVIOUS
  <2>2. f[j] <= f[j + n] /\ f[j] \in Nat /\ f[j + n] \in Nat
    BY <1>2
  <2> QED BY <2>1, <2>2
<1>3. \A n \in Nat : n \in S
  <2> HIDE DEF S
  <2> QED BY <1>1, <1>2, NatSetInduction
<1>4. ASSUME NEW k \in 1..N + 1, j <= k PROVE f[j] <= f[k]
  <2>1. k - j \in Nat /\ j + (k - j) = k
    BY <1>4
  <2>2. k - j \in S
    BY <1>3, <2>1
  <2> QED BY <1>4, <2>1, <2>2
<1> QED BY <1>4

LEMMA StartDef ==
  ASSUME NEW m \in MessageType
  PROVE  /\ Start(m) \in [1..MaxHeaders + 1 -> Nat] /\ Start(m)[1] = 1
         /\ \A k \in 1..MaxHeaders : /\ m.elements[k].iedl \in Nat
                                     /\ Start(m)[k + 1] = Start(m)[k] + 2 + m.elements[k].iedl
         /\ \A j \in 1..MaxHeaders + 1, k \in 1..MaxHeaders + 1 :
              j <= k => Start(m)[j] <= Start(m)[k]
<1> DEFINE d == [k \in 1..MaxHeaders |-> 2 + m.elements[k].iedl]
<1>1. ASSUME NEW k \in 1..MaxHeaders PROVE m.elements[k].iedl \in Nat
  <2>1. m.elements[k] \in Wire
    BY DEF MessageType
  <2>2. m.elements[k].iedl \in 0..255
    BY <2>1 DEF Wire
  <2>3. \A x \in 0..255 : x \in Nat
    OBVIOUS
  <2> QED BY <2>2, <2>3, Zenon
<1>2. d \in [1..MaxHeaders -> Nat] /\ MaxHeaders \in Nat /\ 1 \in Nat
  BY <1>1, MaxHeadersAssumption
<1>3. Start(m) = Offsets(1, d, MaxHeaders)
  BY DEF Start
<1>4. \A k \in 1..MaxHeaders : d[k] = 2 + m.elements[k].iedl
  OBVIOUS
<1> HIDE DEF d
<1>5. /\ Start(m) \in [1..MaxHeaders + 1 -> Nat] /\ Start(m)[1] = 1
      /\ \A k \in 1..MaxHeaders : Start(m)[k + 1] = Start(m)[k] + d[k]
  <2>1. /\ Offsets(1, d, MaxHeaders) \in [1..MaxHeaders + 1 -> Nat]
        /\ Offsets(1, d, MaxHeaders)[1] = 1
        /\ \A k \in 1..MaxHeaders :
             Offsets(1, d, MaxHeaders)[k + 1] = Offsets(1, d, MaxHeaders)[k] + d[k]
    BY ONLY <1>2, OffsetsDef
  <2> QED BY <1>3, <2>1, Zenon
<1>6. \A j \in 1..MaxHeaders + 1, k \in 1..MaxHeaders + 1 :
        j <= k => Start(m)[j] <= Start(m)[k]
  BY ONLY <1>2, <1>5, OffsetsGrow
<1>7. ASSUME NEW k \in 1..MaxHeaders
      PROVE  Start(m)[k + 1] = Start(m)[k] + 2 + m.elements[k].iedl
  <2>1. Start(m)[k] \in Nat /\ Start(m)[k + 1] = Start(m)[k] + d[k]
    BY <1>2, <1>5
  <2>2. d[k] = 2 + m.elements[k].iedl /\ m.elements[k].iedl \in Nat
    BY <1>1, <1>4
  <2> QED BY <2>1, <2>2
<1> QED BY <1>1, <1>5, <1>6, <1>7

(* A message whose element l + 1 is the first that does not decode, and     *)
(* whose header does not end before it, is not well-formed.                 *)
LEMMA NotWellformed ==
  ASSUME NEW m \in MessageType, NEW l \in Nat, l < MaxHeaders,
         \A k \in 1..l : Decodes(m, k), ~Decodes(m, l + 1),
         l > 0 => Start(m)[l + 1] # m.udhl + 1
  PROVE  ~Wellformed(m)
<1> SUFFICES ASSUME NEW k \in 1..MaxHeaders, \A j \in 1..k : Decodes(m, j),
                    k = MaxHeaders \/ Start(m)[k + 1] = m.udhl + 1
             PROVE  FALSE
  BY DEF Wellformed
<1>1. k <= l
  BY MaxHeadersAssumption
<1>2. Start(m)[k + 1] = m.udhl + 1
  BY <1>1, MaxHeadersAssumption
<1>3. CASE k = l
  BY <1>2, <1>3
<1>4. CASE k < l
  <2>1. Decodes(m, k + 1)
    BY <1>4
  <2>2. Start(m)[k + 1] < m.udhl
    BY <2>1 DEF Decodes
  <2> DEFINE u == m.udhl
  <2>3. u \in 0..255
    BY DEF MessageType
  <2>4. u + 1 < u
    BY <1>2, <2>2
  <2> HIDE DEF u
  <2> QED BY <2>3, <2>4
<1> QED BY <1>1, <1>3, <1>4, MaxHeadersAssumption

-----------------------------------------------------------------------------
(* ---- the loop and the reference definition -----------------------------*)
(* The elements found are the leading ones that decode, and the loop stands *)
(* where the next one starts; the verdict is that of the reference.         *)
Leading == \A k \in 1..Len(headers) : /\ Decodes(msg, k)
                                      /\ headers[k].first = FirstSegment(msg)
ReadInv == /\ Leading
           /\ at = "loop" => pos = Start(msg)[Len(headers) + 1]
           /\ at = "done" => /\ result # 0 <=> Wellformed(msg)
                             /\ result # 0 => \/ Len(headers) = MaxHeaders
                                              \/ Start(msg)[Len(headers) + 1] = msg.udhl + 1

LEMMA TakeKeepsReading == IInv /\ ReadInv /\ TakeElement => ReadInv'
<1> SUFFICES ASSUME IInv, ReadInv, TakeElement PROVE ReadInv'
  OBVIOUS
<1> DEFINE n == Len(headers)
           e == msg.elements[n + 1]
           f == FirstSegment(msg)
           r == [element |-> e, pos |-> pos, first |-> f]
<1>1. /\ n \in Nat /\ n + 1 \in 1..MaxHeaders /\ headers \in Seq(Reported)
      /\ at = "loop" /\ UNCHANGED <<msg, at, result>> /\ pos \in Nat /\ pos < msg.udhl
      /\ msg \in MessageType
  BY MaxHeadersAssumption DEF IInv, TakeElement, InLoop
<1>2. /\ DecodedLength(e, f) # 0 /\ pos + DecodedLength(e, f) <= MaxLen
      /\ pos' = pos + DecodedLength(e, f) /\ headers' = Append(headers, r)
  BY DEF TakeElement, Size, Found
<1>3. /\ e \in Wire /\ f \in BOOLEAN /\ DecodedLength(e, f) = 2 + e.iedl
  <2>1. e \in Wire
    BY <1>1 DEF MessageType
  <2>2. f \in BOOLEAN
    BY DEF FirstSegment
  <2> QED BY <1>2, <2>1, <2>2, TakenWhole
<1>4. pos = Start(msg)[n + 1]
  BY <1>1 DEF ReadInv
<1>5. e.iedl \in Nat /\ Start(msg)[n + 2] = Start(msg)[n + 1] + 2 + e.iedl
  <2>1. \A k \in 1..MaxHeaders : /\ msg.elements[k].iedl \in Nat
                                 /\ Start(msg)[k + 1] = Start(msg)[k] + 2 + msg.elements[k].iedl
    BY <1>1, StartDef
  <2> HIDE DEF n
  <2>2. (n + 1) + 1 = n + 2
    BY <1>1
  <2> QED BY <1>1, <2>1, <2>2
<1>6. pos' = Start(msg)[n + 2]
  BY <1>1, <1>2, <1>3, <1>4, <1>5
<1>7. Decodes(msg, n + 1)
  <2>1. Start(msg)[n + 1] < msg.udhl
    BY <1>1, <1>4
  <2>2. Start(msg)[(n + 1) + 1] <= MaxLen
    BY <1>1, <1>2, <1>6
  <2> QED BY <1>2, <2>1, <2>2 DEF Decodes
<1> HIDE DEF r
<1>8. /\ Len(headers') = n + 1 /\ headers'[n + 1] = r
      /\ \A k \in 1..n : headers'[k] = headers[k]
  <2> DEFINE R == Reported \union {r}
  <2>1. headers \in Seq(R) /\ r \in R
    BY <1>1
  <2> HIDE DEF R
  <2> QED BY <1>1, <1>2, <2>1
<1>9. Leading'
  <2> SUFFICES ASSUME NEW k \in 1..n + 1
               PROVE  Decodes(msg, k) /\ headers'[k].first = FirstSegment(msg)
    BY <1>1, <1>8 DEF Leading, Decodes, FirstSegment
  <2>1. CASE k \in 1..n
    <3>1. headers'[k] = headers[k]
      BY <1>8, <2>1
    <3> QED BY <2>1, <3>1, Zenon DEF ReadInv, Leading
  <2>2. CASE k = n + 1
    BY <1>7, <1>8, <2>2 DEF r
  <2> QED BY <1>1, <2>1, <2>2
<1> QED BY <1>1, <1>6, <1>8, <1>9 DEF ReadInv

LEMMA LeaveKeepsReading == IInv /\ ReadInv /\ Leave => ReadInv'
<1> SUFFICES ASSUME IInv, ReadInv, Leave PROVE ReadInv'
  OBVIOUS
<1> DEFINE n == Len(headers)
           u == msg.udhl
<1>1. /\ n \in Nat /\ n <= MaxHeaders /\ MaxHeaders \in Nat \ {0}
      /\ at = "loop" /\ at' = "done" /\ UNCHANGED msg /\ msg \in MessageType
      /\ u \in 0..255 /\ u # 0 /\ pos \in Nat /\ ~InLoop /\ headers \in Seq(Reported)
      /\ pos = Start(msg)[n + 1] /\ Leading
  BY MaxHeadersAssumption DEF IInv, ReadInv, Leave, MessageType
<1>u. u \in Nat /\ (u = 255 \/ u < 255) /\ u + 1 \in Nat /\ (u < 255 => (u + 1) % 256 = u + 1)
  <2>1. u \in 0..255
    BY <1>1
  <2> HIDE DEF u
  <2> QED BY <2>1
<1>2. CASE n = MaxHeaders
  <2>1. pos' = (u + 1) % 256
    BY <1>1, <1>2 DEF Leave
  <2>2. \A j \in 1..MaxHeaders : Decodes(msg, j)
    BY <1>1, <1>2 DEF Leading
  <2>3. CASE u = 255
    <3>1. pos' = 0
      BY <2>1, <2>3
    <3>2. result' = 0 /\ headers' = <<>>
      BY <2>3, <3>1 DEF Leave
    <3>3. ~Wellformed(msg)
      BY <2>3 DEF Wellformed
    <3> QED BY <1>1, <3>2, <3>3 DEF ReadInv, Leading
  <2>4. CASE u < 255
    <3>1. pos' = u + 1
      BY <1>u, <2>1, <2>4
    <3>2. result' = u /\ headers' = headers
      BY <3>1 DEF Leave
    <3>3. Wellformed(msg)
      BY <1>1, <2>2, <2>4 DEF Wellformed
    <3>4. Leading'
      BY <1>1, <3>2 DEF Leading, Decodes, FirstSegment
    <3> QED BY <1>1, <1>2, <3>2, <3>3, <3>4 DEF ReadInv
  <2> QED BY <1>u, <2>3, <2>4
<1>3. CASE n < MaxHeaders
  <2>1. pos' = pos /\ ~(pos < u)
    <3>1. ~(n >= MaxHeaders)
      BY <1>1, <1>3
    <3> QED BY <1>1, <1>3, <3>1 DEF Leave, InLoop
  <2>2. CASE pos = u + 1
    <3>1. result' = u /\ headers' = headers
      BY <2>1, <2>2 DEF Leave
    <3>2. n > 0
      <4>1. Start(msg)[1] = 1
        BY <1>1, StartDef
      <4>2. n = 0 => pos = 1
        BY <1>1, <4>1
      <4>3. u # 0 /\ n \in Nat
        BY <1>1
      <4> HIDE DEF n, u
      <4> QED BY <1>u, <2>2, <4>2, <4>3
    <3>3. Decodes(msg, n) /\ n \in 1..MaxHeaders
      BY <1>1, <3>2 DEF Leading
    <3>4. pos <= MaxLen
      BY <1>1, <3>3 DEF Decodes
    <3>5. u < 255
      <4> HIDE DEF u
      <4> QED BY <1>u, <2>2, <3>4, MaxLenAssumption
    <3>6. Wellformed(msg)
      <4>1. \A j \in 1..n : Decodes(msg, j)
        BY <1>1 DEF Leading
      <4> QED BY <1>1, <2>2, <3>3, <3>5, <4>1 DEF Wellformed
    <3>7. Leading'
      BY <1>1, <3>1 DEF Leading, Decodes, FirstSegment
    <3> QED BY <1>1, <2>2, <3>1, <3>6, <3>7 DEF ReadInv
  <2>3. CASE pos # u + 1
    <3>1. result' = 0 /\ headers' = <<>>
      BY <2>1, <2>3 DEF Leave
    <3>2. ~Decodes(msg, n + 1)
      <4>1. ~(Start(msg)[n + 1] < msg.udhl)
        BY <1>1, <2>1
      <4> QED BY <4>1, Zenon DEF Decodes
    <3>3. ~Wellformed(msg)
      <4>1. \A k \in 1..n : Decodes(msg, k)
        BY <1>1 DEF Leading
      <4> QED BY <1>1, <1>3, <2>3, <3>2, <4>1, NotWellformed
    <3> QED BY <1>1, <3>1, <3>3 DEF ReadInv, Leading
  <2> QED BY <2>2, <2>3
<1> QED BY <1>1, <1>2, <1>3

LEMMA RefuseKeepsReading == IInv /\ ReadInv /\ Refuse => ReadInv'
<1> SUFFICES ASSUME IInv, ReadInv, Refuse PROVE ReadInv'
  OBVIOUS
<1> DEFINE n == Len(headers)
           u == msg.udhl
           e == msg.elements[n + 1]
           f == FirstSegment(msg)
<1>1. /\ n \in Nat /\ n < MaxHeaders /\ n + 1 \in 1..MaxHeaders
      /\ at = "loop" /\ UNCHANGED <<msg, result>> /\ msg \in MessageType /\ result = 0
      /\ u \in 0..255 /\ pos \in Nat /\ pos < u /\ at' = "done" /\ headers' = <<>>
      /\ pos = Start(msg)[n + 1] /\ Leading
  BY MaxHeadersAssumption DEF IInv, ReadInv, Refuse, InLoop, MessageType
<1>2. DecodedLength(e, f) = 0 \/ pos + DecodedLength(e, f) > MaxLen
  BY DEF Refuse, Size, Found
<1>3. ~Decodes(msg, n + 1)
  <2> SUFFICES ASSUME DecodedLength(e, f) # 0, Start(msg)[n + 2] <= MaxLen PROVE FALSE
    BY <1>1 DEF Decodes
  <2>1. e \in Wire /\ f \in BOOLEAN
    BY <1>1 DEF MessageType, FirstSegment
  <2>2. DecodedLength(e, f) = 2 + e.iedl
    BY <2>1, TakenWhole
  <2>3. \A k \in 1..MaxHeaders : /\ msg.elements[k].iedl \in Nat
                                 /\ Start(msg)[k + 1] = Start(msg)[k] + 2 + msg.elements[k].iedl
    BY <1>1, StartDef
  <2> HIDE DEF n
  <2>4. e.iedl \in Nat /\ Start(msg)[n + 2] = Start(msg)[n + 1] + 2 + e.iedl
    <3>1. (n + 1) + 1 = n + 2
      BY <1>1
    <3> QED BY <1>1, <2>3, <3>1
  <2> HIDE DEF e, f
  <2>5. pos + DecodedLength(e, f) = Start(msg)[n + 2]
    BY <1>1, <2>2, <2>4, SMTT(30)
  <2> QED BY <1>2, <2>5, MaxLenAssumption, <1>1, <2>4, <2>2
<1>4. Start(msg)[n + 1] # u + 1
  <2>1. u \in 0..255 /\ pos \in Nat /\ pos < u /\ pos = Start(msg)[n + 1]
    BY <1>1
  <2> HIDE DEF u, n
  <2>2. pos # u + 1
    BY <2>1
  <2> QED BY <2>1, <2>2
<1>5. ~Wellformed(msg)
  <2>1. \A k \in 1..n : Decodes(msg, k)
    BY <1>1 DEF Leading
  <2> QED BY <1>1, <1>3, <1>4, <2>1, NotWellformed
<1> QED BY <1>1, <1>5 DEF ReadInv, Leading

LEMMA NextKeepsReading == IInv /\ ReadInv /\ [Next]_vars => ReadInv'
<1> SUFFICES ASSUME IInv, ReadInv, [Next]_vars PROVE ReadInv'
  OBVIOUS
<1>1. CASE Enter
  <2>1. /\ headers = <<>> /\ headers' = <<>> /\ UNCHANGED <<msg, result>> /\ result = 0
        /\ msg \in MessageType /\ msg.udhl \in 0..255
    BY <1>1 DEF Enter, IInv, MessageType
  <2>2. Start(msg)[1] = 1
    BY <2>1, StartDef
  <2>3. CASE msg.udhl = 0
    <3>1. ~Decodes(msg, 0 + 1)
      BY <2>2, <2>3 DEF Decodes
    <3>2. ~Wellformed(msg)
      <4>1. 0 \in Nat /\ 0 < MaxHeaders /\ \A k \in 1..0 : Decodes(msg, k)
        BY MaxHeadersAssumption
      <4> QED BY <2>1, <3>1, <4>1, NotWellformed
    <3> QED BY <1>1, <2>1, <2>3, <3>2 DEF Enter, ReadInv, Leading
  <2>4. CASE msg.udhl # 0
    BY <1>1, <2>1, <2>2, <2>4 DEF Enter, ReadInv, Leading
  <2> QED BY <2>3, <2>4
<1>2. CASE UNCHANGED vars
  BY <1>2 DEF vars, ReadInv, Leading, Decodes, Wellformed, FirstSegment
<1> QED BY <1>1, <1>2, TakeKeepsReading, LeaveKeepsReading, RefuseKeepsReading DEF Next

LEMMA ReadIsInvariant == Spec => [](IInv /\ ReadInv)
<1>1. Init => ReadInv
  BY DEF Init, ReadInv, Leading
<1>2. IInv /\ ReadInv /\ [Next]_vars => (IInv /\ ReadInv)'
  BY NextKeepsIInv, NextKeepsReading
<1> QED BY <1>1, <1>2, InitIInv, PTL DEF Spec

(* The loop accepts exactly the messages of which some leading elements     *)
(* decode and end where the header does, or fill the table.                 *)
THEOREM AcceptanceIsRight == Spec => []AcceptsWellformed
<1>1. ReadInv => AcceptsWellformed
  BY DEF ReadInv, AcceptsWellformed
<1> QED BY <1>1, ReadIsInvariant, PTL

(* An extended object is taken with the layout of a first segment just when *)
(* the concatenations of the header say so: no element behind the accepted  *)
(* ones starts inside the header.                                           *)
THEOREM SegmentIsKnown == Spec => []FirstSegmentKnown
<1>1. IInv /\ ReadInv => FirstSegmentKnown
  <2> SUFFICES ASSUME IInv, ReadInv, at = "done",
                      NEW k \in 1..Len(headers)
               PROVE  headers[k].first <=>
                        \A c \in Concats : (\A j \in Concats : c <= j) => headers[c].element.seq = 1
    BY DEF FirstSegmentKnown
  <2> DEFINE n == Len(headers)
             seen == {j \in 1..MaxHeaders : Start(msg)[j] < msg.udhl}
             cat == {j \in seen : msg.elements[j].id = "concat16"}
  <2>1. /\ n \in Nat /\ n \in 1..MaxHeaders /\ msg \in MessageType /\ result # 0
        /\ MaxHeaders \in Nat /\ headers[k].first = FirstSegment(msg)
        /\ \A j \in 1..n : headers[j].element = msg.elements[j] /\ Start(msg)[j] < msg.udhl
    <3>1. /\ headers \in Seq(Reported) /\ n <= MaxHeaders /\ Leading /\ Contiguous
          /\ msg \in MessageType /\ headers # <<>>
      BY DEF IInv, ReadInv
    <3>2. result # 0
      BY <3>1 DEF IInv, Verdict
    <3>3. n \in Nat /\ n \in 1..MaxHeaders
      BY <3>1, MaxHeadersAssumption
    <3> QED BY <3>1, <3>2, <3>3, MaxHeadersAssumption DEF Leading, Decodes, Contiguous
  <2>2. seen = 1..n
    <3>1. CASE n = MaxHeaders
      BY <2>1, <3>1
    <3>2. CASE n < MaxHeaders
      <4>1. Start(msg)[n + 1] = msg.udhl + 1
        BY <2>1, <3>2 DEF ReadInv
      <4>2. ASSUME NEW j \in 1..MaxHeaders, j > n PROVE ~(Start(msg)[j] < msg.udhl)
        <5> DEFINE u == msg.udhl
        <5>1. u \in 0..255
          BY <2>1 DEF MessageType
        <5>2. Start(msg)[n + 1] <= Start(msg)[j] /\ Start(msg)[j] \in Nat
          BY <2>1, <3>2, <4>2, StartDef
        <5>3. Start(msg)[n + 1] = u + 1
          BY <4>1
        <5> HIDE DEF u
        <5>4. ~(Start(msg)[j] < u)
          BY <5>1, <5>2, <5>3
        <5> QED BY <5>4 DEF u
      <4>3. \A j \in 1..MaxHeaders : j > n \/ j \in 1..n
        BY <2>1
      <4>4. \A j \in 1..n : j \in 1..MaxHeaders
        BY <2>1
      <4> QED BY <2>1, <4>2, <4>3, <4>4
    <3> QED BY <2>1, <3>1, <3>2
  <2> HIDE DEF seen
  <2>3. cat = Concats
    BY <2>1, <2>2 DEF Concats
  <2>4. FirstSegment(msg) <=>
          \A c \in cat : (\A j \in cat : c <= j) => msg.elements[c].seq = 1
    BY DEF FirstSegment, seen
  <2>5. \A c \in Concats : headers[c].element = msg.elements[c]
    BY <2>1 DEF Concats
  <2> HIDE DEF cat
  <2> QED BY <2>1, <2>3, <2>4, <2>5
<1> QED BY <1>1, ReadIsInvariant, PTL

(* The cursor and the value returned stay octets.                           *)
Bytes == pos \in 0..255 /\ result \in 0..255

LEMMA NextKeepsBytes == IInv /\ Bytes /\ [Next]_vars => Bytes'
<1> USE DEF Bytes
<1> SUFFICES ASSUME IInv, Bytes, [Next]_vars PROVE Bytes'
  OBVIOUS
<1>1. msg.udhl \in 0..255
  BY DEF IInv, MessageType
<1>2. CASE TakeElement
  <2>1. pos' = pos + Size /\ pos + Size <= MaxLen /\ pos' \in Nat
    BY <1>2, TakeKeepsIInv DEF TakeElement, IInv
  <2>2. pos' \in 0..255
    BY <2>1, MaxLenAssumption
  <2> QED BY <1>2, <2>2 DEF TakeElement
<1>3. CASE Leave
  <2> DEFINE u == msg.udhl
  <2>1. u \in 0..255 /\ (pos' = (u + 1) % 256 \/ pos' = pos) /\ (result' = u \/ result' = 0)
        /\ UNCHANGED msg
    BY <1>1, <1>3 DEF Leave
  <2> HIDE DEF u
  <2>2. (u + 1) % 256 \in 0..255
    BY <2>1
  <2> QED BY <2>1, <2>2
<1>4. CASE Enter \/ Refuse \/ UNCHANGED vars
  <2>1. (pos' = pos \/ pos' = 1) /\ UNCHANGED <<result, msg>>
    BY <1>4 DEF Enter, Refuse, vars
  <2> QED BY <2>1
<1> QED BY <1>2, <1>3, <1>4 DEF Next

(* Every variable keeps its type; in particular pos, a uint8, never wraps   *)
(* but at the end of a full table.                                          *)
THEOREM TypesAreKept == Spec => []TypeOK
<1>1. Init => Bytes /\ msg \in Message
  BY DEF Init, Bytes
<1>2. msg \in Message /\ [Next]_vars => (msg \in Message)'
  BY DEF Next, Enter, TakeElement, Refuse, Leave, vars
<1>3. IInv /\ Bytes /\ msg \in Message => TypeOK
  BY DEF IInv, Bytes, TypeOK
<1> QED BY <1>1, <1>2, <1>3, InitIInv, NextKeepsIInv, NextKeepsBytes, PTL DEF Spec
=============================================================================
