--------------------------- MODULE SeptetsProofs ---------------------------
(***************************************************************************)
(* The two septet loops are right for texts of any length.  What makes the *)
(* invariants inductive is the relation 8 * pos = fill + 7 * i + shift     *)
(* between the cursors, which every turn of both loops restores, together  *)
(* with what it becomes when the packer runs out of characters.            *)
(***************************************************************************)
EXTENDS Septets, TLAPS

CursorInv ==
  /\ pc = "fill" => pos = 0 /\ i = 0 /\ shift = fill /\ packed = {}
  /\ pc = "pack" => /\ shift \in 0..6 /\ pos <= cap
                    /\ i < n => 8 * pos = Place(i, shift)
                    /\ i >= n => pos = OctetsFor(fill + 7 * n)
  /\ pc = "skip" => pos = 0 /\ i = 0 /\ shift = IF fill = 0 THEN 0 ELSE 8 - fill
  /\ pc = "unpack" => shift \in 0..6 /\ 8 * pos = Place(i, shift)
  /\ pc \in {"fill", "pack", "skip"} => taken = {}

IInv == TypeOK /\ CursorInv /\ OctetsReturned /\ PackedIsStream /\ TakenFromStream

-----------------------------------------------------------------------------
(* What one shift and assignment of the packer places. *)
LEMMA PutBits ==
  ASSUME NEW p \in Nat, NEW c \in Nat, NEW s \in -6..7
  PROVE  /\ Put(p, c, s) \subseteq Nat \X Nat \X (0..6)
         /\ \A x \in Put(p, c, s) :
              /\ x[1] = 8 * p + x[3] + s /\ x[2] = c
              /\ x[1] \in 8 * p..8 * p + 7
         /\ \A b \in 0..6 : b + s \in 0..7 => <<8 * p + b + s, c, b>> \in Put(p, c, s)
BY DEF Put

(* What one shift and mask of the unpacker reads. *)
LEMMA TakeBits ==
  ASSUME NEW p \in Nat, NEW c \in Nat, NEW s \in -8..6
  PROVE  /\ Take(c, p, s) \subseteq Nat \X (0..6) \X Nat
         /\ \A x \in Take(c, p, s) : x[1] = c /\ x[3] = 8 * p + x[2] - s
BY DEF Take

LEMMA InitIInv == Init => IInv
<1> SUFFICES ASSUME Init PROVE IInv OBVIOUS
<1>1. TypeOK BY MaxCharsAssumption DEF Init, TypeOK
<1>2. CursorInv BY DEF Init, CursorInv
<1>3. OctetsReturned BY DEF Init, OctetsReturned
<1>4. PackedIsStream BY DEF Init, PackedIsStream, Written, Place
<1>5. TakenFromStream BY DEF Init, TakenFromStream
<1> QED BY <1>1, <1>2, <1>3, <1>4, <1>5 DEF IInv

LEMMA PackFillStep == IInv /\ PackFill => IInv'
<1> SUFFICES ASSUME IInv, PackFill PROVE IInv' OBVIOUS
<1> USE MaxCharsAssumption DEF IInv, PackFill, Arguments
<1>0. n \in Nat /\ fill \in 0..6 /\ cap \in Nat \ {0} BY DEF TypeOK
<1>1. CASE fill = 0
  <2>1. TypeOK' BY <1>1 DEF TypeOK
  <2>2. CursorInv' BY <1>0, <1>1 DEF CursorInv, Place, OctetsFor
  <2>3. PackedIsStream' BY <1>0, <1>1 DEF PackedIsStream, Written, Place, CursorInv
  <2> QED BY <1>1, <2>1, <2>2, <2>3 DEF OctetsReturned, TakenFromStream, Place
<1>2. CASE fill \in 1..6
  <2> DEFINE first == Put(0, 0, fill)
  <2>a. /\ first \subseteq Nat \X Nat \X (0..6)
        /\ \A x \in first : /\ x[1] = 8 * 0 + x[3] + fill /\ x[2] = 0
                            /\ x[1] \in 8 * 0..8 * 0 + 7
        /\ \A b \in 0..6 : b + fill \in 0..7 => <<8 * 0 + b + fill, 0, b>> \in first
    <3>1. fill \in -6..7 /\ 0 \in Nat BY <1>2
    <3> HIDE DEF IInv, PackFill
    <3> QED BY <3>1, PutBits
  <2>1. packed' = first /\ pos' = 1 BY <1>2
  <2> HIDE DEF first
  <2>2. TypeOK' BY <1>0, <1>2, <2>a, <2>1 DEF TypeOK
  <2>3. CursorInv' BY <1>0, <1>2 DEF CursorInv, Place, OctetsFor
  <2>4. PackedIsStream'
    <3>1. ASSUME NEW x \in packed' PROVE x[1] = Place(x[2], x[3])' /\ x[1] \in (0..8 * Written - 1)'
      <4>1. x[1] = x[3] + fill /\ x[2] = 0 /\ x[1] \in 0..7 /\ x[3] \in 0..6
        BY <1>2, <2>a, <2>1, <3>1
      <4> QED BY <1>0, <2>1, <4>1 DEF Place, Written
    <3>2. ASSUME NEW c \in (0..n - 1)', NEW b \in 0..6, (Place(c, b) < 8 * Written)'
          PROVE  <<Place(c, b), c, b>>' \in packed'
      <4>1. c = 0 /\ b + fill \in 0..7 BY <1>0, <1>2, <3>2 DEF Place, Written
      <4>2. Place(c, b)' = 8 * 0 + b + fill BY <1>0, <1>2, <4>1 DEF Place
      <4> QED BY <1>2, <2>a, <2>1, <4>1, <4>2
    <3> QED BY <3>1, <3>2 DEF PackedIsStream
  <2> QED BY <1>2, <2>2, <2>3, <2>4 DEF OctetsReturned, TakenFromStream, Place
<1> QED BY <1>0, <1>1, <1>2

LEMMA PackOctetStep == IInv /\ PackOctet => IInv'
<1> SUFFICES ASSUME IInv, PackOctet PROVE IInv' OBVIOUS
<1>0. /\ n \in Nat /\ fill \in 0..6 /\ cap \in Nat \ {0}
      /\ i \in Nat /\ pos \in Nat /\ shift \in 0..6 /\ i < n
      /\ 8 * pos = fill + 7 * i + shift
  BY MaxCharsAssumption DEF IInv, PackOctet, TypeOK, CursorInv, Place
<1> DEFINE rest == Put(pos, i, 0 - shift)
           start == Put(pos, i + 1, 7 - shift)
<1>a. /\ rest \subseteq Nat \X Nat \X (0..6)
      /\ \A x \in rest : /\ x[1] = 8 * pos + x[3] + (0 - shift) /\ x[2] = i
                         /\ x[1] \in 8 * pos..8 * pos + 7
      /\ \A b \in 0..6 : b + (0 - shift) \in 0..7 =>
           <<8 * pos + b + (0 - shift), i, b>> \in rest
  <2>1. 0 - shift \in -6..7 BY <1>0
  <2> QED BY <1>0, <2>1, PutBits
<1>b. /\ start \subseteq Nat \X Nat \X (0..6)
      /\ \A x \in start : /\ x[1] = 8 * pos + x[3] + (7 - shift) /\ x[2] = i + 1
                          /\ x[1] \in 8 * pos..8 * pos + 7
      /\ \A b \in 0..6 : b + (7 - shift) \in 0..7 =>
           <<8 * pos + b + (7 - shift), i + 1, b>> \in start
  <2>1. 7 - shift \in -6..7 /\ i + 1 \in Nat BY <1>0
  <2> QED BY <1>0, <2>1, PutBits
<1>c. packed' = packed \union rest \union (IF i + 1 < n THEN start ELSE {})
  BY DEF PackOctet
<1> HIDE DEF rest, start
<1> USE MaxCharsAssumption DEF IInv, PackOctet, Arguments
<1>1. CursorInv'
  <2>1. CASE i + 1 < n
    <3>1. CASE shift = 6
      <4>1. shift' = 0 /\ i' = i + 2 /\ pos' = pos + 1 BY <1>0, <2>1, <3>1
      <4> QED BY <1>0, <2>1, <3>1, <4>1 DEF CursorInv, Place, OctetsFor
    <3>2. CASE shift # 6
      <4>1. shift' = shift + 1 /\ i' = i + 1 /\ pos' = pos + 1 BY <1>0, <2>1, <3>2
      <4> QED BY <1>0, <2>1, <3>2, <4>1 DEF CursorInv, Place, OctetsFor
    <3> QED BY <3>1, <3>2
  <2>2. CASE i + 1 = n BY <1>0, <2>2 DEF CursorInv, Place, OctetsFor
  <2> QED BY <1>0, <2>1, <2>2
<1>2. TypeOK'
  <2>1. packed' \subseteq Nat \X Nat \X (0..6) BY <1>a, <1>b, <1>c DEF TypeOK
  <2>2. shift' \in 0..7 /\ i' \in Nat /\ pos' \in Nat BY <1>0
  <2> QED BY <1>0, <2>1, <2>2 DEF TypeOK
<1>3. PackedIsStream'
  <2>1. ASSUME NEW x \in packed' PROVE x[1] = Place(x[2], x[3])' /\ x[1] \in (0..8 * Written - 1)'
    <3>1. CASE x \in packed
      BY <1>0, <3>1 DEF PackedIsStream, Place, Written, TypeOK
    <3>2. CASE x \in rest
      <4>1. /\ x[1] = 8 * pos + x[3] + (0 - shift) /\ x[2] = i
            /\ x[1] \in 8 * pos..8 * pos + 7 /\ x[3] \in 0..6
        BY <1>a, <3>2
      <4> QED BY <1>0, <4>1 DEF Place, Written
    <3>3. CASE x \in start
      <4>1. /\ x[1] = 8 * pos + x[3] + (7 - shift) /\ x[2] = i + 1
            /\ x[1] \in 8 * pos..8 * pos + 7 /\ x[3] \in 0..6
        BY <1>b, <3>3
      <4> QED BY <1>0, <4>1 DEF Place, Written
    <3> QED BY <1>c, <2>1, <3>1, <3>2, <3>3
  <2>2. ASSUME NEW c \in (0..n - 1)', NEW b \in 0..6, (Place(c, b) < 8 * Written)'
        PROVE  <<Place(c, b), c, b>>' \in packed'
    <3>0. c \in 0..n - 1 /\ Place(c, b)' = Place(c, b) /\ Place(c, b) < 8 * pos + 8
      BY <1>0, <2>2 DEF Place, Written
    <3>1. CASE Place(c, b) < 8 * pos
      BY <1>0, <1>c, <3>0, <3>1 DEF PackedIsStream, Written
    <3>2. CASE Place(c, b) >= 8 * pos /\ c = i
      <4>1. Place(c, b) = 8 * pos + b + (0 - shift) /\ b + (0 - shift) \in 0..7
        BY <1>0, <3>2 DEF Place
      <4>2. <<Place(c, b), c, b>> \in rest BY <1>a, <3>2, <4>1
      <4> QED BY <1>c, <3>0, <4>2
    <3>3. CASE Place(c, b) >= 8 * pos /\ c # i
      <4>1. c = i + 1 BY <1>0, <3>0, <3>3 DEF Place
      <4>2. Place(c, b) = 8 * pos + b + (7 - shift) /\ b + (7 - shift) \in 0..7
        BY <1>0, <3>0, <4>1 DEF Place
      <4>3. <<Place(c, b), c, b>> \in start BY <1>b, <4>1, <4>2
      <4>4. i + 1 < n BY <1>0, <3>0, <4>1
      <4> QED BY <1>c, <3>0, <4>3, <4>4
    <3>4. Place(c, b) < 8 * pos \/ Place(c, b) >= 8 * pos BY <1>0, <3>0 DEF Place
    <3> QED BY <3>1, <3>2, <3>3, <3>4
  <2> QED BY <2>1, <2>2 DEF PackedIsStream
<1> QED BY <1>1, <1>2, <1>3 DEF OctetsReturned, TakenFromStream, Place, CursorInv

LEMMA PackDoneStep == IInv /\ PackDone => IInv'
<1> SUFFICES ASSUME IInv, PackDone PROVE IInv' OBVIOUS
<1> USE MaxCharsAssumption DEF IInv, PackDone, Arguments
<1>0. /\ n \in Nat /\ fill \in 0..6 /\ cap \in Nat \ {0} /\ i \in Nat /\ pos \in Nat
      /\ shift \in 0..6 /\ pos <= cap
  BY DEF TypeOK, CursorInv
<1>1. TypeOK' BY <1>0 DEF TypeOK
<1>2. CursorInv' BY <1>0 DEF CursorInv
<1>3. octets' = IF Fits THEN OctetsFor(fill + 7 * n) ELSE cap
  <2>1. CASE i >= n BY <1>0, <2>1 DEF CursorInv, Fits
  <2>2. CASE i < n BY <1>0, <2>2 DEF CursorInv, Fits, OctetsFor, Place
  <2> QED BY <1>0, <2>1, <2>2
<1>4. PackedIsStream' BY DEF PackedIsStream, Written, Place
<1> QED BY <1>0, <1>1, <1>2, <1>3, <1>4 DEF OctetsReturned, TakenFromStream, Place, Fits

LEMMA UnpackStep == IInv /\ (UnpackFill \/ UnpackChar \/ UnpackDone) => IInv'
<1> SUFFICES ASSUME IInv, UnpackFill \/ UnpackChar \/ UnpackDone PROVE IInv' OBVIOUS
<1> USE MaxCharsAssumption DEF IInv, Arguments
<1>0. n \in Nat /\ fill \in 0..6 /\ i \in Nat /\ pos \in Nat /\ shift \in 0..7 BY DEF TypeOK
<1>1. UNCHANGED <<n, fill, cap, octets, packed>> /\ pc \in {"skip", "unpack"}
  BY DEF UnpackFill, UnpackChar, UnpackDone
<1>2. pc' \in {"unpack", "done"} BY DEF UnpackFill, UnpackChar, UnpackDone
<1>3. OctetsReturned' /\ PackedIsStream'
  BY <1>1, <1>2 DEF OctetsReturned, PackedIsStream, Written, Place, Fits
<1>4. CASE UnpackFill
  <2>1. Take(0, 0, -1) \subseteq Nat \X (0..6) \X Nat
        /\ \A x \in Take(0, 0, -1) : x[1] = 0 /\ x[3] = 8 * 0 + x[2] - (-1)
    BY TakeBits
  <2>2. taken = {} BY <1>4 DEF UnpackFill, CursorInv
  <2>3. TypeOK' BY <1>0, <1>4, <2>1 DEF UnpackFill, TypeOK
  <2>4. CursorInv' BY <1>0, <1>4 DEF UnpackFill, CursorInv, Place
  <2>5. TakenFromStream'
    <3>1. CASE shift = 7
      <4>1. taken' = Take(0, 0, -1) /\ fill = 1 /\ fill' = 1
        BY <1>0, <1>4, <3>1 DEF UnpackFill, CursorInv
      <4>2. ASSUME NEW x \in Take(0, 0, -1) PROVE x[3] = Place(x[1], x[2])'
        BY <2>1, <4>1, <4>2 DEF Place
      <4> QED BY <4>1, <4>2 DEF TakenFromStream
    <3>2. CASE shift # 7
      BY <1>4, <2>2, <3>2 DEF UnpackFill, TakenFromStream
    <3> QED BY <3>1, <3>2
  <2> QED BY <1>3, <2>3, <2>4, <2>5
<1>5. CASE UnpackChar
  <2>1. shift \in 0..6 /\ 8 * pos = fill + 7 * i + shift
    BY <1>5 DEF UnpackChar, CursorInv, Place
  <2> DEFINE low == IF pos = 0 THEN {} ELSE Take(i, pos - 1, shift - 8)
             next == IF shift = 6 THEN Take(i + 1, pos, -1) ELSE {}
  <2>2. taken' = taken \union Take(i, pos, shift) \union low \union next
    BY <1>5 DEF UnpackChar
  <2>3. Take(i, pos, shift) \subseteq Nat \X (0..6) \X Nat
        /\ \A x \in Take(i, pos, shift) : x[1] = i /\ x[3] = 8 * pos + x[2] - shift
    BY <1>0, <2>1, TakeBits
  <2>4. low \subseteq Nat \X (0..6) \X Nat
        /\ \A x \in low : x[1] = i /\ x[3] = 8 * (pos - 1) + x[2] - (shift - 8)
    <3>1. CASE pos # 0
      <4>1. pos - 1 \in Nat /\ shift - 8 \in -8..6 BY <1>0, <2>1, <3>1
      <4> QED BY <1>0, <3>1, <4>1, TakeBits
    <3> QED BY <3>1
  <2>5. next \subseteq Nat \X (0..6) \X Nat
        /\ \A x \in next : shift = 6 /\ x[1] = i + 1 /\ x[3] = 8 * pos + x[2] - (-1)
    BY <1>0, TakeBits
  <2> HIDE DEF low, next
  <2>6. TypeOK' BY <1>0, <1>5, <2>1, <2>2, <2>3, <2>4, <2>5 DEF UnpackChar, TypeOK
  <2>7. CursorInv' BY <1>0, <1>5, <2>1 DEF UnpackChar, CursorInv, Place
  <2>8. ASSUME NEW x \in taken' PROVE x[3] = Place(x[1], x[2])'
    <3>1. CASE x \in taken BY <1>1, <3>1 DEF TakenFromStream, Place
    <3>2. CASE x \in Take(i, pos, shift)
      BY <1>0, <1>1, <2>1, <2>3, <3>2 DEF Place
    <3>3. CASE x \in low BY <1>0, <1>1, <2>1, <2>4, <3>3 DEF Place
    <3>4. CASE x \in next BY <1>0, <1>1, <2>1, <2>5, <3>4 DEF Place
    <3> QED BY <2>2, <2>8, <3>1, <3>2, <3>3, <3>4
  <2> QED BY <1>3, <2>6, <2>7, <2>8 DEF TakenFromStream
<1>6. CASE UnpackDone
  BY <1>3, <1>6 DEF UnpackDone, TypeOK, CursorInv, TakenFromStream, Place
<1> QED BY <1>4, <1>5, <1>6

LEMMA NextKeepsIInv == IInv /\ [Next]_vars => IInv'
<1> SUFFICES ASSUME IInv, [Next]_vars PROVE IInv' OBVIOUS
<1>1. CASE UNCHANGED vars
  BY <1>1 DEF IInv, vars, TypeOK, CursorInv, OctetsReturned, PackedIsStream, Written,
              TakenFromStream, Place, Fits
<1> QED BY <1>1, PackFillStep, PackOctetStep, PackDoneStep, UnpackStep DEF Next

-----------------------------------------------------------------------------
(* The cursors of both loops agree at every turn, whatever the length of   *)
(* the text and the number of fill bits.                                   *)
THEOREM CursorsAgree == Spec => [](TypeOK /\ PackCursors /\ UnpackCursors)
<1>1. IInv => TypeOK /\ PackCursors /\ UnpackCursors
  BY DEF IInv, CursorInv, PackCursors, UnpackCursors
<1> QED BY <1>1, InitIInv, NextKeepsIInv, PTL DEF Spec

(* Every cursor, and every bit placed or taken, keeps its range: fill bits  *)
(* up to six, a shift below eight, positions inside the text.               *)
THEOREM TypesAreKept == Spec => []TypeOK
<1>1. IInv => TypeOK BY DEF IInv
<1> QED BY <1>1, InitIInv, NextKeepsIInv, PTL DEF Spec

(* The packer writes the reference bit stream and returns its length in     *)
(* octets.                                                                  *)
THEOREM PackerIsCorrect == Spec => [](PackedIsStream /\ OctetsReturned)
<1>1. IInv => PackedIsStream /\ OctetsReturned BY DEF IInv
<1> QED BY <1>1, InitIInv, NextKeepsIInv, PTL DEF Spec

(* The unpacker reads every bit of every character from its place.          *)
THEOREM UnpackerIsCorrect == Spec => []TakenFromStream
<1>1. IInv => TakenFromStream BY DEF IInv
<1> QED BY <1>1, InitIInv, NextKeepsIInv, PTL DEF Spec

-----------------------------------------------------------------------------
(* ---- there and back ----------------------------------------------------*)
(* Every bit of the characters unpacked so far was taken; the cursor may be *)
(* one character beyond the text, but only on an octet's boundary.          *)
AllTaken == \A c \in 0..i - 1, b \in 0..6 : <<c, b, Place(c, b)>> \in taken

RoundInv ==
  /\ pc \in {"unpack", "done"} =>
       /\ shift \in 0..6 /\ 8 * pos = Place(i, shift)
       /\ i <= n + 1 /\ (i = n + 1 => shift = 0)
       /\ AllTaken
  /\ pc = "done" => i >= n
  /\ Fits /\ n > 0 => NoOverread

(* No bit that a shift keeps is lost, and all come from octet p.            *)
LEMMA TakeAllBits ==
  ASSUME NEW p \in Nat, NEW c \in Nat, NEW s \in -8..6
  PROVE  /\ \A x \in Take(c, p, s) : x[3] < 8 * p + 8
         /\ \A b \in 0..6 : b - s \in 0..7 => <<c, b, 8 * p + b - s>> \in Take(c, p, s)
<1>1. \A x \in Take(c, p, s) : x[3] < 8 * p + 8
  BY DEF Take
<1>2. ASSUME NEW b \in 0..6, b - s \in 0..7
      PROVE  <<c, b, 8 * p + b - s>> \in Take(c, p, s)
  <2> DEFINE d == b - s
  <2>1. d \in {x \in 0..7 : x + s \in 0..6} /\ d + s = b /\ 8 * p + d = 8 * p + b - s
    BY <1>2
  <2>2. <<c, d + s, 8 * p + d>> \in Take(c, p, s)
    BY <2>1 DEF Take
  <2> QED BY <2>1, <2>2
<1> QED BY <1>1, <1>2

(* As long as there is a character to unpack, there is an octet for it.     *)
LEMMA OctetIsThere ==
  ASSUME IInv, pc \in {"skip", "unpack", "done"}, Fits
  PROVE  /\ octets = OctetsFor(fill + 7 * n) /\ octets \in Nat
         /\ n \in Nat /\ fill \in 0..6
         /\ fill + 7 * n <= 8 * octets /\ 8 * octets <= fill + 7 * n + 7
<1>1. n \in Nat /\ fill \in 0..6 /\ octets = OctetsFor(fill + 7 * n)
  BY MaxCharsAssumption DEF IInv, TypeOK, OctetsReturned
<1>2. fill + 7 * n \in Nat
  BY <1>1
<1> DEFINE m == fill + 7 * n
<1> HIDE DEF m
<1>3. octets = (m + 7) \div 8 /\ m \in Nat
  BY <1>1, <1>2 DEF OctetsFor, m
<1>4. octets \in Nat /\ m <= 8 * octets /\ 8 * octets <= m + 7
  BY <1>3
<1> QED BY <1>1, <1>4 DEF m

LEMMA UnpackCharRound == IInv /\ RoundInv /\ UnpackChar => RoundInv'
<1> SUFFICES ASSUME IInv, RoundInv, UnpackChar PROVE RoundInv' OBVIOUS
<1>1. /\ n \in Nat /\ fill \in 0..6 /\ i \in Nat /\ pos \in Nat /\ i < n /\ pc = "unpack"
      /\ shift \in 0..6 /\ 8 * pos = fill + 7 * i + shift
      /\ UNCHANGED <<n, fill, cap, pc, packed, octets>>
      /\ pos' = pos + 1 /\ shift' = (shift + 1) % 7
      /\ i' = IF shift = 6 THEN i + 2 ELSE i + 1
  BY MaxCharsAssumption DEF IInv, TypeOK, RoundInv, UnpackChar, Place, Arguments
<1> DEFINE now == Take(i, pos, shift)
           low == IF pos = 0 THEN {} ELSE Take(i, pos - 1, shift - 8)
           next == IF shift = 6 THEN Take(i + 1, pos, -1) ELSE {}
<1>2. taken' = taken \union now \union low \union next
  BY DEF UnpackChar
<1>3. /\ \A x \in now : x[3] < 8 * pos + 8
      /\ \A b \in 0..6 : b - shift \in 0..7 => <<i, b, 8 * pos + b - shift>> \in now
  <2>1. pos \in Nat /\ i \in Nat /\ shift \in -8..6
    BY <1>1
  <2> QED BY ONLY <2>1, TakeAllBits
<1>4. /\ \A x \in low : x[3] < 8 * pos + 8
      /\ \A b \in 0..6 : b < shift => <<i, b, 8 * pos + b - shift>> \in low
  <2>1. CASE pos = 0
    <3>1. shift = 0
      BY <1>1, <2>1
    <3> QED BY <2>1, <3>1
  <2>2. CASE pos # 0
    <3>1. pos - 1 \in Nat /\ shift - 8 \in -8..6
      BY <1>1, <2>2
    <3>2. /\ \A x \in low : x[3] < 8 * (pos - 1) + 8
          /\ \A b \in 0..6 : b - (shift - 8) \in 0..7
               => <<i, b, 8 * (pos - 1) + b - (shift - 8)>> \in low
      BY <1>1, <2>2, <3>1, TakeAllBits
    <3>3. ASSUME NEW x \in low PROVE x[3] < 8 * pos + 8
      <4>1. x[3] \in Nat
        BY <1>1, <2>2, <3>1, <3>3, TakeBits
      <4> QED BY <1>1, <3>2, <3>3, <4>1
    <3>4. ASSUME NEW b \in 0..6, b < shift PROVE <<i, b, 8 * pos + b - shift>> \in low
      <4>1. /\ b - (shift - 8) \in 0..7
            /\ 8 * (pos - 1) + b - (shift - 8) = 8 * pos + b - shift
        BY <1>1, <3>4
      <4> HIDE DEF low
      <4> QED BY <3>2, <4>1
    <3> QED BY <3>3, <3>4
  <2> QED BY <2>1, <2>2
<1>5. /\ \A x \in next : x[3] < 8 * pos + 8
      /\ shift = 6 => \A b \in 0..6 : <<i + 1, b, 8 * pos + b + 1>> \in next
  <2>1. CASE shift = 6
    <3>1. /\ \A x \in next : x[3] < 8 * pos + 8
          /\ \A b \in 0..6 : b - (-1) \in 0..7 => <<i + 1, b, 8 * pos + b - (-1)>> \in next
      <4>1. pos \in Nat /\ i + 1 \in Nat /\ -1 \in -8..6 /\ next = Take(i + 1, pos, -1)
        BY <1>1, <2>1
      <4> HIDE DEF next
      <4> QED BY ONLY <4>1, TakeAllBits
    <3>2. ASSUME NEW b \in 0..6 PROVE <<i + 1, b, 8 * pos + b + 1>> \in next
      <4>1. b - (-1) \in 0..7 /\ 8 * pos + b - (-1) = 8 * pos + b + 1
        BY <1>1
      <4> HIDE DEF next
      <4> QED BY <3>1, <4>1
    <3> QED BY <3>1, <3>2
  <2>2. CASE shift # 6
    BY <2>2
  <2> QED BY <2>1, <2>2
<1> HIDE DEF now, low, next
<1>6. /\ shift' \in 0..6 /\ (8 * pos = Place(i, shift))'
      /\ (i <= n + 1 /\ (i = n + 1 => shift = 0))'
  <2>1. CASE shift = 6
    BY <1>1, <2>1 DEF Place
  <2>2. CASE shift # 6
    BY <1>1, <2>2 DEF Place
  <2> QED BY <2>1, <2>2
<1>7. AllTaken'
  <2> SUFFICES ASSUME NEW c \in 0..i' - 1, NEW b \in 0..6
               PROVE  <<c, b, Place(c, b)>> \in taken'
    BY <1>1 DEF AllTaken, Place
  <2>1. CASE c \in 0..i - 1
    <3>1. <<c, b, Place(c, b)>> \in taken
      BY <1>1, <2>1 DEF RoundInv, AllTaken
    <3> QED BY <1>2, <3>1
  <2>2. CASE c = i
    <3>1. Place(c, b) = 8 * pos + b - shift
      BY <1>1, <2>2 DEF Place
    <3>2. CASE b >= shift
      <4>1. b - shift \in 0..7
        BY <1>1, <3>2
      <4> QED BY <1>2, <1>3, <2>2, <3>1, <4>1
    <3>3. CASE b < shift
      BY <1>2, <1>4, <2>2, <3>1, <3>3
    <3> QED BY <1>1, <3>2, <3>3
  <2>3. CASE c = i + 1 /\ shift = 6
    <3>1. Place(c, b) = 8 * pos + b + 1
      BY <1>1, <2>3 DEF Place
    <3> QED BY <1>2, <1>5, <2>3, <3>1
  <2> QED BY <1>1, <2>1, <2>2, <2>3
<1>8. ASSUME Fits', n' > 0 PROVE NoOverread'
  <2>1. Fits /\ n > 0
    BY <1>1, <1>8 DEF Fits
  <2>2. fill + 7 * n <= 8 * octets /\ octets \in Nat
    BY <1>1, <2>1, OctetIsThere
  <2>3. 8 * pos + 8 <= 8 * octets
    BY <1>1, <2>2
  <2>4. ASSUME NEW x \in taken' PROVE x[3] < 8 * octets
    <3>1. CASE x \in taken
      BY <2>1, <3>1 DEF RoundInv, NoOverread
    <3>2. CASE x \in now \union low \union next
      <4>1. x[3] < 8 * pos + 8
        BY <1>3, <1>4, <1>5, <3>2
      <4>2. x[3] \in Nat
        <5>1. TypeOK'
          BY UnpackStep DEF IInv
        <5> QED BY <2>4, <5>1 DEF TypeOK
      <4> QED BY <1>1, <2>2, <2>3, <4>1, <4>2
    <3> QED BY <1>2, <2>4, <3>1, <3>2
  <2> QED BY <1>1, <2>4 DEF NoOverread
<1>9. pc' = "unpack"
  BY <1>1
<1>10. (Fits /\ n > 0 => NoOverread)'
  BY <1>8
<1> QED BY <1>6, <1>7, <1>9, <1>10, Zenon DEF RoundInv

(* Before the unpacker runs nothing has been taken; its first octet may     *)
(* hold the whole first character.                                          *)
LEMMA RoundBefore ==
  ASSUME IInv, PackFill \/ PackOctet \/ PackDone PROVE RoundInv'
<1>1. taken' = {} /\ pc' \in {"pack", "skip"}
  BY DEF IInv, CursorInv, PackFill, PackOctet, PackDone
<1> QED BY <1>1 DEF RoundInv, NoOverread

LEMMA UnpackFillRound == IInv /\ UnpackFill => RoundInv'
<1> SUFFICES ASSUME IInv, UnpackFill PROVE RoundInv' OBVIOUS
<1>1. /\ n \in Nat /\ fill \in 0..6 /\ taken = {} /\ i = 0 /\ pc = "skip" /\ pc' = "unpack"
      /\ shift = IF fill = 0 THEN 0 ELSE 8 - fill
      /\ UNCHANGED <<n, fill, cap, packed, octets>>
  BY MaxCharsAssumption DEF IInv, TypeOK, CursorInv, UnpackFill, Arguments
<1>2. IInv'
  BY UnpackStep
<1>3. (shift \in 0..6 /\ 8 * pos = Place(i, shift))'
  BY <1>1, <1>2 DEF IInv, CursorInv
<1>4. CASE shift # 7
  <2>1. taken' = {} /\ i' = 0
    BY <1>1, <1>4 DEF UnpackFill
  <2> QED BY <1>1, <1>3, <2>1 DEF RoundInv, AllTaken, NoOverread
<1>5. CASE shift = 7
  <2>1. taken' = Take(0, 0, -1) /\ i' = 1 /\ shift' = 0 /\ fill = 1
    BY <1>1, <1>5 DEF UnpackFill
  <2>2. /\ \A x \in Take(0, 0, -1) : x[3] < 8 * 0 + 8
        /\ \A b \in 0..6 : b - (-1) \in 0..7 => <<0, b, 8 * 0 + b - (-1)>> \in Take(0, 0, -1)
    <3>1. 0 \in Nat /\ -1 \in -8..6
      OBVIOUS
    <3> QED BY ONLY <3>1, TakeAllBits
  <2>3. AllTaken'
    <3> SUFFICES ASSUME NEW c \in 0..0, NEW b \in 0..6
                 PROVE  <<c, b, 1 + b>> \in Take(0, 0, -1)
      BY <1>1, <2>1 DEF AllTaken, Place
    <3>1. b - (-1) \in 0..7 /\ 8 * 0 + b - (-1) = 1 + b /\ c = 0
      OBVIOUS
    <3> QED BY <2>2, <3>1
  <2>4. ASSUME Fits', n' > 0 PROVE NoOverread'
    <3>1. Fits /\ n > 0
      BY <1>1, <2>4 DEF Fits
    <3>2. 8 <= 8 * octets /\ octets \in Nat
      BY <1>1, <3>1, OctetIsThere
    <3>3. ASSUME NEW x \in Take(0, 0, -1) PROVE x[3] < 8 * octets
      <4>1. x[3] \in Nat
        BY <3>3, TakeBits
      <4>2. x[3] < 8
        BY <2>2, <3>3
      <4> QED BY <3>2, <4>1, <4>2
    <3> QED BY <1>1, <2>1, <3>3 DEF NoOverread
  <2>5. (i <= n + 1 /\ (i = n + 1 => shift = 0))'
    BY <1>1, <2>1
  <2>6. (Fits /\ n > 0 => NoOverread)'
    BY <2>4
  <2> QED BY <1>1, <1>3, <2>3, <2>5, <2>6, Zenon DEF RoundInv
<1> QED BY <1>4, <1>5

LEMMA NextKeepsRound == IInv /\ RoundInv /\ [Next]_vars => RoundInv'
<1> SUFFICES ASSUME IInv, RoundInv, [Next]_vars PROVE RoundInv' OBVIOUS
<1>1. CASE UNCHANGED vars
  BY <1>1 DEF vars, RoundInv, AllTaken, NoOverread, Place, Fits
<1>2. CASE UnpackDone
  <2>1. UNCHANGED <<n, fill, cap, pos, i, shift, octets, taken>> /\ pc = "unpack" /\ i >= n
    BY <1>2 DEF UnpackDone, Arguments
  <2> QED BY <2>1 DEF RoundInv, AllTaken, NoOverread, Place, Fits
<1> QED BY <1>1, <1>2, RoundBefore, UnpackFillRound, UnpackCharRound DEF Next

(* When the unpacker stops, its cursor stands behind the last octet.        *)
LEMMA RoundIsBack == IInv /\ RoundInv => RoundTrip
<1> SUFFICES ASSUME IInv, RoundInv, Fits, n > 0, pc = "done" PROVE AllBack
  BY DEF RoundTrip, RoundInv
<1>1. /\ octets = OctetsFor(fill + 7 * n) /\ octets \in Nat /\ n \in Nat /\ fill \in 0..6
      /\ fill + 7 * n <= 8 * octets /\ 8 * octets <= fill + 7 * n + 7
  BY OctetIsThere
<1>2. /\ i \in Nat /\ pos \in Nat /\ shift \in 0..6 /\ 8 * pos = fill + 7 * i + shift
      /\ i <= n + 1 /\ (i = n + 1 => shift = 0) /\ i >= n /\ AllTaken
  BY DEF IInv, TypeOK, RoundInv, Place
<1>3. pos = octets
  <2>1. CASE i = n
    BY <1>1, <1>2, <2>1
  <2>2. CASE i = n + 1
    BY <1>1, <1>2, <2>2
  <2> QED BY <1>1, <1>2, <2>1, <2>2
<1>4. ASSUME NEW c \in 0..n - 1, NEW b \in 0..6
      PROVE  \E k \in 0..8 * octets - 1 : <<c, b, k>> \in taken /\ <<k, c, b>> \in packed
  <2>1. Place(c, b) \in 0..8 * octets - 1
    BY <1>1, <1>4 DEF Place
  <2>2. <<c, b, Place(c, b)>> \in taken
    <3>1. c \in 0..i - 1
      BY <1>1, <1>2, <1>4
    <3> QED BY <1>2, <3>1, Zenon DEF AllTaken
  <2>3. <<Place(c, b), c, b>> \in packed
    <3>1. Written = octets /\ Place(c, b) < 8 * Written
      BY <1>1, <2>1 DEF Written
    <3> QED BY <3>1, Zenon DEF IInv, PackedIsStream
  <2> QED BY <2>1, <2>2, <2>3
<1> QED BY <1>3, <1>4 DEF AllBack

(* A text that fits the buffer comes back whole, out of its own octets and  *)
(* no others, whatever its length and its fill bits.                        *)
THEOREM RoundTripIsExact == Spec => []RoundTrip
<1>1. Init => RoundInv
  BY DEF Init, RoundInv, NoOverread
<1>2. IInv /\ RoundInv /\ [Next]_vars => (IInv /\ RoundInv)'
  BY NextKeepsIInv, NextKeepsRound
<1> QED BY <1>1, <1>2, InitIInv, RoundIsBack, PTL DEF Spec
=============================================================================
