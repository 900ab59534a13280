------------------------- MODULE CdmaMessageProofs -------------------------
(***************************************************************************)
(* For all messages of the clients' C types, and for all octets that       *)
(* arrive: what the encoders write are octets; both decoding loops are     *)
(* readers of parameters (ParameterReader); the types are kept and no      *)
(* counter wraps; and the subparameters without a name are handed over     *)
(* whole, within the memory the client gave for them, and as they were     *)
(* sent.  The last follows a client's message through both encoders and    *)
(* both decoders.  At the end, any field that Pack writes is one that      *)
(* Unpack reads, and so each parameter of the transport layer.             *)
(***************************************************************************)
EXTENDS CdmaMessage, TLAPS
LOCAL INSTANCE SequencesExt
LOCAL INSTANCE FiniteSetsExt
LOCAL INSTANCE Functions
WF == INSTANCE WellFoundedInduction
-----------------------------------------------------------------------------
(* ---- recursion on numbers ----------------------------------------------*)
(* Induction without an operator: of a non-empty set of numbers the         *)
(* well-founded order < has a least member.                                 *)
LEMMA Induction ==
  ASSUME NEW S, 0 \in S, \A n \in Nat : n \in S => n + 1 \in S
  PROVE  \A n \in Nat : n \in S
<1> DEFINE R == WF!OpToRel(<, Nat)
           U == Nat \ S
<1>1. WF!IsWellFoundedOn(R, Nat)
  BY WF!NatLessThanWellFounded
<1> SUFFICES ASSUME U # {} PROVE FALSE
  OBVIOUS
<1>2. PICK x \in U : \A y \in U : <<y, x>> \notin R
  <2>1. U \subseteq Nat
    OBVIOUS
  <2> HIDE DEF R, U
  <2> QED BY <1>1, <2>1, WF!WFMin
<1>3. x \in Nat /\ x # 0 /\ x \notin S
  OBVIOUS
<1>4. x - 1 \in Nat /\ x - 1 < x /\ (x - 1) + 1 = x
  BY <1>3
<1>5. x - 1 \notin U
  <2>1. <<x - 1, x>> \in R
    BY <1>3, <1>4 DEF WF!OpToRel
  <2> HIDE DEF R, U
  <2> QED BY <1>2, <2>1
<1>6. x - 1 \in S
  BY <1>4, <1>5
<1>7. x \in S
  BY <1>4, <1>6
<1> QED BY <1>3, <1>7

(* What a recursion from a with the steps of G has that goes up to n.       *)
Recursion(f, a, G, A, n) ==
  /\ f \in [0..n -> A] /\ f[0] = a
  /\ \A k \in 1..n : f[k] = G[<<f[k - 1], k>>]

(* From a and the steps of G a function is found that makes all of them.     *)
LEMMA RecursionExists ==
  ASSUME NEW N \in Nat, NEW A, NEW a \in A, NEW G \in [A \X (1..N) -> A]
  PROVE  \E f : Recursion(f, a, G, A, N)
<1> DEFINE P(f, n) == Recursion(f, a, G, A, n)
           S == {n \in Nat : n <= N => \E f : P(f, n)}
<1>1. 0 \in S
  <2> DEFINE f == [k \in 0..0 |-> a]
  <2>1. P(f, 0)
    BY DEF Recursion
  <2> HIDE DEF P
  <2> QED BY <2>1
<1>2. ASSUME NEW n \in Nat, n \in S, n + 1 <= N PROVE \E g : P(g, n + 1)
  <2>1. PICK f : P(f, n)
    <3> HIDE DEF P
    <3> QED BY <1>2
  <2> DEFINE g == [k \in 0..n + 1 |-> IF k = n + 1 THEN G[<<f[n], n + 1>>] ELSE f[k]]
  <2>2. f \in [0..n -> A] /\ f[0] = a /\ \A k \in 1..n : f[k] = G[<<f[k - 1], k>>]
    BY <2>1 DEF Recursion
  <2>3. f[n] \in A /\ n + 1 \in 1..N
    BY <1>2, <2>2
  <2>4. G[<<f[n], n + 1>>] \in A
    BY <2>3
  <2>5. g \in [0..n + 1 -> A] /\ g[0] = a
    BY <2>2, <2>4
  <2>6. ASSUME NEW k \in 1..n + 1 PROVE g[k] = G[<<g[k - 1], k>>]
    <3>1. CASE k = n + 1
      <4>1. g[k] = G[<<f[n], n + 1>>] /\ g[k - 1] = f[n] /\ k = n + 1
        BY <3>1
      <4> HIDE DEF g
      <4> QED BY <4>1
    <3>2. CASE k \in 1..n
      <4>1. g[k] = f[k] /\ g[k - 1] = f[k - 1]
        BY <3>2
      <4> QED BY <2>2, <3>2, <4>1
    <3> QED BY <3>1, <3>2
  <2>7. P(g, n + 1)
    <3> HIDE DEF g
    <3> QED BY <2>5, <2>6 DEF Recursion
  <2> HIDE DEF P
  <2> QED BY <2>7
<1>3. N \in S
  <2> HIDE DEF P
  <2>1. \A n \in Nat : n \in S => n + 1 \in S
    BY <1>2
  <2> HIDE DEF S
  <2> QED BY <1>1, <2>1, Induction
<1> HIDE DEF P
<1>4. \E f : P(f, N)
  BY <1>3
<1> QED BY <1>4 DEF P

(* The number of eight bits is an octet. *)
LEMMA NumberIsOctet ==
  ASSUME NEW b \in [1..8 -> {0, 1}]
  PROVE  NumberOf(b) \in Octet
<1>0. Len(b) = 8
  <2>1. b = [i \in 1..8 |-> b[i]]
    OBVIOUS
  <2>2. Len([i \in 1..8 |-> b[i]]) = 8
    OBVIOUS
  <2> QED BY <2>1, <2>2, Zenon
<1> DEFINE G == [p \in Nat \X (1..8) |-> 2 * p[1] + b[p[2]]]
<1>1. \A x \in Nat, k \in 1..8 : 2 * x + b[k] \in Nat /\ G[<<x, k>>] = 2 * x + b[k]
  OBVIOUS
<1>2. G \in [Nat \X (1..8) -> Nat]
  OBVIOUS
<1>3. PICK f : Recursion(f, 0, G, Nat, 8)
  <2> HIDE DEF G
  <2> QED BY <1>2, RecursionExists
<1>4. /\ f \in [0..8 -> Nat] /\ f[0] = 0
      /\ \A k \in 1..8 : f[k] = 2 * f[k - 1] + b[k]
  <2> HIDE DEF G
  <2>1. \A k \in 1..8 : k - 1 \in 0..8
    OBVIOUS
  <2> QED BY <1>1, <1>3, <2>1 DEF Recursion
<1>5. f = [k \in 0..8 |-> IF k = 0 THEN 0 ELSE 2 * f[k - 1] + b[k]]
  BY <1>4
<1> DEFINE n == CHOOSE n : n = [k \in 0..Len(b) |-> IF k = 0 THEN 0 ELSE 2 * n[k - 1] + b[k]]
<1>6. NumberOf(b) = n[8]
  BY <1>0 DEF NumberOf
<1>7. n = [k \in 0..8 |-> IF k = 0 THEN 0 ELSE 2 * n[k - 1] + b[k]]
  BY <1>0, <1>5
<1> HIDE DEF n
<1>8. /\ n[0] = 0 /\ n[1] = 2 * n[0] + b[1] /\ n[2] = 2 * n[1] + b[2] /\ n[3] = 2 * n[2] + b[3]
      /\ n[4] = 2 * n[3] + b[4] /\ n[5] = 2 * n[4] + b[5] /\ n[6] = 2 * n[5] + b[6]
      /\ n[7] = 2 * n[6] + b[7] /\ n[8] = 2 * n[7] + b[8]
  BY <1>7
<1>9. \A i \in 1..8 : b[i] \in 0..1
  OBVIOUS
<1>10. \A x, y : \A m \in 0..127 : y \in 0..1 /\ x \in 0..m => 2 * x + y \in 0..2 * m + 1
  OBVIOUS
<1>11. n[1] \in 0..1
  BY <1>8, <1>9
<1>12. n[2] \in 0..3
  BY <1>8, <1>9, <1>11
<1>13. n[3] \in 0..7
  BY <1>8, <1>9, <1>12
<1>14. n[4] \in 0..15
  BY <1>8, <1>9, <1>13
<1>15. n[5] \in 0..31
  BY <1>8, <1>9, <1>14
<1>16. n[6] \in 0..63
  BY <1>8, <1>9, <1>15
<1>17. n[7] \in 0..127
  BY <1>8, <1>9, <1>16
<1>18. n[8] \in 0..255
  BY <1>8, <1>9, <1>17
<1> QED BY <1>6, <1>18 DEF Octet

(* ---- sequences one behind the other ------------------------------------*)
(* What joining two sequences keeps.                                         *)
LEMMA Joined ==
  ASSUME NEW S, NEW s \in Seq(S), NEW t \in Seq(S)
  PROVE  /\ s \o t \in Seq(S) /\ Len(s \o t) = Len(s) + Len(t)
         /\ \A i \in 1..Len(s) : (s \o t)[i] = s[i]
         /\ \A i \in 1..Len(t) : (s \o t)[Len(s) + i] = t[i]
OBVIOUS

(* What FlattenSeq has joined of the first k. *)
Flattens(f, s, S) ==
  /\ f \in [1..Len(s) -> Seq(S)] /\ f[1] = s[1]
  /\ \A k \in 1..Len(s) - 1 : f[k + 1] = f[k] \o s[k + 1]
  /\ FlattenSeq(s) = f[Len(s)]

(* FlattenSeq joins from the left, one part after the other.                 *)
LEMMA FlattenDef ==
  ASSUME NEW S, NEW s \in Seq(Seq(S)), Len(s) # 0
  PROVE  \E f : Flattens(f, s, S)
<1> DEFINE l == Len(s)
           N == l - 1
           A == Seq(S)
           G == [p \in A \X (1..N) |-> p[1] \o s[p[2] + 1]]
<1>0. l \in Nat /\ l >= 1 /\ N \in Nat /\ N + 1 = l
  OBVIOUS
<1>1. \A k \in 1..l : s[k] \in A
  OBVIOUS
<1>2. \A x \in A, k \in 1..N : x \o s[k + 1] \in A /\ G[<<x, k>>] = x \o s[k + 1]
  <2> SUFFICES ASSUME NEW x \in A, NEW k \in 1..N
               PROVE  x \o s[k + 1] \in A /\ G[<<x, k>>] = x \o s[k + 1]
    OBVIOUS
  <2>1. s[k + 1] \in A
    BY <1>0, <1>1
  <2>2. x \o s[k + 1] \in A
    BY <2>1, Joined
  <2> QED BY <2>2
<1>3. G \in [A \X (1..N) -> A]
  <2> HIDE DEF A
  <2>1. \A p \in A \X (1..N) : p[1] \in A /\ p[2] \in 1..N
    OBVIOUS
  <2> QED BY <1>2, <2>1
<1>4. s[1] \in A
  BY <1>0, <1>1
<1>5. PICK g : Recursion(g, s[1], G, A, N)
  <2> HIDE DEF G, A, N
  <2> QED BY <1>0, <1>3, <1>4, RecursionExists
<1> HIDE DEF l, N
<1>6. /\ g \in [0..N -> A] /\ g[0] = s[1]
      /\ \A k \in 1..N : g[k] = g[k - 1] \o s[k + 1]
  <2> HIDE DEF G, A
  <2>1. \A k \in 1..N : k - 1 \in 0..N
    BY <1>0
  <2> QED BY <1>2, <1>5, <2>1 DEF Recursion
<1> HIDE DEF G
<1> DEFINE f == [k \in 1..l |-> g[k - 1]]
<1>7. f \in [1..l -> A] /\ f[1] = s[1]
  <2>1. \A k \in 1..l : k - 1 \in 0..N
    BY <1>0
  <2> HIDE DEF A
  <2> QED BY <1>0, <1>6, <2>1
<1>8. \A k \in 1..N : f[k + 1] = f[k] \o s[k + 1]
  <2>1. \A k \in 1..N : k + 1 \in 1..l /\ k \in 1..l /\ (k + 1) - 1 = k
    BY <1>0
  <2> HIDE DEF A
  <2> QED BY <1>6, <2>1
<1> HIDE DEF f
<1>9. f = [k \in 1..l |-> IF k = 1 THEN s[k] ELSE f[k - 1] \o s[k]]
  <2>1. \A k \in 1..l : k # 1 => k - 1 \in 1..N /\ (k - 1) + 1 = k
    BY <1>0
  <2>2. \A k \in 1..l : f[k] = IF k = 1 THEN s[k] ELSE f[k - 1] \o s[k]
    BY <1>7, <1>8, <2>1
  <2> HIDE DEF A
  <2> QED BY <1>7, <2>2, Zenon
<1> DEFINE h == CHOOSE h : h = [k \in 1..Len(s) |-> IF k = 1 THEN s[k] ELSE h[k - 1] \o s[k]]
<1>10. FlattenSeq(s) = h[l]
  BY DEF FlattenSeq, l
<1>11. h = [k \in 1..l |-> IF k = 1 THEN s[k] ELSE h[k - 1] \o s[k]]
  BY <1>9, Zenon DEF l
<1> HIDE DEF h
<1> DEFINE E == {n \in Nat : n + 1 <= l => h[n + 1] = f[n + 1]}
<1>12. 0 \in E
  BY <1>0, <1>7, <1>11
<1>13. ASSUME NEW n \in Nat, n \in E PROVE n + 1 \in E
  <2> SUFFICES ASSUME n + 1 + 1 <= l PROVE h[n + 1 + 1] = f[n + 1 + 1]
    OBVIOUS
  <2>1. n + 1 \in 1..N /\ n + 1 + 1 \in 1..l /\ n + 1 + 1 # 1 /\ (n + 1 + 1) - 1 = n + 1
    BY <1>0
  <2>2. h[n + 1] = f[n + 1]
    BY <1>0, <1>13, <2>1
  <2>3. h[n + 1 + 1] = h[n + 1] \o s[n + 1 + 1]
    BY <1>11, <2>1
  <2>4. f[n + 1 + 1] = f[n + 1] \o s[n + 1 + 1]
    BY <1>8, <2>1
  <2> QED BY <2>2, <2>3, <2>4
<1>14. \A n \in Nat : n \in E
  <2> HIDE DEF E
  <2> QED BY <1>12, <1>13, Induction
<1>15. h[l] = f[l]
  <2>1. N \in E
    BY <1>0, <1>14
  <2> QED BY <1>0, <2>1
<1> QED BY <1>0, <1>7, <1>8, <1>10, <1>15 DEF Flattens, l, N

(* Sequences over S are joined to one over S.                                *)
LEMMA FlattenTyped ==
  ASSUME NEW S, NEW s \in Seq(Seq(S))
  PROVE  FlattenSeq(s) \in Seq(S)
<1>1. CASE Len(s) = 0
  <2>1. s = <<>>
    BY <1>1
  <2>2. FlattenSeq(s) = <<>>
    BY <1>1, <2>1 DEF FlattenSeq
  <2> QED BY <2>2
<1>2. CASE Len(s) # 0
  <2>1. PICK f : Flattens(f, s, S)
    BY <1>2, FlattenDef
  <2>2. Len(s) \in 1..Len(s)
    BY <1>2
  <2> QED BY <2>1, <2>2 DEF Flattens
<1> QED BY <1>1, <1>2

(* Parts of eight each. *)
LEMMA FlattenEights ==
  ASSUME NEW S, NEW s \in Seq(Seq(S)), \A k \in 1..Len(s) : Len(s[k]) = 8
  PROVE  Len(FlattenSeq(s)) = 8 * Len(s)
<1>1. CASE Len(s) = 0
  <2>1. s = <<>>
    BY <1>1
  <2>2. FlattenSeq(s) = <<>>
    BY <1>1, <2>1 DEF FlattenSeq
  <2> QED BY <1>1, <2>2
<1>2. CASE Len(s) # 0
  <2>1. PICK f : Flattens(f, s, S)
    BY <1>2, FlattenDef
  <2> DEFINE l == Len(s)
             A == Seq(S)
  <2>2. l \in Nat /\ l >= 1 /\ (\A k \in 1..l : s[k] \in A /\ Len(s[k]) = 8)
    BY <1>2
  <2>3. /\ f \in [1..l -> A] /\ f[1] = s[1] /\ FlattenSeq(s) = f[l]
        /\ \A k \in 1..l - 1 : f[k + 1] = f[k] \o s[k + 1]
    BY <2>1 DEF Flattens
  <2> HIDE DEF l
  <2> DEFINE E == {n \in Nat : n + 1 <= l => Len(f[n + 1]) = 8 * (n + 1)}
  <2>4. 0 \in E
    BY <2>2, <2>3
  <2>5. ASSUME NEW n \in Nat, n \in E PROVE n + 1 \in E
    <3> SUFFICES ASSUME n + 1 + 1 <= l PROVE Len(f[n + 1 + 1]) = 8 * (n + 1 + 1)
      OBVIOUS
    <3>1. n + 1 \in 1..l - 1 /\ n + 1 \in 1..l /\ n + 1 + 1 \in 1..l
      BY <2>2
    <3>2. f[n + 1] \in A /\ s[n + 1 + 1] \in A /\ Len(s[n + 1 + 1]) = 8
      BY <2>2, <2>3, <3>1
    <3>3. Len(f[n + 1]) = 8 * (n + 1)
      BY <2>5, <3>1
    <3>4. f[n + 1 + 1] = f[n + 1] \o s[n + 1 + 1]
      BY <2>3, <3>1
    <3>5. Len(f[n + 1 + 1]) = Len(f[n + 1]) + 8
      <4>1. Len(f[n + 1] \o s[n + 1 + 1]) = Len(f[n + 1]) + Len(s[n + 1 + 1])
        BY <3>2, Joined, ZenonT(40)
      <4> QED BY <3>2, <3>4, <4>1, Zenon
    <3> QED BY <3>3, <3>5
  <2>6. \A n \in Nat : n \in E
    <3> HIDE DEF E
    <3> QED BY <2>4, <2>5, Induction
  <2>7. l - 1 \in Nat /\ (l - 1) + 1 = l
    BY <2>2
  <2>8. l - 1 \in E
    BY <2>6, <2>7
  <2>9. Len(f[l]) = 8 * l
    BY <2>2, <2>7, <2>8
  <2> QED BY <2>3, <2>9 DEF l
<1> QED BY <1>1, <1>2

(* ---- bits --------------------------------------------------------------*)
Bit == {0, 1}
Fields == Int \X (0..16)

(* The widths of fields have powers of two that are numbers.                 *)
LEMMA PowersOfTwo == \A n \in 0..16 : 2^n \in Nat \ {0}
<1>1. /\ 2^0 \in Nat \ {0} /\ 2^1 \in Nat \ {0} /\ 2^2 \in Nat \ {0} /\ 2^3 \in Nat \ {0}
      /\ 2^4 \in Nat \ {0} /\ 2^5 \in Nat \ {0} /\ 2^6 \in Nat \ {0} /\ 2^7 \in Nat \ {0}
      /\ 2^8 \in Nat \ {0} /\ 2^9 \in Nat \ {0} /\ 2^10 \in Nat \ {0} /\ 2^11 \in Nat \ {0}
      /\ 2^12 \in Nat \ {0} /\ 2^13 \in Nat \ {0} /\ 2^14 \in Nat \ {0} /\ 2^15 \in Nat \ {0}
      /\ 2^16 \in Nat \ {0}
  OBVIOUS
<1>2. \A n \in 0..16 : \/ n = 0 \/ n = 1 \/ n = 2 \/ n = 3 \/ n = 4 \/ n = 5 \/ n = 6 \/ n = 7 \/ n = 8
                        \/ n = 9 \/ n = 10 \/ n = 11 \/ n = 12 \/ n = 13 \/ n = 14 \/ n = 15 \/ n = 16
  OBVIOUS
<1> QED BY <1>1, <1>2, Zenon

(* Bits(v, w) are w bits.                                                    *)
LEMMA LowBits ==
  ASSUME NEW v \in Int, NEW n \in 0..16
  PROVE  (v \div 2^n) % 2 \in Bit
<1>1. 2^n \in Nat \ {0}
  BY PowersOfTwo
<1> DEFINE m == 2^n
<1>2. m \in Nat /\ m # 0
  BY <1>1
<1> HIDE DEF m
<1>3. v \div m \in Int
  BY <1>2
<1>4. (v \div m) % 2 \in Bit
  BY <1>3 DEF Bit
<1> QED BY <1>4 DEF m

(* The bits of fields, one behind the other, are bits.                       *)
LEMMA BitsTyped ==
  ASSUME NEW g \in Fields
  PROVE  BitsOf(g) \in Seq(Bit) /\ Len(BitsOf(g)) = g[2]
<1>1. g[1] \in Int /\ g[2] \in 0..16
  BY DEF Fields
<1> DEFINE v == g[1]
           w == g[2]
<1> HIDE DEF v, w
<1>2. ASSUME NEW i \in 1..w PROVE (v \div 2^(w - i)) % 2 \in Bit
  <2>1. w - i \in 0..16
    BY <1>1 DEF w
  <2> QED BY <1>1, <2>1, LowBits DEF v
<1> DEFINE b == [i \in 1..w |-> (v \div 2^(w - i)) % 2]
<1>3. b \in [1..w -> Bit]
  BY <1>2
<1>4. BitsOf(g) = b
  BY DEF BitsOf, v, w
<1>5. w \in Nat
  BY <1>1 DEF w
<1>6. Len(b) = w
  BY <1>5
<1> HIDE DEF b
<1>7. b \in Seq(Bit)
  BY <1>3, <1>5
<1> QED BY <1>4, <1>6, <1>7 DEF w

(* Bits are packed by eights into octets.                                    *)
LEMMA OctetsTyped ==
  ASSUME NEW bits \in Seq(Bit)
  PROVE  OctetsOf(bits) \in Seq(Octet) /\ Len(OctetsOf(bits)) = (Len(bits) + 7) \div 8
<1> DEFINE l == Len(bits)
           n == (l + 7) \div 8
           eight(k) == [i \in 1..8 |-> IF 8 * k - 8 + i <= l THEN bits[8 * k - 8 + i] ELSE 0]
<1>0. l \in Nat /\ n \in Nat
  OBVIOUS
<1>1. ASSUME NEW k \in 1..n PROVE NumberOf(eight(k)) \in Octet
  <2>1. \A i \in 1..8 : 8 * k - 8 + i <= l => 8 * k - 8 + i \in 1..l
    BY <1>0
  <2>2. \A i \in 1..l : bits[i] \in Bit
    OBVIOUS
  <2>3. eight(k) \in [1..8 -> Bit]
    <3> HIDE DEF l, n
    <3> QED BY <2>1, <2>2 DEF Bit
  <2> QED BY <2>3, NumberIsOctet DEF Bit
<1> DEFINE o == [k \in 1..n |-> NumberOf(eight(k))]
<1>2. OctetsOf(bits) = o
  BY DEF OctetsOf
<1> HIDE DEF eight, n
<1>3. o \in [1..n -> Octet]
  BY <1>1
<1>4. Len(o) = n
  BY <1>0
<1> HIDE DEF o
<1>5. o \in Seq(Octet)
  BY <1>0, <1>3
<1> QED BY <1>2, <1>4, <1>5 DEF n

(* Fields are packed into octets; fields of eight bits into one each. *)
LEMMA Packs ==
  ASSUME NEW s \in Seq(Fields)
  PROVE  /\ Pack(s) \in Seq(Octet)
         /\ (\A k \in 1..Len(s) : s[k][2] = 8) => Len(Pack(s)) = Len(s)
<1> DEFINE bs == [k \in DOMAIN s |-> BitsOf(s[k])]
<1>1. DOMAIN s = 1..Len(s) /\ Len(s) \in Nat /\ \A k \in 1..Len(s) : s[k] \in Fields
  OBVIOUS
<1>2. \A k \in 1..Len(s) : BitsOf(s[k]) \in Seq(Bit) /\ Len(BitsOf(s[k])) = s[k][2]
  BY <1>1, BitsTyped
<1>3. bs \in Seq(Seq(Bit)) /\ Len(bs) = Len(s)
  BY <1>1, <1>2
<1>4. \A k \in 1..Len(s) : bs[k] = BitsOf(s[k])
  BY <1>1
<1> DEFINE all == FlattenSeq(bs)
<1>5. Pack(s) = OctetsOf(all)
  BY DEF Pack
<1> HIDE DEF bs
<1>6. all \in Seq(Bit)
  BY <1>3, FlattenTyped
<1>7. ASSUME \A k \in 1..Len(s) : s[k][2] = 8
      PROVE  Len(all) = 8 * Len(s)
  <2>1. \A k \in 1..Len(bs) : Len(bs[k]) = 8
    BY <1>2, <1>3, <1>4, <1>7
  <2> QED BY <1>3, <2>1, FlattenEights
<1> HIDE DEF all
<1>8. OctetsOf(all) \in Seq(Octet) /\ Len(OctetsOf(all)) = (Len(all) + 7) \div 8
  BY <1>6, OctetsTyped
<1>9. \A n \in Nat : (8 * n + 7) \div 8 = n
  OBVIOUS
<1> QED BY <1>1, <1>5, <1>7, <1>8, <1>9

(* ---- what the encoders write are octets --------------------------------*)
(* No field, one field and more fields are fields.                           *)
LEMMA NoField == <<>> \in Seq(Fields)
OBVIOUS

LEMMA OneField == \A v \in Int, w \in 0..16 : <<<<v, w>>>> \in Seq(Fields)
BY DEF Fields

LEMMA Widths == /\ 1 \in 0..16 /\ 2 \in 0..16 /\ 3 \in 0..16 /\ 4 \in 0..16 /\ 5 \in 0..16
                /\ 6 \in 0..16 /\ 7 \in 0..16 /\ 8 \in 0..16 /\ 16 \in 0..16
OBVIOUS

LEMMA MoreFields == \A s, t \in Seq(Fields) : s \o t \in Seq(Fields)
OBVIOUS

(* A length is a number, and can be written.                                 *)
LEMMA LengthIsNat == \A S : \A s \in Seq(S) : Len(s) \in Nat /\ Len(s) \in Int
OBVIOUS

(* Digits are fields of their size.                                          *)
LEMMA DigitFields ==
  ASSUME NEW d \in Seq(Octet), NEW w \in 0..16
  PROVE  /\ [k \in DOMAIN d |-> <<d[k], w>>] \in Seq(Fields)
         /\ Len([k \in DOMAIN d |-> <<d[k], w>>]) = Len(d)
<1> DEFINE g == [k \in 1..Len(d) |-> <<d[k], w>>]
<1>1. Len(d) \in Nat /\ DOMAIN d = 1..Len(d) /\ Len(g) = Len(d)
  OBVIOUS
<1>2. \A k \in 1..Len(d) : d[k] \in Octet
  OBVIOUS
<1>3. \A k \in 1..Len(d) : <<d[k], w>> \in Fields
  <2>1. \A x \in Octet : <<x, w>> \in Fields
    BY DEF Fields, Octet
  <2> QED BY <1>2, <2>1, Zenon
<1>4. g \in Seq(Fields)
  BY <1>1, <1>3
<1> QED BY <1>1, <1>4

(* The fields of each transport-layer parameter, for all values of its C type. *)
LEMMA TransportFields ==
  ASSUME NEW p \in DOMAIN TL!Value \ {"bearer"}, NEW v \in TL!Value[p]
  PROVE  TL!Write(p, v) \in Seq(Fields)
<1>0. \A n \in Octet : n \in Int
  BY DEF Octet
<1>1. CASE p \in {"teleservice", "service"}
  <2>1. v \in Int
    BY <1>1 DEF TL!Value
  <2>2. TL!Write(p, v) = <<<<v, 16>>>>
    BY <1>1 DEF TL!Write
  <2> QED BY <2>1, <2>2 DEF Fields
<1>2. CASE p = "address"
  <2>1. /\ v.digit_mode \in Int /\ v.number_mode \in Int /\ v.type \in Int /\ v.plan \in Int
        /\ v.digits \in Seq(Octet)
    BY <1>2 DEF TL!Value, TL!Octet, Octet
  <2> DEFINE size == IF v.digit_mode = 1 THEN 8 ELSE 4
             a == <<<<v.digit_mode, 1>>, <<v.number_mode, 1>>>>
             b == IF v.digit_mode = 1 THEN <<<<v.type, 3>>>> ELSE <<>>
             c == IF v.digit_mode = 1 /\ v.number_mode = 0 THEN <<<<v.plan, 4>>>> ELSE <<>>
             l == <<<<Len(v.digits), 8>>>>
             e == TL!DigitFields(v.digits, size)
  <2>2. TL!Write(p, v) = a \o b \o c \o l \o e
    BY <1>2 DEF TL!Write, TL!WriteAddress
  <2>3. a \in Seq(Fields)
    BY <2>1 DEF Fields
  <2>4. b \in Seq(Fields)
    <3>1. <<<<v.type, 3>>>> \in Seq(Fields)
      BY <2>1, Widths, OneField, Zenon
    <3> QED BY <3>1, NoField, Zenon
  <2>5. c \in Seq(Fields)
    <3>1. <<<<v.plan, 4>>>> \in Seq(Fields)
      BY <2>1, Widths, OneField, Zenon
    <3> QED BY <3>1, NoField, Zenon
  <2>6. l \in Seq(Fields)
    <3>1. Len(v.digits) \in Int
      BY <2>1, LengthIsNat, Zenon
    <3> QED BY <3>1, Widths, OneField, Zenon
  <2>7. e \in Seq(Fields)
    <3>1. e = [k \in DOMAIN v.digits |-> <<v.digits[k], size>>] /\ size \in 0..16
      BY DEF TL!DigitFields
    <3> HIDE DEF e, size
    <3> QED BY <2>1, <3>1, Widths, DigitFields, Zenon
  <2> HIDE DEF a, b, c, l, e
  <2>8. a \o b \in Seq(Fields)
    BY <2>3, <2>4, MoreFields, Zenon
  <2>9. (a \o b) \o c \in Seq(Fields)
    BY <2>5, <2>8, MoreFields, Zenon
  <2>10. ((a \o b) \o c) \o l \in Seq(Fields)
    BY <2>6, <2>9, MoreFields, Zenon
  <2> QED BY <2>2, <2>7, <2>10, MoreFields, Zenon
<1>3. CASE p = "subaddress"
  <2>1. v.type \in Int /\ v.odd \in Int /\ v.digits \in Seq(Octet)
    <3>1. v \in [type : Nat, odd : Octet, digits : Seq(Octet)]
      BY <1>3 DEF TL!Value, TL!Octet, Octet
    <3> QED BY <1>0, <3>1
  <2> DEFINE a == <<<<v.type, 3>>, <<v.odd, 1>>, <<Len(v.digits), 8>>>>
             e == TL!DigitFields(v.digits, 8)
             z == <<<<0, 4>>>>
  <2>2. TL!Write(p, v) = a \o e \o z
    BY <1>3 DEF TL!Write, TL!WriteSubaddress
  <2>3. a \in Seq(Fields) /\ z \in Seq(Fields)
    BY <2>1 DEF Fields
  <2>4. e \in Seq(Fields)
    <3>1. e = [k \in DOMAIN v.digits |-> <<v.digits[k], 8>>]
      BY DEF TL!DigitFields
    <3> HIDE DEF e
    <3> QED BY <2>1, <3>1, Widths, DigitFields, Zenon
  <2> HIDE DEF a, e, z
  <2> QED BY <2>2, <2>3, <2>4, MoreFields, Zenon
<1>4. CASE p = "reply"
  <2>1. v \in Int
    BY <1>4 DEF TL!Value, TL!Octet
  <2>2. TL!Write(p, v) = <<<<v, 6>>, <<0, 2>>>>
    BY <1>4 DEF TL!Write, TL!WriteReply
  <2> QED BY <2>1, <2>2 DEF Fields
<1>5. CASE p = "cause"
  <2>1. v.number \in Int /\ v.class \in Int /\ v.status \in Int
    BY <1>5 DEF TL!Value, TL!Octet
  <2> DEFINE a == <<<<v.number, 6>>, <<v.class, 2>>>>
             b == IF v.class # 0 THEN <<<<v.status, 8>>>> ELSE <<>>
  <2>2. TL!Write(p, v) = a \o b
    BY <1>5 DEF TL!Write, TL!WriteCause
  <2>3. a \in Seq(Fields)
    BY <2>1 DEF Fields
  <2>4. b \in Seq(Fields)
    <3>1. <<<<v.status, 8>>>> \in Seq(Fields)
      BY <2>1, Widths, OneField, Zenon
    <3> QED BY <3>1, NoField, Zenon
  <2> HIDE DEF a, b
  <2> QED BY <2>2, <2>3, <2>4, MoreFields, Zenon
<1> QED BY <1>1, <1>2, <1>3, <1>4, <1>5 DEF TL!Value

(* Octets and words are integers.                                            *)
LEMMA OctetIsInt == \A n \in Octet : n \in Int /\ n \in Nat
BY DEF Octet

LEMMA WordIsInt == \A n \in Word : n \in Int
BY DEF Word

(* One octet holds a relative time, whatever the client's time is.          *)
LEMMA RelativeIsInt ==
  ASSUME NEW t \in Time
  PROVE  T!EncodeRelative(t) \in Int
<1> DEFINE B == 0..255
<1>1. \A f \in {"year", "month", "day", "hour", "minute"} : t[f] \in B
  BY DEF Time, T!ValidTime, T!Field, T!Octet
<1>2. \A b \in B : T!BcdToInt(b) \in Nat
  BY DEF T!BcdToInt, T!IsBcd
<1> HIDE DEF B
<1>3. /\ T!BcdToInt(t.year) \in Nat /\ T!BcdToInt(t.month) \in Nat /\ T!BcdToInt(t.day) \in Nat
      /\ T!BcdToInt(t.hour) \in Nat /\ T!BcdToInt(t.minute) \in Nat
  BY <1>1, <1>2
<1> DEFINE d == T!Days(t)
           m == T!Minutes(t)
<1>5. d \in Nat /\ m \in Nat
  <2> DEFINE y == T!BcdToInt(t.year)
             o == T!BcdToInt(t.month)
             a == T!BcdToInt(t.day)
             h == T!BcdToInt(t.hour)
             i == T!BcdToInt(t.minute)
  <2>1. d = y * 365 + o * 30 + a /\ m = h * 60 + i
    BY DEF T!Days, T!Minutes
  <2>2. y \in Nat /\ o \in Nat /\ a \in Nat /\ h \in Nat /\ i \in Nat
    BY <1>3
  <2> HIDE DEF d, m, y, o, a, h, i
  <2> QED BY <2>1, <2>2
<1> HIDE DEF d, m
<1>6. \A n \in Nat : T!HalfHours(n) \in Int
  BY DEF T!HalfHours
<1>7. T!EncodeRelative(t) = CASE d > 30           -> ((d + 6) \div 7 + 192) % 256
                              [] d \in 1..30      -> d + 166
                              [] d = 0 /\ m > 720 -> (T!HalfHours(m) + 143) % 256
                              [] d = 0 /\ m <= 720 -> ((m + 4) \div 5 - 1) % 256
  BY DEF T!EncodeRelative, d, m
<1>8. T!HalfHours(m) \in Int
  BY <1>5, <1>6
<1> DEFINE h == T!HalfHours(m)
<1> HIDE DEF h
<1>9. ((d + 6) \div 7 + 192) % 256 \in Int /\ (h + 143) % 256 \in Int /\ ((m + 4) \div 5 - 1) % 256 \in Int
  BY <1>5, <1>8 DEF h
<1>10. d > 30 \/ d \in 1..30 \/ (d = 0 /\ m > 720) \/ (d = 0 /\ m <= 720)
  BY <1>5
<1> QED BY <1>5, <1>7, <1>9, <1>10 DEF h

(* Each encoding has its code.                                               *)
LEMMA EncodingCodes == \A k \in 1..10 : EncodingCode(Encodings[k]) \in 0..9
<1> SUFFICES ASSUME NEW k \in 1..10 PROVE EncodingCode(Encodings[k]) \in 0..9
  OBVIOUS
<1>1. k - 1 \in 0..9 /\ Encodings[(k - 1) + 1] = Encodings[k]
  OBVIOUS
<1>2. \E j \in 0..9 : Encodings[j + 1] = Encodings[k]
  BY <1>1
<1> QED BY <1>2 DEF EncodingCode

(* What is written for the service of an entry is a word, and the service   *)
(* itself where it begins at the border of an octet and is one.             *)
ServiceSent(e, bit) == WriteService(e, bit)[1]
LEMMA ServiceIsSent ==
  ASSUME NEW e \in Entry, NEW bit \in 0..7
  PROVE  /\ WriteService(e, bit) = <<ServiceSent(e, bit), 16>>
         /\ ServiceSent(e, bit) \in Nat /\ ServiceSent(e, bit) < 65536
         /\ bit = 0 /\ e.service < 256 => ServiceSent(e, bit) = e.service
<1> DEFINE s == e.service
           h == e.held
           p == 2^bit
           q == h \div 256
           y == h % p
           x == IF bit = 0 THEN s % 256 ELSE 256 * q + y
<1>1. WriteService(e, bit) = <<x, 16>>
  BY Zenon DEF WriteService
<1>2. s \in Nat /\ h \in Nat /\ h < 65536
  <2>1. s \in Nat /\ h \in Word
    BY DEF Entry
  <2> HIDE DEF h
  <2>2. h \in Nat /\ h < 65536
    BY <2>1 DEF Word
  <2> QED BY <2>1, <2>2
<1>3. bit \in {0, 1, 2, 3, 4, 5, 6, 7}
  OBVIOUS
<1>4. 2^1 = 2 /\ 2^2 = 4 /\ 2^3 = 8 /\ 2^4 = 16 /\ 2^5 = 32 /\ 2^6 = 64 /\ 2^7 = 128
  OBVIOUS
<1>5. p = 2^bit
  OBVIOUS
<1> HIDE DEF s, h, p
<1>6. bit # 0 => \/ p = 2 \/ p = 4 \/ p = 8 \/ p = 16 \/ p = 32 \/ p = 64 \/ p = 128
  <2>1. bit = 0 \/ bit = 1 \/ bit = 2 \/ bit = 3 \/ bit = 4 \/ bit = 5 \/ bit = 6 \/ bit = 7
    BY <1>3
  <2>2. /\ (bit = 1 => p = 2) /\ (bit = 2 => p = 4) /\ (bit = 3 => p = 8) /\ (bit = 4 => p = 16)
        /\ (bit = 5 => p = 32) /\ (bit = 6 => p = 64) /\ (bit = 7 => p = 128)
    BY <1>4, <1>5, Zenon
  <2> QED BY <2>1, <2>2
<1>7. bit # 0 => y \in Nat /\ y < 128
  <2>1. /\ h % 2 \in 0..1 /\ h % 4 \in 0..3 /\ h % 8 \in 0..7 /\ h % 16 \in 0..15
        /\ h % 32 \in 0..31 /\ h % 64 \in 0..63 /\ h % 128 \in 0..127
    BY <1>2
  <2>2. /\ h % 2 \in 0..127 /\ h % 4 \in 0..127 /\ h % 8 \in 0..127 /\ h % 16 \in 0..127
        /\ h % 32 \in 0..127 /\ h % 64 \in 0..127 /\ h % 128 \in 0..127
    BY <2>1
  <2>3. ASSUME bit # 0 PROVE y \in 0..127
    <3> HIDE DEF y
    <3>1. y = h % p
      BY DEF y
    <3> QED BY <1>6, <2>2, <2>3, <3>1, Zenon
  <2> HIDE DEF y
  <2> QED BY <2>3
<1>8. q \in Nat /\ q < 256
  BY <1>2
<1> HIDE DEF q, y
<1>9. x \in Nat /\ x < 65536 /\ (bit = 0 /\ s < 256 => x = s)
  <2>1. CASE bit = 0
    BY <1>2, <2>1
  <2>2. CASE bit # 0
    BY <1>7, <1>8, <2>2
  <2> QED BY <2>1, <2>2
<1> HIDE DEF x
<1>10. ServiceSent(e, bit) = x
  BY <1>1 DEF ServiceSent
<1> QED BY <1>1, <1>9, <1>10 DEF s

(* A service begins at one of the bits of an octet.                          *)
LEMMA ServiceBits ==
  ASSUME NEW v \in Value.scpt_data, NEW k \in 1..Len(v.entries)
  PROVE  ServiceBit(v, k) \in 0..7
<1> DEFINE s == [j \in 1..k - 1 |-> v.entries[j].label]
<1>1. v.entries \in Seq(Entry)
  BY DEF Value
<1>2. \A j \in 1..Len(v.entries) : v.entries[j].label \in Seq(Octet)
  <2>1. \A e \in Entry : e.label \in Seq(Octet)
    BY DEF Entry
  <2> QED BY <1>1, <2>1
<1>3. k - 1 \in Nat /\ \A j \in 1..k - 1 : s[j] \in Seq(Octet)
  BY <1>1, <1>2
<1>4. s \in Seq(Seq(Octet))
  BY <1>3
<1> DEFINE n == Len(FlattenSeq(s))
<1>5. ServiceBit(v, k) = IF DigitSize(v.encoding) = 7 THEN (9 + 7 * n) % 8 ELSE 1
  BY DEF ServiceBit
<1> HIDE DEF s
<1>6. n \in Nat
  BY <1>4, FlattenTyped, LengthIsNat, Zenon
<1> HIDE DEF n
<1>7. (9 + 7 * n) % 8 \in 0..7
  BY <1>6
<1> QED BY <1>5, <1>7

(* The fields of a service category program entry.                           *)
LEMMA EntryFields ==
  ASSUME NEW e \in Entry, NEW size \in {7, 8, 16}, NEW bit \in 0..7
  PROVE  WriteEntry(e, size, bit) \in Seq(Fields)
<1> DEFINE sent == ServiceSent(e, bit)
<1>1. /\ e.op_code \in Int /\ sent \in Int /\ e.language \in Int /\ e.max_messages \in Int
      /\ e.alert \in Int /\ e.label \in Seq(Octet)
  <2>1. /\ e.op_code \in Nat /\ sent \in Nat /\ e.language \in Nat /\ e.max_messages \in Octet
        /\ e.alert \in Nat /\ e.label \in Seq(Octet)
    <3>1. sent \in Nat
      <4>1. ServiceSent(e, bit) \in Nat
        BY ServiceIsSent
      <4> QED BY <4>1 DEF sent
    <3>2. /\ e.op_code \in Nat /\ e.language \in Nat /\ e.max_messages \in Octet
          /\ e.alert \in Nat /\ e.label \in Seq(Octet)
      BY DEF Entry
    <3> QED BY <3>1, <3>2, Zenon
  <2> QED BY <2>1, OctetIsInt
<1> HIDE DEF sent
<1> DEFINE n == IF size = 16 THEN Len(e.label) \div 2 ELSE Len(e.label)
           w == IF size = 16 THEN 8 ELSE size
           a == <<<<e.op_code, 4>>, <<sent, 16>>, <<e.language, 8>>, <<e.max_messages, 8>>,
                  <<e.alert, 4>>, <<n, 8>>>>
           b == [k \in DOMAIN e.label |-> <<e.label[k], w>>]
<1>2. WriteEntry(e, size, bit) = a \o b
  <2>1. WriteService(e, bit) = <<sent, 16>>
    BY ServiceIsSent DEF sent
  <2> QED BY <2>1, Zenon DEF WriteEntry
<1>3. n \in Int
  <2>1. Len(e.label) \in Nat
    BY <1>1, LengthIsNat, Zenon
  <2> QED BY <2>1
<1>4. w \in 0..16
  OBVIOUS
<1> HIDE DEF n, w
<1>5. a \in Seq(Fields)
  BY <1>1, <1>3 DEF Fields
<1>6. b \in Seq(Fields)
  BY <1>1, <1>4, DigitFields, Zenon
<1> HIDE DEF a, b
<1> QED BY <1>2, <1>5, <1>6, MoreFields, Zenon

(* The fields of a callback number.                                          *)
LEMMA CallbackFields ==
  ASSUME NEW v \in Value.callback
  PROVE  WriteCallback(v) \in Seq(Fields)
<1>1. /\ v.digit_mode \in Int /\ v.number_type \in Int /\ v.number_plan \in Int
      /\ v.digits \in Seq(Octet)
  BY DEF Value
<1> DEFINE w == IF v.digit_mode = 1 THEN 8 ELSE 4
           a == <<<<v.digit_mode, 1>>>>
           b == IF v.digit_mode = 1 THEN <<<<v.number_type, 3>>, <<v.number_plan, 4>>>> ELSE <<>>
           c == <<<<Len(v.digits), 8>>>>
           e == [k \in DOMAIN v.digits |-> <<v.digits[k], w>>]
<1>2. WriteCallback(v) = a \o b \o c \o e
  BY DEF WriteCallback, Digits
<1>3. a \in Seq(Fields)
  BY <1>1, Widths, OneField, Zenon
<1>4. b \in Seq(Fields)
  <2>1. <<<<v.number_type, 3>>, <<v.number_plan, 4>>>> \in Seq(Fields)
    BY <1>1 DEF Fields
  <2> QED BY <2>1, NoField, Zenon
<1>5. c \in Seq(Fields)
  <2>1. Len(v.digits) \in Int
    BY <1>1, LengthIsNat, Zenon
  <2> QED BY <2>1, Widths, OneField, Zenon
<1>6. w \in 0..16
  OBVIOUS
<1> HIDE DEF w
<1>7. e \in Seq(Fields)
  BY <1>1, <1>6, DigitFields, Zenon
<1> HIDE DEF a, b, c, e
<1>8. a \o b \in Seq(Fields)
  BY <1>3, <1>4, MoreFields, Zenon
<1>9. (a \o b) \o c \in Seq(Fields)
  BY <1>5, <1>8, MoreFields, Zenon
<1> QED BY <1>2, <1>7, <1>9, MoreFields, Zenon

(* The fields of a service category program, all its entries.                *)
LEMMA ScptDataFields ==
  ASSUME NEW v \in Value.scpt_data
  PROVE  WriteScptData(v) \in Seq(Fields)
<1>1. v.encoding \in {Encodings[k] : k \in 1..10} /\ v.entries \in Seq(Entry)
  BY DEF Value
<1> DEFINE size == DigitSize(v.encoding)
           a == <<<<EncodingCode(v.encoding), 5>>>>
           s == [k \in DOMAIN v.entries |-> WriteEntry(v.entries[k], size, ServiceBit(v, k))]
<1>2. size \in {7, 8, 16}
  BY DEF DigitSize
<1> HIDE DEF size
<1>3. EncodingCode(v.encoding) \in Int
  BY <1>1, EncodingCodes
<1>4. a \in Seq(Fields)
  BY <1>3, Widths, OneField, Zenon
<1>5. s \in Seq(Seq(Fields))
  <2>1. DOMAIN v.entries = 1..Len(v.entries) /\ Len(v.entries) \in Nat
        /\ \A k \in 1..Len(v.entries) : v.entries[k] \in Entry
    BY <1>1
  <2>2. \A k \in 1..Len(v.entries) : WriteEntry(v.entries[k], size, ServiceBit(v, k)) \in Seq(Fields)
    BY <1>2, <2>1, EntryFields, ServiceBits
  <2> QED BY <2>1, <2>2
<1> DEFINE b == FlattenSeq(s)
<1>6. WriteScptData(v) = a \o b
  BY DEF WriteScptData, size
<1> HIDE DEF s
<1>7. b \in Seq(Fields)
  BY <1>5, FlattenTyped
<1> HIDE DEF a, b
<1> QED BY <1>4, <1>6, <1>7, MoreFields, Zenon

(* The fields of its results.                                                *)
LEMMA ScptResultFields ==
  ASSUME NEW v \in Value.scpt_result
  PROVE  WriteScptResult(v) \in Seq(Fields)
<1> DEFINE R == [service : Nat, language : Nat, status : Nat]
           f(r) == <<<<r.service, 16>>, <<r.language, 8>>, <<r.status, 4>>, <<0, 4>>>>
           s == [k \in DOMAIN v |-> f(v[k])]
<1>1. v \in Seq(R)
  BY DEF Value
<1>2. \A r \in R : f(r) \in Seq(Fields)
  BY DEF Fields
<1>3. WriteScptResult(v) = FlattenSeq(s)
  BY DEF WriteScptResult
<1> HIDE DEF f, R
<1>4. s \in Seq(Seq(Fields))
  <2>1. DOMAIN v = 1..Len(v) /\ Len(v) \in Nat /\ \A k \in 1..Len(v) : v[k] \in R
    BY <1>1
  <2>2. \A k \in 1..Len(v) : f(v[k]) \in Seq(Fields)
    BY <1>2, <2>1
  <2> QED BY <2>1, <2>2
<1> HIDE DEF s
<1> QED BY <1>3, <1>4, FlattenTyped

(* The fields of each subparameter but user data, and of one without a name.*)
Encoded == Known \ {"user_data"}

(* Each of them has fields of known widths; times have one octet each.       *)
LEMMA BearerFields ==
  ASSUME NEW p \in Encoded, NEW v \in Value[p]
  PROVE  /\ Write(p, v) \in Seq(Fields)
         /\ p \in AbsoluteTimes => Len(Write(p, v)) = 6 /\ \A k \in 1..6 : Write(p, v)[k][2] = 8
         /\ p \in RelativeTimes => Len(Write(p, v)) = 1 /\ Write(p, v)[1][2] = 8
<1>1. CASE p = "message_id"
  <2>1. v.type \in Int /\ v.id_number \in Int /\ v.udh_present \in Int
    <3>1. v \in [type : Nat, id_number : Nat, udh_present : 0..1]
      BY <1>1 DEF Value
    <3> QED BY <3>1, WordIsInt
  <2>2. Write(p, v) = <<<<v.type, 4>>, <<v.id_number, 16>>, <<v.udh_present, 1>>, <<0, 3>>>>
    BY <1>1 DEF Write, WriteMessageId, RelativeTimes, AbsoluteTimes
  <2>3. <<<<v.type, 4>>, <<v.id_number, 16>>, <<v.udh_present, 1>>, <<0, 3>>>> \in Seq(Fields)
    BY <2>1 DEF Fields
  <2> QED BY <1>1, <2>2, <2>3 DEF AbsoluteTimes, RelativeTimes
<1>2. CASE p \in {"user_response", "language", "rsn_no_notify"}
  <2>1. v \in Int
    BY <1>2, OctetIsInt DEF Value
  <2>2. Write(p, v) = <<<<v, 8>>>>
    BY <1>2 DEF Write, WriteOctet, RelativeTimes, AbsoluteTimes
  <2> QED BY <1>2, <2>1, <2>2, Widths, OneField, Zenon DEF AbsoluteTimes, RelativeTimes
<1>3. CASE p \in RelativeTimes
  <2>1. v \in Time
    BY <1>3 DEF Value, RelativeTimes
  <2>2. Write(p, v) = <<<<T!EncodeRelative(v), 8>>>>
    BY <1>3 DEF Write, WriteRelative, RelativeTimes, AbsoluteTimes
  <2>3. <<<<T!EncodeRelative(v), 8>>>> \in Seq(Fields)
    BY <2>1, RelativeIsInt, Widths, OneField, Zenon
  <2>4. p \notin AbsoluteTimes
    BY <1>3 DEF AbsoluteTimes, RelativeTimes
  <2> QED BY <2>2, <2>3, <2>4
<1>4. CASE p \in AbsoluteTimes
  <2>1. v \in [1..6 -> Octet]
    BY <1>4 DEF Value, AbsoluteTimes
  <2> DEFINE s == [k \in 1..6 |-> <<v[k], 8>>]
  <2>2. Write(p, v) = s
    BY <1>4 DEF Write, WriteTime, AbsoluteTimes, RelativeTimes
  <2>3. \A k \in 1..6 : s[k] \in Fields /\ s[k][2] = 8
    <3>1. \A x \in Octet : <<x, 8>> \in Fields
      BY OctetIsInt DEF Fields
    <3> QED BY <2>1, <3>1
  <2>4. Len(s) = 6
    OBVIOUS
  <2>5. s \in Seq(Fields)
    BY <2>3
  <2>6. p \notin RelativeTimes
    BY <1>4 DEF AbsoluteTimes, RelativeTimes
  <2> HIDE DEF s
  <2> QED BY <2>2, <2>3, <2>4, <2>5, <2>6
<1>5. CASE p \in {"priority", "privacy"}
  <2>1. v \in Int
    BY <1>5 DEF Value
  <2>2. Write(p, v) = <<<<v, 2>>, <<0, 6>>>>
    BY <1>5 DEF Write, WriteTwoBits, RelativeTimes, AbsoluteTimes
  <2>3. <<<<v, 2>>, <<0, 6>>>> \in Seq(Fields)
    BY <2>1 DEF Fields
  <2> QED BY <1>5, <2>2, <2>3 DEF AbsoluteTimes, RelativeTimes
<1>6. CASE p = "reply_option"
  <2>1. v \in [1..3 -> 0..1]
    BY <1>6 DEF Value
  <2>2. v[1] \in Int /\ v[2] \in Int /\ v[3] \in Int
    BY <2>1
  <2>3. Write(p, v) = <<<<v[1], 1>>, <<v[2], 1>>, <<v[3], 1>>, <<0, 5>>>>
    BY <1>6 DEF Write, WriteReplyOption, RelativeTimes, AbsoluteTimes
  <2>4. <<<<v[1], 1>>, <<v[2], 1>>, <<v[3], 1>>, <<0, 5>>>> \in Seq(Fields)
    BY <2>2 DEF Fields
  <2> QED BY <1>6, <2>3, <2>4 DEF AbsoluteTimes, RelativeTimes
<1>7. CASE p = "num_messages"
  <2>1. v \in Nat
    BY <1>7, OctetIsInt DEF Value
  <2>2. v \div 10 \in Int /\ v % 10 \in Int
    BY <2>1
  <2>3. Write(p, v) = <<<<v \div 10, 4>>, <<v % 10, 4>>>>
    BY <1>7 DEF Write, WriteNumMessages, RelativeTimes, AbsoluteTimes
  <2>4. <<<<v \div 10, 4>>, <<v % 10, 4>>>> \in Seq(Fields)
    BY <2>2 DEF Fields
  <2> QED BY <1>7, <2>3, <2>4 DEF AbsoluteTimes, RelativeTimes
<1>8. CASE p = "alert_mode"
  <2>1. v \in Int
    BY <1>8 DEF Value
  <2>2. Write(p, v) = IF v = 0 THEN <<>> ELSE <<<<v, 2>>, <<0, 6>>>>
    BY <1>8 DEF Write, WriteAlertMode, RelativeTimes, AbsoluteTimes
  <2>3. <<<<v, 2>>, <<0, 6>>>> \in Seq(Fields)
    BY <2>1 DEF Fields
  <2> QED BY <1>8, <2>2, <2>3, NoField DEF AbsoluteTimes, RelativeTimes
<1>9. CASE p = "callback"
  <2>1. Write(p, v) = WriteCallback(v) /\ v \in Value.callback
    BY <1>9 DEF Write, RelativeTimes, AbsoluteTimes
  <2> QED BY <1>9, <2>1, CallbackFields DEF AbsoluteTimes, RelativeTimes
<1>10. CASE p = "display_mode"
  <2>1. v.mode \in Int /\ v.download \in Int
    <3>1. v \in [mode : Nat, download : Octet]
      BY <1>10 DEF Value
    <3> QED BY <3>1, OctetIsInt
  <2> DEFINE n == IF v.mode = 3 THEN v.download ELSE 0
  <2>2. Write(p, v) = <<<<v.mode, 2>>, <<n, 6>>>>
    BY <1>10 DEF Write, WriteDisplayMode, RelativeTimes, AbsoluteTimes
  <2>3. n \in Int
    BY <2>1
  <2> HIDE DEF n
  <2>4. <<<<v.mode, 2>>, <<n, 6>>>> \in Seq(Fields)
    BY <2>1, <2>3 DEF Fields
  <2> QED BY <1>10, <2>2, <2>4 DEF AbsoluteTimes, RelativeTimes
<1>11. CASE p = "scpt_data"
  <2>1. Write(p, v) = WriteScptData(v) /\ v \in Value.scpt_data
    BY <1>11 DEF Write, RelativeTimes, AbsoluteTimes
  <2> QED BY <1>11, <2>1, ScptDataFields DEF AbsoluteTimes, RelativeTimes
<1>12. CASE p = "scpt_result"
  <2>1. Write(p, v) = WriteScptResult(v) /\ v \in Value.scpt_result
    BY <1>12 DEF Write, RelativeTimes, AbsoluteTimes
  <2> QED BY <1>12, <2>1, ScptResultFields DEF AbsoluteTimes, RelativeTimes
<1>13. CASE p = "deposit_index"
  <2>1. v \in Int
    BY <1>13 DEF Value
  <2>2. Write(p, v) = <<<<v, 16>>>>
    BY <1>13 DEF Write, WriteDepositIndex, RelativeTimes, AbsoluteTimes
  <2>3. p \notin AbsoluteTimes /\ p \notin RelativeTimes
    BY <1>13 DEF AbsoluteTimes, RelativeTimes
  <2> QED BY <2>1, <2>2, <2>3, Widths, OneField, Zenon
<1>14. CASE p = "delivery_status"
  <2>1. v \in [1..2 -> Nat]
    BY <1>14 DEF Value
  <2>2. v[1] \in Int /\ v[2] \in Int
    BY <2>1
  <2>3. Write(p, v) = <<<<v[1], 2>>, <<v[2], 6>>>>
    BY <1>14 DEF Write, WriteDeliveryStatus, RelativeTimes, AbsoluteTimes
  <2>4. <<<<v[1], 2>>, <<v[2], 6>>>> \in Seq(Fields)
    BY <2>2 DEF Fields
  <2> QED BY <1>14, <2>3, <2>4 DEF AbsoluteTimes, RelativeTimes
<1>15. CASE p = "ip_address"
  <2>1. v \in [1..5 -> Octet]
    BY <1>15 DEF Value
  <2> DEFINE s == [k \in 1..5 |-> <<v[k], 8>>]
  <2>2. Write(p, v) = s
    BY <1>15 DEF Write, WriteIpAddress, AbsoluteTimes, RelativeTimes
  <2>3. \A k \in 1..5 : s[k] \in Fields
    <3>1. \A x \in Octet : <<x, 8>> \in Fields
      BY OctetIsInt DEF Fields
    <3> QED BY <2>1, <3>1
  <2>4. s \in Seq(Fields)
    BY <2>3
  <2> HIDE DEF s
  <2> QED BY <1>15, <2>2, <2>4 DEF AbsoluteTimes, RelativeTimes
<1>16. Encoded = {"message_id", "user_response", "language", "rsn_no_notify", "priority", "privacy",
                  "reply_option", "num_messages", "alert_mode", "callback", "display_mode",
                  "scpt_data", "scpt_result", "deposit_index", "delivery_status", "ip_address"}
                 \union RelativeTimes \union AbsoluteTimes
  BY DEF Encoded, Known, Id, RelativeTimes, AbsoluteTimes
<1> QED BY <1>1, <1>2, <1>3, <1>4, <1>5, <1>6, <1>7, <1>8, <1>9, <1>10, <1>11, <1>12, <1>13, <1>14,
           <1>15, <1>16

(* ---- user data ---------------------------------------------------------*)
(* Octets are integers.                                                      *)
LEMMA OctetsAreInts == \A s \in Seq(Octet) : s \in Seq(Int)
<1> SUFFICES ASSUME NEW s \in Seq(Octet) PROVE s \in Seq(Int)
  OBVIOUS
<1>1. Len(s) \in Nat /\ s \in [1..Len(s) -> Octet]
  OBVIOUS
<1>2. s \in [1..Len(s) -> Int]
  BY <1>1, OctetIsInt
<1> QED BY <1>1, <1>2

(* Numbers are fields of eight bits.                                         *)
LEMMA NumberFields ==
  ASSUME NEW d \in Seq(Int), NEW w \in 0..16
  PROVE  [k \in DOMAIN d |-> <<d[k], w>>] \in Seq(Fields)
<1> DEFINE g == [k \in 1..Len(d) |-> <<d[k], w>>]
<1>1. Len(d) \in Nat /\ DOMAIN d = 1..Len(d)
  OBVIOUS
<1>2. \A k \in 1..Len(d) : d[k] \in Int
  OBVIOUS
<1>3. \A k \in 1..Len(d) : <<d[k], w>> \in Fields
  <2>1. \A x \in Int : <<x, w>> \in Fields
    BY DEF Fields
  <2> QED BY <1>2, <2>1, Zenon
<1>4. g \in Seq(Fields)
  BY <1>1, <1>3
<1> QED BY <1>1, <1>4

LEMMA MoreInts == \A s, t \in Seq(Int) : s \o t \in Seq(Int)
OBVIOUS

(* The user data of a client's structure. *)
UserDataType == Value.user_data

(* The members of it.                                                        *)
LEMMA UserDataTypes ==
  ASSUME NEW v \in UserDataType
  PROVE  /\ v.encoding \in {Encodings[k] : k \in 1..10} /\ v.num \in Nat /\ v.data \in Seq(Octet)
         /\ v.headers \in Seq(Seq(Octet)) /\ v.padding \in Nat /\ v.type \in Nat
<1>1. v \in [encoding : {Encodings[k] : k \in 1..10}, num : Octet, data : Seq(Octet),
             headers : Seq(Seq(Octet)), padding : Octet, type : Nat]
  BY DEF UserDataType, Value
<1> QED BY <1>1, OctetIsInt

(* The octets of the header elements.                                        *)
LEMMA HeaderOctets ==
  ASSUME NEW v \in UserDataType
  PROVE  UdhOctets(v) \in Seq(Int) /\ Len(UdhOctets(v)) \in Nat
<1> DEFINE e == FlattenSeq(v.headers)
<1>1. e \in Seq(Octet)
  BY UserDataTypes, FlattenTyped
<1>2. UdhOctets(v) = <<Len(e)>> \o e
  BY DEF UdhOctets
<1> HIDE DEF e
<1>3. Len(e) \in Int
  BY <1>1, LengthIsNat, Zenon
<1>4. <<Len(e)>> \in Seq(Int)
  BY <1>3
<1>5. e \in Seq(Int)
  BY <1>1, OctetsAreInts, Zenon
<1>6. UdhOctets(v) \in Seq(Int)
  BY <1>2, <1>4, <1>5, MoreInts, Zenon
<1> QED BY <1>6, LengthIsNat, Zenon

(* The fill bits before text.                                                *)
LEMMA Fill ==
  ASSUME NEW v \in UserDataType
  PROVE  FillBits(v) \in 0..8 /\ (FillBits(v) \in 0..6 \/ v.encoding = "unicode")
<1> DEFINE b == 8 * Len(UdhOctets(v))
<1>1. b \in Nat
  BY HeaderOctets
<1>2. FillBits(v) = CASE Septets7(v.encoding) -> (7 - (b % 7)) % 7
                      [] v.encoding = "unicode" -> IF b % 16 = 0 THEN 0 ELSE 8
                      [] OTHER -> 0
  BY DEF FillBits
<1> HIDE DEF b
<1>3. (7 - (b % 7)) % 7 \in 0..6
  BY <1>1
<1> QED BY <1>2, <1>3

(* Septets packed behind a header.                                           *)
LEMMA PackedSeptets ==
  ASSUME NEW c \in Seq(Octet), NEW fill \in 0..8
  PROVE  PackSeptets(c, fill) \in Seq(Int)
<1> DEFINE l == Len(c)
           n == (7 * l + fill + 7) \div 8
           bit(k) == IF k < fill \/ k >= fill + 7 * l THEN 0 ELSE LowBit(c[(k - fill) \div 7 + 1], (k - fill) % 7)
           eight(p) == [i \in 1..8 |-> bit(8 * p - 8 + (8 - i))]
           s == [p \in 1..n |-> NumberOf(eight(p))]
<1>0. l \in Nat /\ n \in Nat
  OBVIOUS
<1>1. PackSeptets(c, fill) = s
  BY DEF PackSeptets, FromLow
<1>2. ASSUME NEW k \in Nat PROVE bit(k) \in Bit
  <2>1. CASE k < fill \/ k >= fill + 7 * l
    BY <2>1 DEF Bit
  <2>2. CASE ~(k < fill \/ k >= fill + 7 * l)
    <3>0. l \in Nat
      BY <1>0
    <3> HIDE DEF l
    <3>1. k - fill \in Nat /\ k - fill < 7 * l
      BY <2>2, <3>0
    <3> DEFINE r == k - fill
    <3> HIDE DEF r
    <3>2. r \in Nat /\ r < 7 * l
      BY <3>1 DEF r
    <3>3. r \div 7 + 1 \in 1..l /\ r % 7 \in 0..16
      BY <3>0, <3>2
    <3>4. c[r \div 7 + 1] \in Int
      <4>1. \A i \in 1..l : c[i] \in Octet
        BY DEF l
      <4> QED BY <3>3, <4>1, OctetIsInt
    <3>5. LowBit(c[r \div 7 + 1], r % 7) \in Bit
      BY <3>3, <3>4, LowBits DEF LowBit
    <3> QED BY <2>2, <3>5 DEF r
  <2> QED BY <2>1, <2>2
<1> HIDE DEF bit, n, l
<1>3. ASSUME NEW p \in 1..n PROVE NumberOf(eight(p)) \in Int
  <2>1. \A i \in 1..8 : 8 * p - 8 + (8 - i) \in Nat
    BY <1>0
  <2>2. eight(p) \in [1..8 -> Bit]
    BY <1>2, <2>1
  <2> HIDE DEF eight
  <2> QED BY <2>2, NumberIsOctet, OctetIsInt DEF Bit
<1> HIDE DEF eight
<1>4. s \in Seq(Int)
  BY <1>0, <1>3
<1> QED BY <1>1, <1>4

(* Text of seven bits that is written behind a header.                        *)
LEMMA ShiftedOctets ==
  ASSUME NEW d \in Seq(Octet), NEW fill \in 0..6
  PROVE  ShiftedBy(d, fill) \in Seq(Int)
<1>1. 2^fill \in Nat \ {0} /\ 2^(8 - fill) \in Nat \ {0}
  <2>1. fill \in 0..16 /\ 8 - fill \in 0..16
    OBVIOUS
  <2> QED BY <2>1, PowersOfTwo, Zenon
<1> DEFINE a == 2^fill
           b == 2^(8 - fill)
           l == Len(d)
           s == [k \in 1..l |-> (d[k] \div a) + IF k = 1 THEN 0 ELSE (d[k - 1] % a) * b]
<1>2. ShiftedBy(d, fill) = s
  BY DEF ShiftedBy
<1>3. a \in Nat \ {0} /\ b \in Nat \ {0}
  BY <1>1
<1>4. l \in Nat /\ \A k \in 1..l : d[k] \in Int
  <2>1. \A k \in 1..Len(d) : d[k] \in Octet
    OBVIOUS
  <2> QED BY <2>1, OctetIsInt
<1> HIDE DEF a, b, l
<1>5. ASSUME NEW k \in 1..l
      PROVE  (d[k] \div a) + (IF k = 1 THEN 0 ELSE (d[k - 1] % a) * b) \in Int
  <2>1. d[k] \div a \in Int
    BY <1>3, <1>4
  <2>2. CASE k # 1
    <3>1. k - 1 \in 1..l
      BY <1>4, <2>2
    <3>2. d[k - 1] % a \in Int
      BY <1>3, <1>4, <3>1
    <3> DEFINE x == d[k - 1] % a
    <3> HIDE DEF x
    <3>3. x * b \in Int
      BY <1>3, <3>2 DEF x
    <3> QED BY <2>1, <2>2, <3>3 DEF x
  <2> QED BY <2>1, <2>2
<1>6. s \in Seq(Int)
  BY <1>4, <1>5
<1> QED BY <1>2, <1>6

(* The text, in each encoding.                                               *)
LEMMA TextIsInts ==
  ASSUME NEW v \in UserDataType, NEW u \in 0..1
  PROVE  UserDataOctets(v, u) \in Seq(Int)
<1>1. v.data \in Seq(Octet) /\ v.data \in Seq(Int)
  BY UserDataTypes, OctetsAreInts
<1>2. TextOctets(v) \in Seq(Int)
  <2>1. CASE v.encoding = "gsm7"
    <3>1. TextOctets(v) = PackSeptets(v.data, FillBits(v))
      BY <2>1 DEF TextOctets, Ascii
    <3>2. FillBits(v) \in 0..8
      BY Fill
    <3> QED BY <1>1, <3>1, <3>2, PackedSeptets, Zenon
  <2>2. CASE Ascii(v.encoding)
    <3>1. FillBits(v) \in 0..6
      BY <2>2, Fill DEF Ascii
    <3> QED BY <1>1, <2>2, <3>1, ShiftedOctets DEF TextOctets, Ascii
  <2>3. CASE v.encoding = "unicode"
    <3> DEFINE z == IF FillBits(v) = 8 THEN <<0>> ELSE <<>>
    <3>1. z \in Seq(Int)
      OBVIOUS
    <3>2. TextOctets(v) = z \o v.data
      BY <2>3 DEF TextOctets, Ascii
    <3> HIDE DEF z
    <3> QED BY <1>1, <3>1, <3>2, MoreInts, Zenon
  <2>4. CASE v.encoding \notin {"gsm7", "unicode"} /\ ~Ascii(v.encoding)
    BY <1>1, <2>4 DEF TextOctets
  <2> QED BY <2>1, <2>2, <2>3, <2>4
<1>3. PackSeptets(v.data, 0) \in Seq(Int)
  BY <1>1, PackedSeptets
<1>4. UdhOctets(v) \o TextOctets(v) \in Seq(Int)
  BY <1>2, HeaderOctets, MoreInts
<1> QED BY <1>1, <1>3, <1>4 DEF UserDataOctets

(* Digits written as characters.                                             *)
LEMMA ShiftedInts ==
  ASSUME NEW d \in Seq(Octet), NEW by \in Int
  PROVE  Shifted(d, by) \in Seq(Int)
<1> DEFINE l == Len(d)
           s == [k \in 1..l |-> (d[k] + by + 256) % 256]
<1>1. Shifted(d, by) = s
  BY DEF Shifted
<1>2. l \in Nat /\ \A k \in 1..l : d[k] \in Int
  <2>1. \A k \in 1..Len(d) : d[k] \in Octet
    OBVIOUS
  <2> QED BY <2>1, OctetIsInt
<1> HIDE DEF l
<1>3. \A k \in 1..l : (d[k] + by + 256) % 256 \in Int
  BY <1>2
<1>4. s \in Seq(Int)
  BY <1>2, <1>3
<1> QED BY <1>1, <1>4

(* What IS-91 makes of the other members.                                   *)
LEMMA PayloadIsInts ==
  ASSUME NEW bd, BearerTyped(bd), "user_data" \in DOMAIN bd, bd.user_data.encoding = "is91ep"
  PROVE  Payload(bd) \in Seq(Int)
<1> DEFINE v == bd.user_data
<1>1. v \in UserDataType
  BY DEF BearerTyped, UserDataType
<1>2. Shifted(v.data, -32) \in Seq(Int)
  BY <1>1, UserDataTypes, ShiftedInts
<1>3. CASE v.type = CLI_ORDER
  <2>1. bd.callback \in Value.callback
    BY <1>3 DEF BearerTyped
  <2>2. \A c \in Value.callback : c.digits \in Seq(Octet)
    BY DEF Value
  <2>3. bd.callback.digits \in Seq(Octet)
    BY <2>1, <2>2, Zenon
  <2>4. Payload(bd) = bd.callback.digits
    BY <1>3 DEF Payload, CLI_ORDER, VOICE_MAIL
  <2> QED BY <2>3, <2>4, OctetsAreInts
<1>4. CASE v.type = VOICE_MAIL
  <2>1. bd.num_messages \in Nat
    <3>1. bd.num_messages \in Value.num_messages
      BY <1>4 DEF BearerTyped
    <3> QED BY <3>1, OctetIsInt DEF Value
  <2> DEFINE a == <<bd.num_messages \div 10, bd.num_messages % 10>>
             b == IF "priority" \in DOMAIN bd THEN <<IF bd.priority = 0 THEN 0 ELSE 1>> ELSE <<>>
             t == Shifted(v.data, -32)
  <2>2. Payload(bd) = a \o b \o t
    BY <1>4 DEF Payload, VOICE_MAIL, CLI_ORDER
  <2>3. a \in Seq(Int) /\ b \in Seq(Int)
    BY <2>1
  <2>4. t \in Seq(Int)
    BY <1>2
  <2> HIDE DEF a, b, t
  <2> QED BY <2>2, <2>3, <2>4, MoreInts, Zenon
<1>5. CASE v.type \notin {CLI_ORDER, VOICE_MAIL}
  BY <1>2, <1>5 DEF Payload
<1> QED BY <1>3, <1>4, <1>5

(* The header bit of a message identifier.                                   *)
LEMMA UdhIsBit == ASSUME NEW bd, BearerTyped(bd) PROVE Udh(bd) \in 0..1
<1>1. CASE "message_id" \in DOMAIN bd
  <2>1. bd.message_id \in [type : Nat, id_number : Nat, udh_present : 0..1]
    <3>1. bd.message_id \in Value.message_id
      BY <1>1 DEF BearerTyped
    <3> QED BY <3>1 DEF Value
  <2> QED BY <1>1, <2>1 DEF Udh
<1>2. CASE "message_id" \notin DOMAIN bd
  BY <1>2 DEF Udh
<1> QED BY <1>1, <1>2

(* The number of fields that goes with the text.                              *)
LEMMA NumIsInt ==
  ASSUME NEW v \in UserDataType, NEW u \in 0..1
  PROVE  UserDataNum(v, u) \in Int
<1> DEFINE size == IF v.encoding = "unicode" THEN 16 ELSE IF Septets7(v.encoding) THEN 7 ELSE 8
           h == Len(UdhOctets(v))
           f == FillBits(v)
           n == v.num
<1>1. n \in Nat /\ h \in Nat /\ f \in Nat /\ size \in {7, 8, 16}
  BY UserDataTypes, HeaderOctets, Fill
<1>2. NumWithHeader(v) = (n * size + 8 * h + f) \div size
  BY DEF NumWithHeader
<1>3. UserDataNum(v, u) = (IF u = 1 THEN NumWithHeader(v) ELSE n) % 256
  BY DEF UserDataNum
<1> HIDE DEF size, h, f, n
<1>4. (n * size + 8 * h + f) \div size \in Int
  <2>1. CASE size = 7
    BY <1>1, <2>1
  <2>2. CASE size = 8
    BY <1>1, <2>2
  <2>3. CASE size = 16
    BY <1>1, <2>3
  <2> QED BY <1>1, <2>1, <2>2, <2>3
<1> QED BY <1>1, <1>2, <1>3, <1>4

(* Whatever the text of a client is, what is written of it are octets.      *)
LEMMA UserDataWritten ==
  ASSUME NEW bd, BearerTyped(bd), "user_data" \in DOMAIN bd
  PROVE  WriteUserData(bd) \in Seq(Octet)
<1> DEFINE v == bd.user_data
           u == Udh(bd)
           pay == Payload(bd)
           text == UserDataOctets(v, u)
           number == [k \in DOMAIN pay |-> <<pay[k], DigitBits(v.type)>>]
           enc == <<<<EncodingCode(v.encoding), 5>>>>
           digits == <<<<v.type, 8>>, <<Len(number), 8>>>>
           num == <<<<UserDataNum(v, u), 8>>>>
           octets == [k \in DOMAIN text |-> <<text[k], 8>>]
           rest == IF v.encoding = "is91ep" THEN digits \o number ELSE num \o octets
           fields == enc \o rest
           all == FlattenSeq([k \in DOMAIN fields |-> BitsOf(fields[k])])
           cut == IF u = 1 THEN 0 ELSE v.padding
<1>0. WriteUserData(bd) = OctetsOf(SubSeq(all, 1, Len(all) - cut))
  BY DEF WriteUserData
<1>1. v \in UserDataType
  BY DEF BearerTyped, UserDataType
<1>2. v.type \in Int /\ cut \in Nat
  BY <1>1, UserDataTypes
<1>3. enc \in Seq(Fields)
  <2>1. v.encoding \in {Encodings[k] : k \in 1..10}
    BY <1>1, UserDataTypes
  <2>2. EncodingCode(v.encoding) \in Int
    BY <2>1, EncodingCodes
  <2> QED BY <2>2, Widths, OneField, Zenon
<1>4. rest \in Seq(Fields)
  <2>1. CASE v.encoding = "is91ep"
    <3>0. rest = digits \o number
      BY <2>1
    <3> HIDE DEF rest
    <3>1. pay \in Seq(Int)
      BY <2>1, PayloadIsInts
    <3> HIDE DEF pay
    <3>2. DigitBits(v.type) \in 0..16
      BY DEF DigitBits
    <3>3. number \in Seq(Fields)
      BY <3>1, <3>2, NumberFields, Zenon
    <3> HIDE DEF number
    <3>4. Len(number) \in Int
      BY <3>3, LengthIsNat, Zenon
    <3>5. digits \in Seq(Fields)
      BY <1>2, <3>4 DEF Fields
    <3> HIDE DEF digits
    <3> QED BY <3>0, <3>3, <3>5, MoreFields, Zenon
  <2>2. CASE v.encoding # "is91ep"
    <3>0. rest = num \o octets
      BY <2>2
    <3> HIDE DEF rest
    <3>1. text \in Seq(Int) /\ UserDataNum(v, u) \in Int
      BY <1>1, UdhIsBit, TextIsInts, NumIsInt
    <3> HIDE DEF text
    <3>2. octets \in Seq(Fields)
      BY <3>1, Widths, NumberFields, Zenon
    <3>3. num \in Seq(Fields)
      BY <3>1, Widths, OneField, Zenon
    <3> HIDE DEF octets, num
    <3> QED BY <3>0, <3>2, <3>3, MoreFields, Zenon
  <2> QED BY <2>1, <2>2
<1> HIDE DEF enc, rest
<1>6. fields \in Seq(Fields)
  BY <1>3, <1>4, MoreFields, Zenon
<1> HIDE DEF fields
<1>7. all \in Seq(Bit)
  <2> DEFINE bs == [k \in DOMAIN fields |-> BitsOf(fields[k])]
  <2>1. DOMAIN fields = 1..Len(fields) /\ Len(fields) \in Nat /\ \A k \in 1..Len(fields) : fields[k] \in Fields
    BY <1>6
  <2>2. \A k \in 1..Len(fields) : BitsOf(fields[k]) \in Seq(Bit)
    BY <2>1, BitsTyped
  <2>3. bs \in Seq(Seq(Bit))
    BY <2>1, <2>2
  <2> HIDE DEF bs
  <2> QED BY <2>3, FlattenTyped DEF bs
<1> HIDE DEF all, cut
<1>8. SubSeq(all, 1, Len(all) - cut) \in Seq(Bit)
  BY <1>2, <1>7
<1> QED BY <1>0, <1>8, OctetsTyped

(* A parameter: its identifier, its length modulo 256, and its octets.      *)
LEMMA ChunkTyped ==
  ASSUME NEW id \in Octet, NEW s \in Seq(Octet)
  PROVE  Chunk(id, s) \in Seq(Octet) /\ Len(Chunk(id, s)) = Len(s) + 2
<1> DEFINE n == Len(s) % 256
           h == <<id, n>>
<1>1. n \in Octet
  <2>1. Len(s) \in Nat
    OBVIOUS
  <2>2. \A l \in Nat : l % 256 \in Octet
    BY DEF Octet
  <2> QED BY <2>1, <2>2, Zenon
<1>2. Chunk(id, s) = h \o s
  BY DEF Chunk
<1> HIDE DEF n
<1>3. h \in Seq(Octet) /\ Len(h) = 2
  BY <1>1
<1> HIDE DEF h
<1>4. h \o s \in Seq(Octet) /\ Len(h \o s) = Len(h) + Len(s)
  BY <1>3, Joined, Zenon
<1>5. Len(s) \in Nat
  OBVIOUS
<1> QED BY <1>2, <1>3, <1>4, <1>5

(* Identifiers are octets.                                                   *)
LEMMA IdsAreOctets ==
  /\ \A p \in Known : Id[p] \in Octet
  /\ \A p \in TL!Parameter, mo \in BOOLEAN : TL!IdOf(p, mo) \in Octet
<1>1. \A p \in Known : Id[p] \in Octet
  BY DEF Known, Id, Octet
<1>2. TL!Parameter = {"teleservice", "service", "address", "subaddress", "reply", "cause", "bearer"}
  BY DEF TL!Parameter, TL!EncodeOrder
<1>3. \A p \in TL!Parameter, mo \in BOOLEAN : TL!IdOf(p, mo) \in Octet
  BY <1>2 DEF TL!IdOf, Octet
<1> QED BY <1>1, <1>3

(* What is written of a subparameter are octets.                             *)
LEMMA SubparameterWritten ==
  ASSUME client.kind = "message", BearerTyped(client.bd), NEW p \in DOMAIN client.bd
  PROVE  Octets(p) \in Seq(Octet)
<1>1. p \in Subparameter /\ client.bd[p] \in Value[p]
  BY DEF BearerTyped
<1>2. CASE p = "other"
  <2>1. Octets(p) = client.bd.other /\ client.bd.other \in Value.other
    BY <1>1, <1>2 DEF Octets
  <2> QED BY <2>1 DEF Value
<1>3. CASE p = "user_data"
  <2>1. WriteUserData(client.bd) \in Seq(Octet)
    BY <1>3, UserDataWritten
  <2>2. Id[p] \in Octet
    BY <1>3, IdsAreOctets DEF Known, Id
  <2>3. Octets(p) = Chunk(Id[p], WriteUserData(client.bd))
    BY <1>3 DEF Octets
  <2> QED BY <2>1, <2>2, <2>3, ChunkTyped, Zenon
<1>4. CASE p \notin {"other", "user_data"}
  <2>1. p \in Encoded
    BY <1>1, <1>4 DEF Encoded, Subparameter
  <2>2. Pack(Write(p, client.bd[p])) \in Seq(Octet)
    BY <1>1, <2>1, BearerFields, Packs
  <2>3. Id[p] \in Octet
    BY <2>1, IdsAreOctets DEF Encoded
  <2>4. Octets(p) = Chunk(Id[p], Pack(Write(p, client.bd[p])))
    BY <1>4 DEF Octets
  <2> QED BY <2>2, <2>3, <2>4, ChunkTyped, Zenon
<1> QED BY <1>2, <1>3, <1>4

(* The arrays are of uint8, and hold what the encoders write of a client's  *)
(* message, or what is received.                                            *)
OctetArrays == bearer \in Seq(Octet) /\ ota \in Seq(Octet)
ClientKnown ==
  /\ at \in {"encode_bearer", "encode_transport", "encode_parameters"} => client \in Messages
  /\ at = "encode_bearer" => client.kind = "message"
BearerTaken ==
  at = "read_transport" /\ "bearer" \in DOMAIN tl.parts => tl.parts.bearer \in Seq(Octet)
Arrays == OctetArrays /\ ClientKnown /\ BearerTaken

Reading == {"read_bare", "begin_bearer", "read_bearer", "received"}

(* What is read is no longer than a length octet can say, and what is       *)
(* counted of it not more than was passed, so that no count wraps.          *)
BearerShort ==
  /\ at \in Reading => Len(bearer) <= TL!MAX_LEN
  /\ at = "read_transport" /\ "bearer" \in DOMAIN tl.parts => Len(tl.parts.bearer) <= TL!MAX_LEN
OthersCounted ==
  /\ others \in Seq(Octet) /\ desired \in Nat /\ room \in Nat
  /\ Len(others) <= desired /\ Len(others) <= room
  /\ at = "read_bearer" => desired <= pos
IInv == pos \in Nat /\ BearerShort /\ OthersCounted

LEMMA OctetIsNat == \A n \in Octet : n \in Nat /\ n <= 255
BY DEF Octet

LEMMA Concatenated ==
  \A s, t \in Seq(Octet) : s \o t \in Seq(Octet) /\ Len(s \o t) = Len(s) + Len(t)
OBVIOUS

LEMMA NoWrap == \A k, n \in Nat : k <= n /\ n <= TL!MAX_LEN => k % 256 = k
BY DEF TL!MAX_LEN

LEMMA InMaxLen == \A n \in 1..TL!MAX_LEN : n <= TL!MAX_LEN
BY DEF TL!MAX_LEN

(* The next parameter begins behind this one, and within the octets.        *)
LEMMA BehindIsNext ==
  ASSUME NEW STATE d, d \in Seq(Octet), pos \in Nat, Whole(d)
  PROVE /\ LengthAt(d) \in Octet /\ Behind(d) \in Nat
        /\ pos + 2 <= Len(d) /\ Behind(d) <= Len(d) /\ Behind(d) >= pos + 2
<1>1. pos + 2 \in 1..Len(d) /\ Behind(d) <= Len(d)
  BY DEF Whole, Behind
<1>2. d[pos + 2] \in Octet
  BY <1>1
<1>3. LengthAt(d) \in Octet
  BY <1>2 DEF LengthAt
<1>4. Behind(d) \in Nat /\ Behind(d) >= pos + 2
  BY <1>3, OctetIsNat DEF Behind
<1>5. QED
  BY <1>1, <1>3, <1>4

LEMMA PutKeeps ==
  \A f, k, v : /\ DOMAIN Put(f, k, v) = DOMAIN f \union {k}
               /\ Put(f, k, v)[k] = v
               /\ \A x \in DOMAIN f \ {k} : Put(f, k, v)[x] = f[x]
BY DEF Put

(* Bearer data that is taken is as long as its length octet says.           *)
LEMMA BearerIsShort ==
  ASSUME NEW d \in Seq(Octet), NEW i \in Nat, NEW n \in Octet, i + n <= Len(d)
  PROVE Len(TL!ReadBearer(d, i, n)) = n
<1>0. n \in Nat
  BY OctetIsNat
<1>1. CASE i + n < TL!MAX_LEN
  <2>1. TL!ReadBearer(d, i, n) = SubSeq(d, i + 1, i + n)
    BY <1>1 DEF TL!ReadBearer
  <2>2. QED
    BY <1>0, <2>1
<1>2. CASE ~(i + n < TL!MAX_LEN)
  <2>1. TL!ReadBearer(d, i, n) = [k \in 1..n |-> 0]
    BY <1>2 DEF TL!ReadBearer
  <2>2. QED
    BY <1>0, <2>1
<1>3. QED
  BY <1>1, <1>2

LEMMA AdvanceIsNat ==
  ASSUME NEW p, NEW n \in Octet
  PROVE Advance(p, n) \in Nat
BY OctetIsNat DEF Advance

-----------------------------------------------------------------------------
(* ---- the arrays hold octets --------------------------------------------*)
LEMMA LeastIsThere ==
  ASSUME NEW S, S \subseteq Nat, S # {}
  PROVE  Min(S) \in S
<1> DEFINE R == WF!OpToRel(<, Nat)
<1>1. WF!IsWellFoundedOn(R, Nat)
  BY WF!NatLessThanWellFounded
<1>2. PICK x \in S : \A y \in S : <<y, x>> \notin R
  <2> HIDE DEF R
  <2> QED BY <1>1, WF!WFMin
<1>3. \A y \in S : x <= y
  <2> SUFFICES ASSUME NEW y \in S PROVE x <= y
    OBVIOUS
  <2>1. x \in Nat /\ y \in Nat
    OBVIOUS
  <2>2. ~(y < x)
    <3> SUFFICES ASSUME y < x PROVE FALSE
      OBVIOUS
    <3>1. <<y, x>> \in R
      BY <2>1 DEF WF!OpToRel
    <3> QED BY <1>2, <3>1
  <2> QED BY <2>1, <2>2
<1>4. \E m \in S : \A y \in S : m <= y
  BY <1>3
<1> QED BY <1>4 DEF Min

LEMMA PendingIsThere ==
  ASSUME NEW order, DOMAIN order \subseteq Nat, NEW present, Pending(order, present) # {}
  PROVE  Min(Pending(order, present)) \in DOMAIN order
         /\ order[Min(Pending(order, present))] \in present
<1> DEFINE S == Pending(order, present)
<1>1. S \subseteq Nat /\ S # {}
  BY DEF Pending
<1>2. Min(S) \in S
  <2> HIDE DEF S
  <2> QED BY <1>1, LeastIsThere
<1> QED BY <1>2 DEF Pending

LEMMA Kinds ==
  ASSUME NEW m \in Messages
  PROVE  /\ m.kind \in {"message", "raw", "ack"}
         /\ m.kind = "message" => TL!ClientTyped(m.tl) /\ BearerTyped(m.bd)
         /\ m.kind = "raw" => TL!ClientTyped(m.tl) /\ m.format \in Format /\ m.raw \in Seq(Octet)
         /\ m.kind = "ack" => m.tl.type \in 0..2 /\ m.tl.is_mo \in BOOLEAN /\ TL!PartsTyped(m.tl.parts)
BY MessagesAssumption

(* The parameters of a message have the types of the client's.              *)
LEMMA OutgoingTyped ==
  ASSUME client \in Messages, bearer \in Seq(Octet)
  PROVE  Outgoing.type \in 0..2 /\ Outgoing.is_mo \in BOOLEAN /\ TL!PartsTyped(Outgoing.parts)
<1>1. CASE client.kind = "ack"
  BY <1>1, Kinds DEF Outgoing
<1>2. CASE client.kind # "ack"
  <2> DEFINE c == client.tl
             P == {"teleservice", "address"} \union DOMAIN c.optional
                  \union (IF bearer # <<>> THEN {"bearer"} ELSE {})
  <2>1. TL!ClientTyped(c)
    BY <1>2, Kinds
  <2>2. Outgoing = TL!FromClient(c, bearer)
    BY <1>2 DEF Outgoing
  <2> HIDE DEF c
  <2>3. Outgoing.type \in 0..2
    BY <2>2 DEF TL!FromClient, TL!Broadcast, TL!PointToPoint
  <2>4. Outgoing.is_mo \in BOOLEAN
    BY <2>1, <2>2 DEF TL!FromClient, TL!ClientTyped
  <2>5. Outgoing.parts = [p \in P |-> CASE p \in {"teleservice", "address"} -> c[p]
                                        [] p = "bearer" -> bearer
                                        [] OTHER -> c.optional[p]]
    BY <2>2 DEF TL!FromClient
  <2>6. DOMAIN c.optional \subseteq {"service", "subaddress", "reply"}
        /\ \A p \in DOMAIN c.optional : c.optional[p] \in TL!Value[p]
    BY <2>1 DEF TL!ClientTyped, TL!PartsTyped, TL!Optional
  <2>7. c.teleservice \in TL!Value.teleservice /\ c.address \in TL!Value.address
    BY <2>1 DEF TL!ClientTyped, TL!Value
  <2>8. bearer \in TL!Value.bearer
    BY DEF TL!Value, TL!Octet, Octet
  <2>9. TL!Parameter = {"teleservice", "service", "address", "subaddress", "reply", "cause", "bearer"}
    BY DEF TL!Parameter, TL!EncodeOrder
  <2>10. P \subseteq TL!Parameter
    BY <2>6, <2>9
  <2>11. ASSUME NEW p \in P PROVE Outgoing.parts[p] \in TL!Value[p]
    <3>1. CASE p \in {"teleservice", "address"}
      <4>1. Outgoing.parts[p] = c[p]
        BY <2>5, <3>1
      <4> QED BY <2>7, <3>1, <4>1
    <3>2. CASE p = "bearer"
      <4>1. Outgoing.parts[p] = bearer
        BY <2>5, <3>2
      <4> QED BY <2>8, <3>2, <4>1
    <3>3. CASE p \notin {"teleservice", "address", "bearer"}
      <4>1. Outgoing.parts[p] = c.optional[p] /\ p \in DOMAIN c.optional
        BY <2>5, <3>3
      <4> QED BY <2>6, <4>1
    <3> QED BY <3>1, <3>2, <3>3
  <2>12. DOMAIN Outgoing.parts = P
    BY <2>5
  <2>13. TL!PartsTyped(Outgoing.parts)
    <3> HIDE DEF P
    <3> QED BY <2>10, <2>11, <2>12 DEF TL!PartsTyped
  <2> QED BY <2>3, <2>4, <2>13
<1> QED BY <1>1, <1>2

(* What is written of a transport-layer parameter are octets.                *)
LEMMA ParameterOctetsTyped ==
  ASSUME NEW p \in TL!Parameter, NEW v \in TL!Value[p]
  PROVE  ParameterOctets(p, v) \in Seq(Octet)
<1>1. CASE p = "bearer"
  <2>1. TL!Value.bearer = Seq(Octet)
    BY DEF TL!Value, TL!Octet, Octet
  <2> QED BY <1>1, <2>1 DEF ParameterOctets
<1>2. CASE p # "bearer"
  <2>1. p \in DOMAIN TL!Value \ {"bearer"}
    BY <1>2 DEF TL!Parameter, TL!EncodeOrder, TL!Value
  <2>2. TL!Write(p, v) \in Seq(Fields)
    BY <2>1, TransportFields
  <2>3. Pack(TL!Write(p, v)) \in Seq(Octet)
    BY <2>2, Packs
  <2> QED BY <1>2, <2>3 DEF ParameterOctets
<1> QED BY <1>1, <1>2

LEMMA ParameterWritten ==
  ASSUME NEW p \in TL!Parameter, NEW v \in TL!Value[p], NEW mo \in BOOLEAN
  PROVE  Chunk(TL!IdOf(p, mo), ParameterOctets(p, v)) \in Seq(Octet)
<1>1. ParameterOctets(p, v) \in Seq(Octet)
  BY ParameterOctetsTyped, Zenon
<1>2. TL!IdOf(p, mo) \in Octet
  BY IdsAreOctets
<1> QED BY <1>1, <1>2, ChunkTyped, Zenon

LEMMA BearerIsOctets ==
  ASSUME NEW d \in Seq(Octet), NEW i \in Nat, NEW n \in Octet, i + n <= Len(d)
  PROVE TL!ReadBearer(d, i, n) \in Seq(Octet)
<1>0. n \in Nat
  BY OctetIsNat
<1>1. CASE i + n < TL!MAX_LEN
  <2>1. TL!ReadBearer(d, i, n) = SubSeq(d, i + 1, i + n)
    BY <1>1 DEF TL!ReadBearer
  <2>2. QED
    BY <1>0, <2>1
<1>2. CASE ~(i + n < TL!MAX_LEN)
  <2>1. TL!ReadBearer(d, i, n) = [k \in 1..n |-> 0]
    BY <1>2 DEF TL!ReadBearer
  <2>2. 0 \in Octet
    BY DEF Octet
  <2>3. QED
    BY <1>0, <2>1, <2>2
<1>3. QED
  BY <1>1, <1>2

LEMMA ArraysInit == Init => Arrays
<1>1. <<>> \in Seq(Octet)
  OBVIOUS
<1> QED BY <1>1 DEF Init, Arrays, OctetArrays, ClientKnown, BearerTaken

LEMMA ArraysStep ==
  ASSUME Arrays, pos \in Nat, [Next]_vars
  PROVE  Arrays'
<1>0. /\ bearer \in Seq(Octet) /\ ota \in Seq(Octet) /\ <<>> \in Seq(Octet)
      /\ ClientKnown /\ BearerTaken
  BY DEF Arrays, OctetArrays
<1>1. ASSUME NEW m \in Messages, Send(m) PROVE Arrays'
  <2>1. bearer' \in Seq(Octet)
    BY <1>0, <1>1, Kinds DEF Send
  <2>2. at' \in {"encode_bearer", "encode_transport"} /\ client' = m
        /\ (at' = "encode_bearer" => m.kind = "message") /\ ota' = ota
    BY <1>1 DEF Send
  <2> QED BY <1>0, <2>1, <2>2 DEF Arrays, OctetArrays, ClientKnown, BearerTaken
<1>2. CASE EncodeSubparameter
  <2> DEFINE S == Pending(EncodeOrder, ToWrite)
             p == EncodeOrder[Min(S)]
  <2>1. at = "encode_bearer" /\ S # {} /\ UNCHANGED <<client, ota>>
        /\ at' \in {"encode_bearer", "not_sent"} /\ bearer' \in {bearer, bearer \o Octets(p)}
    BY <1>2 DEF EncodeSubparameter
  <2>2. client \in Messages /\ client.kind = "message" /\ BearerTyped(client.bd)
    BY <1>0, <2>1, Kinds DEF ClientKnown
  <2>3. p \in ToWrite
    <3>1. DOMAIN EncodeOrder \subseteq Nat
      BY DEF EncodeOrder
    <3> QED BY <2>1, <3>1, PendingIsThere
  <2>4. p \in DOMAIN client.bd
    BY <2>3 DEF ToWrite
  <2> HIDE DEF p
  <2>5. Octets(p) \in Seq(Octet)
    BY <2>2, <2>4, SubparameterWritten
  <2>6. bearer' \in Seq(Octet)
    BY <1>0, <2>1, <2>5, Concatenated
  <2> QED BY <1>0, <2>1, <2>2, <2>6 DEF Arrays, OctetArrays, ClientKnown, BearerTaken
<1>3. CASE EndEncodeBearer
  BY <1>0, <1>3 DEF EndEncodeBearer, Arrays, OctetArrays, ClientKnown, BearerTaken
<1>4. CASE BeginTransport
  <2>1. at = "encode_transport" /\ client \in Messages
    BY <1>0, <1>4 DEF BeginTransport, ClientKnown
  <2>2. Outgoing.type \in Octet
    <3>1. Outgoing.type \in 0..2
      BY <1>0, <2>1, OutgoingTyped
    <3> QED BY <3>1 DEF Octet
  <2>3. /\ ota' \in {ota, bearer, <<Outgoing.type>>} /\ UNCHANGED <<bearer, client>>
        /\ at' \in {"not_sent", "air", "encode_parameters"}
    BY <1>4 DEF BeginTransport
  <2>4. ota' \in Seq(Octet)
    <3>1. \A x \in Octet : <<x>> \in Seq(Octet)
      OBVIOUS
    <3>2. <<Outgoing.type>> \in Seq(Octet)
      BY <2>2, <3>1, Zenon
    <3> QED BY <1>0, <2>3, <3>2, Zenon
  <2> QED BY <1>0, <2>1, <2>3, <2>4 DEF Arrays, OctetArrays, ClientKnown, BearerTaken
<1>5. CASE EncodeParameter
  <2> DEFINE p == TransportOrder[Min(Unsent)]
             v == Outgoing.parts[p]
             c == Chunk(TL!IdOf(p, Outgoing.is_mo), ParameterOctets(p, v))
  <2>1. /\ at = "encode_parameters" /\ Unsent # {} /\ UNCHANGED <<client, bearer>>
        /\ at' \in {"encode_parameters", "not_sent"} /\ ota' \in {ota, ota \o c}
    BY <1>5 DEF EncodeParameter
  <2>2. client \in Messages
    BY <1>0, <2>1 DEF ClientKnown
  <2>3. Outgoing.is_mo \in BOOLEAN /\ TL!PartsTyped(Outgoing.parts)
    BY <1>0, <2>2, OutgoingTyped
  <2>4. p \in DOMAIN Outgoing.parts
    <3>1. DOMAIN TransportOrder \subseteq Nat
      BY DEF TransportOrder, TL!EncodeOrder
    <3>2. Pending(TransportOrder, DOMAIN Outgoing.parts) # {}
      BY <2>1 DEF Unsent
    <3> QED BY <3>1, <3>2, PendingIsThere DEF Unsent
  <2>5. p \in TL!Parameter /\ v \in TL!Value[p]
    BY <2>3, <2>4 DEF TL!PartsTyped
  <2> HIDE DEF p, v
  <2>6. c \in Seq(Octet)
    BY <2>3, <2>5, ParameterWritten, Zenon
  <2> HIDE DEF c
  <2>7. ota' \in Seq(Octet)
    BY <1>0, <2>1, <2>6, Concatenated
  <2> QED BY <1>0, <2>1, <2>2, <2>7 DEF Arrays, OctetArrays, ClientKnown, BearerTaken
<1>6. CASE EndTransport
  BY <1>0, <1>6 DEF EndTransport, Arrays, OctetArrays, ClientKnown, BearerTaken
<1>7. ASSUME NEW m \in Arriving, Arrive(m) PROVE Arrays'
  BY <1>0, <1>7, ArrivingAssumption DEF Arrive, Arrays, OctetArrays, ClientKnown, BearerTaken
<1>8. CASE BeginReceive
  <2>1. /\ bearer' \in {bearer, ota} /\ ota' = ota /\ at' \in {"refused", "read_bare", "read_transport"}
        /\ at' = "read_transport" => tl'.parts = <<>>
    BY <1>8 DEF BeginReceive, sending
  <2>2. at' = "read_transport" => "bearer" \notin DOMAIN tl'.parts
    BY <2>1
  <2> QED BY <1>0, <2>1, <2>2 DEF Arrays, OctetArrays, ClientKnown, BearerTaken
<1>9. CASE TakeParameter
  <2> DEFINE p == TL!ParameterOf(IdAt(ota))
             v == TL!Read(p, ota, pos + 2, LengthAt(ota))
  <2>1. /\ LengthAt(ota) \in Octet /\ pos + 2 + LengthAt(ota) <= Len(ota)
    BY <1>0, <1>9, BehindIsNext DEF TakeParameter, Behind
  <2>2. /\ at = "read_transport" /\ at' = at /\ tl'.parts = Put(tl.parts, p, v)
        /\ UNCHANGED <<ota, bearer, client>>
    BY <1>9 DEF TakeParameter, InTransport, sending
  <2>3. p = "bearer" => v \in Seq(Octet)
    <3> SUFFICES ASSUME p = "bearer" PROVE v \in Seq(Octet)
      OBVIOUS
    <3>1. v = TL!ReadBearer(ota, pos + 2, LengthAt(ota))
      BY DEF TL!Read
    <3> HIDE DEF v
    <3>2. pos + 2 \in Nat
      OBVIOUS
    <3> QED BY <1>0, <2>1, <3>1, <3>2, BearerIsOctets
  <2> HIDE DEF p, v
  <2>4. BearerTaken'
    <3> SUFFICES ASSUME "bearer" \in DOMAIN tl'.parts PROVE tl'.parts.bearer \in Seq(Octet)
      BY DEF BearerTaken
    <3>1. CASE p = "bearer"
      <4>1. Put(tl.parts, p, v)["bearer"] = v
        BY <3>1, PutKeeps
      <4> QED BY <2>2, <2>3, <3>1, <4>1
    <3>2. CASE p # "bearer"
      <4>0. DOMAIN Put(tl.parts, p, v) = DOMAIN tl.parts \union {p}
        BY PutKeeps
      <4>1. "bearer" \in DOMAIN tl.parts
        BY <2>2, <3>2, <4>0
      <4>2. Put(tl.parts, p, v)["bearer"] = tl.parts["bearer"]
        BY <3>2, <4>1, PutKeeps
      <4> QED BY <1>0, <2>2, <4>1, <4>2 DEF BearerTaken
    <3> QED BY <3>1, <3>2
  <2> QED BY <1>0, <2>2, <2>4 DEF Arrays, OctetArrays, ClientKnown
<1>10. CASE EndReadTransport
  <2>1. bearer' \in Seq(Octet)
    BY <1>0, <1>10 DEF EndReadTransport, BearerTaken
  <2>2. at' \in {"refused", "acknowledged", "begin_bearer"} /\ ota' = ota
    BY <1>10 DEF EndReadTransport, sending
  <2> QED BY <2>1, <2>2, <1>0 DEF Arrays, OctetArrays, ClientKnown, BearerTaken
<1>11. CASE RefuseParameter \/ SkipParameter
  BY <1>0, <1>11 DEF RefuseParameter, SkipParameter, InTransport, sending, reading, Arrays, OctetArrays,
                     ClientKnown, BearerTaken
<1>12. CASE BeginBearer \/ EndBearer \/ ReadBare
  BY <1>0, <1>12 DEF BeginBearer, EndBearer, ReadBare, sending, Arrays, OctetArrays, ClientKnown, BearerTaken
<1>13. CASE RefuseSubparameter \/ SkipSubparameter \/ TakeSubparameter \/ TakeOther
  BY <1>0, <1>13 DEF RefuseSubparameter, SkipSubparameter, TakeSubparameter, TakeOther, InBearer, sending,
                     reading, Arrays, OctetArrays, ClientKnown, BearerTaken
<1>14. CASE AskForOthers \/ NextMessage
  BY <1>0, <1>14 DEF AskForOthers, NextMessage, sending, Arrays, OctetArrays, ClientKnown, BearerTaken
<1>15. CASE UNCHANGED vars
  BY <1>0, <1>15 DEF vars, Arrays, OctetArrays, ClientKnown, BearerTaken
<1> QED BY <1>1, <1>2, <1>3, <1>4, <1>5, <1>6, <1>7, <1>8, <1>9, <1>10, <1>11, <1>12, <1>13, <1>14, <1>15
        DEF Next, Codec, Encode, Decode, Client

-----------------------------------------------------------------------------
(* ---- the inductive invariant -------------------------------------------*)
LEMMA InitEstablishes == Init => IInv
<1>1. <<>> \in Seq(Octet) /\ Len(<<>>) = 0
  OBVIOUS
<1>2. QED
  BY <1>1 DEF Init, IInv, BearerShort, OthersCounted, Reading

(* Sending touches nothing of what a receiver keeps, and a refusal, like    *)
(* the next message, ends the reading.                                      *)
LEMMA SendingKeeps ==
  ASSUME IInv, UNCHANGED reading, at' \notin Reading \union {"read_transport"}
  PROVE IInv'
BY DEF IInv, BearerShort, OthersCounted, Reading, reading

LEMMA EncodeKeeps == ASSUME IInv, Encode \/ (\E m \in Messages : Send(m)) PROVE IInv'
<1>1. UNCHANGED reading
  BY DEF Encode, Send, EncodeSubparameter, EndEncodeBearer, BeginTransport, EncodeParameter, EndTransport
<1>2. at' \notin Reading \union {"read_transport"}
  BY DEF Encode, Send, EncodeSubparameter, EndEncodeBearer, BeginTransport, EncodeParameter,
         EndTransport, Reading
<1>3. QED
  BY <1>1, <1>2, SendingKeeps

LEMMA BeginReceiveKeeps == ASSUME IInv, OctetArrays, BeginReceive PROVE IInv'
<1>1. OthersCounted'
  BY DEF IInv, OthersCounted, BeginReceive
<1>2. CASE at' = "refused"
  BY <1>1, <1>2 DEF IInv, BearerShort, BeginReceive, Reading
<1>3. CASE at' = "read_bare"
  <2>1. bearer' = ota /\ Len(ota) \in 1..TL!MAX_LEN /\ pos' = pos
    BY <1>3 DEF BeginReceive
  <2>2. Len(ota) <= TL!MAX_LEN
    BY <2>1, InMaxLen
  <2>3. QED
    BY <1>1, <1>3, <2>1, <2>2 DEF IInv, BearerShort
<1>4. CASE at' = "read_transport"
  <2>1. tl'.parts = <<>> /\ pos' = 1
    BY <1>4 DEF BeginReceive
  <2>2. "bearer" \notin DOMAIN tl'.parts
    BY <2>1
  <2>3. QED
    BY <1>1, <1>4, <2>1, <2>2 DEF IInv, BearerShort, Reading
<1>5. QED
  BY <1>2, <1>3, <1>4 DEF BeginReceive

LEMMA TransportKeeps ==
  ASSUME IInv, OctetArrays, OctetArrays',
         RefuseParameter \/ SkipParameter \/ TakeParameter \/ EndReadTransport
  PROVE IInv'
<1>1. CASE RefuseParameter
  BY <1>1, SendingKeeps DEF RefuseParameter, Reading
<1>2. CASE SkipParameter
  <2>1. pos' \in Nat
    BY <1>2, BehindIsNext DEF SkipParameter, IInv, OctetArrays
  <2>2. QED
    BY <1>2, <2>1 DEF SkipParameter, IInv, BearerShort, OthersCounted, InTransport, Reading
<1>3. CASE TakeParameter
  <2> DEFINE p == TL!ParameterOf(IdAt(ota))
             v == TL!Read(p, ota, pos + 2, LengthAt(ota))
  <2>1. pos \in Nat /\ LengthAt(ota) \in Octet /\ pos' \in Nat /\ pos + 2 + LengthAt(ota) <= Len(ota)
    BY <1>3, BehindIsNext DEF TakeParameter, IInv, OctetArrays, Behind
  <2>2. at = "read_transport" /\ at' = "read_transport" /\ tl'.parts = Put(tl.parts, p, v)
    BY <1>3 DEF TakeParameter, InTransport
  <2>3. ASSUME "bearer" \in DOMAIN tl'.parts PROVE Len(tl'.parts.bearer) <= TL!MAX_LEN
    <3>1. CASE p = "bearer"
      <4>0. v = TL!ReadBearer(ota, pos + 2, LengthAt(ota))
        BY <3>1 DEF TL!Read
      <4> HIDE DEF p, v
      <4>1. Put(tl.parts, p, v)[p] = v
        BY PutKeeps
      <4>2. tl'.parts.bearer = TL!ReadBearer(ota, pos + 2, LengthAt(ota))
        BY <2>2, <3>1, <4>0, <4>1
      <4>3. Len(tl'.parts.bearer) = LengthAt(ota)
        BY <2>1, <4>2, BearerIsShort DEF OctetArrays
      <4>4. QED
        BY <2>1, <4>3, OctetIsNat DEF TL!MAX_LEN
    <3>2. CASE p # "bearer"
      <4> HIDE DEF p, v
      <4>0. DOMAIN Put(tl.parts, p, v) = DOMAIN tl.parts \union {p}
        BY PutKeeps
      <4>1. "bearer" \in DOMAIN tl.parts
        BY <2>2, <2>3, <3>2, <4>0
      <4>2. Put(tl.parts, p, v)["bearer"] = tl.parts["bearer"]
        BY <3>2, <4>1, PutKeeps
      <4>3. QED
        BY <2>2, <4>1, <4>2 DEF IInv, BearerShort
    <3>3. QED
      BY <3>1, <3>2
  <2>4. QED
    BY <1>3, <2>1, <2>2, <2>3 DEF TakeParameter, IInv, BearerShort, OthersCounted, Reading
<1>4. CASE EndReadTransport
  <2>1. Len(bearer') <= TL!MAX_LEN
    <3>1. CASE "bearer" \in DOMAIN tl.parts
      BY <1>4, <3>1 DEF EndReadTransport, IInv, BearerShort
    <3>2. CASE "bearer" \notin DOMAIN tl.parts
      BY <1>4, <3>2 DEF EndReadTransport, TL!MAX_LEN
    <3>3. QED
      BY <3>1, <3>2
  <2>2. at' \in {"refused", "acknowledged", "begin_bearer"} /\ UNCHANGED reading
    BY <1>4 DEF EndReadTransport
  <2>3. QED
    BY <2>1, <2>2 DEF IInv, BearerShort, OthersCounted, reading
<1>5. QED
  BY <1>1, <1>2, <1>3, <1>4

(* What was counted before and this one were passed: the count is exact.    *)
LEMMA OtherCounted ==
  ASSUME IInv, OctetArrays, TakeOther,
         NEW n, n = LengthAt(bearer), NEW copied, copied = SubSeq(bearer, pos + 1, pos + 2 + n)
  PROVE  /\ n \in Nat /\ pos' = pos + 2 + n /\ pos + 2 + n <= Len(bearer)
         /\ at = "read_bearer" /\ at' = "read_bearer" /\ UNCHANGED <<bearer, tl, room>>
         /\ Len(bearer) <= TL!MAX_LEN /\ desired <= pos /\ desired \in Nat /\ Len(others) <= desired
         /\ desired' = desired + n + 2
         /\ copied \in Seq(Octet) /\ Len(copied) = n + 2
<1>0. pos \in Nat
  BY DEF IInv
<1>1. /\ n \in Nat /\ pos' = pos + 2 + n /\ pos + 2 + n <= Len(bearer)
  BY <1>0, BehindIsNext, OctetIsNat DEF TakeOther, OctetArrays, Behind
<1>2. at = "read_bearer" /\ at' = "read_bearer" /\ UNCHANGED <<bearer, tl, room>>
  BY DEF TakeOther, InBearer
<1>3. Len(bearer) <= TL!MAX_LEN /\ desired <= pos /\ desired \in Nat /\ Len(others) <= desired
  BY <1>2 DEF IInv, BearerShort, OthersCounted, Reading
<1>4. desired' = desired + n + 2
  <2>0. Len(bearer) \in Nat
    BY DEF OctetArrays
  <2>1. desired + n + 2 \in Nat /\ desired + n + 2 <= Len(bearer)
    BY <1>0, <1>1, <1>3, <2>0
  <2>2. (desired + n + 2) % 256 = desired + n + 2
    BY <1>3, <2>0, <2>1, NoWrap
  <2>3. QED
    BY <2>2 DEF TakeOther, Counted
<1>5. copied \in Seq(Octet) /\ Len(copied) = n + 2
  BY <1>0, <1>1, SMTT(30) DEF OctetArrays
<1>6. QED
  BY <1>1, <1>2, <1>3, <1>4, <1>5

LEMMA BearerKeeps ==
  ASSUME IInv, OctetArrays, OctetArrays',
         RefuseSubparameter \/ SkipSubparameter \/ TakeSubparameter \/ TakeOther
  PROVE IInv'
<1>0. pos \in Nat
  BY DEF IInv
<1>1. CASE RefuseSubparameter
  BY <1>1, SendingKeeps DEF RefuseSubparameter, Reading
<1>2. CASE SkipSubparameter
  <2>1. pos' \in Nat /\ pos' >= pos
    BY <1>0, <1>2, BehindIsNext DEF SkipSubparameter, OctetArrays
  <2>2. QED
    BY <1>2, <2>1 DEF SkipSubparameter, IInv, BearerShort, OthersCounted, InBearer, Reading
<1>3. CASE TakeSubparameter
  <2>1. LengthAt(bearer) \in Octet
    BY <1>0, <1>3, BehindIsNext DEF TakeSubparameter, OctetArrays
  <2>2. Advance(KindAt, LengthAt(bearer)) \in Nat
    BY <2>1, AdvanceIsNat
  <2>3. pos' \in Nat /\ pos' >= pos
    BY <1>0, <1>3, <2>2 DEF TakeSubparameter
  <2>4. QED
    BY <1>3, <2>3 DEF TakeSubparameter, IInv, BearerShort, OthersCounted, InBearer, Reading
<1>4. CASE TakeOther
  <2> DEFINE n == LengthAt(bearer)
             copied == SubSeq(bearer, pos + 1, pos + 2 + n)
  <2>1. /\ n \in Nat /\ pos' = pos + 2 + n
        /\ at = "read_bearer" /\ at' = "read_bearer" /\ UNCHANGED <<bearer, tl, room>>
        /\ Len(bearer) <= TL!MAX_LEN /\ desired <= pos /\ desired \in Nat /\ Len(others) <= desired
        /\ desired' = desired + n + 2
        /\ copied \in Seq(Octet) /\ Len(copied) = n + 2
    BY <1>4, OtherCounted
  <2>6. /\ others' \in Seq(Octet) /\ Len(others') <= desired' /\ Len(others') <= room
    <3>1. others \in Seq(Octet) /\ Len(others) <= room /\ room \in Nat
      BY DEF IInv, OthersCounted
    <3>2. CASE Room(n)
      <4>1. others' = others \o copied
        BY <1>4, <3>2 DEF TakeOther
      <4> HIDE DEF n, copied
      <4>2. others' \in Seq(Octet) /\ Len(others') = Len(others) + Len(copied)
        BY <2>1, <3>1, <4>1, Concatenated
      <4>3. desired + n + 2 <= room
        BY <3>2, <2>1, <3>1 DEF Room
      <4>4. QED
        BY <2>1, <3>1, <4>2, <4>3
    <3>3. CASE ~Room(n)
      <4>1. others' = others
        BY <1>4, <3>3 DEF TakeOther
      <4>2. QED
        BY <2>1, <3>1, <4>1
    <3>4. QED
      BY <3>2, <3>3
  <2>7. desired' \in Nat /\ desired' <= pos' /\ pos' \in Nat
    BY <1>0, <2>1
  <2>8. QED
    BY <2>1, <2>6, <2>7 DEF IInv, BearerShort, OthersCounted, Reading
<1>5. QED
  BY <1>1, <1>2, <1>3, <1>4

(* The other steps of a receiver read nothing, or start at the beginning.   *)
LEMMA OtherStepsKeep ==
  ASSUME IInv, BeginBearer \/ EndBearer \/ ReadBare \/ AskForOthers \/ NextMessage
               \/ (\E m \in Arriving : Arrive(m)) \/ UNCHANGED vars
  PROVE IInv'
<1>1. <<>> \in Seq(Octet) /\ Len(<<>>) = 0
  OBVIOUS
<1>2. CASE BeginBearer
  BY <1>1, <1>2 DEF BeginBearer, IInv, BearerShort, OthersCounted, Reading
<1>3. CASE EndBearer
  BY <1>3 DEF EndBearer, IInv, BearerShort, OthersCounted, Reading
<1>4. CASE ReadBare
  BY <1>4 DEF ReadBare, IInv, BearerShort, OthersCounted, Reading
<1>5. CASE AskForOthers
  <2>1. room' \in Nat /\ Len(others) <= room'
    BY <1>5 DEF AskForOthers, IInv, OthersCounted
  <2>2. QED
    BY <1>5, <2>1 DEF AskForOthers, IInv, BearerShort, OthersCounted, Reading
<1>6. CASE NextMessage
  BY <1>1, <1>6 DEF NextMessage, IInv, BearerShort, OthersCounted, Reading
<1>7. CASE \E m \in Arriving : Arrive(m)
  BY <1>7, SendingKeeps DEF Arrive, Reading
<1>8. CASE UNCHANGED vars
  BY <1>8 DEF vars, IInv, BearerShort, OthersCounted
<1>9. QED
  BY <1>2, <1>3, <1>4, <1>5, <1>6, <1>7, <1>8

(* The receiver's positions and counts stay within what is received and     *)
(* given, for all messages.                                                 *)
THEOREM ReadingStaysWithin == Spec => [](Arrays /\ IInv)
<1>1. Arrays /\ IInv /\ [Next]_vars => Arrays' /\ IInv'
  <2> SUFFICES ASSUME Arrays, IInv, [Next]_vars PROVE Arrays' /\ IInv'
    OBVIOUS
  <2>0. Arrays' /\ OctetArrays /\ OctetArrays'
    <3>1. pos \in Nat
      BY DEF IInv
    <3>2. Arrays'
      BY <3>1, ArraysStep
    <3> QED BY <3>2 DEF Arrays
  <2>1. CASE Encode \/ (\E m \in Messages : Send(m))
    BY <2>0, <2>1, EncodeKeeps
  <2>2. CASE BeginReceive
    BY <2>0, <2>2, BeginReceiveKeeps
  <2>3. CASE RefuseParameter \/ SkipParameter \/ TakeParameter \/ EndReadTransport
    BY <2>0, <2>3, TransportKeeps
  <2>4. CASE RefuseSubparameter \/ SkipSubparameter \/ TakeSubparameter \/ TakeOther
    BY <2>0, <2>4, BearerKeeps
  <2>5. CASE BeginBearer \/ EndBearer \/ ReadBare \/ AskForOthers \/ NextMessage
             \/ (\E m \in Arriving : Arrive(m)) \/ UNCHANGED vars
    BY <2>0, <2>5, OtherStepsKeep
  <2>6. QED
    BY <2>1, <2>2, <2>3, <2>4, <2>5 DEF Next, Codec, Decode, Client
<1>2. QED
  BY <1>1, InitEstablishes, ArraysInit, PTL DEF Spec

(* The memory a client gives for the subparameters without a name holds     *)
(* what is copied there (TakeOther), whatever their lengths say.            *)
THEOREM OthersFit == Spec => [](Len(others) <= room)
<1>1. IInv => Len(others) <= room
  BY DEF IInv, OthersCounted
<1>2. QED
  BY <1>1, ReadingStaysWithin, PTL

-----------------------------------------------------------------------------
(* ---- both loops are readers of parameters ------------------------------*)
LEMMA SkipsForward ==
  ASSUME IInv, OctetArrays, InTransport /\ Whole(ota), pos' = Behind(ota), UNCHANGED ota,
         at' = at,
         \A k \in DOMAIN tl.parts : k \in DOMAIN tl'.parts /\ tl'.parts[k] = tl.parts[k]
  PROVE TransportReader!Next
<1>1. pos + 2 <= Len(ota) /\ pos' >= pos + 2
  BY BehindIsNext DEF IInv, OctetArrays
<1>2. TransportReader!Take
  BY <1>1 DEF TransportReader!Take, InTransport
<1>3. QED
  BY <1>2 DEF TransportReader!Next

LEMMA TransportStep ==
  ASSUME IInv, OctetArrays, [Next]_vars
  PROVE [TransportReader!Next]_(TransportReader!vars)
<1>1. CASE BeginReceive /\ at' = "read_transport"
  <2>1. at = "air" /\ tl'.parts = <<>>
    BY <1>1 DEF BeginReceive
  <2>2. TransportReader!Start
    BY <1>1, <2>1 DEF TransportReader!Start
  <2>3. QED
    BY <2>2 DEF TransportReader!Next
<1>2. CASE RefuseParameter
  BY <1>2 DEF RefuseParameter, InTransport, TransportReader!Refuse, TransportReader!Next
<1>3. CASE SkipParameter
  BY <1>3, SkipsForward DEF SkipParameter, sending
<1>4. CASE TakeParameter
  <2> DEFINE p == TL!ParameterOf(IdAt(ota))
             v == TL!Read(p, ota, pos + 2, LengthAt(ota))
  <2>1. p \notin DOMAIN tl.parts /\ tl'.parts = Put(tl.parts, p, v)
    BY <1>4 DEF TakeParameter, Fresh
  <2> HIDE DEF p, v
  <2>2. DOMAIN Put(tl.parts, p, v) = DOMAIN tl.parts \union {p}
    BY PutKeeps
  <2>3. \A k \in DOMAIN tl.parts : Put(tl.parts, p, v)[k] = tl.parts[k]
    BY <2>1, PutKeeps
  <2>4. \A k \in DOMAIN tl.parts : k \in DOMAIN tl'.parts /\ tl'.parts[k] = tl.parts[k]
    BY <2>1, <2>2, <2>3
  <2>5. QED
    BY <1>4, <2>4, SkipsForward DEF TakeParameter, sending
<1>5. CASE EndReadTransport
  BY <1>5 DEF EndReadTransport, TransportReader!Accept, TransportReader!Refuse, TransportReader!Next
<1>6. CASE UNCHANGED vars
  BY <1>6 DEF vars, TransportReader!vars
<1>7. CASE at # "read_transport" /\ at' # "read_transport"
  BY <1>7 DEF TransportReader!Elsewhere, TransportReader!Next
<1>8. QED
  <2>1. CASE Encode \/ Client
    BY <1>7, <2>1 DEF Encode, EncodeSubparameter, EndEncodeBearer, BeginTransport, EncodeParameter,
                      EndTransport, Client, Send, Arrive, AskForOthers, NextMessage
  <2>2. CASE BeginReceive /\ at' # "read_transport"
    BY <1>7, <2>2 DEF BeginReceive
  <2>3. CASE BeginBearer \/ RefuseSubparameter \/ SkipSubparameter \/ TakeSubparameter \/ TakeOther
             \/ EndBearer \/ ReadBare
    BY <1>7, <2>3 DEF BeginBearer, RefuseSubparameter, SkipSubparameter, TakeSubparameter, TakeOther,
                      EndBearer, ReadBare, InBearer
  <2>4. QED
    BY <1>1, <1>2, <1>3, <1>4, <1>5, <1>6, <2>1, <2>2, <2>3 DEF Next, Codec, Decode

(* The loop of wms_ts_decode_CDMA_tl takes each parameter once, the first   *)
(* of its kind, and is content only at the exact end.                       *)
THEOREM TransportIsRead == Spec => ReadsTransport
<1>0. Arrays => OctetArrays
  BY DEF Arrays
<1>1. Init => TransportReader!Init
  BY DEF Init, TransportReader!Init
<1>2. QED
  BY <1>1, <1>0, TransportStep, ReadingStaysWithin, PTL DEF Spec, ReadsTransport, TransportReader!Spec

LEMMA SkipsOnward ==
  ASSUME IInv, OctetArrays, InBearer /\ Whole(bearer), pos' \in Nat /\ pos' >= pos + 2,
         UNCHANGED bearer, at' = at,
         \A k \in DOMAIN got : k \in DOMAIN got' /\ got'[k] = got[k]
  PROVE BearerReader!Next
<1>1. pos + 2 <= Len(bearer)
  BY DEF Whole
<1>2. BearerReader!Take
  BY <1>1 DEF BearerReader!Take, InBearer
<1>3. QED
  BY <1>2 DEF BearerReader!Next

LEMMA BearerStep ==
  ASSUME IInv, OctetArrays, [Next]_vars
  PROVE [BearerReader!Next]_(BearerReader!vars)
<1>0. pos \in Nat
  BY DEF IInv
<1>1. CASE BeginBearer /\ at' = "read_bearer"
  <2>1. at = "begin_bearer" /\ got' = <<>>
    BY <1>1 DEF BeginBearer
  <2>2. BearerReader!Start
    BY <1>1, <2>1 DEF BearerReader!Start
  <2>3. QED
    BY <2>2 DEF BearerReader!Next
<1>2. CASE RefuseSubparameter
  BY <1>2 DEF RefuseSubparameter, InBearer, BearerReader!Refuse, BearerReader!Next
<1>3. CASE SkipSubparameter \/ TakeOther
  <2>1. InBearer /\ Whole(bearer) /\ pos' = Behind(bearer) /\ UNCHANGED <<at, bearer, got>>
    BY <1>3 DEF SkipSubparameter, TakeOther
  <2>2. pos' \in Nat /\ pos' >= pos + 2
    BY <1>0, <2>1, BehindIsNext DEF OctetArrays
  <2>3. QED
    BY <2>1, <2>2, SkipsOnward
<1>4. CASE TakeSubparameter
  <2>1. PICK v : got' = Put(got, KindAt, v)
    BY <1>4 DEF TakeSubparameter
  <2>2. KindAt \notin DOMAIN got
    BY <1>4 DEF TakeSubparameter, Seen
  <2>3. DOMAIN Put(got, KindAt, v) = DOMAIN got \union {KindAt}
    BY PutKeeps
  <2>4. \A k \in DOMAIN got : Put(got, KindAt, v)[k] = got[k]
    BY <2>2, PutKeeps
  <2>5. LengthAt(bearer) \in Octet
    BY <1>0, <1>4, BehindIsNext DEF TakeSubparameter, OctetArrays
  <2>6. Advance(KindAt, LengthAt(bearer)) \in Nat
    BY <2>5, AdvanceIsNat
  <2>7. pos' \in Nat /\ pos' >= pos + 2
    BY <1>0, <1>4, <2>6 DEF TakeSubparameter
  <2>8. InBearer /\ Whole(bearer) /\ UNCHANGED <<at, bearer>>
    BY <1>4 DEF TakeSubparameter
  <2>9. QED
    BY <2>1, <2>3, <2>4, <2>7, <2>8, SkipsOnward
<1>5. CASE EndBearer
  BY <1>5 DEF EndBearer, BearerReader!Accept, BearerReader!Refuse, BearerReader!Next
<1>6. CASE UNCHANGED vars
  BY <1>6 DEF vars, BearerReader!vars
<1>7. CASE at # "read_bearer" /\ at' # "read_bearer"
  BY <1>7 DEF BearerReader!Elsewhere, BearerReader!Next
<1>8. QED
  <2>1. CASE Encode \/ Client
    BY <1>7, <2>1 DEF Encode, EncodeSubparameter, EndEncodeBearer, BeginTransport, EncodeParameter,
                      EndTransport, Client, Send, Arrive, AskForOthers, NextMessage
  <2>2. CASE BeginBearer /\ at' # "read_bearer"
    BY <1>7, <2>2 DEF BeginBearer
  <2>3. CASE BeginReceive \/ RefuseParameter \/ SkipParameter \/ TakeParameter \/ EndReadTransport
             \/ ReadBare
    BY <1>7, <2>3 DEF BeginReceive, RefuseParameter, SkipParameter, TakeParameter, EndReadTransport,
                      ReadBare, InTransport
  <2>4. QED
    BY <1>1, <1>2, <1>3, <1>4, <1>5, <1>6, <2>1, <2>2, <2>3 DEF Next, Codec, Decode

(* The loop of wms_ts_decode_CDMA_bd_from_uint8 does so as well, though the *)
(* times go by what they have read and not by their length octet.           *)
THEOREM BearerIsRead == Spec => ReadsBearer
<1>0. Arrays => OctetArrays
  BY DEF Arrays
<1>1. Init => BearerReader!Init
  BY DEF Init, BearerReader!Init
<1>2. QED
  BY <1>1, <1>0, BearerStep, ReadingStaysWithin, PTL DEF Spec, ReadsBearer, BearerReader!Spec

-----------------------------------------------------------------------------
(* ---- types -------------------------------------------------------------*)
(* What the decoders of single subparameters return is only stored, but for *)
(* the bit that says whether a header is there.                             *)
LEMMA OneBit ==
  ASSUME NEW d \in Seq(Octet), NEW k \in Nat
  PROVE  Unpack(d, k, 1) \in 0..1
<1> DEFINE b == k \div 8
           three == 65536 * OctetAt(d, b) + 256 * OctetAt(d, b + 1) + OctetAt(d, b + 2)
           e == 24 - (k % 8) - 1
<1>1. Unpack(d, k, 1) = (three \div 2^e) % 2^1
  BY DEF Unpack
<1>2. b \in Nat /\ k % 8 \in 0..7
  OBVIOUS
<1>3. \A j \in Nat : OctetAt(d, j) \in Nat
  <2> SUFFICES ASSUME NEW j \in Nat PROVE OctetAt(d, j) \in Nat
    OBVIOUS
  <2>1. CASE j < Len(d)
    <3>1. d[j + 1] \in Octet
      BY <2>1
    <3> QED BY <2>1, <3>1, OctetIsInt DEF OctetAt
  <2>2. CASE ~(j < Len(d))
    BY <2>2 DEF OctetAt
  <2> QED BY <2>1, <2>2
<1> HIDE DEF b
<1>4. three \in Nat
  <2>1. OctetAt(d, b) \in Nat /\ OctetAt(d, b + 1) \in Nat /\ OctetAt(d, b + 2) \in Nat
    BY <1>2, <1>3
  <2> DEFINE x == OctetAt(d, b)
             y == OctetAt(d, b + 1)
             z == OctetAt(d, b + 2)
  <2> HIDE DEF x, y, z
  <2>2. x \in Nat /\ y \in Nat /\ z \in Nat
    BY <2>1 DEF x, y, z
  <2>3. 65536 * x + 256 * y + z \in Nat
    BY <2>2
  <2> QED BY <2>3 DEF x, y, z
<1> HIDE DEF three
<1>5. 2^e \in Nat \ {0}
  <2>1. e \in 16..23
    BY <1>2
  <2> HIDE DEF e
  <2>2. /\ 2^16 \in Nat \ {0} /\ 2^17 \in Nat \ {0} /\ 2^18 \in Nat \ {0} /\ 2^19 \in Nat \ {0}
        /\ 2^20 \in Nat \ {0} /\ 2^21 \in Nat \ {0} /\ 2^22 \in Nat \ {0} /\ 2^23 \in Nat \ {0}
    OBVIOUS
  <2>3. e = 16 \/ e = 17 \/ e = 18 \/ e = 19 \/ e = 20 \/ e = 21 \/ e = 22 \/ e = 23
    BY <2>1
  <2> QED BY <2>2, <2>3, Zenon
<1> DEFINE w == 2^e
<1> HIDE DEF w
<1>6. three \div w \in Nat
  <2>1. w \in Nat /\ w # 0
    BY <1>5 DEF w
  <2> QED BY <1>4, <2>1
<1> DEFINE q == three \div w
<1> HIDE DEF q
<1>7. q % 2^1 \in 0..1
  <2>1. q \in Nat
    BY <1>6 DEF q
  <2>2. 2^1 = 2
    OBVIOUS
  <2>3. q % 2 \in 0..1
    BY <2>1
  <2> QED BY <2>2, <2>3, Zenon
<1> QED BY <1>1, <1>7 DEF q, w

(* What is read of a message identifier has its header bit 0 or 1.           *)
LEMMA HeaderBitIsBit ==
  ASSUME NEW d \in Seq(Octet), NEW i \in Nat, NEW n
  PROVE  Read("message_id", d, i, n).udh_present \in 0..1
<1>1. Read("message_id", d, i, n) = ReadMessageId(d, i)
  BY DEF Read, RelativeTimes, AbsoluteTimes
<1>2. ReadMessageId(d, i).udh_present = Unpack(d, 8 * i + 20, 1)
  BY DEF ReadMessageId, Field
<1>3. 8 * i + 20 \in Nat
  OBVIOUS
<1> QED BY <1>1, <1>2, <1>3, OneBit

(* The members of IS-91 digits have names.                                   *)
LEMMA DigitsAreMembers ==
  ASSUME NEW type, NEW digits
  PROVE  DOMAIN FromDigits(type, digits) \subseteq Known
<1>1. {"alert_mode", "callback", "priority", "user_data", "num_messages"} \subseteq Known
  BY DEF Known, Id
<1>2. DOMAIN FromDigits(type, digits)
        \subseteq {"alert_mode", "callback", "priority", "user_data", "num_messages"}
  BY DEF FromDigits, Restrict, CLI_ORDER, VOICE_MAIL
<1> QED BY <1>1, <1>2

(* And so have those that are left when the bearer data ends.                *)
LEMMA MembersAreKnown ==
  ASSUME DOMAIN got \subseteq Known
  PROVE  DOMAIN Members \subseteq Known
<1> DEFINE digits == FromDigits(got.user_data.type, Is91Digits)
<1>1. DOMAIN digits \subseteq Known
  BY DigitsAreMembers
<1>2. CASE ~IsIs91
  BY <1>2 DEF Members
<1>3. CASE IsIs91
  <2> HIDE DEF digits
  <2>1. DOMAIN Members = DOMAIN digits \union (DOMAIN got \intersect {"message_id"})
    BY <1>3 DEF Members, digits
  <2> QED BY <1>1, <2>1
<1> QED BY <1>2, <1>3

(* Every identifier names a parameter.                                       *)
LEMMA ParametersOfIds == \A id \in Identifier : TL!ParameterOf(id) \in TL!Parameter
BY DEF Identifier, TL!ParameterOf, TL!Parameter, TL!EncodeOrder

(* A subparameter advances by its length, or by the six octets of a time.    *)
LEMMA AdvanceBounded ==
  ASSUME NEW p, NEW n \in Octet
  PROVE  Advance(p, n) \in Nat /\ (Advance(p, n) = n \/ Advance(p, n) <= 6)
BY OctetIsNat DEF Advance

(* What was received is kept within the array of the message.               *)
AirShort == at = "read_transport" => Len(ota) <= TL!MAX_LEN
SendingTyped ==
  /\ at \in Phase /\ client \in Messages \union {NoMessage} /\ last \in 0..Len(EncodeOrder)
  /\ format \in Format
LayerTyped == tl.type \in 0..2 /\ tl.is_mo \in BOOLEAN /\ DOMAIN tl.parts \subseteq TL!Parameter
CountsTyped == pos \in 0..TL!MAX_LEN + 6 /\ desired \in Octet /\ room \in Octet
MembersTyped == DOMAIN got \subseteq Known /\ udh \in 0..1
TInv == AirShort /\ SendingTyped /\ LayerTyped /\ CountsTyped /\ MembersTyped

(* The two orders are not longer than the indices in `last'.                  *)
LEMMA OrderLengths ==
  /\ DOMAIN EncodeOrder \subseteq 1..Len(EncodeOrder) /\ DOMAIN TransportOrder \subseteq 1..Len(EncodeOrder)
  /\ Len(EncodeOrder) = 23
<1>1. Len(EncodeOrder) = 23 /\ DOMAIN EncodeOrder = 1..23
  BY DEF EncodeOrder
<1>2. DOMAIN TransportOrder = 1..7
  BY DEF TransportOrder, TL!EncodeOrder
<1> QED BY <1>1, <1>2

(* What is pending has an index.                                             *)
LEMMA LastIsIndex ==
  ASSUME NEW order, DOMAIN order \subseteq 1..Len(EncodeOrder), NEW present, Pending(order, present) # {}
  PROVE  Min(Pending(order, present)) \in 0..Len(EncodeOrder)
<1> DEFINE S == Pending(order, present)
<1>0. Len(EncodeOrder) \in Nat
  BY OrderLengths
<1>1. S \subseteq 1..Len(EncodeOrder) /\ S # {}
  BY DEF Pending
<1>2. Min(S) \in S
  <2> HIDE DEF S
  <2>1. S \subseteq Nat
    BY <1>0, <1>1
  <2> QED BY <1>1, <2>1, LeastIsThere
<1> QED BY <1>0, <1>1, <1>2

(* Numbers that the counters hold.                                           *)
LEMMA SmallNumbers ==
  /\ \A n \in Octet : n \in Nat
  /\ 0 \in Octet /\ 0 \in 0..TL!MAX_LEN + 6 /\ 1 \in 0..TL!MAX_LEN + 6
  /\ \A n \in Nat : n <= TL!MAX_LEN => n \in 0..TL!MAX_LEN + 6 /\ n \in Octet
BY DEF Octet, TL!MAX_LEN

LEMMA TypesInit == Init => TInv
<1>1. DOMAIN <<>> = {}
  OBVIOUS
<1>2. Len(EncodeOrder) \in Nat
  BY OrderLengths
<1> QED BY <1>1, <1>2, SmallNumbers DEF Init, TInv, AirShort, SendingTyped, LayerTyped, CountsTyped, MembersTyped, Phase,
        Format, Blank

(* Of a step of an encoder, and of a call.                                  *)
LEMMA SendingTypes ==
  ASSUME TInv, Arrays,
         Encode \/ (\E m \in Messages : Send(m)) \/ (\E m \in Arriving : Arrive(m))
  PROVE  TInv'
<1>0. SendingTyped /\ LayerTyped /\ CountsTyped /\ MembersTyped /\ UNCHANGED reading
  BY DEF TInv, Encode, Send, Arrive, EncodeSubparameter, EndEncodeBearer, BeginTransport, EncodeParameter,
         EndTransport
<1>1. LayerTyped' /\ CountsTyped' /\ MembersTyped'
  BY <1>0 DEF LayerTyped, CountsTyped, MembersTyped, reading
<1>2. AirShort'
  BY DEF AirShort, Encode, Send, Arrive, EncodeSubparameter, EndEncodeBearer, BeginTransport, EncodeParameter,
         EndTransport
<1>3. at' \in Phase
  BY DEF Phase, Encode, Send, Arrive, EncodeSubparameter, EndEncodeBearer, BeginTransport, EncodeParameter,
         EndTransport
<1>4. client' \in Messages \union {NoMessage}
  BY <1>0 DEF SendingTyped, Encode, Send, Arrive, EncodeSubparameter, EndEncodeBearer, BeginTransport,
         EncodeParameter, EndTransport
<1>5. format' \in Format
  <2>1. CASE \E m \in Messages : Send(m)
    <3>1. PICK m \in Messages : Send(m)
      BY <2>1
    <3>2. "cdma" \in Format
      BY DEF Format
    <3> QED BY <3>1, <3>2, Kinds DEF Send
  <2>2. CASE \E m \in Arriving : Arrive(m)
    BY <2>2, ArrivingAssumption DEF Arrive
  <2>3. CASE Encode
    <3>1. format' = format \/ format' = "cdma"
      BY <2>3 DEF Encode, EncodeSubparameter, EndEncodeBearer, BeginTransport, EncodeParameter, EndTransport
    <3> QED BY <1>0, <3>1 DEF SendingTyped, Format
  <2> QED BY <2>1, <2>2, <2>3
<1>6. last' \in 0..Len(EncodeOrder)
  <2>0. last \in 0..Len(EncodeOrder) /\ 0 \in 0..Len(EncodeOrder)
    BY <1>0, OrderLengths DEF SendingTyped
  <2>1. CASE EncodeSubparameter
    <3>1. Pending(EncodeOrder, ToWrite) # {} /\ last' = Min(Pending(EncodeOrder, ToWrite))
      BY <2>1 DEF EncodeSubparameter
    <3> QED BY <3>1, LastIsIndex, OrderLengths
  <2>2. CASE EncodeParameter
    <3>1. Unsent # {} /\ (last' = Min(Unsent) \/ last' = last)
      BY <2>2 DEF EncodeParameter
    <3>2. Min(Unsent) \in 0..Len(EncodeOrder)
      BY <3>1, LastIsIndex, OrderLengths DEF Unsent
    <3> QED BY <2>0, <3>1, <3>2
  <2>3. CASE (\E m \in Messages : Send(m)) \/ EndEncodeBearer
    BY <2>0, <2>3 DEF Send, EndEncodeBearer
  <2>4. CASE BeginTransport \/ EndTransport \/ (\E m \in Arriving : Arrive(m))
    BY <2>0, <2>4 DEF BeginTransport, EndTransport, Arrive
  <2> QED BY <2>1, <2>2, <2>3, <2>4 DEF Encode
<1> QED BY <1>1, <1>2, <1>3, <1>4, <1>5, <1>6 DEF TInv, SendingTyped

LEMMA ReceivingTypes ==
  ASSUME TInv, Arrays, IInv, IInv', Decode
  PROVE  TInv'
<1>0. /\ SendingTyped /\ LayerTyped /\ CountsTyped /\ MembersTyped /\ AirShort
      /\ bearer \in Seq(Octet) /\ ota \in Seq(Octet) /\ pos \in Nat /\ pos' \in Nat /\ desired' \in Nat
  BY DEF TInv, Arrays, OctetArrays, IInv, OthersCounted
<1>1. UNCHANGED sending /\ UNCHANGED room
  BY DEF Decode, BeginReceive, RefuseParameter, SkipParameter, TakeParameter, EndReadTransport,
         BeginBearer, RefuseSubparameter, SkipSubparameter, TakeSubparameter, TakeOther, EndBearer, ReadBare,
         reading
<1>2. at' \in Phase
  BY <1>0 DEF Phase, SendingTyped, Decode, BeginReceive, RefuseParameter, SkipParameter, TakeParameter, EndReadTransport,
         BeginBearer, RefuseSubparameter, SkipSubparameter, TakeSubparameter, TakeOther, EndBearer, ReadBare
<1>3. SendingTyped'
  BY <1>0, <1>1, <1>2 DEF SendingTyped, sending
<1>4. AirShort'
  <2>1. CASE BeginReceive
    BY <2>1, InMaxLen DEF BeginReceive, AirShort, sending
  <2>2. CASE ~BeginReceive
    <3>1. at' = "read_transport" => at = "read_transport"
      BY <2>2 DEF Decode, RefuseParameter, SkipParameter, TakeParameter, EndReadTransport,
         BeginBearer, RefuseSubparameter, SkipSubparameter, TakeSubparameter, TakeOther, EndBearer, ReadBare
    <3> QED BY <1>0, <1>1, <3>1 DEF AirShort, sending
  <2> QED BY <2>1, <2>2
<1>5. LayerTyped'
  <2>1. CASE BeginReceive
    <3>1. CASE tl' = tl
      BY <1>0, <3>1 DEF LayerTyped
    <3>2. CASE tl' = [Blank EXCEPT !.parts = Put(<<>>, "teleservice", TL!Bare[format])]
      <4> DEFINE q == Put(<<>>, "teleservice", TL!Bare[format])
      <4>0. DOMAIN q = DOMAIN <<>> \union {"teleservice"}
        BY PutKeeps
      <4> HIDE DEF q
      <4>1. tl'.type = 0 /\ tl'.is_mo = FALSE /\ tl'.parts = q
        <5>1. tl' = [Blank EXCEPT !.parts = q]
          BY <3>2 DEF q
        <5>2. tl' = [type |-> 0, is_mo |-> FALSE, parts |-> q]
          BY <5>1 DEF Blank
        <5> QED BY <5>2
      <4>2. DOMAIN tl'.parts = DOMAIN <<>> \union {"teleservice"}
        BY <4>0, <4>1
      <4>3. "teleservice" \in TL!Parameter
        BY DEF TL!Parameter, TL!EncodeOrder
      <4>4. DOMAIN <<>> = {}
        OBVIOUS
      <4>5. tl'.is_mo \in BOOLEAN
        BY <4>1, Zenon
      <4>6. tl'.type \in 0..2 /\ DOMAIN tl'.parts \subseteq TL!Parameter
        BY <4>1, <4>2, <4>3, <4>4
      <4> QED BY <4>5, <4>6 DEF LayerTyped
    <3>3. CASE tl' = [type |-> ota[1], is_mo |-> FALSE, parts |-> <<>>] /\ ota[1] \in {TL!PointToPoint, TL!Broadcast, TL!Ack}
      <4>1. tl'.type = ota[1] /\ tl'.is_mo = FALSE /\ tl'.parts = <<>>
        BY <3>3
      <4>2. ota[1] \in 0..2
        BY <3>3 DEF TL!PointToPoint, TL!Broadcast, TL!Ack
      <4>3. DOMAIN <<>> = {}
        OBVIOUS
      <4>4. tl'.is_mo \in BOOLEAN
        BY <4>1, Zenon
      <4>5. tl'.type \in 0..2 /\ DOMAIN tl'.parts \subseteq TL!Parameter
        BY <4>1, <4>2, <4>3
      <4> QED BY <4>4, <4>5 DEF LayerTyped
    <3> QED BY <2>1, <3>1, <3>2, <3>3 DEF BeginReceive
  <2>2. CASE TakeParameter
    <3> DEFINE p == TL!ParameterOf(IdAt(ota))
               v == TL!Read(p, ota, pos + 2, LengthAt(ota))
               b == IF p \in {"address", "subaddress"} THEN IdAt(ota) \in {4, 5} ELSE tl.is_mo
    <3>1. tl' = [type |-> tl.type, is_mo |-> b, parts |-> Put(tl.parts, p, v)] /\ IdAt(ota) \in Identifier
      BY <2>2 DEF TakeParameter, Fresh
    <3>2. p \in TL!Parameter
      BY <3>1, ParametersOfIds
    <3>3. b \in BOOLEAN
      <4>1. tl.is_mo \in BOOLEAN
        BY <1>0 DEF LayerTyped
      <4>2. \A x, S : (x \in S) \in BOOLEAN
        OBVIOUS
      <4>3. (IdAt(ota) \in {4, 5}) \in BOOLEAN
        BY <4>2, Zenon
      <4> QED BY <4>1, <4>3, Zenon
    <3> HIDE DEF p, v, b
    <3>4. tl'.type = tl.type /\ tl'.is_mo \in BOOLEAN /\ tl'.parts = Put(tl.parts, p, v)
      <4> DEFINE t == tl'
                 x == tl.type
                 z == Put(tl.parts, p, v)
      <4>1. t = [type |-> x, is_mo |-> b, parts |-> z]
        BY <3>1
      <4> HIDE DEF t, x, z
      <4>2. t.type = x
        BY <4>1, Zenon
      <4>3. t.is_mo \in BOOLEAN
        BY <3>3, <4>1, Zenon
      <4>4. t.parts = z
        BY <4>1, Zenon
      <4> QED BY <4>2, <4>3, <4>4 DEF t, x, z
    <3>5. DOMAIN tl'.parts = DOMAIN tl.parts \union {p}
      <4>1. DOMAIN Put(tl.parts, p, v) = DOMAIN tl.parts \union {p}
        BY PutKeeps
      <4>2. tl'.parts = Put(tl.parts, p, v)
        BY <3>4
      <4> QED BY <4>1, <4>2, Zenon
    <3> QED BY <1>0, <3>2, <3>4, <3>5 DEF LayerTyped
  <2>3. CASE ~BeginReceive /\ ~TakeParameter
    <3>1. tl' = tl
      BY <2>3 DEF Decode, RefuseParameter, SkipParameter, EndReadTransport,
         BeginBearer, RefuseSubparameter, SkipSubparameter, TakeSubparameter, TakeOther, EndBearer, ReadBare, reading
    <3> QED BY <1>0, <3>1 DEF LayerTyped
  <2> QED BY <2>1, <2>2, <2>3
<1>6. CountsTyped'
  <2>1. pos' \in 0..TL!MAX_LEN + 6
    <3>1. CASE SkipParameter \/ TakeParameter
      <4>1. pos' = Behind(ota) /\ Whole(ota) /\ at = "read_transport"
        BY <3>1 DEF SkipParameter, TakeParameter, InTransport
      <4>2. pos' <= Len(ota) /\ Len(ota) <= TL!MAX_LEN /\ Len(ota) \in Nat
        BY <1>0, <4>1, BehindIsNext DEF AirShort
      <4> QED BY <1>0, <4>2 DEF TL!MAX_LEN
    <3>2. CASE SkipSubparameter \/ TakeOther
      <4>1. pos' = Behind(bearer) /\ Whole(bearer) /\ at = "read_bearer"
        BY <3>2 DEF SkipSubparameter, TakeOther, InBearer
      <4>2. pos' <= Len(bearer) /\ Len(bearer) <= TL!MAX_LEN /\ Len(bearer) \in Nat
        BY <1>0, <4>1, BehindIsNext DEF IInv, BearerShort, Reading
      <4> QED BY <1>0, <4>2 DEF TL!MAX_LEN
    <3>3. CASE TakeSubparameter
      <4> DEFINE n == LengthAt(bearer)
                 a == Advance(KindAt, n)
                 l == Len(bearer)
      <4>1. pos' = pos + 2 + a /\ Whole(bearer) /\ at = "read_bearer"
        BY <3>3 DEF TakeSubparameter, InBearer
      <4>2. /\ n \in Octet /\ pos + 2 + n <= l /\ pos + 2 <= l /\ l <= TL!MAX_LEN /\ l \in Nat
        BY <1>0, <4>1, BehindIsNext DEF IInv, BearerShort, Reading, Behind
      <4>3. a \in Nat /\ (a = n \/ a <= 6)
        BY <4>2, AdvanceBounded
      <4> HIDE DEF n, a, l
      <4>4. n \in Nat
        BY <4>2, OctetIsNat
      <4> QED BY <1>0, <4>1, <4>2, <4>3, <4>4 DEF TL!MAX_LEN
    <3>4. CASE BeginReceive \/ BeginBearer
      <4>1. pos' = pos \/ pos' = 0 \/ pos' = 1
        BY <3>4 DEF BeginReceive, BeginBearer
      <4> QED BY <1>0, <4>1, SmallNumbers DEF CountsTyped
    <3>5. CASE RefuseParameter \/ EndReadTransport \/ RefuseSubparameter \/ EndBearer \/ ReadBare
      BY <1>0, <3>5 DEF CountsTyped, RefuseParameter, EndReadTransport, RefuseSubparameter, EndBearer, ReadBare,
                        reading
    <3> QED BY <3>1, <3>2, <3>3, <3>4, <3>5 DEF Decode
  <2>2. desired' \in Octet
    <3>1. CASE TakeOther
      <4> DEFINE s == desired + LengthAt(bearer) + 2
      <4>1. desired' = s % 256 /\ Whole(bearer)
        BY <3>1 DEF TakeOther, Counted
      <4>2. LengthAt(bearer) \in Octet /\ desired \in Octet
        BY <1>0, <4>1, BehindIsNext DEF CountsTyped
      <4>3. s \in Nat
        BY <4>2, OctetIsInt
      <4> HIDE DEF s
      <4>4. s % 256 \in 0..255
        BY <4>3
      <4> QED BY <4>1, <4>4 DEF Octet
    <3>2. CASE ~TakeOther
      <4>1. desired' = desired \/ desired' = 0
        BY <3>2 DEF Decode, BeginReceive, RefuseParameter, SkipParameter, TakeParameter, EndReadTransport,
         BeginBearer, RefuseSubparameter, SkipSubparameter, TakeSubparameter, EndBearer, ReadBare, reading
      <4> QED BY <1>0, <4>1, SmallNumbers DEF CountsTyped
    <3> QED BY <3>1, <3>2
  <2> QED BY <1>0, <1>1, <2>1, <2>2 DEF CountsTyped
<1>7. MembersTyped'
  <2>1. CASE TakeSubparameter
    <3> DEFINE v == IF KindAt = "user_data" THEN ReadUserData(bearer, pos + 2, LengthAt(bearer))
                    ELSE Read(KindAt, bearer, pos + 2, LengthAt(bearer))
    <3>1. /\ KindAt \in Known /\ got' = Put(got, KindAt, v)
          /\ udh' = IF KindAt = "message_id" THEN v.udh_present ELSE udh
      BY <2>1 DEF TakeSubparameter
    <3>2. udh' \in 0..1
      <4>1. CASE KindAt = "message_id"
        <5>1. v = Read("message_id", bearer, pos + 2, LengthAt(bearer))
          BY <4>1
        <5>2. pos + 2 \in Nat
          BY <1>0
        <5> HIDE DEF v
        <5> QED BY <1>0, <3>1, <4>1, <5>1, <5>2, HeaderBitIsBit
      <4>2. CASE KindAt # "message_id"
        BY <1>0, <3>1, <4>2 DEF MembersTyped
      <4> QED BY <4>1, <4>2
    <3> HIDE DEF v
    <3>3. DOMAIN got' = DOMAIN got \union {KindAt}
      BY <3>1, PutKeeps
    <3> QED BY <1>0, <3>1, <3>2, <3>3 DEF MembersTyped
  <2>2. CASE EndBearer
    <3>1. DOMAIN Members \subseteq Known
      BY <1>0, MembersAreKnown DEF MembersTyped
    <3>2. udh' = udh /\ (got' = got \/ got' = Members \/ DOMAIN got' = DOMAIN Members)
      <4>1. udh' = udh
        BY <2>2 DEF EndBearer
      <4>2. got' = got \/ got' = Members
            \/ got' = [Members EXCEPT !.user_data = IF udh = 1 THEN BehindHeader(@) ELSE WithoutHeader(@)]
        BY <2>2 DEF EndBearer
      <4>3. \A f, u : DOMAIN [f EXCEPT !.user_data = u] = DOMAIN f
        OBVIOUS
      <4> QED BY <4>1, <4>2, <4>3
    <3> QED BY <1>0, <3>1, <3>2 DEF MembersTyped
  <2>3. CASE ReadBare
    <3>1. udh' = udh /\ (got' = [num_messages |-> bearer[1]] \/ got' = FromDigits(BareType, bearer) \/ got' = <<>>)
      BY <2>3 DEF ReadBare
    <3>2. DOMAIN [num_messages |-> bearer[1]] \subseteq Known
      BY DEF Known, Id
    <3>3. DOMAIN FromDigits(BareType, bearer) \subseteq Known
      BY DigitsAreMembers
    <3>4. DOMAIN <<>> = {}
      OBVIOUS
    <3> QED BY <1>0, <3>1, <3>2, <3>3, <3>4 DEF MembersTyped
  <2>4. CASE ~TakeSubparameter /\ ~EndBearer /\ ~ReadBare
    <3>1. udh' = udh /\ (got' = got \/ got' = <<>>)
      BY <2>4 DEF Decode, BeginReceive, RefuseParameter, SkipParameter, TakeParameter, EndReadTransport,
         BeginBearer, RefuseSubparameter, SkipSubparameter, TakeOther, reading
    <3>2. DOMAIN <<>> = {}
      OBVIOUS
    <3> QED BY <1>0, <3>1, <3>2 DEF MembersTyped
  <2> QED BY <2>1, <2>2, <2>3, <2>4
<1> QED BY <1>3, <1>4, <1>5, <1>6, <1>7 DEF TInv

LEMMA OtherTypes ==
  ASSUME TInv, AskForOthers \/ NextMessage \/ UNCHANGED vars
  PROVE  TInv'
<1>0. SendingTyped /\ LayerTyped /\ CountsTyped /\ MembersTyped /\ AirShort
  BY DEF TInv
<1>1. CASE AskForOthers
  <2>1. room' \in Octet
    <3>1. room' \in {desired - 1, desired} /\ desired > 0
      BY <1>1 DEF AskForOthers
    <3> QED BY <1>0, <3>1 DEF CountsTyped, Octet
  <2> QED BY <1>0, <1>1, <2>1 DEF AskForOthers, TInv, AirShort, SendingTyped, LayerTyped, CountsTyped,
                                  MembersTyped, sending, Phase
<1>2. CASE NextMessage
  <2>1. DOMAIN <<>> = {}
    OBVIOUS
  <2>2. Len(EncodeOrder) \in Nat
    BY OrderLengths
  <2> QED BY <1>0, <1>2, <2>1, <2>2, SmallNumbers
          DEF NextMessage, TInv, AirShort, SendingTyped, LayerTyped, CountsTyped, MembersTyped, Phase, Format, Blank
<1>3. CASE UNCHANGED vars
  BY <1>0, <1>3 DEF vars, TInv, AirShort, SendingTyped, LayerTyped, CountsTyped, MembersTyped
<1> QED BY <1>1, <1>2, <1>3

(* Whatever clients send and whatever arrives: the codec keeps its types;   *)
(* no position leaves the array by more than the octets of a time, and the  *)
(* counters of uint8 do not wrap.                                           *)
THEOREM TypesAreKept == Spec => []TypeOK
<1>1. TInv /\ Arrays /\ IInv /\ IInv' /\ [Next]_vars => TInv'
  <2> SUFFICES ASSUME TInv, Arrays, IInv, IInv', [Next]_vars PROVE TInv'
    OBVIOUS
  <2>1. CASE Decode
    BY <2>1, ReceivingTypes
  <2>2. CASE AskForOthers \/ NextMessage \/ UNCHANGED vars
    BY <2>2, OtherTypes
  <2>3. CASE Encode \/ (\E m \in Messages : Send(m)) \/ (\E m \in Arriving : Arrive(m))
    BY <2>3, SendingTypes
  <2> QED BY <2>1, <2>2, <2>3 DEF Next, Codec, Client
<1>2. TInv /\ Arrays /\ IInv => TypeOK
  BY DEF TInv, Arrays, IInv, TypeOK, SendingTyped, LayerTyped, CountsTyped, MembersTyped, OctetArrays, OthersCounted
<1> QED BY <1>1, <1>2, TypesInit, ReadingStaysWithin, PTL DEF Spec

-----------------------------------------------------------------------------
(* ---- subparameters without a name --------------------------------------*)
(* The walk of Tiled goes from one to the next, and stops where there is    *)
(* none.                                                                    *)
Moves(d, x) == x + 2 <= Len(d) /\ Kind(d[x + 1]) = "other"
Beyond(d, x) == IF Moves(d, x) THEN x + 2 + d[x + 2] ELSE x
Walks(w, d) ==
  /\ w \in [0..Len(d) -> Nat] /\ w[0] = 0
  /\ \A k \in 1..Len(d) : w[k] = Beyond(d, w[k - 1])

(* The walk stays in the numbers.                                            *)
LEMMA BeyondIsNat ==
  ASSUME NEW d \in Seq(Octet), NEW x \in Nat
  PROVE  Beyond(d, x) \in Nat
<1>1. CASE Moves(d, x)
  <2>1. x + 2 \in 1..Len(d)
    BY <1>1 DEF Moves
  <2>2. d[x + 2] \in Nat
    BY <2>1, OctetIsInt
  <2> QED BY <1>1, <2>2 DEF Beyond
<1>2. CASE ~Moves(d, x)
  BY <1>2 DEF Beyond
<1> QED BY <1>1, <1>2

(* It exists, and Tiled is that it ends at the end.                          *)
LEMMA TheWalk ==
  ASSUME NEW d \in Seq(Octet)
  PROVE  \E w : Walks(w, d) /\ (Tiled(d) <=> w[Len(d)] = Len(d))
<1> DEFINE l == Len(d)
           G == [p \in Nat \X (1..l) |-> Beyond(d, p[1])]
<1>0. l \in Nat
  OBVIOUS
<1>1. \A x \in Nat, k \in 1..l : G[<<x, k>>] = Beyond(d, x) /\ Beyond(d, x) \in Nat
  BY BeyondIsNat
<1>2. G \in [Nat \X (1..l) -> Nat]
  BY BeyondIsNat
<1> HIDE DEF G, l
<1>3. PICK w : Recursion(w, 0, G, Nat, l)
  BY <1>0, <1>2, RecursionExists
<1>4. /\ w \in [0..l -> Nat] /\ w[0] = 0
      /\ \A k \in 1..l : w[k] = Beyond(d, w[k - 1])
  <2>1. \A k \in 1..l : k - 1 \in 0..l
    BY <1>0
  <2> QED BY <1>1, <1>3, <2>1 DEF Recursion
<1> DEFINE v == CHOOSE v : v = [k \in 0..l |-> IF k = 0 THEN 0
                                               ELSE IF v[k - 1] + 2 <= l /\ Kind(d[v[k - 1] + 1]) = "other"
                                               THEN v[k - 1] + 2 + d[v[k - 1] + 2]
                                               ELSE v[k - 1]]
<1>5. Tiled(d) <=> v[l] = l
  BY DEF Tiled, l
<1>6. w = [k \in 0..l |-> IF k = 0 THEN 0
                          ELSE IF w[k - 1] + 2 <= l /\ Kind(d[w[k - 1] + 1]) = "other"
                          THEN w[k - 1] + 2 + d[w[k - 1] + 2]
                          ELSE w[k - 1]]
  <2>1. \A k \in 0..l : w[k] = IF k = 0 THEN 0 ELSE Beyond(d, w[k - 1])
    BY <1>0, <1>4
  <2>2. \A x : Beyond(d, x) = IF x + 2 <= l /\ Kind(d[x + 1]) = "other" THEN x + 2 + d[x + 2] ELSE x
    BY DEF Beyond, Moves, l
  <2>3. \A k \in 0..l : w[k] = IF k = 0 THEN 0
                               ELSE IF w[k - 1] + 2 <= l /\ Kind(d[w[k - 1] + 1]) = "other"
                               THEN w[k - 1] + 2 + d[w[k - 1] + 2]
                               ELSE w[k - 1]
    BY <2>1, <2>2, Zenon
  <2> QED BY <1>4, <2>3
<1>7. v = [k \in 0..l |-> IF k = 0 THEN 0
                          ELSE IF v[k - 1] + 2 <= l /\ Kind(d[v[k - 1] + 1]) = "other"
                          THEN v[k - 1] + 2 + d[v[k - 1] + 2]
                          ELSE v[k - 1]]
  BY <1>6, Zenon
<1> HIDE DEF v
<1>8. v[0] = 0 /\ \A k \in 1..l : v[k] = Beyond(d, v[k - 1])
  <2>1. \A x : Beyond(d, x) = IF x + 2 <= l /\ Kind(d[x + 1]) = "other" THEN x + 2 + d[x + 2] ELSE x
    BY DEF Beyond, Moves, l
  <2>2. \A k \in 0..l : v[k] = IF k = 0 THEN 0
                               ELSE IF v[k - 1] + 2 <= l /\ Kind(d[v[k - 1] + 1]) = "other"
                               THEN v[k - 1] + 2 + d[v[k - 1] + 2]
                               ELSE v[k - 1]
    BY <1>7
  <2>3. 0 \in 0..l /\ \A k \in 1..l : k \in 0..l /\ k # 0
    BY <1>0
  <2> QED BY <2>1, <2>2, <2>3, Zenon
<1> DEFINE E == {n \in Nat : n <= l => v[n] = w[n]}
<1>9. 0 \in E
  BY <1>4, <1>8
<1>10. ASSUME NEW n \in Nat, n \in E PROVE n + 1 \in E
  <2> SUFFICES ASSUME n + 1 <= l PROVE v[n + 1] = w[n + 1]
    OBVIOUS
  <2>1. n + 1 \in 1..l /\ (n + 1) - 1 = n /\ n <= l
    BY <1>0
  <2> QED BY <1>4, <1>8, <1>10, <2>1
<1>11. \A n \in Nat : n \in E
  <2> HIDE DEF E
  <2> QED BY <1>9, <1>10, Induction
<1>12. v[l] = w[l]
  BY <1>0, <1>11
<1> QED BY <1>4, <1>5, <1>12 DEF Walks, l

(* Where it stops it stays.                                                 *)
LEMMA WalkStays ==
  ASSUME NEW d, NEW l \in Nat, l = Len(d), NEW w, Walks(w, d), NEW k \in 0..l, ~Moves(d, w[k])
  PROVE  w[l] = w[k]
<1> DEFINE E == {n \in Nat : k + n <= l => w[k + n] = w[k]}
<1>1. \A m \in 1..l : w[m] = Beyond(d, w[m - 1])
  BY DEF Walks
<1>2. 0 \in E
  OBVIOUS
<1>3. ASSUME NEW n \in Nat, n \in E PROVE n + 1 \in E
  <2> SUFFICES ASSUME k + (n + 1) <= l PROVE w[k + (n + 1)] = w[k]
    OBVIOUS
  <2>1. k + (n + 1) \in 1..l /\ (k + (n + 1)) - 1 = k + n /\ k + n <= l
    OBVIOUS
  <2>2. w[k + n] = w[k]
    BY <1>3, <2>1
  <2>3. w[k + (n + 1)] = Beyond(d, w[k + n])
    BY <1>1, <2>1
  <2> QED BY <2>2, <2>3 DEF Beyond
<1>4. \A n \in Nat : n \in E
  <2> HIDE DEF E
  <2> QED BY <1>2, <1>3, Induction
<1>5. l - k \in Nat /\ k + (l - k) = l
  OBVIOUS
<1>6. l - k \in E
  BY <1>4, <1>5
<1> QED BY <1>5, <1>6

(* One more behind the others. *)
LEMMA TiledOneMore ==
  ASSUME NEW a \in Seq(Octet), NEW c \in Seq(Octet), Tiled(a),
         Len(c) >= 2, Len(c) = c[2] + 2, Kind(c[1]) = "other"
  PROVE  Tiled(a \o c)
<1> DEFINE b == a \o c
           la == Len(a)
           lc == Len(c)
           lb == Len(b)
<1>1. /\ b \in Seq(Octet) /\ la \in Nat /\ lc \in Nat /\ lb \in Nat /\ lb = la + lc
      /\ lc >= 2 /\ lc = c[2] + 2
  BY Joined
<1>2. (\A i \in 1..la : b[i] = a[i]) /\ b[la + 1] = c[1] /\ b[la + 2] = c[2]
  <2>1. 1 \in 1..Len(c) /\ 2 \in 1..Len(c)
    BY <1>1
  <2> QED BY <2>1, Joined
<1>3. PICK wa : Walks(wa, a) /\ wa[la] = la
  BY TheWalk
<1>4. PICK wb : Walks(wb, b) /\ (Tiled(b) <=> wb[lb] = lb)
  BY <1>1, TheWalk
<1>5. /\ wa \in [0..la -> Nat] /\ wa[0] = 0 /\ wa[la] = la
      /\ \A k \in 1..la : wa[k] = Beyond(a, wa[k - 1])
  BY <1>3 DEF Walks
<1>6. /\ wb \in [0..lb -> Nat] /\ wb[0] = 0
      /\ \A k \in 1..lb : wb[k] = Beyond(b, wb[k - 1])
  BY <1>4 DEF Walks
<1>7. ASSUME NEW x \in Nat, Moves(a, x) PROVE Beyond(b, x) = Beyond(a, x)
  <2>1. x + 2 <= la /\ Kind(a[x + 1]) = "other"
    BY <1>7 DEF Moves
  <2>2. x + 1 \in 1..la /\ x + 2 \in 1..la /\ x + 2 <= lb
    BY <1>1, <2>1
  <2>3. b[x + 1] = a[x + 1] /\ b[x + 2] = a[x + 2]
    BY <1>2, <2>2
  <2>4. Moves(b, x)
    BY <2>1, <2>2, <2>3 DEF Moves
  <2> QED BY <1>7, <2>3, <2>4 DEF Beyond
<1>8. \A k \in 0..la : ~Moves(a, wa[k]) => wa[k] = la
  BY <1>1, <1>3, WalkStays
<1> HIDE DEF b, la, lc, lb
<1> DEFINE E == {n \in Nat : n <= la => wb[n] = wa[n] \/ \E j \in 0..n : wb[j] = la}
<1>9. 0 \in E
  BY <1>5, <1>6
<1>10. ASSUME NEW n \in Nat, n \in E PROVE n + 1 \in E
  <2> SUFFICES ASSUME n + 1 <= la PROVE wb[n + 1] = wa[n + 1] \/ \E j \in 0..n + 1 : wb[j] = la
    OBVIOUS
  <2>1. n + 1 \in 1..la /\ n + 1 \in 1..lb /\ (n + 1) - 1 = n /\ n <= la /\ n \in 0..la
    BY <1>1
  <2>2. CASE \E j \in 0..n : wb[j] = la
    BY <2>2
  <2>3. CASE wb[n] = wa[n] /\ wa[n] = la
    <3>1. n \in 0..n + 1
      OBVIOUS
    <3> QED BY <2>3, <3>1
  <2>4. CASE wb[n] = wa[n] /\ wa[n] # la
    <3>1. Moves(a, wa[n]) /\ wa[n] \in Nat
      BY <1>5, <1>8, <2>1, <2>4
    <3>2. Beyond(b, wa[n]) = Beyond(a, wa[n])
      BY <1>7, <3>1
    <3>3. wa[n + 1] = Beyond(a, wa[n])
      BY <1>5, <2>1
    <3>4. wb[n + 1] = Beyond(b, wb[n])
      BY <1>6, <2>1
    <3> QED BY <2>4, <3>2, <3>3, <3>4
  <2>5. wb[n] = wa[n] \/ \E j \in 0..n : wb[j] = la
    BY <1>10, <2>1
  <2> QED BY <2>2, <2>3, <2>4, <2>5
<1>11. \A n \in Nat : n \in E
  <2> HIDE DEF E
  <2> QED BY <1>9, <1>10, Induction
<1>12. PICK j \in 0..la : wb[j] = la
  <2>1. la \in E
    BY <1>1, <1>11
  <2>2. la \in 0..la
    BY <1>1
  <2> QED BY <1>1, <1>5, <2>1, <2>2
<1>13. j + 1 \in 1..lb /\ j + 1 \in 0..lb /\ (j + 1) - 1 = j
  BY <1>1
<1>14. wb[j + 1] = lb
  <2>1. Moves(b, la)
    BY <1>1, <1>2 DEF Moves, lb
  <2>2. Beyond(b, la) = la + 2 + c[2]
    BY <1>2, <2>1 DEF Beyond
  <2>3. wb[j + 1] = Beyond(b, la)
    BY <1>6, <1>12, <1>13
  <2>4. c[2] = lc - 2
    <3>1. c[2] \in Octet
      BY <1>1 DEF lc
    <3> QED BY <1>1, <3>1, OctetIsInt
  <2> QED BY <1>1, <2>2, <2>3, <2>4
<1>15. ~Moves(b, lb)
  BY <1>1 DEF Moves, lb
<1>16. wb[lb] = lb
  BY <1>1, <1>4, <1>13, <1>14, <1>15, WalkStays DEF lb
<1> QED BY <1>4, <1>16 DEF b

(* What is copied is a sequence of subparameters, all of them when there is *)
(* room.  A second reading starts from nothing.                             *)
OthersWhole ==
  /\ Tiled(others)
  /\ at # "begin_bearer" /\ desired <= room => Len(others) = desired

LEMMA NothingIsTiled == Tiled(<<>>)
<1>1. <<>> \in Seq(Octet) /\ Len(<<>>) = 0
  OBVIOUS
<1>2. PICK w : Walks(w, <<>>) /\ (Tiled(<<>>) <=> w[Len(<<>>)] = Len(<<>>))
  BY <1>1, TheWalk
<1>3. w[0] = 0
  BY <1>2 DEF Walks
<1> QED BY <1>1, <1>2, <1>3

LEMMA OthersInit == Init => OthersWhole
<1>1. Len(<<>>) = 0
  OBVIOUS
<1> QED BY <1>1, NothingIsTiled DEF Init, OthersWhole

(* Every step keeps them whole.                                             *)
LEMMA OthersStep ==
  ASSUME OthersWhole, Arrays, IInv, [Next]_vars
  PROVE  OthersWhole'
<1>0. /\ Tiled(others) /\ others \in Seq(Octet) /\ Len(others) <= room /\ Len(others) \in Nat /\ room \in Nat
      /\ pos \in Nat /\ bearer \in Seq(Octet) /\ OctetArrays /\ desired \in Nat
  BY DEF OthersWhole, IInv, OthersCounted, Arrays, OctetArrays
<1>1. CASE TakeOther
  <2> DEFINE n == LengthAt(bearer)
             copied == SubSeq(bearer, pos + 1, pos + 2 + n)
  <2>1. /\ n \in Nat /\ pos + 2 + n <= Len(bearer)
        /\ at = "read_bearer" /\ at' = "read_bearer" /\ UNCHANGED room
        /\ desired' = desired + n + 2
        /\ copied \in Seq(Octet) /\ Len(copied) = n + 2
    BY <1>0, <1>1, OtherCounted
  <2>2. copied[1] = IdAt(bearer) /\ copied[2] = n
    BY <1>0, <2>1, SMTT(30) DEF IdAt, LengthAt
  <2>3. Kind(copied[1]) = "other"
    BY <1>1, <2>2 DEF TakeOther, KindAt
  <2>4. CASE Room(n)
    <3>1. others' = others \o copied
      BY <1>1, <2>4 DEF TakeOther
    <3>2. desired + n + 2 <= room
      BY <1>0, <2>1, <2>4 DEF Room
    <3> HIDE DEF n, copied
    <3>3. Tiled(others \o copied)
      BY <1>0, <2>1, <2>2, <2>3, TiledOneMore
    <3>4. Len(others \o copied) = Len(others) + Len(copied)
      BY <1>0, <2>1, Joined
    <3>5. Len(others) = desired
      BY <1>0, <2>1, <3>2 DEF OthersWhole
    <3> QED BY <2>1, <3>1, <3>3, <3>4, <3>5 DEF OthersWhole
  <2>5. CASE ~Room(n)
    <3>1. others' = others
      BY <1>1, <2>5 DEF TakeOther
    <3>2. desired' > room
      BY <1>0, <2>1, <2>5 DEF Room
    <3> HIDE DEF n, copied
    <3> QED BY <1>0, <2>1, <3>1, <3>2 DEF OthersWhole
  <2> QED BY <2>4, <2>5
<1>2. CASE BeginBearer \/ NextMessage
  <2>1. others' = <<>> /\ desired' = 0
    BY <1>2 DEF BeginBearer, NextMessage
  <2>2. Len(<<>>) = 0
    OBVIOUS
  <2> QED BY <2>1, <2>2, NothingIsTiled DEF OthersWhole
<1>3. CASE EndReadTransport \/ AskForOthers
  <2>1. UNCHANGED <<others, desired>> /\ (at' = "begin_bearer" \/ (UNCHANGED room /\ at = "read_transport"))
    BY <1>3 DEF EndReadTransport, AskForOthers, reading
  <2> QED BY <1>0, <2>1 DEF OthersWhole
<1>4. CASE UNCHANGED <<others, desired, room>> /\ (at # "begin_bearer" \/ at' = at)
  BY <1>0, <1>4 DEF OthersWhole
<1>5. CASE Encode \/ (\E m \in Messages : Send(m)) \/ (\E m \in Arriving : Arrive(m)) \/ UNCHANGED vars
  BY <1>4, <1>5 DEF Encode, Send, Arrive, EncodeSubparameter, EndEncodeBearer, BeginTransport, EncodeParameter,
                    EndTransport, reading, vars
<1>6. CASE BeginReceive \/ RefuseParameter \/ SkipParameter \/ TakeParameter
           \/ RefuseSubparameter \/ SkipSubparameter \/ TakeSubparameter \/ EndBearer \/ ReadBare
  BY <1>4, <1>6 DEF BeginReceive, RefuseParameter, SkipParameter, TakeParameter, InTransport, InBearer,
                    RefuseSubparameter, SkipSubparameter, TakeSubparameter, EndBearer, ReadBare, reading
<1> QED BY <1>1, <1>2, <1>3, <1>5, <1>6 DEF Next, Codec, Decode, Client

(* For all messages.                                                         *)
LEMMA OthersAreWhole == Spec => []OthersWhole
BY OthersInit, OthersStep, ReadingStaysWithin, PTL DEF Spec

-----------------------------------------------------------------------------
(* ---- from a client to a client -----------------------------------------*)
(* B are the places in d, up to its end, where parameters begin: each one's *)
(* length octet leads to the next.                                          *)
Framed(d, B) ==
  /\ B \subseteq Nat /\ Len(d) \in B
  /\ \A x \in B : x # Len(d) => x + 2 <= Len(d) /\ x + 2 + d[x + 2] \in B /\ x + 2 + d[x + 2] <= Len(d)

(* The decoder moves on by the length octet, also where it goes by what it  *)
(* has read.                                                                *)
Named(d, B) ==
  \A x \in B : x # Len(d) =>
    Kind(d[x + 1]) \in Known /\ Advance(Kind(d[x + 1]), d[x + 2]) = d[x + 2]
Layered(d, B) == \A x \in B : x # Len(d) => d[x + 1] \in 0..7

LEMMA FramedMore ==
  ASSUME NEW d \in Seq(Octet), NEW B, Framed(d, B),
         NEW c \in Seq(Octet), Len(c) >= 2, Len(c) = c[2] + 2
  PROVE  LET e == d \o c
             A == B \union {Len(e)}
         IN /\ Framed(e, A)
            /\ Named(d, B) /\ Kind(c[1]) \in Known /\ Advance(Kind(c[1]), c[2]) = c[2] => Named(e, A)
            /\ Layered(d, B) /\ c[1] \in 0..7 => Layered(e, A)
<1> DEFINE e == d \o c
           A == B \union {Len(e)}
           l == Len(d)
           m == Len(e)
<1>1. /\ e \in Seq(Octet) /\ l \in Nat /\ m \in Nat /\ m = l + Len(c) /\ Len(c) \in Nat /\ m > l
  BY Joined
<1>2. (\A i \in 1..l : e[i] = d[i]) /\ e[l + 1] = c[1] /\ e[l + 2] = c[2]
  <2>1. 1 \in 1..Len(c) /\ 2 \in 1..Len(c)
    BY <1>1
  <2> QED BY <2>1, Joined
<1>3. /\ B \subseteq Nat /\ l \in B /\ A = B \union {m}
      /\ \A x \in B : x # l => x + 2 <= l /\ x + 2 + d[x + 2] \in B /\ x + 2 + d[x + 2] <= l
  BY DEF Framed
<1> HIDE DEF e, l, m, A
<1>4. ASSUME NEW x \in A, x # m
      PROVE  x \in B /\ (x = l \/ (x # l /\ e[x + 1] = d[x + 1] /\ e[x + 2] = d[x + 2]))
  <2>1. x \in B /\ x \in Nat
    BY <1>3, <1>4
  <2>2. CASE x # l
    <3>1. x + 1 \in 1..l /\ x + 2 \in 1..l
      BY <1>1, <1>3, <2>1, <2>2
    <3> QED BY <1>2, <2>1, <2>2, <3>1
  <2> QED BY <2>1, <2>2
<1>5. Framed(e, A)
  <2>1. A \subseteq Nat /\ m \in A
    BY <1>1, <1>3
  <2>2. ASSUME NEW x \in A, x # m
        PROVE  x + 2 <= m /\ x + 2 + e[x + 2] \in A /\ x + 2 + e[x + 2] <= m
    <3>1. CASE x = l
      <4>1. e[x + 2] = c[2]
        BY <1>2, <3>1
      <4>2. c[2] = Len(c) - 2
        <5>1. c[2] \in Octet
          BY <1>1
        <5> QED BY <1>1, <5>1, OctetIsInt
      <4>3. x + 2 + e[x + 2] = m /\ x + 2 <= m
        BY <1>1, <3>1, <4>1, <4>2, SMTT(30)
      <4> QED BY <1>1, <2>1, <4>3
    <3>2. CASE x # l
      <4>1. x \in B /\ e[x + 2] = d[x + 2]
        BY <1>4, <2>2, <3>2
      <4>2. x + 2 <= l /\ x + 2 + d[x + 2] \in B /\ x + 2 + d[x + 2] <= l
        BY <1>3, <3>2, <4>1
      <4>3. x \in Nat /\ x + 2 + d[x + 2] \in Nat
        BY <1>3, <4>1, <4>2
      <4> QED BY <1>1, <1>3, <4>1, <4>2, <4>3
    <3> QED BY <3>1, <3>2
  <2> QED BY <2>1, <2>2 DEF Framed, m
<1>6. ASSUME Named(d, B), Kind(c[1]) \in Known, Advance(Kind(c[1]), c[2]) = c[2]
      PROVE  Named(e, A)
  <2>1. ASSUME NEW x \in A, x # m
        PROVE  Kind(e[x + 1]) \in Known /\ Advance(Kind(e[x + 1]), e[x + 2]) = e[x + 2]
    <3>1. CASE x = l
      BY <1>2, <1>6, <3>1
    <3>2. CASE x # l
      <4>1. x \in B /\ e[x + 1] = d[x + 1] /\ e[x + 2] = d[x + 2]
        BY <1>4, <2>1, <3>2
      <4> QED BY <1>6, <3>2, <4>1 DEF Named, l
    <3> QED BY <3>1, <3>2
  <2> QED BY <2>1 DEF Named, m
<1>7. ASSUME Layered(d, B), c[1] \in 0..7
      PROVE  Layered(e, A)
  <2>1. ASSUME NEW x \in A, x # m PROVE e[x + 1] \in 0..7
    <3>1. CASE x = l
      BY <1>2, <1>7, <3>1
    <3>2. CASE x # l
      <4>1. x \in B /\ e[x + 1] = d[x + 1]
        BY <1>4, <2>1, <3>2
      <4> QED BY <1>7, <3>2, <4>1 DEF Layered, l
    <3> QED BY <3>1, <3>2
  <2> QED BY <2>1 DEF Layered, m
<1> QED BY <1>5, <1>6, <1>7 DEF e, A

(* ---- identifiers -------------------------------------------------------*)
(* No two subparameters have the same identifier: each gives its name back. *)
LEMMA KindsOfIds == \A p \in Known : Kind(Id[p]) = p
<1> DEFINE name == [n \in 0..255 |-> CASE n = 0 -> "message_id" [] n = 1 -> "user_data" [] n = 2 ->
                   "user_response" [] n = 3 -> "mc_time" [] n = 4 -> "validity_absolute" [] n = 5 ->
                   "validity_relative" [] n = 6 -> "deferred_absolute" [] n = 7 -> "deferred_relative" [] n =
                   8 -> "priority" [] n = 9 -> "privacy" [] n = 10 -> "reply_option" [] n = 11 ->
                   "num_messages" [] n = 12 -> "alert_mode" [] n = 13 -> "language" [] n = 14 -> "callback"
                   [] n = 15 -> "display_mode" [] n = 17 -> "deposit_index" [] n = 18 -> "scpt_data" [] n =
                   19 -> "scpt_result" [] n = 20 -> "delivery_status" [] n = 85 -> "ip_address" [] n = 86 ->
                   "rsn_no_notify" [] OTHER -> "other"]
<1>1. \A p \in Known : name[Id[p]] = p
  BY DEF Known, Id
<1>2. \A p, q \in Known : Id[p] = Id[q] => p = q
  <2> HIDE DEF name
  <2> QED BY <1>1
<1>3. \A p \in Known : \A q \in Known : Id[q] = Id[p] <=> q = p
  BY <1>2
<1> QED BY <1>3 DEF Kind

(* Those without a name have another name than these.                        *)
LEMMA OtherIsUnknown == "other" \notin Known
BY DEF Known, Id

(* Only bearer data has the identifier 8.                                    *)
LEMMA LayerIds ==
  /\ \A p \in TL!Parameter \ {"bearer"}, mo \in BOOLEAN : TL!IdOf(p, mo) \in 0..7
  /\ \A mo \in BOOLEAN : TL!IdOf("bearer", mo) = 8
  /\ \A id \in 0..7 : TL!ParameterOf(id) # "bearer"
  /\ TL!ParameterOf(8) = "bearer"
<1>1. TL!Parameter = {"teleservice", "service", "address", "subaddress", "reply", "cause", "bearer"}
  BY DEF TL!Parameter, TL!EncodeOrder
<1>2. \A p \in TL!Parameter \ {"bearer"}, mo \in BOOLEAN : TL!IdOf(p, mo) \in 0..7
  BY <1>1 DEF TL!IdOf
<1>3. \A mo \in BOOLEAN : TL!IdOf("bearer", mo) = 8
  BY DEF TL!IdOf
<1>4. \A id \in 0..7 : TL!ParameterOf(id) # "bearer"
  BY DEF TL!ParameterOf, TL!EncodeOrder
<1>5. TL!ParameterOf(8) = "bearer"
  BY DEF TL!ParameterOf, TL!EncodeOrder
<1> QED BY <1>2, <1>3, <1>4, <1>5

(* ---- what is written ---------------------------------------------------*)
(* A parameter begins with its identifier and its length, and then are its   *)
(* octets.                                                                   *)
LEMMA ChunkHead ==
  ASSUME NEW id \in Octet, NEW s \in Seq(Octet)
  PROVE  /\ Chunk(id, s) \in Seq(Octet) /\ Len(Chunk(id, s)) = Len(s) + 2
         /\ Chunk(id, s)[1] = id /\ Chunk(id, s)[2] = Len(s) % 256
         /\ Len(s) <= TL!MAX_LEN => Chunk(id, s)[2] = Len(s)
         /\ \A i \in 1..Len(s) : Chunk(id, s)[i + 2] = s[i]
<1>1. Chunk(id, s) \in Seq(Octet) /\ Len(Chunk(id, s)) = Len(s) + 2
  BY ChunkTyped
<1> DEFINE n == Len(s) % 256
           h == <<id, n>>
<1>2. Chunk(id, s) = h \o s
  BY DEF Chunk
<1>3. n \in Octet
  <2>1. Len(s) \in Nat
    OBVIOUS
  <2>2. \A l \in Nat : l % 256 \in Octet
    BY DEF Octet
  <2> QED BY <2>1, <2>2, Zenon
<1>4. Len(s) <= TL!MAX_LEN => n = Len(s)
  <2>1. Len(s) \in Nat
    OBVIOUS
  <2> QED BY <2>1, NoWrap
<1> HIDE DEF n
<1>5. h \in Seq(Octet) /\ Len(h) = 2 /\ h[1] = id /\ h[2] = n
  BY <1>3
<1> HIDE DEF h
<1>6. (h \o s)[1] = id /\ (h \o s)[2] = n
  <2>1. \A i \in 1..Len(h) : (h \o s)[i] = h[i]
    BY <1>5, Joined
  <2>2. 1 \in 1..Len(h) /\ 2 \in 1..Len(h)
    BY <1>5
  <2> QED BY <1>5, <2>1, <2>2
<1>7. \A i \in 1..Len(s) : (h \o s)[2 + i] = s[i]
  <2>1. \A i \in 1..Len(s) : (h \o s)[Len(h) + i] = s[i]
    <3>1. h \in Seq(Octet) /\ s \in Seq(Octet)
      BY <1>5
    <3> QED BY ONLY <3>1, Joined
  <2> QED BY <1>5, <2>1
<1>8. \A i \in 1..Len(s) : 2 + i = i + 2
  OBVIOUS
<1> QED BY <1>1, <1>2, <1>4, <1>6, <1>7, <1>8 DEF n

(* What is written of a subparameter that has a name is found again.        *)
LEMMA SubparameterFramed ==
  ASSUME client.kind = "message", BearerTyped(client.bd), NEW p \in DOMAIN client.bd, p # "other",
         Len(Octets(p)) <= TL!MAX_LEN
  PROVE  LET c == Octets(p)
         IN /\ c \in Seq(Octet) /\ Len(c) >= 2 /\ Len(c) = c[2] + 2 /\ Kind(c[1]) \in Known
            /\ Advance(Kind(c[1]), c[2]) = c[2]
<1>1. p \in Known /\ client.bd[p] \in Value[p]
  BY DEF BearerTyped, Subparameter
<1>2. Id[p] \in Octet
  BY <1>1, IdsAreOctets
<1>3. \E s \in Seq(Octet) : /\ Octets(p) = Chunk(Id[p], s)
                            /\ p \in AbsoluteTimes => Len(s) = 6
                            /\ p \in RelativeTimes => Len(s) = 1
  <2>1. CASE p = "user_data"
    <3>1. WriteUserData(client.bd) \in Seq(Octet)
      BY <2>1, UserDataWritten
    <3>2. Octets(p) = Chunk(Id[p], WriteUserData(client.bd))
      BY <2>1 DEF Octets
    <3>3. p \notin AbsoluteTimes /\ p \notin RelativeTimes
      BY <2>1 DEF AbsoluteTimes, RelativeTimes
    <3> QED BY <3>1, <3>2, <3>3
  <2>2. CASE p # "user_data"
    <3>1. p \in Encoded
      BY <1>1, <2>2 DEF Encoded
    <3> DEFINE f == Write(p, client.bd[p])
               s == Pack(f)
    <3>2. /\ f \in Seq(Fields)
          /\ p \in AbsoluteTimes => Len(f) = 6 /\ \A k \in 1..6 : f[k][2] = 8
          /\ p \in RelativeTimes => Len(f) = 1 /\ f[1][2] = 8
      BY <1>1, <3>1, BearerFields, Zenon
    <3>3. Octets(p) = Chunk(Id[p], s)
      BY <2>2 DEF Octets
    <3> HIDE DEF f
    <3>4. s \in Seq(Octet) /\ ((\A k \in 1..Len(f) : f[k][2] = 8) => Len(s) = Len(f))
      BY <3>2, Packs, Zenon
    <3> HIDE DEF s
    <3>5. p \in AbsoluteTimes => Len(s) = 6
      BY <3>2, <3>4, Zenon
    <3>6. p \in RelativeTimes => Len(s) = 1
      <4>1. \A k \in 1..1 : k = 1
        OBVIOUS
      <4> QED BY <3>2, <3>4, <4>1, Zenon
    <3> QED BY <3>3, <3>4, <3>5, <3>6
  <2> QED BY <2>1, <2>2
<1>4. PICK s \in Seq(Octet) : /\ Octets(p) = Chunk(Id[p], s)
                              /\ p \in AbsoluteTimes => Len(s) = 6
                              /\ p \in RelativeTimes => Len(s) = 1
  BY <1>3
<1> DEFINE c == Octets(p)
<1>5. c \in Seq(Octet) /\ Len(c) = Len(s) + 2 /\ c[1] = Id[p] /\ (Len(s) <= TL!MAX_LEN => c[2] = Len(s))
  <2> DEFINE id == Id[p]
             e == Chunk(id, s)
  <2>1. id \in Octet
    BY <1>2
  <2> HIDE DEF id
  <2>2. e \in Seq(Octet) /\ Len(e) = Len(s) + 2 /\ e[1] = id /\ (Len(s) <= TL!MAX_LEN => e[2] = Len(s))
    BY ONLY <2>1, <1>4, ChunkHead
  <2>3. c = e
    BY <1>4 DEF id
  <2> HIDE DEF e, c
  <2> QED BY <2>2, <2>3 DEF id
<1>6. Len(s) \in Nat
  OBVIOUS
<1>7. c[2] = Len(s) /\ Len(c) >= 2
  BY <1>5, <1>6 DEF TL!MAX_LEN
<1>8. Kind(c[1]) = p
  BY <1>1, <1>5, KindsOfIds
<1>9. Advance(p, Len(s)) = Len(s)
  BY <1>4 DEF Advance
<1> HIDE DEF c
<1> QED BY <1>1, <1>5, <1>6, <1>7, <1>8, <1>9 DEF c

-----------------------------------------------------------------------------
(* The octets d are subparameters that have names, followed by the octets o. *)
Carries(d, o) ==
  \E h \in Seq(Octet) : \E B : d = h \o o /\ Framed(h, B) /\ Named(h, B) /\ 0 \in B

(* The octets d are parameters of the transport layer with the bearer data b *)
(* behind them, if there is any.                                             *)
Enclosed(b) == IF b = <<>> THEN <<>> ELSE Chunk(8, b)
Encloses(d, b) ==
  \E h \in Seq(Octet) : \E B : d = h \o Enclosed(b) /\ Framed(h, B) /\ Layered(h, B) /\ 1 \in B

(* Nothing joined is nothing more.                                           *)
LEMMA NothingBehind == \A s \in Seq(Octet) : s \o <<>> = s
OBVIOUS

(* No octets carry none.                                                     *)
LEMMA NothingCarried == Carries(<<>>, <<>>)
<1>1. <<>> \in Seq(Octet) /\ Len(<<>>) = 0 /\ <<>> \o <<>> = <<>>
  OBVIOUS
<1>2. Framed(<<>>, {0}) /\ Named(<<>>, {0})
  BY <1>1 DEF Framed, Named
<1> QED BY <1>1, <1>2 DEF Carries

(* One more with a name, and then those without.                             *)
LEMMA CarriesMore ==
  ASSUME NEW d \in Seq(Octet), Carries(d, <<>>), NEW c \in Seq(Octet), Len(c) >= 2, Len(c) = c[2] + 2,
         Kind(c[1]) \in Known, Advance(Kind(c[1]), c[2]) = c[2]
  PROVE  Carries(d \o c, <<>>)
<1>h. PICK h \in Seq(Octet) : \E B :
       d = h \o <<>> /\ Framed(h, B) /\ Named(h, B) /\ 0 \in B
  BY DEF Carries
<1>1. PICK B :
       d = h \o <<>> /\ Framed(h, B) /\ Named(h, B) /\ 0 \in B
  BY <1>h
<1>2. h = d
  BY <1>1, NothingBehind
<1>3. Framed(d, B) /\ Named(d, B)
  BY <1>1, <1>2
<1> DEFINE e == d \o c
           A == B \union {Len(e)}
<1>4. Framed(e, A) /\ Named(e, A)
  BY <1>3, FramedMore
<1>5. e \in Seq(Octet) /\ e = e \o <<>> /\ 0 \in A
  BY <1>1
<1> HIDE DEF e, A
<1>6. Carries(e, <<>>)
  BY <1>4, <1>5 DEF Carries
<1> QED BY <1>6 DEF e

LEMMA CarriesTail ==
  ASSUME NEW d \in Seq(Octet), Carries(d, <<>>), NEW o
  PROVE  Carries(d \o o, o)
<1>h. PICK h \in Seq(Octet) : \E B :
       d = h \o <<>> /\ Framed(h, B) /\ Named(h, B) /\ 0 \in B
  BY DEF Carries
<1>1. PICK B :
       d = h \o <<>> /\ Framed(h, B) /\ Named(h, B) /\ 0 \in B
  BY <1>h
<1>2. h = d
  BY <1>1, NothingBehind
<1> QED BY <1>1, <1>2 DEF Carries

(* The type of a message is in front of its parameters.                      *)
LEMMA OneOctetEncloses == \A t \in Octet : Encloses(<<t>>, <<>>)
<1> SUFFICES ASSUME NEW t \in Octet PROVE Encloses(<<t>>, <<>>)
  OBVIOUS
<1>1. <<t>> \in Seq(Octet) /\ Len(<<t>>) = 1 /\ <<t>> \o <<>> = <<t>>
  OBVIOUS
<1>2. Framed(<<t>>, {1}) /\ Layered(<<t>>, {1})
  BY <1>1 DEF Framed, Layered
<1>3. Enclosed(<<>>) = <<>>
  BY DEF Enclosed
<1> QED BY <1>1, <1>2, <1>3 DEF Encloses

(* One more parameter, and then the bearer data.                             *)
LEMMA EnclosesMore ==
  ASSUME NEW d \in Seq(Octet), Encloses(d, <<>>), NEW c \in Seq(Octet), Len(c) >= 2, Len(c) = c[2] + 2,
         c[1] \in 0..7
  PROVE  Encloses(d \o c, <<>>)
<1>0. Enclosed(<<>>) = <<>>
  BY DEF Enclosed
<1>h. PICK h \in Seq(Octet) : \E B :
       d = h \o <<>> /\ Framed(h, B) /\ Layered(h, B) /\ 1 \in B
  BY <1>0 DEF Encloses
<1>1. PICK B :
       d = h \o <<>> /\ Framed(h, B) /\ Layered(h, B) /\ 1 \in B
  BY <1>h
<1>2. h = d
  BY <1>1, NothingBehind
<1>3. Framed(d, B) /\ Layered(d, B)
  BY <1>1, <1>2
<1> DEFINE e == d \o c
           A == B \union {Len(e)}
<1>4. Framed(e, A) /\ Layered(e, A)
  BY <1>3, FramedMore
<1>5. e \in Seq(Octet) /\ e = e \o <<>> /\ 1 \in A
  BY <1>1
<1> HIDE DEF e, A
<1>6. Encloses(e, <<>>)
  BY <1>0, <1>4, <1>5 DEF Encloses
<1> QED BY <1>6 DEF e

LEMMA EnclosesBearer ==
  ASSUME NEW d \in Seq(Octet), Encloses(d, <<>>), NEW b, b # <<>>
  PROVE  Encloses(d \o Chunk(8, b), b)
<1>0. Enclosed(<<>>) = <<>> /\ Enclosed(b) = Chunk(8, b)
  BY DEF Enclosed
<1>h. PICK h \in Seq(Octet) : \E B :
       d = h \o <<>> /\ Framed(h, B) /\ Layered(h, B) /\ 1 \in B
  BY <1>0 DEF Encloses
<1>1. PICK B :
       d = h \o <<>> /\ Framed(h, B) /\ Layered(h, B) /\ 1 \in B
  BY <1>h
<1>2. h = d
  BY <1>1, NothingBehind
<1> QED BY <1>0, <1>1, <1>2 DEF Encloses

-----------------------------------------------------------------------------
(* ---- the journey of a client's message ---------------------------------*)
Oth == OtherOf(client.bd)

WrittenBearer ==
  at = "encode_bearer" =>
    /\ last \in 0..23
    /\ Len(bearer) <= TL!MAX_LEN => Carries(bearer, IF last = 23 THEN Oth ELSE <<>>)

(* From its end on, sender and receiver have the same bearer data.          *)
Carried == {"encode_transport", "encode_parameters", "air", "read_transport", "begin_bearer",
            "read_bearer", "received"}
BearerReady == at \in Carried => Carries(bearer, Oth)

WrittenLayer ==
  /\ at = "encode_transport" => last = 0
  /\ at = "encode_parameters" =>
       /\ last \in 0..7 /\ format = "cdma"
       /\ Len(ota) <= TL!MAX_LEN => Encloses(ota, IF last = 7 THEN bearer ELSE <<>>)
  /\ at = "air" => format = "cdma" /\ Len(ota) <= TL!TL_MAX_LEN /\ Encloses(ota, bearer)

(* The decoder stands where a parameter begins and has not met the bearer   *)
(* data, or is behind it and has it.                                        *)
Passing(h, B) ==
  \/ pos \in B /\ "bearer" \notin DOMAIN tl.parts
  \/ pos = Len(ota) /\ bearer # <<>> /\ "bearer" \in DOMAIN tl.parts /\ tl.parts.bearer = bearer
LayerRead ==
  /\ at # "read_bare"
  /\ at = "read_transport" =>
       /\ Len(ota) <= TL!TL_MAX_LEN
       /\ \E h \in Seq(Octet) : \E B :
            /\ ota = h \o Enclosed(bearer) /\ Framed(h, B) /\ Layered(h, B)
            /\ Passing(h, B)

(* It stands among the subparameters with names and has counted nothing, or *)
(* in front of one of those without and has counted all before it.          *)
Counting(h, B) ==
  \/ pos \in B /\ desired = 0 /\ others = <<>>
  \/ \E w : \E j \in 0..Len(Oth) :
       /\ Walks(w, Oth) /\ w[Len(Oth)] = Len(Oth)
       /\ pos = Len(h) + w[j] /\ desired = w[j] /\ w[j] <= Len(Oth)
       /\ desired <= room => others = SubSeq(Oth, 1, w[j])
OthersRead ==
  Tiled(Oth) =>
    /\ at = "read_bearer" =>
         \E h \in Seq(Octet) : \E B :
           bearer = h \o Oth /\ Framed(h, B) /\ Named(h, B) /\ Counting(h, B)
    /\ at = "received" => desired = Len(Oth) /\ (desired <= room => others = Oth)

Travels == WrittenBearer /\ BearerReady /\ WrittenLayer /\ LayerRead /\ OthersRead
Journey ==
  /\ at = "idle" => client = NoMessage
  /\ client # NoMessage => client \in Messages
  /\ client # NoMessage /\ Wrapped(client) => Travels

(* What is known of the message.                                            *)
LEMMA ClientsMessage ==
  ASSUME client \in Messages, Wrapped(client)
  PROVE  /\ client.kind = "message" /\ TL!ClientTyped(client.tl) /\ BearerTyped(client.bd)
         /\ ~TL!IsBare(client.tl.teleservice) /\ Oth \in Seq(Octet)
<1>1. client.kind = "message" /\ TL!ClientTyped(client.tl) /\ BearerTyped(client.bd)
      /\ ~TL!IsBare(client.tl.teleservice)
  BY Kinds DEF Wrapped
<1>2. Oth \in Seq(Octet)
  <2>1. CASE "other" \in DOMAIN client.bd
    <3>1. client.bd.other \in Value.other
      BY <1>1, <2>1 DEF BearerTyped
    <3> QED BY <2>1, <3>1 DEF Oth, OtherOf, Value
  <2>2. CASE "other" \notin DOMAIN client.bd
    <3>1. Oth = <<>>
      BY <2>2 DEF Oth, OtherOf
    <3> QED BY <3>1
  <2> QED BY <2>1, <2>2
<1> QED BY <1>1, <1>2

(* A client's bearer data goes behind the transport layer when there is any. *)
LEMMA OutgoingParts ==
  ASSUME client.kind = "message"
  PROVE  /\ "teleservice" \in DOMAIN Outgoing.parts /\ Outgoing.parts.teleservice = client.tl.teleservice
         /\ bearer # <<>> => "bearer" \in DOMAIN Outgoing.parts
         /\ "bearer" \in DOMAIN Outgoing.parts /\ TL!ClientTyped(client.tl) =>
              bearer # <<>> /\ Outgoing.parts.bearer = bearer
<1> DEFINE c == client.tl
           P == {"teleservice", "address"} \union DOMAIN c.optional
                \union (IF bearer # <<>> THEN {"bearer"} ELSE {})
<1>1. Outgoing = TL!FromClient(c, bearer)
  BY DEF Outgoing
<1> HIDE DEF c
<1>2. Outgoing.parts = [p \in P |-> CASE p \in {"teleservice", "address"} -> c[p]
                                      [] p = "bearer" -> bearer
                                      [] OTHER -> c.optional[p]]
  BY <1>1 DEF TL!FromClient
<1>3. Outgoing.parts.teleservice = c.teleservice /\ "teleservice" \in DOMAIN Outgoing.parts
  BY <1>2
<1>4. bearer # <<>> => "bearer" \in DOMAIN Outgoing.parts
  BY <1>2
<1>5. ASSUME "bearer" \in DOMAIN Outgoing.parts, TL!ClientTyped(c)
      PROVE  bearer # <<>> /\ Outgoing.parts.bearer = bearer
  <2>1. "bearer" \notin DOMAIN c.optional
    BY <1>5 DEF TL!ClientTyped, TL!Optional
  <2>2. bearer # <<>>
    BY <1>2, <1>5, <2>1
  <2> QED BY <1>2, <2>2
<1> QED BY <1>3, <1>4, <1>5 DEF c

-----------------------------------------------------------------------------
(* The phases of sending and receiving lie apart: a step has to do with     *)
(* what it leads to only.                                                   *)
LEMMA SendTravels ==
  ASSUME NEW m \in Messages, Send(m), Wrapped(m)
  PROVE  Travels'
<1>1. at' = "encode_bearer" /\ last' = 0 /\ bearer' = <<>>
  BY DEF Send, Wrapped
<1>2. WrittenBearer'
  BY <1>1, NothingCarried DEF WrittenBearer
<1> QED BY <1>1, <1>2 DEF Travels, BearerReady, Carried, WrittenLayer, LayerRead, OthersRead

(* The subparameters that have names are written before those without.       *)
LEMMA SubparameterTravels ==
  ASSUME Travels, bearer \in Seq(Octet), client \in Messages, Wrapped(client), EncodeSubparameter
  PROVE  Travels'
<1> DEFINE S == Pending(EncodeOrder, ToWrite)
           k == Min(S)
           p == EncodeOrder[k]
           c == Octets(p)
<1>1. /\ at = "encode_bearer" /\ S # {} /\ UNCHANGED client /\ last' = k
      /\ \/ at' = "not_sent"
         \/ at' = at /\ bearer' = bearer \o c
  BY DEF EncodeSubparameter
<1>2. client.kind = "message" /\ BearerTyped(client.bd) /\ Oth \in Seq(Octet)
  BY ClientsMessage
<1>3. DOMAIN EncodeOrder = 1..23 /\ EncodeOrder[23] = "other" /\ \A i \in 1..22 : EncodeOrder[i] # "other"
  BY DEF EncodeOrder
<1>4. k \in S
  <2>1. S \subseteq Nat
    BY <1>3 DEF Pending
  <2> HIDE DEF S
  <2> QED BY <1>1, <2>1, LeastIsThere
<1>5. k \in 1..23 /\ k > last /\ p \in DOMAIN client.bd
  BY <1>3, <1>4 DEF Pending, ToWrite
<1>6. last \in 0..23 /\ (Len(bearer) <= TL!MAX_LEN => Carries(bearer, IF last = 23 THEN Oth ELSE <<>>))
  BY <1>1 DEF Travels, WrittenBearer
<1>7. last # 23
  BY <1>5, <1>6
<1>8. Oth' = Oth
  BY <1>1 DEF Oth
<1>9. c \in Seq(Octet)
  <2> HIDE DEF p
  <2> QED BY <1>2, <1>5, SubparameterWritten
<1>10. p = "other" <=> k = 23
  BY <1>3, <1>5
<1>11. CASE at' = at
  <2>1. bearer' = bearer \o c
    BY <1>1, <1>11
  <2>2. SUFFICES ASSUME Len(bearer') <= TL!MAX_LEN
                 PROVE  Carries(bearer', IF k = 23 THEN Oth ELSE <<>>)
    BY <1>1, <1>5, <1>8, <1>11 DEF Travels, WrittenBearer, BearerReady, Carried, WrittenLayer, LayerRead, OthersRead
  <2> HIDE DEF k, p, c, S
  <2>3. Len(bearer) \in Nat /\ Len(c) \in Nat /\ Len(bearer') = Len(bearer) + Len(c) /\ TL!MAX_LEN = 255
    BY <1>9, <2>1, Joined DEF TL!MAX_LEN
  <2>4. Len(bearer) <= TL!MAX_LEN /\ Len(c) <= TL!MAX_LEN
    BY <2>2, <2>3
  <2>5. Carries(bearer, <<>>)
    BY <1>6, <1>7, <2>4
  <2>6. CASE p = "other"
    <3>1. c = Oth
      BY <1>5, <2>6 DEF c, Octets, Oth, OtherOf
    <3>2. Carries(bearer \o Oth, Oth)
      BY <2>5, CarriesTail
    <3> QED BY <1>10, <2>1, <2>6, <3>1, <3>2
  <2>7. CASE p # "other"
    <3>1. Len(c) >= 2 /\ Len(c) = c[2] + 2 /\ Kind(c[1]) \in Known /\ Advance(Kind(c[1]), c[2]) = c[2]
      BY <1>2, <1>5, <2>4, <2>7, SubparameterFramed DEF c
    <3>2. Carries(bearer \o c, <<>>)
      BY <1>9, <2>5, <3>1, CarriesMore
    <3> QED BY <1>10, <2>1, <2>7, <3>2
  <2> QED BY <2>6, <2>7
<1>12. CASE at' = "not_sent"
  BY <1>12 DEF Travels, WrittenBearer, BearerReady, Carried, WrittenLayer, LayerRead, OthersRead
<1> QED BY <1>1, <1>11, <1>12

(* At the end the ones without a name are there, if the client has any.      *)
LEMMA EndOfBearerTravels ==
  ASSUME Travels, bearer \in Seq(Octet), client \in Messages, Wrapped(client), EndEncodeBearer
  PROVE  Travels'
<1>1. /\ at = "encode_bearer" /\ Pending(EncodeOrder, ToWrite) = {} /\ UNCHANGED <<client, bearer>>
      /\ last' = 0 /\ at' \in {"encode_transport", "not_sent"}
      /\ at' = "encode_transport" => Len(bearer) <= TL!MAX_LEN
  BY DEF EndEncodeBearer
<1>2. last \in 0..23 /\ (Len(bearer) <= TL!MAX_LEN => Carries(bearer, IF last = 23 THEN Oth ELSE <<>>))
  BY <1>1 DEF Travels, WrittenBearer
<1>3. last # 23 => Oth = <<>>
  <2> SUFFICES ASSUME last # 23, "other" \in DOMAIN client.bd PROVE FALSE
    BY DEF Oth, OtherOf
  <2>1. DOMAIN EncodeOrder = 1..23 /\ EncodeOrder[23] = "other"
    BY DEF EncodeOrder
  <2>2. "other" \notin InPayload(client.bd)
    BY DEF InPayload, CLI_ORDER, VOICE_MAIL
  <2>3. 23 \in Pending(EncodeOrder, ToWrite)
    BY <1>2, <2>1, <2>2 DEF Pending, ToWrite
  <2> QED BY <1>1, <2>3
<1>4. Oth' = Oth
  BY <1>1 DEF Oth
<1>5. at' = "encode_transport" => Carries(bearer, Oth)
  BY <1>1, <1>2, <1>3
<1> QED BY <1>1, <1>4, <1>5 DEF Travels, WrittenBearer, BearerReady, Carried, WrittenLayer, LayerRead, OthersRead

(* A message that is not bare gets a transport layer.                        *)
LEMMA BeginTransportTravels ==
  ASSUME Travels, bearer \in Seq(Octet), client \in Messages, Wrapped(client), BeginTransport
  PROVE  Travels'
<1>1. client.kind = "message" /\ ~TL!IsBare(client.tl.teleservice)
  BY ClientsMessage
<1>2. ~IsBareMessage
  BY <1>1, OutgoingParts DEF IsBareMessage
<1>3. /\ at = "encode_transport" /\ UNCHANGED <<client, bearer, last>>
      /\ \/ at' = "not_sent"
         \/ at' = "encode_parameters" /\ ota' = <<Outgoing.type>> /\ format' = "cdma"
  BY <1>2 DEF BeginTransport
<1>4. last = 0 /\ Carries(bearer, Oth)
  BY <1>3 DEF Travels, WrittenLayer, BearerReady, Carried
<1>5. Oth' = Oth
  BY <1>3 DEF Oth
<1>6. CASE at' = "not_sent"
  BY <1>6 DEF Travels, WrittenBearer, BearerReady, Carried, WrittenLayer, LayerRead, OthersRead
<1>7. CASE at' = "encode_parameters"
  <2>1. Outgoing.type \in Octet
    <3>1. Outgoing.type \in 0..2
      BY OutgoingTyped
    <3> QED BY <3>1 DEF Octet
  <2>2. Encloses(ota', <<>>)
    <3>1. Encloses(<<Outgoing.type>>, <<>>)
      BY <2>1, OneOctetEncloses, Zenon
    <3> QED BY <1>3, <1>7, <3>1
  <2>3. WrittenLayer'
    BY <1>3, <1>4, <1>7, <2>2 DEF WrittenLayer
  <2> QED BY <1>3, <1>4, <1>5, <1>7, <2>3 DEF Travels, WrittenBearer, BearerReady, Carried, LayerRead, OthersRead
<1> QED BY <1>3, <1>6, <1>7

(* Its parameters go in front of the bearer data.                            *)
LEMMA ParameterTravels ==
  ASSUME Travels, bearer \in Seq(Octet), ota \in Seq(Octet), client \in Messages, Wrapped(client), EncodeParameter
  PROVE  Travels'
<1> DEFINE k == Min(Unsent)
           p == TransportOrder[k]
           v == Outgoing.parts[p]
           id == TL!IdOf(p, Outgoing.is_mo)
           s == ParameterOctets(p, v)
           c == Chunk(id, s)
<1>1. /\ at = "encode_parameters" /\ Unsent # {} /\ UNCHANGED <<client, bearer, format>>
      /\ \/ at' = "not_sent"
         \/ at' = at /\ TL!Writable(p, v) /\ ota' = ota \o c /\ last' = k
  BY DEF EncodeParameter
<1>2. client.kind = "message" /\ TL!ClientTyped(client.tl)
  BY ClientsMessage
<1>3. DOMAIN TransportOrder = 1..7 /\ TransportOrder[7] = "bearer" /\ \A i \in 1..6 : TransportOrder[i] # "bearer"
  BY DEF TransportOrder, TL!EncodeOrder
<1>4. k \in Unsent
  <2>1. Unsent \subseteq Nat
    BY <1>3 DEF Unsent, Pending
  <2> QED BY <1>1, <2>1, LeastIsThere
<1>5. k \in 1..7 /\ k > last /\ p \in DOMAIN Outgoing.parts
  BY <1>3, <1>4 DEF Unsent, Pending
<1>6. /\ last \in 0..7 /\ format = "cdma" /\ Carries(bearer, Oth)
      /\ Len(ota) <= TL!MAX_LEN => Encloses(ota, IF last = 7 THEN bearer ELSE <<>>)
  BY <1>1 DEF Travels, WrittenLayer, BearerReady, Carried
<1>7. last # 7
  BY <1>5, <1>6
<1>8. Oth' = Oth
  BY <1>1 DEF Oth
<1>9. p = "bearer" <=> k = 7
  BY <1>3, <1>5
<1>10. CASE at' = "not_sent"
  BY <1>10 DEF Travels, WrittenBearer, BearerReady, Carried, WrittenLayer, LayerRead, OthersRead
<1>11. CASE at' = at
  <2>1. ota' = ota \o c /\ last' = k /\ TL!Writable(p, v)
    BY <1>1, <1>11
  <2>2. SUFFICES ASSUME Len(ota') <= TL!MAX_LEN
                 PROVE  Encloses(ota', IF k = 7 THEN bearer ELSE <<>>)
    <3> HIDE DEF k, c
    <3> QED BY <1>1, <1>5, <1>6, <1>8, <1>11, <2>1
            DEF Travels, WrittenBearer, BearerReady, Carried, WrittenLayer, LayerRead, OthersRead
  <2>3. Outgoing.is_mo \in BOOLEAN /\ p \in TL!Parameter /\ v \in TL!Value[p]
    BY <1>5, OutgoingTyped DEF TL!PartsTyped
  <2>4. c \in Seq(Octet) /\ id \in Octet
    <3> HIDE DEF p, v
    <3>1. c \in Seq(Octet)
      BY <2>3, ParameterWritten, Zenon
    <3>2. id \in Octet
      BY <2>3, IdsAreOctets, Zenon
    <3> QED BY <3>1, <3>2
  <2>5. s \in Seq(Octet)
    <3> HIDE DEF p, v
    <3> QED BY <2>3, ParameterOctetsTyped, Zenon
  <2>6. /\ Len(c) = Len(s) + 2 /\ c[1] = id /\ (Len(s) <= TL!MAX_LEN => c[2] = Len(s))
    <3> HIDE DEF id, s
    <3> QED BY <2>4, <2>5, ChunkHead
  <2>7. CASE p = "bearer"
    <3>1. bearer # <<>> /\ v = bearer
      BY <1>2, <1>5, <2>7, OutgoingParts
    <3>2. s = bearer /\ id = 8
      <4>1. id = 8
        BY <2>3, <2>7, LayerIds, Zenon
      <4>2. s = v
        BY <2>7 DEF ParameterOctets
      <4> QED BY <3>1, <4>1, <4>2
    <3>3. c = Chunk(8, bearer)
      BY <3>2
    <3> HIDE DEF c, k, p
    <3>4. Len(ota) \in Nat /\ Len(c) \in Nat /\ Len(ota') = Len(ota) + Len(c)
      BY <2>1, <2>4, Joined
    <3>5. Len(ota) <= TL!MAX_LEN
      BY <2>2, <3>4 DEF TL!MAX_LEN
    <3>6. Encloses(ota, <<>>)
      BY <1>6, <1>7, <3>5
    <3>7. Encloses(ota \o Chunk(8, bearer), bearer)
      BY <3>1, <3>6, EnclosesBearer
    <3> QED BY <1>9, <2>1, <2>7, <3>3, <3>7
  <2>8. CASE p # "bearer"
    <3>1. id \in 0..7
      BY <2>3, <2>8, LayerIds, Zenon
    <3> HIDE DEF c, k, p, s, id
    <3>2. /\ Len(ota) \in Nat /\ Len(c) \in Nat /\ Len(ota') = Len(ota) + Len(c) /\ Len(s) \in Nat
          /\ TL!MAX_LEN = 255
      BY <2>1, <2>4, <2>5, Joined DEF TL!MAX_LEN
    <3>3. Len(ota) <= TL!MAX_LEN /\ Len(s) <= TL!MAX_LEN
      BY <2>2, <2>6, <3>2
    <3>4. Encloses(ota, <<>>)
      BY <1>6, <1>7, <3>3
    <3>5. Len(c) >= 2 /\ Len(c) = c[2] + 2 /\ c[1] \in 0..7
      BY <2>6, <3>1, <3>2, <3>3
    <3>6. Encloses(ota \o c, <<>>)
      BY <2>4, <3>4, <3>5, EnclosesMore
    <3> QED BY <1>9, <2>1, <2>8, <3>6
  <2> QED BY <2>7, <2>8
<1> QED BY <1>1, <1>10, <1>11

(* At the end the bearer data is there, if there is any.                     *)
LEMMA EndOfLayerTravels ==
  ASSUME Travels, ota \in Seq(Octet), client \in Messages, Wrapped(client), EndTransport
  PROVE  Travels'
<1>1. /\ at = "encode_parameters" /\ Unsent = {} /\ UNCHANGED <<client, bearer, format, ota>>
      /\ at' \in {"air", "not_sent"} /\ (at' = "air" => Len(ota) <= TL!TL_MAX_LEN)
  BY DEF EndTransport
<1>2. /\ last \in 0..7 /\ format = "cdma" /\ Carries(bearer, Oth)
      /\ Len(ota) <= TL!MAX_LEN => Encloses(ota, IF last = 7 THEN bearer ELSE <<>>)
  BY <1>1 DEF Travels, WrittenLayer, BearerReady, Carried
<1>3. last # 7 => bearer = <<>>
  <2> SUFFICES ASSUME last # 7, bearer # <<>> PROVE FALSE
    OBVIOUS
  <2>1. DOMAIN TransportOrder = 1..7 /\ TransportOrder[7] = "bearer"
    BY DEF TransportOrder, TL!EncodeOrder
  <2>2. "bearer" \in DOMAIN Outgoing.parts
    BY ClientsMessage, OutgoingParts
  <2>3. 7 \in Unsent
    BY <1>2, <2>1, <2>2 DEF Unsent, Pending
  <2> QED BY <1>1, <2>3
<1>4. CASE at' = "not_sent"
  BY <1>4 DEF Travels, WrittenBearer, BearerReady, Carried, WrittenLayer, LayerRead, OthersRead
<1>5. CASE at' = "air"
  <2>1. Len(ota) <= TL!MAX_LEN
    <3>1. Len(ota) <= 246
      BY <1>1, <1>5 DEF TL!TL_MAX_LEN
    <3> QED BY <3>1 DEF TL!MAX_LEN
  <2>2. Encloses(ota, bearer)
    BY <1>2, <1>3, <2>1
  <2>3. Oth' = Oth
    BY <1>1 DEF Oth
  <2> QED BY <1>1, <1>2, <1>5, <2>2, <2>3
          DEF Travels, WrittenBearer, BearerReady, Carried, WrittenLayer, LayerRead, OthersRead
<1> QED BY <1>1, <1>4, <1>5

-----------------------------------------------------------------------------
(* It is received as it was sent, behind the octet of its type.             *)
LEMMA BeginReceiveTravels ==
  ASSUME Travels, bearer \in Seq(Octet), BeginReceive
  PROVE  Travels'
<1>1. at = "air" /\ UNCHANGED <<client, ota>>
  BY DEF BeginReceive, sending
<1>2. /\ Carries(bearer, Oth) /\ format = "cdma" /\ Len(ota) <= TL!TL_MAX_LEN /\ Encloses(ota, bearer)
  BY <1>1 DEF Travels, BearerReady, Carried, WrittenLayer
<1>3. format \notin BareFormat
  BY <1>2 DEF BareFormat, TL!Bare
<1>4. Oth' = Oth
  BY <1>1 DEF Oth
<1>5. /\ UNCHANGED bearer
      /\ \/ at' = "refused"
         \/ at' = "read_transport" /\ tl'.parts = <<>> /\ pos' = 1
  BY <1>3 DEF BeginReceive
<1>6. CASE at' = "refused"
  BY <1>6 DEF Travels, WrittenBearer, BearerReady, Carried, WrittenLayer, LayerRead, OthersRead
<1>7. CASE at' = "read_transport"
  <2>h. PICK h \in Seq(Octet) : \E B :
         ota = h \o Enclosed(bearer) /\ Framed(h, B) /\ Layered(h, B) /\ 1 \in B
    BY <1>2 DEF Encloses
  <2>1. PICK B :
         ota = h \o Enclosed(bearer) /\ Framed(h, B) /\ Layered(h, B) /\ 1 \in B
    BY <2>h
  <2>2. "bearer" \notin DOMAIN tl'.parts /\ pos' \in B
    BY <1>5, <1>7, <2>1
  <2>3. Passing(h, B)'
    BY <2>2 DEF Passing
  <2>4. LayerRead'
    BY <1>1, <1>2, <1>5, <1>7, <2>1, <2>3 DEF LayerRead
  <2> QED BY <1>2, <1>4, <1>5, <1>7, <2>4 DEF Travels, WrittenBearer, BearerReady, WrittenLayer, OthersRead
<1> QED BY <1>5, <1>6, <1>7

(* Where a parameter begins in front of the last place, another one does.   *)
LEMMA FramedNext ==
  ASSUME NEW h \in Seq(Octet), NEW B, Framed(h, B), NEW x \in B
  PROVE  /\ x \in Nat /\ x <= Len(h) /\ Len(h) \in Nat
         /\ x # Len(h) => /\ x + 1 \in 1..Len(h) /\ x + 2 \in 1..Len(h)
                          /\ h[x + 2] \in Nat /\ x + 2 + h[x + 2] \in B
<1>1. x \in Nat /\ Len(h) \in Nat
  BY DEF Framed
<1>2. ASSUME x # Len(h)
      PROVE  x + 2 <= Len(h) /\ x + 2 + h[x + 2] \in B /\ x + 1 \in 1..Len(h) /\ x + 2 \in 1..Len(h)
             /\ h[x + 2] \in Nat
  <2>1. x + 2 <= Len(h) /\ x + 2 + h[x + 2] \in B
    BY <1>2 DEF Framed
  <2>2. x + 1 \in 1..Len(h) /\ x + 2 \in 1..Len(h)
    BY <1>1, <2>1
  <2>3. h[x + 2] \in Nat
    BY <2>2, OctetIsInt
  <2> QED BY <2>1, <2>2, <2>3
<1>3. x <= Len(h)
  BY <1>1, <1>2
<1> QED BY <1>1, <1>2, <1>3

(* What the decoder does with the parameter in front of which it stands.    *)
LEMMA LayerStepTravels ==
  ASSUME Travels, bearer \in Seq(Octet), ota \in Seq(Octet), SkipParameter \/ TakeParameter
  PROVE  Travels'
<1> DEFINE p == TL!ParameterOf(IdAt(ota))
           v == TL!Read(p, ota, pos + 2, LengthAt(ota))
<1>1. /\ at = "read_transport" /\ at' = at /\ UNCHANGED <<client, ota, bearer, format>>
      /\ pos # Len(ota) /\ pos' = Behind(ota) /\ Whole(ota)
      /\ \/ ~Fresh(IdAt(ota)) /\ tl' = tl
         \/ tl'.parts = Put(tl.parts, p, v)
  BY DEF SkipParameter, TakeParameter, InTransport, sending
<1>2. Len(ota) <= TL!TL_MAX_LEN /\ Carries(bearer, Oth)
  BY <1>1 DEF Travels, LayerRead, BearerReady, Carried
<1>h. PICK h \in Seq(Octet) : \E B :
       /\ ota = h \o Enclosed(bearer) /\ Framed(h, B) /\ Layered(h, B)
       /\ Passing(h, B)
  BY <1>1 DEF Travels, LayerRead
<1>3. PICK B :
       /\ ota = h \o Enclosed(bearer) /\ Framed(h, B) /\ Layered(h, B)
       /\ Passing(h, B)
  BY <1>h
<1>4. pos \in B /\ "bearer" \notin DOMAIN tl.parts
  BY <1>1, <1>3 DEF Passing
<1>5. Oth' = Oth
  BY <1>1 DEF Oth
<1>6. Enclosed(bearer) \in Seq(Octet)
  <2>1. 8 \in Octet
    BY DEF Octet
  <2>2. Chunk(8, bearer) \in Seq(Octet)
    BY <2>1, ChunkTyped, Zenon
  <2>3. <<>> \in Seq(Octet)
    OBVIOUS
  <2> QED BY <2>2, <2>3 DEF Enclosed
<1>7. pos \in Nat /\ pos <= Len(h) /\ Len(h) \in Nat
  BY <1>3, <1>4, FramedNext
<1>8. SUFFICES Passing(h, B)'
  <2>1. LayerRead'
    BY <1>1, <1>2, <1>3, <1>8 DEF LayerRead
  <2> QED BY <1>1, <1>2, <1>5, <2>1 DEF Travels, WrittenBearer, BearerReady, Carried, WrittenLayer, OthersRead
<1>9. CASE pos # Len(h)
  <2>1. ota[pos + 1] = h[pos + 1] /\ ota[pos + 2] = h[pos + 2] /\ pos + 2 + h[pos + 2] \in B
    <3>1. pos + 1 \in 1..Len(h) /\ pos + 2 \in 1..Len(h) /\ pos + 2 + h[pos + 2] \in B
      BY <1>3, <1>4, <1>9, FramedNext
    <3>2. \A i \in 1..Len(h) : (h \o Enclosed(bearer))[i] = h[i]
      BY <1>6, Joined
    <3> QED BY <1>3, <3>1, <3>2
  <2>2. IdAt(ota) \in 0..7 /\ pos' \in B
    BY <1>1, <1>3, <1>4, <1>9, <2>1 DEF Layered, IdAt, Behind, LengthAt
  <2>3. p # "bearer"
    BY <2>2, LayerIds
  <2>4. "bearer" \notin DOMAIN tl'.parts
    <3>1. CASE tl' = tl
      BY <1>4, <3>1
    <3>2. CASE tl'.parts = Put(tl.parts, p, v)
      <4> HIDE DEF p, v
      <4>1. DOMAIN Put(tl.parts, p, v) = DOMAIN tl.parts \union {p}
        BY PutKeeps
      <4> QED BY <1>4, <2>3, <3>2, <4>1
    <3> QED BY <1>1, <3>1, <3>2
  <2> QED BY <2>2, <2>4 DEF Passing
<1>10. CASE pos = Len(h)
  <2> DEFINE n == Len(bearer)
             c == Chunk(8, bearer)
  <2>1. n \in Nat
    OBVIOUS
  <2>2. bearer # <<>> /\ ota = h \o c
    <3>1. bearer = <<>> => ota = h
      BY <1>3, NothingBehind DEF Enclosed
    <3> QED BY <1>1, <1>3, <1>10, <3>1 DEF Enclosed
  <2>3. /\ c \in Seq(Octet) /\ Len(c) = n + 2 /\ c[1] = 8 /\ (n <= TL!MAX_LEN => c[2] = n)
        /\ \A i \in 1..n : c[i + 2] = bearer[i]
    <3>1. 8 \in Octet
      BY DEF Octet
    <3> QED BY <3>1, ChunkHead
  <2> HIDE DEF c
  <2>4. Len(ota) = Len(h) + Len(c) /\ \A i \in 1..Len(c) : ota[Len(h) + i] = c[i]
    <3>1. h \in Seq(Octet) /\ c \in Seq(Octet)
      BY <2>3
    <3>2. Len(h \o c) = Len(h) + Len(c) /\ \A i \in 1..Len(c) : (h \o c)[Len(h) + i] = c[i]
      BY ONLY <3>1, Joined
    <3> QED BY <2>2, <3>2
  <2> HIDE DEF n
  <2>5. 1 \in 1..Len(c) /\ 2 \in 1..Len(c)
    BY <2>1, <2>3
  <2>6. n <= TL!MAX_LEN /\ Len(ota) = pos + 2 + n
    BY <1>2, <1>7, <1>10, <2>1, <2>3, <2>4 DEF TL!MAX_LEN, TL!TL_MAX_LEN
  <2>7. IdAt(ota) = 8 /\ LengthAt(ota) = n
    BY <1>10, <2>3, <2>4, <2>5, <2>6 DEF IdAt, LengthAt
  <2>8. p = "bearer"
    BY <2>7, LayerIds
  <2>9. tl'.parts = Put(tl.parts, p, v)
    BY <1>1, <1>4, <2>7, <2>8 DEF Fresh, Identifier
  <2>10. v = SubSeq(ota, pos + 3, pos + 2 + n)
    <3>1. v = TL!ReadBearer(ota, pos + 2, n)
      BY <2>7, <2>8 DEF TL!Read
    <3>2. pos + 2 + n < TL!MAX_LEN
      BY <1>2, <1>7, <2>1, <2>6 DEF TL!MAX_LEN, TL!TL_MAX_LEN
    <3>3. pos + 2 + 1 = pos + 3
      BY <1>7
    <3> HIDE DEF v
    <3> QED BY <3>1, <3>2, <3>3 DEF TL!ReadBearer
  <2>11. v = bearer
    <3> HIDE DEF v
    <3> DEFINE q == SubSeq(ota, pos + 3, pos + 2 + n)
    <3>1. q \in Seq(Octet) /\ Len(q) = n /\ \A i \in 1..n : q[i] = ota[pos + 2 + i]
      BY <1>7, <2>1, <2>6
    <3>2. ASSUME NEW i \in 1..n PROVE ota[pos + 2 + i] = bearer[i]
      <4>1. i + 2 \in 1..Len(c) /\ pos + 2 + i = Len(h) + (i + 2)
        BY <1>7, <1>10, <2>1, <2>3
      <4> QED BY <2>3, <2>4, <4>1
    <3> HIDE DEF q
    <3>3. q = bearer
      BY <3>1, <3>2 DEF n
    <3> QED BY <2>10, <3>3 DEF q
  <2>12. pos' = Len(ota)
    BY <1>1, <2>6, <2>7 DEF Behind
  <2>13. "bearer" \in DOMAIN tl'.parts /\ tl'.parts.bearer = bearer
    <3> HIDE DEF p, v
    <3>1. DOMAIN Put(tl.parts, p, v) = DOMAIN tl.parts \union {p}
      BY PutKeeps, Zenon
    <3>2. Put(tl.parts, p, v)[p] = v
      BY PutKeeps
    <3> QED BY <3>2, <2>8, <2>9, <2>11, <3>1
  <2> QED BY <1>1, <2>2, <2>12, <2>13 DEF Passing
<1> QED BY <1>9, <1>10

(* The bearer data arrives as it was sent, octet for octet.                 *)
LEMMA BearerIsUnchanged ==
  ASSUME Travels, bearer \in Seq(Octet), EndReadTransport
  PROVE  bearer' = bearer
<1>1. /\ at = "read_transport" /\ pos = Len(ota)
      /\ bearer' = IF "bearer" \in DOMAIN tl.parts THEN tl.parts.bearer ELSE <<>>
  BY DEF EndReadTransport
<1>h. PICK h \in Seq(Octet) : \E B :
       /\ ota = h \o Enclosed(bearer) /\ Framed(h, B) /\ Layered(h, B)
       /\ Passing(h, B)
  BY <1>1 DEF Travels, LayerRead
<1>2. PICK B :
       /\ ota = h \o Enclosed(bearer) /\ Framed(h, B) /\ Layered(h, B)
       /\ Passing(h, B)
  BY <1>h
<1>3. CASE pos \in B /\ "bearer" \notin DOMAIN tl.parts
  <2> SUFFICES ASSUME bearer # <<>> PROVE FALSE
    BY <1>1, <1>3
  <2>1. pos <= Len(h) /\ Len(h) \in Nat /\ pos \in Nat
    BY <1>2, <1>3, FramedNext
  <2>2. Enclosed(bearer) \in Seq(Octet) /\ Len(Enclosed(bearer)) = Len(bearer) + 2
    <3>1. 8 \in Octet
      BY DEF Octet
    <3>2. Chunk(8, bearer) \in Seq(Octet) /\ Len(Chunk(8, bearer)) = Len(bearer) + 2
      BY <3>1, ChunkTyped, Zenon
    <3> QED BY <3>2 DEF Enclosed
  <2>3. Len(ota) = Len(h) + (Len(bearer) + 2) /\ Len(bearer) \in Nat
    <3> DEFINE o == Enclosed(bearer)
    <3>1. o \in Seq(Octet) /\ Len(o) = Len(bearer) + 2 /\ ota = h \o o /\ h \in Seq(Octet)
      BY <1>2, <2>2
    <3> HIDE DEF o
    <3>2. Len(h \o o) = Len(h) + Len(o)
      BY <3>1, Joined
    <3> QED BY <3>1, <3>2
  <2> QED BY <1>1, <2>1, <2>3
<1>4. CASE ~(pos \in B /\ "bearer" \notin DOMAIN tl.parts)
  BY <1>1, <1>2, <1>4 DEF Passing
<1> QED BY <1>3, <1>4

(* A refusal ends the journey, and the end of the layer hands over the       *)
(* bearer data.                                                              *)
LEMMA EndOfReadingTravels ==
  ASSUME Travels, bearer \in Seq(Octet), RefuseParameter \/ EndReadTransport \/ ReadBare
  PROVE  Travels'
<1>1. CASE RefuseParameter
  <2>1. at' = "refused"
    BY <1>1 DEF RefuseParameter
  <2> QED BY <2>1 DEF Travels, WrittenBearer, BearerReady, Carried, WrittenLayer, LayerRead, OthersRead
<1>2. CASE EndReadTransport
  <2>1. at = "read_transport" /\ at' \in {"refused", "acknowledged", "begin_bearer"} /\ UNCHANGED client
    BY <1>2 DEF EndReadTransport, sending
  <2>2. bearer' = bearer /\ Oth' = Oth
    BY <1>2, <2>1, BearerIsUnchanged DEF Oth
  <2> QED BY <2>1, <2>2 DEF Travels, WrittenBearer, BearerReady, Carried, WrittenLayer, LayerRead, OthersRead
<1>3. CASE ReadBare
  BY <1>3 DEF ReadBare, Travels, LayerRead
<1> QED BY <1>1, <1>2, <1>3

-----------------------------------------------------------------------------
(* Nothing is counted before the first.                                     *)
LEMMA BeginBearerTravels ==
  ASSUME Travels, bearer \in Seq(Octet), Oth \in Seq(Octet), BeginBearer
  PROVE  Travels'
<1>1. /\ at = "begin_bearer" /\ UNCHANGED <<client, bearer>>
      /\ pos' = 0 /\ others' = <<>> /\ desired' = 0
      /\ at' \in {"received", "refused", "read_bearer"}
      /\ at' = "received" => Len(bearer) = 0
  BY DEF BeginBearer, sending
<1>h. PICK h \in Seq(Octet) : \E B :
       bearer = h \o Oth /\ Framed(h, B) /\ Named(h, B) /\ 0 \in B
  BY <1>1 DEF Travels, BearerReady, Carried, Carries
<1>2. PICK B :
       bearer = h \o Oth /\ Framed(h, B) /\ Named(h, B) /\ 0 \in B
  BY <1>h
<1>3. Oth' = Oth
  BY <1>1 DEF Oth
<1>4. at' = "received" => Oth = <<>> /\ Len(Oth) = 0
  <2> SUFFICES ASSUME Len(bearer) = 0 PROVE Oth = <<>> /\ Len(Oth) = 0
    BY <1>1
  <2>1. Len(bearer) = Len(h) + Len(Oth) /\ Len(h) \in Nat /\ Len(Oth) \in Nat
    BY <1>2, Joined
  <2>2. Len(Oth) = 0
    <3> DEFINE l == Len(h)
               m == Len(Oth)
               n == Len(bearer)
    <3>1. n = 0 /\ n = l + m /\ l \in Nat /\ m \in Nat
      BY <2>1
    <3> HIDE DEF l, m, n
    <3>2. m = 0
      BY <3>1
    <3> QED BY <3>2 DEF m
  <2> QED BY <2>2
<1>5. Counting(h, B)'
  BY <1>1, <1>2 DEF Counting
<1>6. OthersRead'
  BY <1>1, <1>2, <1>3, <1>4, <1>5 DEF OthersRead
<1>7. Carries(bearer, Oth)
  BY <1>1 DEF Travels, BearerReady, Carried
<1> QED BY <1>1, <1>3, <1>6, <1>7 DEF Travels, WrittenBearer, BearerReady, WrittenLayer, LayerRead

(* Behind the subparameters with names the walk begins, and behind each one *)
(* of the others it goes on.                                                *)
LEMMA WalkGoesOn ==
  ASSUME NEW o \in Seq(Octet), NEW w, Walks(w, o), w[Len(o)] = Len(o),
         NEW j \in 0..Len(o), w[j] # Len(o)
  PROVE  /\ w[j] \in Nat /\ Moves(o, w[j]) /\ j + 1 \in 0..Len(o)
         /\ w[j + 1] = w[j] + 2 + o[w[j] + 2]
<1>1. Len(o) \in Nat /\ w \in [0..Len(o) -> Nat] /\ \A k \in 1..Len(o) : w[k] = Beyond(o, w[k - 1])
  BY DEF Walks
<1>2. Moves(o, w[j])
  BY <1>1, WalkStays
<1>3. j # Len(o)
  OBVIOUS
<1>4. j + 1 \in 0..Len(o) /\ j + 1 \in 1..Len(o) /\ (j + 1) - 1 = j
  BY <1>1, <1>3
<1>5. w[j + 1] = Beyond(o, w[j])
  BY <1>1, <1>4
<1> QED BY <1>1, <1>2, <1>4, <1>5 DEF Beyond

(* Those with names are passed, then the others are counted one by one.      *)
LEMMA SubparameterReadTravels ==
  ASSUME Travels, bearer \in Seq(Octet), Oth \in Seq(Octet), IInv, OctetArrays, DOMAIN got \subseteq Known,
         SkipSubparameter \/ TakeSubparameter \/ TakeOther
  PROVE  Travels'
<1>1. /\ at = "read_bearer" /\ at' = at /\ UNCHANGED <<client, bearer, room>>
      /\ pos # Len(bearer) /\ Whole(bearer)
  BY DEF SkipSubparameter, TakeSubparameter, TakeOther, InBearer, sending
<1>2. Oth' = Oth
  BY <1>1 DEF Oth
<1>3. Carries(bearer, Oth)
  BY <1>1 DEF Travels, BearerReady, Carried
<1> SUFFICES ASSUME Tiled(Oth) PROVE OthersRead'
  BY <1>1, <1>2, <1>3 DEF Travels, WrittenBearer, BearerReady, Carried, WrittenLayer, LayerRead, OthersRead
<1>h. PICK h \in Seq(Octet) : \E B :
       bearer = h \o Oth /\ Framed(h, B) /\ Named(h, B) /\ Counting(h, B)
  BY <1>1 DEF Travels, OthersRead
<1>4. PICK B :
       bearer = h \o Oth /\ Framed(h, B) /\ Named(h, B) /\ Counting(h, B)
  BY <1>h
<1> SUFFICES Counting(h, B)'
  BY <1>1, <1>2, <1>4 DEF OthersRead
<1>5. Len(bearer) = Len(h) + Len(Oth) /\ Len(h) \in Nat /\ Len(Oth) \in Nat
      /\ (\A i \in 1..Len(h) : bearer[i] = h[i]) /\ (\A i \in 1..Len(Oth) : bearer[Len(h) + i] = Oth[i])
  <2>1. h \in Seq(Octet) /\ Oth \in Seq(Octet)
    OBVIOUS
  <2> DEFINE o == Oth
  <2>2. o \in Seq(Octet)
    OBVIOUS
  <2> HIDE DEF o
  <2>3. Len(h \o o) = Len(h) + Len(o) /\ Len(h) \in Nat /\ Len(o) \in Nat
    BY <2>1, <2>2, Joined
  <2>4. (\A i \in 1..Len(h) : (h \o o)[i] = h[i]) /\ (\A i \in 1..Len(o) : (h \o o)[Len(h) + i] = o[i])
    BY ONLY <2>1, <2>2, Joined
  <2> QED BY <1>4, <2>3, <2>4 DEF o
<1>6. CASE pos \in B /\ desired = 0 /\ others = <<>> /\ pos # Len(h)
  <2>1. pos + 1 \in 1..Len(h) /\ pos + 2 \in 1..Len(h) /\ pos + 2 + h[pos + 2] \in B
    BY <1>4, <1>6, FramedNext
  <2>2. IdAt(bearer) = h[pos + 1] /\ LengthAt(bearer) = h[pos + 2]
    BY <1>5, <2>1 DEF IdAt, LengthAt
  <2>3. KindAt \in Known /\ Advance(KindAt, LengthAt(bearer)) = LengthAt(bearer)
    BY <1>4, <1>6, <2>2 DEF Named, KindAt
  <2>4. ~TakeOther
    BY <2>3, OtherIsUnknown DEF TakeOther
  <2>5. pos' = pos + 2 + LengthAt(bearer) /\ UNCHANGED <<desired, others>>
    <3>1. CASE SkipSubparameter
      BY <3>1 DEF SkipSubparameter, Behind
    <3>2. CASE TakeSubparameter
      BY <2>3, <3>2 DEF TakeSubparameter
    <3> QED BY <2>4, <3>1, <3>2
  <2> QED BY <1>6, <2>1, <2>2, <2>5 DEF Counting
<1>7. CASE ~(pos \in B /\ desired = 0 /\ others = <<>> /\ pos # Len(h))
  <2>1. \E w : \E j \in 0..Len(Oth) :
          /\ Walks(w, Oth) /\ w[Len(Oth)] = Len(Oth)
          /\ pos = Len(h) + w[j] /\ desired = w[j] /\ w[j] <= Len(Oth)
          /\ desired <= room => others = SubSeq(Oth, 1, w[j])
    <3>1. CASE pos \in B /\ desired = 0 /\ others = <<>>
      <4>1. pos = Len(h)
        BY <1>7, <3>1
      <4>2. PICK w : Walks(w, Oth) /\ w[Len(Oth)] = Len(Oth)
        BY TheWalk
      <4>3. w[0] = 0
        BY <4>2 DEF Walks
      <4>4. SubSeq(Oth, 1, 0) = <<>> /\ 0 \in 0..Len(Oth)
        BY <1>5
      <4>5. pos = Len(h) + w[0] /\ w[0] <= Len(Oth)
        BY <1>5, <4>1, <4>3
      <4> QED BY <3>1, <4>2, <4>3, <4>4, <4>5
    <3> QED BY <1>4, <3>1 DEF Counting
  <2>w. PICK w : \E j \in 0..Len(Oth) :
         /\ Walks(w, Oth) /\ w[Len(Oth)] = Len(Oth)
         /\ pos = Len(h) + w[j] /\ desired = w[j] /\ w[j] <= Len(Oth)
         /\ desired <= room => others = SubSeq(Oth, 1, w[j])
    BY <2>1
  <2>2. PICK j \in 0..Len(Oth) :
         /\ Walks(w, Oth) /\ w[Len(Oth)] = Len(Oth)
         /\ pos = Len(h) + w[j] /\ desired = w[j] /\ w[j] <= Len(Oth)
         /\ desired <= room => others = SubSeq(Oth, 1, w[j])
    BY <2>w
  <2> DEFINE x == w[j]
             n == Oth[x + 2]
  <2>3. x # Len(Oth)
    BY <1>1, <1>5, <2>2
  <2>4. x \in Nat /\ Moves(Oth, x) /\ j + 1 \in 0..Len(Oth) /\ w[j + 1] = x + 2 + n
    BY <2>2, <2>3, WalkGoesOn
  <2>5. x + 2 <= Len(Oth) /\ Kind(Oth[x + 1]) = "other" /\ x + 1 \in 1..Len(Oth) /\ x + 2 \in 1..Len(Oth)
    BY <1>5, <2>4, SMTT(30) DEF Moves
  <2>6. IdAt(bearer) = Oth[x + 1] /\ LengthAt(bearer) = n
    <3>1. pos + 1 = Len(h) + (x + 1) /\ pos + 2 = Len(h) + (x + 2)
      BY <1>5, <2>2, <2>4, SMTT(30)
    <3> QED BY <1>5, <2>5, <3>1, SMTT(30) DEF IdAt, LengthAt
  <2>7. KindAt = "other"
    BY <2>5, <2>6 DEF KindAt
  <2>8. TakeOther
    BY <2>7, OtherIsUnknown DEF SkipSubparameter, TakeSubparameter, Seen
  <2> DEFINE copied == SubSeq(bearer, pos + 1, pos + 2 + n)
  <2>9. /\ n \in Nat /\ pos' = pos + 2 + n /\ pos + 2 + n <= Len(bearer) /\ desired' = desired + n + 2
    BY <2>6, <2>8, OtherCounted
  <2>10. pos' = Len(h) + w[j + 1] /\ desired' = w[j + 1] /\ w[j + 1] <= Len(Oth)
    <3> HIDE DEF x, n
    <3>1. pos = Len(h) + x /\ desired = x
      BY <2>2 DEF x
    <3> QED BY <1>5, <2>4, <2>9, <3>1
  <2>11. ASSUME desired' <= room PROVE others' = SubSeq(Oth, 1, w[j + 1])
    <3>1. x \in Nat /\ n \in Nat /\ room \in Nat /\ desired = x
      BY <2>2, <2>4, <2>9 DEF IInv, OthersCounted
    <3>2. Room(n) /\ desired <= room
      BY <2>9, <2>11, <3>1 DEF Room
    <3>3. others = SubSeq(Oth, 1, x)
      BY <2>2, <3>2
    <3>4. others' = others \o copied
      BY <2>6, <2>8, <3>2 DEF TakeOther
    <3>5. copied = SubSeq(Oth, x + 1, x + 2 + n)
      <4> DEFINE q == SubSeq(Oth, x + 1, x + 2 + n)
                 l == Len(h)
      <4> HIDE DEF x, n
      <4>1. pos = l + x /\ l \in Nat /\ x + 2 + n <= Len(Oth) /\ pos + 2 + n <= Len(bearer)
        BY <1>5, <2>2, <2>4, <2>9, <2>10 DEF x
      <4>2. Len(copied) = n + 2 /\ \A i \in 1..n + 2 : copied[i] = bearer[l + (x + i)]
        BY <3>1, <4>1
      <4>3. Len(q) = n + 2 /\ \A i \in 1..n + 2 : q[i] = Oth[x + i]
        BY <3>1, <4>1
      <4>4. ASSUME NEW i \in 1..n + 2 PROVE bearer[l + (x + i)] = Oth[x + i]
        <5>1. x + i \in 1..Len(Oth)
          BY <1>5, <3>1, <4>1
        <5> QED BY <1>5, <5>1
      <4>5. copied \in Seq(Octet) /\ q \in Seq(Octet)
        BY <1>5, <3>1, <4>1
      <4> HIDE DEF copied, q, l
      <4>6. copied = q
        BY <4>2, <4>3, <4>4, <4>5, SMTT(30)
      <4> QED BY <4>6 DEF q
    <3>6. SubSeq(Oth, 1, x) \o SubSeq(Oth, x + 1, x + 2 + n) = SubSeq(Oth, 1, x + 2 + n)
      <4> HIDE DEF x, n
      <4>1. x + 2 + n <= Len(Oth)
        BY <2>4, <2>10
      <4> QED BY <1>5, <3>1, <4>1
    <3> QED BY <2>4, <3>3, <3>4, <3>5, <3>6
  <2>12. Walks(w, Oth') /\ w[Len(Oth')] = Len(Oth') /\ j + 1 \in 0..Len(Oth')
    BY <1>2, <2>2, <2>4
  <2> QED BY <1>1, <1>2, <2>10, <2>11, <2>12 DEF Counting
<1> QED BY <1>6, <1>7

(* At the end all were counted, and copied if they fit.                     *)
LEMMA EndOfOthersTravels ==
  ASSUME Travels, bearer \in Seq(Octet), Oth \in Seq(Octet),
         RefuseSubparameter \/ EndBearer \/ AskForOthers
  PROVE  Travels'
<1>1. CASE RefuseSubparameter
  <2>1. at' = "refused"
    BY <1>1 DEF RefuseSubparameter
  <2> QED BY <2>1 DEF Travels, WrittenBearer, BearerReady, Carried, WrittenLayer, LayerRead, OthersRead
<1>2. CASE EndBearer
  <2>1. /\ at = "read_bearer" /\ pos = Len(bearer) /\ at' \in {"received", "refused"}
        /\ UNCHANGED <<client, bearer, others, desired, room>>
    BY <1>2 DEF EndBearer, sending
  <2>2. Oth' = Oth
    BY <2>1 DEF Oth
  <2>3. ASSUME Tiled(Oth) PROVE desired = Len(Oth) /\ (desired <= room => others = Oth)
    <3>h. PICK h \in Seq(Octet) : \E B :
           bearer = h \o Oth /\ Framed(h, B) /\ Named(h, B) /\ Counting(h, B)
      BY <2>1, <2>3 DEF Travels, OthersRead
    <3>1. PICK B :
           bearer = h \o Oth /\ Framed(h, B) /\ Named(h, B) /\ Counting(h, B)
      BY <3>h
    <3>2. Len(bearer) = Len(h) + Len(Oth) /\ Len(h) \in Nat /\ Len(Oth) \in Nat
      BY <3>1, Joined
    <3>3. CASE pos \in B /\ desired = 0 /\ others = <<>>
      <4>1. pos <= Len(h) /\ pos \in Nat
        BY <3>1, <3>3, FramedNext
      <4>2. Len(Oth) = 0
        BY <2>1, <3>2, <4>1
      <4>3. Oth = <<>>
        BY <4>2
      <4> QED BY <3>3, <4>2, <4>3
    <3>4. CASE \E w : \E j \in 0..Len(Oth) :
                 /\ Walks(w, Oth) /\ w[Len(Oth)] = Len(Oth)
                 /\ pos = Len(h) + w[j] /\ desired = w[j] /\ w[j] <= Len(Oth)
                 /\ desired <= room => others = SubSeq(Oth, 1, w[j])
      <4>w. PICK w : \E j \in 0..Len(Oth) :
             /\ Walks(w, Oth) /\ pos = Len(h) + w[j] /\ desired = w[j]
             /\ desired <= room => others = SubSeq(Oth, 1, w[j])
        BY <3>4
      <4>1. PICK j \in 0..Len(Oth) :
             /\ Walks(w, Oth) /\ pos = Len(h) + w[j] /\ desired = w[j]
             /\ desired <= room => others = SubSeq(Oth, 1, w[j])
        BY <4>w
      <4>2. w[j] \in Nat
        BY <4>1 DEF Walks
      <4>3. w[j] = Len(Oth)
        BY <2>1, <3>2, <4>1, <4>2
      <4>4. SubSeq(Oth, 1, Len(Oth)) = Oth
        OBVIOUS
      <4> QED BY <4>1, <4>3, <4>4
    <3> QED BY <3>1, <3>3, <3>4 DEF Counting
  <2>4. OthersRead'
    BY <2>1, <2>2, <2>3 DEF OthersRead
  <2>5. Carries(bearer, Oth)
    BY <2>1 DEF Travels, BearerReady, Carried
  <2> QED BY <2>1, <2>2, <2>4, <2>5 DEF Travels, WrittenBearer, BearerReady, WrittenLayer, LayerRead
<1>3. CASE AskForOthers
  <2>1. at = "received" /\ at' = "begin_bearer" /\ UNCHANGED <<client, bearer>>
    BY <1>3 DEF AskForOthers, sending
  <2>2. Oth' = Oth
    BY <2>1 DEF Oth
  <2> QED BY <2>1, <2>2 DEF Travels, WrittenBearer, BearerReady, Carried, WrittenLayer, LayerRead, OthersRead
<1> QED BY <1>1, <1>2, <1>3

-----------------------------------------------------------------------------
(* The journey of each message.                                              *)
LEMMA JourneyBegins == Init => Journey
BY DEF Init, Journey

(* Which message it is changes only between two messages.                   *)
LEMMA ClientChanges ==
  ASSUME Journey, [Next]_vars
  PROVE  /\ at' = "idle" => client' = NoMessage
         /\ \/ client' = NoMessage
            \/ \E m \in Messages : Send(m) /\ client' = m
            \/ /\ UNCHANGED client
               /\ \/ Codec \/ AskForOthers \/ UNCHANGED vars
<1>0. at = "idle" => client = NoMessage
  BY DEF Journey
<1>1. ASSUME NEW m \in Messages, Send(m) PROVE at' # "idle" /\ client' = m
  BY <1>1 DEF Send
<1>2. ASSUME NEW m \in Arriving, Arrive(m) PROVE at' # "idle" /\ client' = NoMessage
  BY <1>0, <1>2 DEF Arrive
<1>3. CASE NextMessage
  BY <1>3 DEF NextMessage
<1>4. CASE Encode
  BY <1>4 DEF Encode, Codec, EncodeSubparameter, EndEncodeBearer, BeginTransport, EncodeParameter, EndTransport
<1>5. CASE BeginReceive \/ RefuseParameter \/ SkipParameter \/ TakeParameter \/ EndReadTransport \/ BeginBearer
  BY <1>5 DEF Decode, Codec, BeginReceive, RefuseParameter, SkipParameter, TakeParameter, EndReadTransport,
              BeginBearer, InTransport, sending
<1>6. CASE RefuseSubparameter \/ SkipSubparameter \/ TakeSubparameter \/ TakeOther \/ EndBearer \/ ReadBare
  BY <1>6 DEF Decode, Codec, RefuseSubparameter, SkipSubparameter, TakeSubparameter, TakeOther, EndBearer,
              ReadBare, InBearer, sending
<1>7. CASE AskForOthers \/ UNCHANGED vars
  BY <1>0, <1>7 DEF AskForOthers, sending, vars
<1> QED BY <1>1, <1>2, <1>3, <1>4, <1>5, <1>6, <1>7 DEF Next, Codec, Decode, Client

(* Every step of the codec and its clients is one of it.                     *)
LEMMA JourneyGoesOn ==
  ASSUME Journey, Arrays, IInv, TypeOK, [Next]_vars
  PROVE  Journey'
<1>0. bearer \in Seq(Octet) /\ ota \in Seq(Octet) /\ OctetArrays /\ DOMAIN got \subseteq Known
  BY DEF Arrays, OctetArrays, TypeOK
<1>1. CASE client' = NoMessage
  BY <1>1 DEF Journey
<1>2. ASSUME NEW m \in Messages, Send(m), client' = m PROVE Journey'
  <2>1. Wrapped(m) => Travels'
    BY <1>2, SendTravels
  <2>2. at' # "idle"
    BY <1>2 DEF Send
  <2> QED BY <1>2, <2>1, <2>2 DEF Journey
<1>3. CASE UNCHANGED client /\ client # NoMessage /\ (Codec \/ AskForOthers \/ UNCHANGED vars)
  <2>1. client \in Messages /\ at' # "idle"
    BY <1>3, ClientChanges DEF Journey
  <2>2. SUFFICES ASSUME Wrapped(client) PROVE Travels'
    BY <1>3, <2>1 DEF Journey
  <2>3. Travels
    BY <1>3, <2>2 DEF Journey
  <2>4. Oth \in Seq(Octet)
    BY <2>1, <2>2, ClientsMessage
  <2>5. CASE Encode
    BY <1>0, <2>1, <2>2, <2>3, <2>5, SubparameterTravels, EndOfBearerTravels, BeginTransportTravels,
       ParameterTravels, EndOfLayerTravels DEF Encode
  <2>6. CASE BeginReceive \/ SkipParameter \/ TakeParameter \/ RefuseParameter \/ EndReadTransport \/ ReadBare
    BY <1>0, <2>3, <2>6, BeginReceiveTravels, LayerStepTravels, EndOfReadingTravels
  <2>7. CASE BeginBearer \/ SkipSubparameter \/ TakeSubparameter \/ TakeOther
    BY <1>0, <2>3, <2>4, <2>7, BeginBearerTravels, SubparameterReadTravels
  <2>8. CASE RefuseSubparameter \/ EndBearer \/ AskForOthers
    BY <1>0, <2>3, <2>4, <2>8, EndOfOthersTravels
  <2>9. CASE UNCHANGED vars
    <3>1. /\ UNCHANGED <<at, client, last, bearer, format, ota, pos, desired, others, room>>
          /\ UNCHANGED tl /\ Oth' = Oth
      BY <2>9 DEF vars, Oth
    <3>2. \A h, B : (Passing(h, B)' <=> Passing(h, B)) /\ (Counting(h, B)' <=> Counting(h, B))
      BY <3>1 DEF Passing, Counting
    <3>3. WrittenBearer' /\ BearerReady' /\ WrittenLayer'
      BY <2>3, <3>1 DEF Travels, WrittenBearer, BearerReady, WrittenLayer
    <3>4. LayerRead'
      BY <2>3, <3>1, <3>2 DEF Travels, LayerRead
    <3>5. OthersRead'
      BY <2>3, <3>1, <3>2 DEF Travels, OthersRead
    <3> QED BY <3>3, <3>4, <3>5 DEF Travels
  <2> QED BY <1>3, <2>5, <2>6, <2>7, <2>8, <2>9 DEF Codec, Decode
<1> QED BY <1>1, <1>2, <1>3, ClientChanges

(* For all messages.                                                         *)
LEMMA JourneyHolds == Spec => []Journey
BY JourneyBegins, JourneyGoesOn, ReadingStaysWithin, TypesAreKept, PTL DEF Spec

(* The receiver of a client's message gets its bearer data octet for octet, *)
(* whatever the encoders wrote of it and of the transport layer around it.  *)
THEOREM BearerArrives ==
  Spec => [][client # NoMessage /\ Wrapped(client) /\ EndReadTransport => UNCHANGED bearer]_vars
<1>1. Journey /\ Arrays => (client # NoMessage /\ Wrapped(client) /\ EndReadTransport => UNCHANGED bearer)
  <2> SUFFICES ASSUME Journey, Arrays, client # NoMessage, Wrapped(client), EndReadTransport
               PROVE  UNCHANGED bearer
    OBVIOUS
  <2>1. Travels /\ bearer \in Seq(Octet)
    BY DEF Journey, Arrays, OctetArrays
  <2> QED BY <2>1, BearerIsUnchanged
<1> QED BY <1>1, JourneyHolds, ReadingStaysWithin, PTL

(* The subparameters without a name are handed over whole and in order, and *)
(* those of a client's message in a transport layer are those it was sent   *)
(* with.                                                                    *)
THEOREM OthersArrive == Spec => []OthersArriveWhole
<1>1. OthersWhole /\ IInv /\ Journey => OthersArriveWhole
  <2> SUFFICES ASSUME OthersWhole, IInv, Journey, at = "received", room > 0 PROVE
                 /\ Tiled(others) /\ Len(others) <= room
                 /\ room = desired => Len(others) = desired
                 /\ client # NoMessage /\ Wrapped(client) /\ Tiled(OtherOf(client.bd)) /\ room = desired =>
                      others = OtherOf(client.bd)
    BY DEF OthersArriveWhole
  <2>1. Len(others) <= room /\ desired \in Nat /\ room \in Nat
    BY DEF IInv, OthersCounted
  <2>2. Tiled(others) /\ (room = desired => Len(others) = desired)
    BY <2>1 DEF OthersWhole
  <2>3. ASSUME client # NoMessage, Wrapped(client), Tiled(OtherOf(client.bd)), room = desired
        PROVE  others = OtherOf(client.bd)
    BY <2>1, <2>3 DEF Journey, Travels, OthersRead, Oth
  <2> QED BY <2>1, <2>2, <2>3
<1> QED BY <1>1, OthersAreWhole, ReadingStaysWithin, JourneyHolds, PTL

-----------------------------------------------------------------------------
(* ---- fields are read as they were written ------------------------------*)
(* The way to FieldsAreKept: bits make a number whose bits they are, the    *)
(* octets of a message hold the bits of all its fields one behind the       *)
(* other, and Unpack reads the slice of three octets that a field is in.    *)

(* What dividing by a power of two, or any other number, does. *)
LEMMA DivideBack ==
  \A p \in Nat \ {0}, x, y \in Nat : y < p => (p * x + y) \div p = x /\ (p * x + y) % p = y
OBVIOUS

(* Dividing twice is dividing by the product.                               *)
LEMMA HalvesBack ==
  \A p \in Nat \ {0}, v \in Nat : v \div (2 * p) = (v \div p) \div 2 /\ v \div p \in Nat
OBVIOUS

(* Powers of two, as far as three octets go.                                *)
LEMMA DoublePower == \A n \in 0..24 : 2^n \in Nat \ {0} /\ 2^(n + 1) = 2 * 2^n
<1> DEFINE P(n) == 2^n \in Nat \ {0} /\ 2^(n + 1) = 2 * 2^n
<1>1. /\ 2^0 = 1 /\ 2^1 = 2 /\ 2^2 = 4 /\ 2^3 = 8 /\ 2^4 = 16 /\ 2^5 = 32
      /\ 2^6 = 64 /\ 2^7 = 128 /\ 2^8 = 256 /\ 2^9 = 512 /\ 2^10 = 1024 /\ 2^11 = 2048
      /\ 2^12 = 4096 /\ 2^13 = 8192 /\ 2^14 = 16384 /\ 2^15 = 32768 /\ 2^16 = 65536 /\ 2^17 = 131072
      /\ 2^18 = 262144 /\ 2^19 = 524288 /\ 2^20 = 1048576 /\ 2^21 = 2097152 /\ 2^22 = 4194304 /\ 2^23 = 8388608
      /\ 2^24 = 16777216 /\ 2^25 = 33554432
  OBVIOUS
<1>2. /\ 0 + 1 = 1 /\ 1 + 1 = 2 /\ 2 + 1 = 3 /\ 3 + 1 = 4 /\ 4 + 1 = 5 /\ 5 + 1 = 6 /\ 6 + 1 = 7 /\ 7 + 1 = 8
      /\ 8 + 1 = 9 /\ 9 + 1 = 10 /\ 10 + 1 = 11 /\ 11 + 1 = 12 /\ 12 + 1 = 13 /\ 13 + 1 = 14 /\ 14 + 1 = 15 /\ 15 + 1 = 16
      /\ 16 + 1 = 17 /\ 17 + 1 = 18 /\ 18 + 1 = 19 /\ 19 + 1 = 20 /\ 20 + 1 = 21 /\ 21 + 1 = 22 /\ 22 + 1 = 23 /\ 23 + 1 = 24
      /\ 24 + 1 = 25
  OBVIOUS
<1>3. /\ P(0) /\ P(1) /\ P(2) /\ P(3) /\ P(4) /\ P(5) /\ P(6) /\ P(7)
      /\ P(8) /\ P(9) /\ P(10) /\ P(11) /\ P(12) /\ P(13) /\ P(14) /\ P(15)
      /\ P(16) /\ P(17) /\ P(18) /\ P(19) /\ P(20) /\ P(21) /\ P(22) /\ P(23)
      /\ P(24)
  BY <1>1, <1>2
<1>4. \A n \in 0..24 : \/ n = 0 \/ n = 1 \/ n = 2 \/ n = 3 \/ n = 4 \/ n = 5 \/ n = 6 \/ n = 7
                      \/ n = 8 \/ n = 9 \/ n = 10 \/ n = 11 \/ n = 12 \/ n = 13 \/ n = 14 \/ n = 15
                      \/ n = 16 \/ n = 17 \/ n = 18 \/ n = 19 \/ n = 20 \/ n = 21 \/ n = 22 \/ n = 23
                      \/ n = 24
  OBVIOUS
<1> HIDE DEF P
<1>5. \A n \in 0..24 : P(n)
  BY <1>3, <1>4, Zenon
<1> QED BY <1>5 DEF P

(* The number f[n] that the n bits b make, from the first on.               *)
Makes(f, b, n) ==
  f \in [0..n -> Nat] /\ f[0] = 0 /\ \A k \in 1..n : f[k] = 2 * f[k - 1] + b[k]

(* NumberOf is what the recursion on its bits makes.                        *)
LEMMA NumberMade ==
  ASSUME NEW n \in Nat, NEW b \in [1..n -> Bit]
  PROVE  \E f : Makes(f, b, n) /\ NumberOf(b) = f[n]
<1>0. Len(b) = n
  <2>1. b = [i \in 1..n |-> b[i]]
    OBVIOUS
  <2>2. Len([i \in 1..n |-> b[i]]) = n
    OBVIOUS
  <2> QED BY <2>1, <2>2, Zenon
<1> DEFINE G == [p \in Nat \X (1..n) |-> 2 * p[1] + b[p[2]]]
<1>1. \A x \in Nat, k \in 1..n : 2 * x + b[k] \in Nat /\ G[<<x, k>>] = 2 * x + b[k]
  BY DEF Bit
<1>2. G \in [Nat \X (1..n) -> Nat]
  BY DEF Bit
<1>3. PICK f : Recursion(f, 0, G, Nat, n)
  <2> HIDE DEF G
  <2> QED BY <1>2, RecursionExists
<1>4. f \in [0..n -> Nat] /\ f[0] = 0 /\ \A k \in 1..n : f[k] = 2 * f[k - 1] + b[k]
  <2> HIDE DEF G
  <2>1. \A k \in 1..n : k - 1 \in 0..n
    OBVIOUS
  <2> QED BY <1>1, <1>3, <2>1 DEF Recursion
<1>5. f = [k \in 0..n |-> IF k = 0 THEN 0 ELSE 2 * f[k - 1] + b[k]]
  BY <1>4
<1> DEFINE m == CHOOSE m : m = [k \in 0..Len(b) |-> IF k = 0 THEN 0 ELSE 2 * m[k - 1] + b[k]]
<1>6. NumberOf(b) = m[n]
  BY <1>0 DEF NumberOf
<1>7. m = [k \in 0..n |-> IF k = 0 THEN 0 ELSE 2 * m[k - 1] + b[k]]
  BY <1>0, <1>5
<1> HIDE DEF m
<1>8. DOMAIN m = 0..n /\ m[0] = 0 /\ \A k \in 1..n : m[k] = 2 * m[k - 1] + b[k]
  BY <1>7
<1> DEFINE S == {k \in Nat : k <= n => m[k] \in Nat}
<1>9. \A k \in Nat : k \in S => k + 1 \in S
  <2> SUFFICES ASSUME NEW k \in Nat, m[k] \in Nat, k + 1 <= n PROVE m[k + 1] \in Nat
    OBVIOUS
  <2>1. k + 1 \in 1..n /\ b[k + 1] \in Nat /\ (k + 1) - 1 = k
    BY DEF Bit
  <2>2. m[k + 1] = 2 * m[k] + b[k + 1]
    BY <1>8, <2>1
  <2> QED BY <2>1, <2>2
<1>10. 0 \in S
  BY <1>8
<1>11. \A k \in Nat : k \in S
  <2> HIDE DEF S
  <2> QED BY <1>9, <1>10, Induction
<1>12. \A k \in 0..n : m[k] \in Nat
  BY <1>11
<1>13. m \in [0..n -> Nat]
  BY <1>7, <1>12
<1> QED BY <1>6, <1>8, <1>13 DEF Makes

(* Behind the first i bits the number is that of the others, and so many    *)
(* powers of two more.                                                      *)
LEMMA NumberSplit ==
  ASSUME NEW n \in 0..24, NEW i \in 0..n, NEW b \in [1..n -> Bit], NEW f, Makes(f, b, n),
         NEW l \in 0..n - i, NEW c \in [1..l -> Bit], \A k \in 1..l : c[k] = b[i + k],
         NEW g, Makes(g, c, l)
  PROVE  \A m \in 0..l : f[i + m] = 2^m * f[i] + g[m] /\ g[m] < 2^m /\ g[m] \in Nat /\ f[i] \in Nat
<1> DEFINE Q(m) == f[i + m] = 2^m * f[i] + g[m] /\ g[m] < 2^m
           S == {m \in Nat : m <= l => Q(m)}
<1>0. /\ f \in [0..n -> Nat] /\ \A k \in 1..n : f[k] = 2 * f[k - 1] + b[k]
      /\ g \in [0..l -> Nat] /\ g[0] = 0 /\ \A k \in 1..l : g[k] = 2 * g[k - 1] + c[k]
  BY DEF Makes
<1>1. f[i] \in Nat
  BY <1>0
<1>2. 0 \in S
  <2>1. 2^0 = 1 /\ i + 0 = i
    OBVIOUS
  <2> QED BY <1>0, <1>1, <2>1
<1>3. ASSUME NEW m \in Nat, m \in S PROVE m + 1 \in S
  <2> SUFFICES ASSUME m + 1 <= l PROVE Q(m + 1)
    OBVIOUS
  <2> HIDE DEF Q
  <2>1. Q(m) /\ m \in 0..24 /\ m \in 0..l /\ m + 1 \in 1..l /\ (m + 1) - 1 = m
    BY <1>3
  <2>2. i + (m + 1) \in 1..n /\ (i + (m + 1)) - 1 = i + m
    BY <2>1
  <2> DEFINE p == 2^m
             q == 2^(m + 1)
             x == f[i]
             y == g[m]
             d == c[m + 1]
  <2>3. p \in Nat /\ q = 2 * p
    BY <2>1, DoublePower
  <2>4. f[i + m] = p * x + y /\ y < p
    BY <2>1 DEF Q
  <2>5. y \in Nat /\ d \in 0..1
    BY <1>0, <2>1 DEF Bit
  <2>6. f[i + (m + 1)] = 2 * f[i + m] + d
    <3>1. f[i + (m + 1)] = 2 * f[(i + (m + 1)) - 1] + b[i + (m + 1)]
      BY <1>0, <2>2
    <3>2. d = b[i + (m + 1)]
      BY <2>1
    <3> QED BY <2>2, <3>1, <3>2
  <2>7. g[m + 1] = 2 * y + d
    <3>1. g[m + 1] = 2 * g[(m + 1) - 1] + c[m + 1]
      BY <1>0, <2>1
    <3> QED BY <2>1, <3>1
  <2>8. f[i + (m + 1)] = q * x + g[m + 1] /\ g[m + 1] < q
    <3> HIDE DEF p, q, x, y, d
    <3>1. x \in Nat
      BY <1>1 DEF x
    <3>2. 2 * (p * x + y) + d = (2 * p) * x + (2 * y + d)
      BY <2>3, <2>5, <3>1
    <3> QED BY <2>3, <2>4, <2>5, <2>6, <2>7, <3>1, <3>2
  <2> QED BY <2>8 DEF Q
<1>4. \A m \in Nat : m \in S
  <2> HIDE DEF S
  <2> QED BY <1>2, <1>3, Induction
<1>5. \A m \in 0..l : Q(m)
  <2> HIDE DEF Q
  <2> QED BY <1>4
<1> QED BY <1>0, <1>1, <1>5

(* The same where both numbers end, in a form that is cited whole.          *)
IsTail(c, b, i, l) == \A k \in 1..l : c[k] = b[i + k]
Splits(f, g, i, l) == f[i + l] = 2^l * f[i] + g[l] /\ g[l] < 2^l /\ g[l] \in Nat /\ f[i] \in Nat
LEMMA NumberSplits ==
  ASSUME NEW n \in 0..24, NEW i \in 0..n, NEW b \in [1..n -> Bit], NEW f, Makes(f, b, n),
         NEW l \in 0..n - i, NEW c \in [1..l -> Bit], IsTail(c, b, i, l), NEW g, Makes(g, c, l)
  PROVE  Splits(f, g, i, l)
<1> DEFINE P(m) == f[i + m] = 2^m * f[i] + g[m] /\ g[m] < 2^m /\ g[m] \in Nat /\ f[i] \in Nat
<1>1. \A k \in 1..l : c[k] = b[i + k]
  BY Zenon DEF IsTail
<1>2. \A m \in 0..l : P(m)
  BY <1>1, NumberSplit, Zenon
<1> HIDE DEF P
<1>3. P(l)
  BY <1>2
<1> QED BY <1>3, Zenon DEF P, Splits

(* A bit of a number is that bit.                                           *)
LEMMA BitOfNumber ==
  ASSUME NEW n \in 0..24, NEW b \in [1..n -> Bit], NEW i \in 1..n
  PROVE  (NumberOf(b) \div 2^(n - i)) % 2 = b[i]
<1> DEFINE l == n - i
           c == [k \in 1..l |-> b[i + k]]
<1>0. l \in 0..n - i /\ l \in Nat /\ n \in Nat /\ i \in 0..n /\ l \in 0..24 /\ i + l = n
  OBVIOUS
<1>1. c \in [1..l -> Bit] /\ \A k \in 1..l : c[k] = b[i + k]
  OBVIOUS
<1>2. PICK f : Makes(f, b, n) /\ NumberOf(b) = f[n]
  BY <1>0, NumberMade
<1> HIDE DEF l, c
<1>3. PICK g : Makes(g, c, l)
  BY <1>0, <1>1, NumberMade
<1>4. f[i + l] = 2^l * f[i] + g[l] /\ g[l] < 2^l /\ g[l] \in Nat /\ f[i] \in Nat
  <2>1. Makes(f, b, n) /\ Makes(g, c, l) /\ c \in [1..l -> Bit]
    BY <1>1, <1>2, <1>3
  <2>2. i \in 0..n /\ l \in 0..n - i
    BY <1>0
  <2>3. IsTail(c, b, i, l)
    BY <1>1 DEF IsTail
  <2>4. Splits(f, g, i, l)
    BY <2>1, <2>2, <2>3, NumberSplits, Zenon
  <2> QED BY <2>4 DEF Splits
<1>5. 2^l \in Nat \ {0}
  BY <1>0, DoublePower
<1>6. f[n] \div 2^l = f[i]
  BY <1>0, <1>4, <1>5, DivideBack
<1>7. f[i] = 2 * f[i - 1] + b[i] /\ f[i - 1] \in Nat /\ b[i] \in 0..1
  BY <1>2 DEF Makes, Bit
<1>8. f[i] % 2 = b[i]
  BY <1>7
<1> QED BY <1>2, <1>6, <1>8 DEF l

(* w bits of a number, behind the first s, are the number of these.         *)
LEMMA SliceOfNumber ==
  ASSUME NEW n \in 0..24, NEW b \in [1..n -> Bit], NEW s \in Nat, NEW w \in Nat, s + w <= n
  PROVE  (NumberOf(b) \div 2^(n - s - w)) % 2^w = NumberOf([k \in 1..w |-> b[s + k]])
<1> DEFINE i == s + w
           l == n - i
           c == [k \in 1..l |-> b[i + k]]
           e == [k \in 1..w |-> b[s + k]]
<1>0. /\ l \in 0..n - i /\ l \in Nat /\ n \in Nat /\ i \in 0..n /\ l \in 0..24 /\ i + l = n
      /\ s \in 0..n /\ w \in 0..n - s /\ w \in 0..24 /\ n - s - w = l
  OBVIOUS
<1>1. c \in [1..l -> Bit] /\ \A k \in 1..l : c[k] = b[i + k]
  OBVIOUS
<1>2. e \in [1..w -> Bit] /\ \A k \in 1..w : e[k] = b[s + k]
  OBVIOUS
<1>3. PICK f : Makes(f, b, n) /\ NumberOf(b) = f[n]
  BY <1>0, NumberMade
<1> HIDE DEF l, c
<1>4. PICK g : Makes(g, c, l)
  BY <1>0, <1>1, NumberMade
<1>5. PICK h : Makes(h, e, w) /\ NumberOf(e) = h[w]
  BY <1>2, NumberMade
<1> HIDE DEF e, i
<1>6. f[i + l] = 2^l * f[i] + g[l] /\ g[l] < 2^l /\ g[l] \in Nat /\ f[i] \in Nat
  <2>2. i \in 0..n /\ l \in 0..n - i
    BY <1>0
  <2>3. Makes(f, b, n) /\ Makes(g, c, l) /\ c \in [1..l -> Bit]
    BY <1>1, <1>3, <1>4
  <2>4. IsTail(c, b, i, l)
    BY <1>1 DEF IsTail
  <2>5. Splits(f, g, i, l)
    BY <2>2, <2>3, <2>4, NumberSplits, Zenon
  <2> QED BY <2>5 DEF Splits
<1>7. f[s + w] = 2^w * f[s] + h[w] /\ h[w] < 2^w /\ h[w] \in Nat /\ f[s] \in Nat
  <2>2. s \in 0..n /\ w \in 0..n - s
    BY <1>0
  <2>3. Makes(f, b, n) /\ Makes(h, e, w) /\ e \in [1..w -> Bit]
    BY <1>2, <1>3, <1>5
  <2>4. IsTail(e, b, s, w)
    BY <1>2 DEF IsTail
  <2>5. Splits(f, h, s, w)
    BY <2>2, <2>3, <2>4, NumberSplits, Zenon
  <2> QED BY <2>5 DEF Splits
<1>8. 2^l \in Nat \ {0} /\ 2^w \in Nat \ {0}
  BY <1>0, DoublePower
<1>9. f[n] \div 2^l = f[i]
  BY <1>0, <1>6, <1>8, DivideBack
<1>10. f[i] % 2^w = h[w]
  <2> DEFINE p == 2^w
  <2>1. p \in Nat \ {0} /\ f[s] \in Nat /\ h[w] \in Nat /\ h[w] < p /\ f[i] = p * f[s] + h[w]
    BY <1>7, <1>8 DEF i
  <2> HIDE DEF p
  <2>2. (p * f[s] + h[w]) % p = h[w]
    BY <2>1, DivideBack, Zenon
  <2> QED BY <2>1, <2>2, Zenon DEF p
<1> QED BY <1>0, <1>3, <1>5, <1>9, <1>10 DEF e

(* A number is twice its half and the rest.                                 *)
LEMMA HalfAndRest == \A x \in Nat : 2 * (x \div 2) + (x % 2) = x
OBVIOUS

(* The number of a field's bits is its value.                               *)
LEMMA FieldIsNumber ==
  ASSUME NEW w \in 0..16, NEW v \in Nat, v < 2^w
  PROVE  BitsOf(<<v, w>>) \in [1..w -> Bit] /\ NumberOf(BitsOf(<<v, w>>)) = v
<1> DEFINE b == [i \in 1..w |-> (v \div 2^(w - i)) % 2]
<1>1. BitsOf(<<v, w>>) = b
  BY DEF BitsOf
<1>2. b \in [1..w -> Bit]
  <2>1. ASSUME NEW i \in 1..w PROVE (v \div 2^(w - i)) % 2 \in Bit
    BY LowBits
  <2> QED BY <2>1
<1>3. \A i \in 1..w : b[i] = (v \div 2^(w - i)) % 2
  OBVIOUS
<1> HIDE DEF b
<1>4. PICK f : Makes(f, b, w) /\ NumberOf(b) = f[w]
  BY <1>2, NumberMade
<1>5. f[0] = 0 /\ \A k \in 1..w : f[k] = 2 * f[k - 1] + b[k]
  BY <1>4 DEF Makes
<1> DEFINE S == {k \in Nat : k <= w => f[k] = v \div 2^(w - k)}
<1>6. 0 \in S
  <2> DEFINE p == 2^w
  <2>1. p \in Nat \ {0} /\ v < p
    BY DoublePower
  <2> HIDE DEF p
  <2>2. v \div p = 0
    <3>1. p * 0 + v = v /\ 0 \in Nat
      BY <2>1
    <3> QED BY <2>1, <3>1, DivideBack
  <2>3. w - 0 = w
    OBVIOUS
  <2> QED BY <1>5, <2>2, <2>3 DEF p
<1>7. ASSUME NEW k \in Nat, k \in S PROVE k + 1 \in S
  <2> SUFFICES ASSUME k + 1 <= w PROVE f[k + 1] = v \div 2^(w - (k + 1))
    OBVIOUS
  <2> DEFINE j == w - (k + 1)
             q == 2^j
  <2>1. j \in 0..24 /\ w - k = j + 1 /\ k + 1 \in 1..w /\ (k + 1) - 1 = k
    OBVIOUS
  <2>2. q \in Nat \ {0} /\ 2^(w - k) = 2 * q
    <3> HIDE DEF j
    <3> QED BY <2>1, DoublePower
  <2>3. f[k] = v \div (2 * q)
    BY <1>7, <2>2
  <2>4. b[k + 1] = (v \div q) % 2
    BY <1>3, <2>1
  <2>5. f[k + 1] = 2 * f[k] + b[k + 1]
    <3>1. f[k + 1] = 2 * f[(k + 1) - 1] + b[k + 1]
      BY <1>5, <2>1
    <3> QED BY <2>1, <3>1
  <2> HIDE DEF q, j
  <2> DEFINE a == v \div q
  <2>6. v \div (2 * q) = a \div 2 /\ a \in Nat
    BY <2>2, HalvesBack
  <2> HIDE DEF a
  <2>7. f[k + 1] = a
    <3>1. b[k + 1] = a % 2
      BY <2>4 DEF a
    <3>2. f[k] = a \div 2
      BY <2>3, <2>6
    <3>3. 2 * (a \div 2) + (a % 2) = a
      BY <2>6, HalfAndRest, Zenon
    <3> QED BY <2>5, <3>1, <3>2, <3>3
  <2> QED BY <2>7 DEF a, q, j
<1>8. \A k \in Nat : k \in S
  <2> HIDE DEF S
  <2> QED BY <1>6, <1>7, Induction
<1>9. f[w] = v \div 2^(w - w)
  <2>1. w \in Nat /\ w <= w
    OBVIOUS
  <2> QED BY <1>8, <2>1, Zenon
<1>10. w - w = 0 /\ 2^0 = 1 /\ v \div 1 = v
  OBVIOUS
<1> QED BY <1>1, <1>2, <1>4, <1>9, <1>10

(* Bit k of the octets d, counted from 0.                                   *)
BitAt(d, k) == (OctetAt(d, k \div 8) \div 2^(7 - (k % 8))) % 2

(* n bits from bit k on.                                                    *)
BitsAt(d, k, n) == [i \in 1..n |-> BitAt(d, k + i - 1)]

(* What is read of octets is an octet, behind their end as well.            *)
LEMMA OctetAtIsOctet ==
  ASSUME NEW d \in Seq(Octet), NEW k \in Nat
  PROVE  OctetAt(d, k) \in Nat /\ OctetAt(d, k) < 2^8
<1>0. 2^8 = 256
  OBVIOUS
<1>1. CASE k < Len(d)
  <2>1. k + 1 \in 1..Len(d)
    BY <1>1
  <2>2. d[k + 1] \in Octet
    BY <2>1
  <2>3. \A n \in Octet : n \in Nat /\ n < 256
    BY DEF Octet
  <2>4. OctetAt(d, k) = d[k + 1]
    BY <1>1 DEF OctetAt
  <2>5. OctetAt(d, k) \in Nat /\ OctetAt(d, k) < 256
    BY <2>2, <2>3, <2>4, Zenon
  <2> QED BY <1>0, <2>5, Zenon
<1>2. CASE ~(k < Len(d))
  BY <1>0, <1>2 DEF OctetAt
<1> QED BY <1>1, <1>2

(* What is read of a bit is a bit.                                          *)
LEMMA BitAtIsBit == \A d \in Seq(Octet), k \in Nat : BitAt(d, k) \in Bit
<1> SUFFICES ASSUME NEW d \in Seq(Octet), NEW k \in Nat PROVE BitAt(d, k) \in Bit
  OBVIOUS
<1>1. k \div 8 \in Nat /\ 7 - (k % 8) \in 0..16
  OBVIOUS
<1>2. OctetAt(d, k \div 8) \in Int
  <2>1. \A n \in Nat : n \in Int
    OBVIOUS
  <2> QED BY <1>1, <2>1, OctetAtIsOctet, Zenon
<1> QED BY <1>1, <1>2, LowBits DEF BitAt

(* And of n bits n.                                                         *)
LEMMA BitsAtTyped ==
  ASSUME NEW d \in Seq(Octet), NEW k \in Nat, NEW n \in Nat
  PROVE  BitsAt(d, k, n) \in [1..n -> Bit]
<1>1. \A i \in 1..n : k + i - 1 \in Nat
  OBVIOUS
<1>2. \A i \in 1..n : BitAt(d, k + i - 1) \in Bit
  BY <1>1, BitAtIsBit
<1> QED BY <1>2 DEF BitsAt

(* The bits of octet k.                                                     *)
LEMMA OctetBits ==
  ASSUME NEW d \in Seq(Octet), NEW k \in Nat
  PROVE  BitsAt(d, 8 * k, 8) \in [1..8 -> Bit] /\ NumberOf(BitsAt(d, 8 * k, 8)) = OctetAt(d, k)
<1> DEFINE e == [i \in 1..8 |-> BitAt(d, 8 * k + i - 1)]
           x == OctetAt(d, k)
<1>1. x \in Nat /\ x < 2^8
  BY OctetAtIsOctet
<1>2. BitsOf(<<x, 8>>) \in [1..8 -> Bit] /\ NumberOf(BitsOf(<<x, 8>>)) = x
  BY <1>1, Widths, FieldIsNumber
<1>3. BitsOf(<<x, 8>>) = [i \in 1..8 |-> (x \div 2^(8 - i)) % 2]
  BY DEF BitsOf
<1>4. ASSUME NEW i \in 1..8 PROVE BitAt(d, 8 * k + i - 1) = (x \div 2^(8 - i)) % 2
  <2>1. (8 * k + i - 1) \div 8 = k /\ 7 - ((8 * k + i - 1) % 8) = 8 - i
    OBVIOUS
  <2> QED BY <2>1, Zenon DEF BitAt
<1>5. e = BitsOf(<<x, 8>>)
  <2> HIDE DEF x
  <2> QED BY <1>3, <1>4
<1>6. BitsAt(d, 8 * k, 8) = e
  BY DEF BitsAt
<1> QED BY <1>2, <1>5, <1>6, Zenon

(* Three octets are one number of 24 bits.                                  *)
LEMMA ThreeOctets ==
  ASSUME NEW d \in Seq(Octet), NEW k \in Nat
  PROVE  /\ BitsAt(d, 8 * k, 24) \in [1..24 -> Bit]
         /\ NumberOf(BitsAt(d, 8 * k, 24))
              = 65536 * OctetAt(d, k) + 256 * OctetAt(d, k + 1) + OctetAt(d, k + 2)
<1> DEFINE b == [i \in 1..24 |-> BitAt(d, 8 * k + i - 1)]
           e(j) == [i \in 1..8 |-> BitAt(d, 8 * (k + j) + i - 1)]
<1>1. b \in [1..24 -> Bit]
  <2>1. \A i \in 1..24 : 8 * k + i - 1 \in Nat
    OBVIOUS
  <2> QED BY <2>1, BitAtIsBit
<1>2. ASSUME NEW j \in 0..2
      PROVE  e(j) \in [1..8 -> Bit] /\ NumberOf(e(j)) = OctetAt(d, k + j) /\ OctetAt(d, k + j) \in Nat
  <2>1. k + j \in Nat
    OBVIOUS
  <2>2. OctetAt(d, k + j) \in Nat
    BY <2>1, OctetAtIsOctet
  <2>3. BitsAt(d, 8 * (k + j), 8) = e(j)
    BY DEF BitsAt
  <2> HIDE DEF e
  <2>4. /\ BitsAt(d, 8 * (k + j), 8) \in [1..8 -> Bit]
        /\ NumberOf(BitsAt(d, 8 * (k + j), 8)) = OctetAt(d, k + j)
    BY <2>1, OctetBits
  <2> QED BY <2>2, <2>3, <2>4, Zenon
<1>3. ASSUME NEW j \in 0..2 PROVE \A i \in 1..8 : e(j)[i] = b[8 * j + i]
  <2>1. \A i \in 1..8 : 8 * (k + j) + i - 1 = 8 * k + (8 * j + i) - 1 /\ 8 * j + i \in 1..24
    OBVIOUS
  <2> QED BY <2>1
<1>4. PICK f : Makes(f, b, 24) /\ NumberOf(b) = f[24]
  <2> HIDE DEF b
  <2> QED BY <1>1, NumberMade
<1> HIDE DEF b, e
<1>5. ASSUME NEW j \in 0..2
      PROVE  f[8 * j + 8] = 256 * f[8 * j] + OctetAt(d, k + j) /\ f[8 * j] \in Nat
  <2>1. PICK g : Makes(g, e(j), 8) /\ NumberOf(e(j)) = g[8]
    BY <1>2, NumberMade
  <2> DEFINE i == 8 * j
             c == e(j)
  <2>2. i \in 0..24 /\ 8 \in 0..24 - i /\ 8 \in 0..8 /\ 24 \in 0..24
    OBVIOUS
  <2>c. c \in [1..8 -> Bit] /\ \A k_1 \in 1..8 : c[k_1] = b[i + k_1]
    BY <1>2, <1>3
  <2> HIDE DEF i, c
  <2>3. f[i + 8] = 2^8 * f[i] + g[8] /\ f[i] \in Nat
    <3>1. Makes(f, b, 24) /\ Makes(g, c, 8)
      BY <1>4, <2>1 DEF c
    <3>2. \A m \in 0..8 : f[i + m] = 2^m * f[i] + g[m] /\ f[i] \in Nat
      <4> DEFINE n == 24
                 l == 8
      <4>1. /\ n \in 0..24 /\ i \in 0..n /\ b \in [1..n -> Bit] /\ l \in 0..n - i
            /\ c \in [1..l -> Bit] /\ \A h \in 1..l : c[h] = b[i + h]
            /\ Makes(f, b, n) /\ Makes(g, c, l)
        BY <1>1, <2>2, <2>c, <3>1
      <4> HIDE DEF n, l
      <4>2. \A m \in 0..l : f[i + m] = 2^m * f[i] + g[m] /\ g[m] < 2^m /\ g[m] \in Nat /\ f[i] \in Nat
        <5> HIDE DEF c, i
        <5> QED BY <4>1, NumberSplit, ZenonT(60)
      <4> QED BY <4>2 DEF l
    <3> QED BY <2>2, <3>2, Zenon
  <2>4. 2^8 = 256
    OBVIOUS
  <2> QED BY <1>2, <2>1, <2>3, <2>4 DEF i
<1>6. f[8] = 256 * f[0] + OctetAt(d, k) /\ f[16] = 256 * f[8] + OctetAt(d, k + 1)
      /\ f[24] = 256 * f[16] + OctetAt(d, k + 2) /\ f[8] \in Nat /\ f[16] \in Nat
  <2>1. /\ 8 * 0 + 8 = 8 /\ 8 * 0 = 0 /\ 8 * 1 + 8 = 16 /\ 8 * 1 = 8 /\ 8 * 2 + 8 = 24 /\ 8 * 2 = 16
        /\ k + 0 = k /\ 0 \in 0..2 /\ 1 \in 0..2 /\ 2 \in 0..2
    OBVIOUS
  <2> QED BY <1>5, <2>1
<1>7. f[0] = 0
  BY <1>4 DEF Makes
<1>8. OctetAt(d, k) \in Nat /\ OctetAt(d, k + 1) \in Nat /\ OctetAt(d, k + 2) \in Nat
  <2>1. k + 0 = k /\ 0 \in 0..2 /\ 1 \in 0..2 /\ 2 \in 0..2
    OBVIOUS
  <2> QED BY <1>2, <2>1
<1>9. f[24] = 65536 * OctetAt(d, k) + 256 * OctetAt(d, k + 1) + OctetAt(d, k + 2)
  <2> DEFINE x == OctetAt(d, k)
             y == OctetAt(d, k + 1)
             z == OctetAt(d, k + 2)
  <2> HIDE DEF x, y, z
  <2>1. f[8] = 256 * 0 + x /\ f[16] = 256 * f[8] + y /\ f[24] = 256 * f[16] + z
    BY <1>6, <1>7 DEF x, y, z
  <2>2. x \in Nat /\ y \in Nat /\ z \in Nat
    BY <1>8 DEF x, y, z
  <2> QED BY <2>1, <2>2 DEF x, y, z
<1>10. BitsAt(d, 8 * k, 24) = b
  BY DEF BitsAt, b
<1> QED BY <1>1, <1>4, <1>9, <1>10

(* What is read are the bits in the octets, from the one it is read at.     *)
LEMMA UnpackedBits ==
  ASSUME NEW d \in Seq(Octet), NEW q \in Nat, NEW w \in 0..16
  PROVE  Unpack(d, q, w) = NumberOf(BitsAt(d, q, w))
<1> DEFINE k == q \div 8
           s == q % 8
           b == BitsAt(d, 8 * k, 24)
           three == 65536 * OctetAt(d, k) + 256 * OctetAt(d, k + 1) + OctetAt(d, k + 2)
<1>1. k \in Nat /\ s \in 0..7 /\ 8 * k + s = q /\ s + w <= 24
  OBVIOUS
<1>2. b \in [1..24 -> Bit] /\ NumberOf(b) = three
  <2> HIDE DEF k
  <2>0. k \in Nat
    BY <1>1
  <2>1. b \in [1..24 -> Bit]
    <3>1. 8 * k \in Nat /\ 24 \in Nat
      BY <2>0
    <3> QED BY <3>1, BitsAtTyped
  <2>2. NumberOf(b) = three
    BY <2>0, ThreeOctets
  <2> QED BY <2>1, <2>2
<1>3. Unpack(d, q, w) = (three \div 2^(24 - s - w)) % 2^w
  BY DEF Unpack
<1>4. BitsAt(d, q, w) = [i \in 1..w |-> b[s + i]]
  <2> HIDE DEF k, s
  <2>1. \A i \in 1..w : s + i \in 1..24 /\ q + i - 1 = 8 * k + (s + i) - 1
    BY <1>1
  <2> QED BY <2>1 DEF BitsAt
<1> HIDE DEF b, three, k, s
<1>5. (NumberOf(b) \div 2^(24 - s - w)) % 2^w = NumberOf([i \in 1..w |-> b[s + i]])
  <2>1. 24 \in 0..24 /\ s \in Nat /\ w \in Nat
    BY <1>1
  <2> QED BY <1>1, <1>2, <2>1, SliceOfNumber
<1> QED BY <1>2, <1>3, <1>4, <1>5, Zenon

(* Joining is associative.                                                  *)
LEMMA JoinAgain ==
  ASSUME NEW S, NEW a \in Seq(S), NEW b \in Seq(S), NEW c \in Seq(S)
  PROVE  a \o (b \o c) = (a \o b) \o c
OBVIOUS

(* One part is itself.                                                      *)
LEMMA FlattenOne ==
  ASSUME NEW S, NEW x \in Seq(S)
  PROVE  FlattenSeq(<<x>>) = x
<1>1. <<x>> \in Seq(Seq(S)) /\ Len(<<x>>) = 1 /\ Len(<<x>>) # 0 /\ <<x>>[1] = x
  OBVIOUS
<1>2. PICK f : Flattens(f, <<x>>, S)
  BY <1>1, FlattenDef, Zenon
<1> QED BY <1>1, <1>2 DEF Flattens

(* Parts are joined as the sequences of parts are.                          *)
LEMMA FlattenJoined ==
  ASSUME NEW S, NEW s \in Seq(Seq(S)), NEW t \in Seq(Seq(S))
  PROVE  FlattenSeq(s \o t) = FlattenSeq(s) \o FlattenSeq(t)
<1> DEFINE A == Seq(S)
           u == s \o t
           m == Len(s)
           n == Len(t)
<1>1. /\ u \in Seq(A) /\ Len(u) = m + n /\ m \in Nat /\ n \in Nat
      /\ (\A i \in 1..m : u[i] = s[i]) /\ (\A i \in 1..n : u[m + i] = t[i])
  OBVIOUS
<1>2. FlattenSeq(s) \in A /\ FlattenSeq(t) \in A
  BY FlattenTyped
<1>3. CASE m = 0
  <2>1. s = <<>> /\ u = t /\ FlattenSeq(s) = <<>>
    <3>1. s = <<>> /\ u = t
      BY <1>3
    <3> QED BY <3>1 DEF FlattenSeq
  <2>2. \A x \in A : <<>> \o x = x
    OBVIOUS
  <2> QED BY <1>2, <2>1, <2>2
<1>4. CASE n = 0
  <2>1. t = <<>> /\ u = s /\ FlattenSeq(t) = <<>>
    <3>1. t = <<>> /\ u = s
      BY <1>4
    <3> QED BY <3>1 DEF FlattenSeq
  <2>2. \A x \in A : x \o <<>> = x
    OBVIOUS
  <2> QED BY <1>2, <2>1, <2>2
<1>5. CASE m # 0 /\ n # 0
  <2>1. PICK f : Flattens(f, s, S)
    BY <1>5, FlattenDef
  <2>2. PICK g : Flattens(g, t, S)
    BY <1>5, FlattenDef
  <2>3. PICK h : Flattens(h, u, S)
    <3>1. Len(u) # 0
      BY <1>1, <1>5
    <3> HIDE DEF u
    <3> QED BY <1>1, <3>1, FlattenDef
  <2>4. /\ f \in [1..m -> A] /\ f[1] = s[1] /\ FlattenSeq(s) = f[m]
        /\ \A k \in 1..m - 1 : f[k + 1] = f[k] \o s[k + 1]
    BY <2>1 DEF Flattens
  <2>5. /\ g \in [1..n -> A] /\ g[1] = t[1] /\ FlattenSeq(t) = g[n]
        /\ \A k \in 1..n - 1 : g[k + 1] = g[k] \o t[k + 1]
    BY <2>2 DEF Flattens
  <2> HIDE DEF u
  <2> DEFINE l == Len(u)
  <2>6. /\ h[1] = u[1] /\ FlattenSeq(u) = h[l]
        /\ \A k \in 1..l - 1 : h[k + 1] = h[k] \o u[k + 1]
    BY <2>3, Zenon DEF Flattens
  <2>u. (\A i \in 1..m : u[i] = s[i]) /\ (\A i \in 1..n : u[m + i] = t[i])
    BY <1>1
  <2>s. \A k \in 1..n : t[k] \in A
    OBVIOUS
  <2>t. m \in Nat /\ n \in Nat /\ m # 0 /\ n # 0 /\ l = m + n
    BY <1>1, <1>5
  <2>a. \A x, y, z \in A : x \o (y \o z) = (x \o y) \o z
    OBVIOUS
  <2> HIDE DEF m, n, l, A
  <2> DEFINE P(k) == h[k + 1] = f[k + 1]
             E == {k \in Nat : k + 1 <= m => P(k)}
  <2>7. 0 \in E
    BY <2>t, <2>u, <2>4, <2>6
  <2>8. ASSUME NEW k \in Nat, k \in E PROVE k + 1 \in E
    <3> SUFFICES ASSUME k + 1 + 1 <= m PROVE P(k + 1)
      OBVIOUS
    <3>1. k + 1 <= m /\ k + 1 \in 1..m - 1 /\ k + 1 \in 1..l - 1 /\ k + 1 + 1 \in 1..m
      BY <2>t
    <3>2. P(k)
      <4> HIDE DEF P
      <4> QED BY <2>8, <3>1
    <3> QED BY <2>u, <2>4, <2>6, <3>1, <3>2
  <2>9. \A k \in Nat : k \in E
    <3> HIDE DEF E
    <3> QED BY <2>7, <2>8, Induction
  <2>10. h[m] = f[m] /\ f[m] \in A
    <3>1. m - 1 \in Nat /\ (m - 1) + 1 = m /\ m \in 1..m
      BY <2>t
    <3>2. m - 1 \in E
      BY <2>9, <3>1
    <3> QED BY <2>4, <3>1, <3>2
  <2> HIDE DEF E
  <2> DEFINE Q(k) == h[m + (k + 1)] = f[m] \o g[k + 1]
             F == {k \in Nat : k + 1 <= n => Q(k)}
  <2>11. 0 \in F
    <3>1. 1 \in 1..n /\ m \in 1..l - 1 /\ m + (0 + 1) = m + 1 /\ 0 + 1 = 1
      BY <2>t
    <3>2. h[m + 1] = h[m] \o u[m + 1]
      BY <2>6, <3>1
    <3>3. u[m + 1] = t[1]
      BY <2>u, <3>1
    <3> QED BY <2>5, <2>10, <3>1, <3>2, <3>3
  <2>12. ASSUME NEW k \in Nat, k \in F PROVE k + 1 \in F
    <3> SUFFICES ASSUME k + 1 + 1 <= n PROVE Q(k + 1)
      <4> HIDE DEF Q
      <4> QED OBVIOUS
    <3>1. /\ k + 1 <= n /\ k + 1 \in 1..n - 1 /\ k + 1 + 1 \in 1..n /\ m + (k + 1) \in 1..l - 1 /\ k + 1 \in 1..n
          /\ m + (k + 1 + 1) = (m + (k + 1)) + 1
      BY <2>t
    <3>2. Q(k)
      <4> HIDE DEF Q
      <4> QED BY <2>12, <3>1
    <3>3. h[m + (k + 1 + 1)] = h[m + (k + 1)] \o u[m + (k + 1 + 1)]
      BY <2>6, <3>1
    <3>4. u[m + (k + 1 + 1)] = t[k + 1 + 1]
      BY <2>u, <3>1
    <3>5. g[k + 1 + 1] = g[k + 1] \o t[k + 1 + 1]
      BY <2>5, <3>1
    <3>6. f[m] \in A /\ g[k + 1] \in A /\ t[k + 1 + 1] \in A
      BY <2>s, <2>5, <2>10, <3>1
    <3>7. f[m] \o (g[k + 1] \o t[k + 1 + 1]) = (f[m] \o g[k + 1]) \o t[k + 1 + 1]
      BY <2>a, <3>6, Zenon
    <3> QED BY <3>2, <3>3, <3>4, <3>5, <3>7, Zenon
  <2>13. \A k \in Nat : k \in F
    <3> HIDE DEF F
    <3> QED BY <2>11, <2>12, Induction
  <2>14. h[m + n] = f[m] \o g[n]
    <3>1. n - 1 \in Nat /\ (n - 1) + 1 = n
      BY <2>t
    <3>2. n - 1 \in F
      <4> HIDE DEF F
      <4> QED BY <2>13, <3>1
    <3>3. Q(n - 1)
      <4> HIDE DEF Q
      <4> QED BY <2>t, <3>1, <3>2
    <3> QED BY <3>1, <3>3, Zenon
  <2> QED BY <2>4, <2>5, <2>6, <2>14, <2>t, Zenon DEF u
<1> QED BY <1>3, <1>4, <1>5

(* ---- what is read of fields that were written --------------------------*)
(* The bits of fields, one behind the other.                                *)
FieldBits(s) == FlattenSeq([k \in DOMAIN s |-> BitsOf(s[k])])

(* The octets d hold the bits b from bit q on.                              *)
Holds(d, q, b) == \A i \in 1..Len(b) : BitAt(d, q + i - 1) = b[i]

(* Behind octet p of d are the octets c.                                    *)
Behold(d, p, c) == p + Len(c) <= Len(d) /\ \A k \in 1..Len(c) : d[p + k] = c[k]

(* The bits of fields are bits.                                             *)
LEMMA FieldBitsTyped ==
  ASSUME NEW s \in Seq(Fields)
  PROVE  /\ [k \in DOMAIN s |-> BitsOf(s[k])] \in Seq(Seq(Bit))
         /\ FieldBits(s) \in Seq(Bit) /\ Len(FieldBits(s)) \in Nat
<1> DEFINE b == [k \in DOMAIN s |-> BitsOf(s[k])]
<1>1. DOMAIN s = 1..Len(s) /\ Len(s) \in Nat /\ \A k \in 1..Len(s) : s[k] \in Fields
  OBVIOUS
<1>2. \A k \in 1..Len(s) : BitsOf(s[k]) \in Seq(Bit)
  BY <1>1, BitsTyped
<1>3. b \in Seq(Seq(Bit))
  BY <1>1, <1>2
<1> HIDE DEF b
<1>4. FlattenSeq(b) \in Seq(Bit)
  BY <1>3, FlattenTyped
<1>5. FieldBits(s) = FlattenSeq(b)
  BY DEF FieldBits, b
<1> QED BY <1>3, <1>4, <1>5 DEF b

(* The bits of one field, and of none.                                      *)
LEMMA OneFieldBits ==
  ASSUME NEW g \in Fields
  PROVE  FieldBits(<<g>>) = BitsOf(g)
<1>1. [k \in DOMAIN <<g>> |-> BitsOf(<<g>>[k])] = <<BitsOf(g)>>
  OBVIOUS
<1>2. BitsOf(g) \in Seq(Bit)
  BY BitsTyped
<1> QED BY <1>1, <1>2, FlattenOne, Zenon DEF FieldBits

(* Sequences of the same length and members are the same.                   *)
LEMMA SameSequence ==
  ASSUME NEW S, NEW x \in Seq(S), NEW y \in Seq(S), Len(x) = Len(y), \A i \in 1..Len(x) : x[i] = y[i]
  PROVE  x = y
OBVIOUS

(* The bits of joined fields are joined.                                    *)
LEMMA FieldBitsJoined ==
  ASSUME NEW s \in Seq(Fields), NEW t \in Seq(Fields)
  PROVE  FieldBits(s \o t) = FieldBits(s) \o FieldBits(t)
<1> DEFINE u == s \o t
           x == [k \in DOMAIN s |-> BitsOf(s[k])]
           y == [k \in DOMAIN t |-> BitsOf(t[k])]
           z == [k \in DOMAIN u |-> BitsOf(u[k])]
           A == Seq(Bit)
           m == Len(s)
           n == Len(t)
<1>1. /\ u \in Seq(Fields) /\ DOMAIN u = 1..m + n /\ m \in Nat /\ n \in Nat
      /\ DOMAIN s = 1..m /\ DOMAIN t = 1..n
      /\ (\A i \in 1..m : u[i] = s[i]) /\ (\A i \in 1..n : u[m + i] = t[i])
  OBVIOUS
<1>2. x \in Seq(A) /\ y \in Seq(A) /\ z \in Seq(A)
  <2> HIDE DEF u
  <2> QED BY <1>1, FieldBitsTyped
<1>3. FieldBits(u) = FlattenSeq(z) /\ FieldBits(s) = FlattenSeq(x) /\ FieldBits(t) = FlattenSeq(y)
  BY DEF FieldBits
<1> HIDE DEF u, A
<1>4. /\ Len(x) = m /\ Len(y) = n /\ Len(z) = m + n
      /\ (\A i \in 1..m : x[i] = BitsOf(s[i])) /\ (\A i \in 1..n : y[i] = BitsOf(t[i]))
      /\ \A i \in 1..m + n : z[i] = BitsOf(u[i])
  <2> HIDE DEF m, n
  <2> QED BY <1>1
<1> HIDE DEF x, y, z, m, n
<1> DEFINE v == x \o y
<1>5. /\ v \in Seq(A) /\ Len(v) = m + n
      /\ (\A i \in 1..m : v[i] = x[i]) /\ (\A i \in 1..n : v[m + i] = y[i])
  <2>1. /\ v \in Seq(A) /\ Len(v) = Len(x) + Len(y)
        /\ (\A i \in 1..Len(x) : v[i] = x[i]) /\ (\A i \in 1..Len(y) : v[Len(x) + i] = y[i])
    BY <1>2, Joined
  <2> HIDE DEF v
  <2> QED BY <1>4, <2>1, Zenon
<1> HIDE DEF v
<1>6. ASSUME NEW i \in 1..m + n PROVE z[i] = v[i]
  <2>1. CASE i \in 1..m
    <3>1. z[i] = BitsOf(u[i]) /\ u[i] = s[i]
      BY <1>1, <1>4, <2>1
    <3>2. v[i] = x[i] /\ x[i] = BitsOf(s[i])
      BY <1>4, <1>5, <2>1
    <3> QED BY <3>1, <3>2, Zenon
  <2>2. CASE i \notin 1..m
    <3>1. PICK j \in 1..n : i = m + j
      <4>1. i - m \in 1..n /\ m + (i - m) = i
        BY <1>1, <2>2
      <4> QED BY <4>1
    <3>2. z[i] = BitsOf(u[i]) /\ u[i] = t[j]
      BY <1>1, <1>4, <3>1
    <3>3. v[i] = y[j] /\ y[j] = BitsOf(t[j])
      BY <1>4, <1>5, <3>1
    <3> QED BY <3>2, <3>3, Zenon
  <2> QED BY <2>1, <2>2
<1>7. z = v
  BY <1>2, <1>4, <1>5, <1>6, SameSequence
<1>8. FlattenSeq(z) = FlattenSeq(x) \o FlattenSeq(y)
  BY <1>2, <1>7, FlattenJoined DEF v, A
<1> QED BY <1>3, <1>8 DEF u

(* Fields are packed by their bits.                                         *)
LEMMA PackIsOctets == \A s : Pack(s) = OctetsOf(FieldBits(s))
BY DEF Pack, FieldBits

(* What is held is held in parts.                                           *)
LEMMA HoldsParts ==
  ASSUME NEW d, NEW q \in Nat, NEW a \in Seq(Bit), NEW b \in Seq(Bit), Holds(d, q, a \o b)
  PROVE  Holds(d, q, a) /\ Holds(d, q + Len(a), b)
<1> DEFINE c == a \o b
           m == Len(a)
           n == Len(b)
<1>1. /\ Len(c) = m + n /\ m \in Nat /\ n \in Nat
      /\ (\A i \in 1..m : c[i] = a[i]) /\ (\A i \in 1..n : c[m + i] = b[i])
  OBVIOUS
<1>2. \A i \in 1..m + n : BitAt(d, q + i - 1) = c[i]
  BY <1>1 DEF Holds
<1> HIDE DEF c, m, n
<1>3. ASSUME NEW i \in 1..m PROVE BitAt(d, q + i - 1) = a[i]
  <2>1. i \in 1..m + n
    BY <1>1
  <2> QED BY <1>1, <1>2, <2>1
<1>4. ASSUME NEW i \in 1..n PROVE BitAt(d, (q + m) + i - 1) = b[i]
  <2>1. m + i \in 1..m + n /\ (q + m) + i - 1 = q + (m + i) - 1
    BY <1>1
  <2> QED BY <1>1, <1>2, <2>1
<1> QED BY <1>3, <1>4 DEF Holds, m, n

(* A bit is in an octet, at a place.                                        *)
LEMMA InEights == \A x \in Nat : x \div 8 \in Nat /\ x % 8 \in 0..7 /\ x = 8 * (x \div 8) + (x % 8)
OBVIOUS

(* A place in an octet is a bit.                                            *)
LEMMA EightsAndRest == \A x \in Nat, r \in 0..7 : (8 * x + r) \div 8 = x /\ (8 * x + r) % 8 = r
OBVIOUS

(* Packed bits are held.                                                    *)
LEMMA PackedAreHeld ==
  ASSUME NEW d \in Seq(Octet), NEW p \in Nat, NEW b \in Seq(Bit), Behold(d, p, OctetsOf(b))
  PROVE  Holds(d, 8 * p, b)
<1> DEFINE l == Len(b)
           n == (l + 7) \div 8
           eight(k) == [i \in 1..8 |-> IF 8 * k - 8 + i <= l THEN b[8 * k - 8 + i] ELSE 0]
           o == OctetsOf(b)
<1>1. o = [k \in 1..n |-> NumberOf(eight(k))] /\ Len(o) = n /\ n \in Nat /\ l \in Nat
  BY DEF OctetsOf
<1>2. \A i \in 1..l : b[i] \in Bit
  OBVIOUS
<1>3. \A k \in 1..n : p + k <= Len(d) /\ d[p + k] = NumberOf(eight(k))
  <2> HIDE DEF eight, n
  <2>1. p + n <= Len(d) /\ \A k \in 1..n : d[p + k] = o[k]
    BY <1>1 DEF Behold
  <2> HIDE DEF o
  <2> QED BY <1>1, <2>1
<1>4. ASSUME NEW k \in 1..n PROVE eight(k) \in [1..8 -> Bit]
  <2>1. \A i \in 1..8 : 8 * k - 8 + i <= l => 8 * k - 8 + i \in 1..l
    BY <1>1
  <2> HIDE DEF l, n
  <2> QED BY <1>2, <2>1 DEF Bit
<1>5. ASSUME NEW i \in 1..l PROVE BitAt(d, 8 * p + i - 1) = b[i]
  <2> DEFINE k == (i - 1) \div 8
             r == (i - 1) % 8
  <2> HIDE DEF l
  <2>0. k \in Nat /\ r \in 0..7 /\ i - 1 = 8 * k + r /\ i <= l /\ i \in Nat
    <3>1. i - 1 \in Nat /\ i <= l /\ i \in Nat
      BY <1>1
    <3> QED BY <3>1, InEights, Zenon
  <2> HIDE DEF k, r
  <2>1. /\ k \in Nat /\ k + 1 \in 1..n /\ r + 1 \in 1..8 /\ 8 * (k + 1) - 8 + (r + 1) = i
        /\ (8 * p + i - 1) \div 8 = p + k /\ (8 * p + i - 1) % 8 = r
    <3>1. 8 * p + i - 1 = 8 * (p + k) + r /\ p + k \in Nat
      BY <2>0
    <3>2. (8 * p + i - 1) \div 8 = p + k /\ (8 * p + i - 1) % 8 = r
      BY <2>0, <3>1, EightsAndRest
    <3>3. k + 1 \in 1..n /\ r + 1 \in 1..8 /\ 8 * (k + 1) - 8 + (r + 1) = i
      BY <1>1, <2>0
    <3> QED BY <2>0, <3>2, <3>3
  <2> HIDE DEF n
  <2>2. OctetAt(d, p + k) = NumberOf(eight(k + 1))
    <3>1. p + (k + 1) <= Len(d) /\ d[p + (k + 1)] = NumberOf(eight(k + 1))
      BY <1>3, <2>1
    <3> HIDE DEF eight
    <3>2. p + k < Len(d) /\ (p + k) + 1 = p + (k + 1)
      BY <2>1, <3>1
    <3> QED BY <3>1, <3>2 DEF OctetAt
  <2>3. eight(k + 1)[r + 1] = b[i]
    <3>1. eight(k + 1)[r + 1] = IF 8 * (k + 1) - 8 + (r + 1) <= l THEN b[8 * (k + 1) - 8 + (r + 1)] ELSE 0
      BY <2>1
    <3> HIDE DEF eight
    <3> QED BY <2>0, <2>1, <3>1
  <2>4. eight(k + 1) \in [1..8 -> Bit]
    BY <1>4, <2>1 DEF l
  <2> HIDE DEF eight
  <2>5. (NumberOf(eight(k + 1)) \div 2^(8 - (r + 1))) % 2 = eight(k + 1)[r + 1]
    <3>1. 8 \in 0..24
      OBVIOUS
    <3> QED BY <2>1, <2>4, <3>1, BitOfNumber
  <2>6. 8 - (r + 1) = 7 - r
    BY <2>1
  <2>7. BitAt(d, 8 * p + i - 1) = (OctetAt(d, p + k) \div 2^(7 - r)) % 2
    BY <2>1, Zenon DEF BitAt
  <2> QED BY <2>2, <2>3, <2>5, <2>6, <2>7, Zenon
<1> HIDE DEF l
<1>6. \A i \in 1..l : BitAt(d, 8 * p + i - 1) = b[i]
  BY <1>5
<1> QED BY <1>6 DEF Holds, l

(* A field that is held is read.                                            *)
LEMMA HeldIsRead ==
  ASSUME NEW d \in Seq(Octet), NEW q \in Nat, NEW w \in 0..16, NEW v \in Nat, v < 2^w,
         Holds(d, q, BitsOf(<<v, w>>))
  PROVE  Unpack(d, q, w) = v
<1>1. BitsOf(<<v, w>>) \in [1..w -> Bit] /\ NumberOf(BitsOf(<<v, w>>)) = v
  BY FieldIsNumber
<1>2. Len(BitsOf(<<v, w>>)) = w
  <2>1. <<v, w>> \in Fields /\ <<v, w>>[2] = w
    BY DEF Fields
  <2> QED BY <2>1, BitsTyped
<1> DEFINE b == BitsOf(<<v, w>>)
<1> HIDE DEF b
<1>3. \A i \in 1..w : BitAt(d, q + i - 1) = b[i]
  BY <1>2 DEF Holds, b
<1>4. BitsAt(d, q, w) = b
  BY <1>1, <1>3 DEF BitsAt, b
<1> QED BY <1>1, <1>4, UnpackedBits DEF b

(* Any field is read where it was written, whatever is before and behind.   *)
THEOREM FieldsAreKept ==
  ASSUME NEW s \in Seq(Fields), NEW t \in Seq(Fields), NEW w \in 0..16, NEW v \in Nat, v < 2^w,
         NEW d \in Seq(Octet), NEW p \in Nat, Behold(d, p, Pack((s \o <<<<v, w>>>>) \o t))
  PROVE  Unpack(d, 8 * p + Len(FieldBits(s)), w) = v
<1> DEFINE g == <<v, w>>
           u == s \o <<g>>
           b == FieldBits(s)
           c == FieldBits(<<g>>)
           e == FieldBits(t)
<1>1. g \in Fields /\ <<g>> \in Seq(Fields)
  BY DEF Fields
<1>2. u \in Seq(Fields)
  BY <1>1, MoreFields
<1>3. b \in Seq(Bit) /\ c \in Seq(Bit) /\ e \in Seq(Bit) /\ FieldBits(u \o t) \in Seq(Bit)
  <2>1. u \o t \in Seq(Fields)
    BY <1>2, MoreFields
  <2> HIDE DEF u, g
  <2> QED BY <1>1, <1>2, <2>1, FieldBitsTyped
<1>4. FieldBits(u \o t) = (b \o c) \o e
  <2> HIDE DEF g
  <2> QED BY <1>1, <1>2, FieldBitsJoined
<1>5. c = BitsOf(g)
  BY <1>1, OneFieldBits
<1>6. Behold(d, p, OctetsOf((b \o c) \o e))
  BY <1>4, PackIsOctets
<1> HIDE DEF b, c, e, u
<1>7. Holds(d, 8 * p, (b \o c) \o e)
  <2>1. (b \o c) \o e \in Seq(Bit)
    BY <1>3, <1>4
  <2> QED BY <1>6, <2>1, PackedAreHeld
<1>8. 8 * p \in Nat /\ Len(b) \in Nat /\ 8 * p + Len(b) \in Nat
  BY <1>3
<1>9. Holds(d, 8 * p, b \o c)
  <2>1. b \o c \in Seq(Bit)
    BY <1>3
  <2> QED BY <1>3, <1>7, <1>8, <2>1, HoldsParts
<1>10. Holds(d, 8 * p + Len(b), c)
  BY <1>3, <1>8, <1>9, HoldsParts
<1> QED BY <1>5, <1>8, <1>10, HeldIsRead DEF b

(* ---- the parameters of the transport layer -----------------------------*)
(* What octets hold of fields they hold of the first and of the others.     *)
LEMMA FieldsHeld ==
  ASSUME NEW d \in Seq(Octet), NEW q \in Nat, NEW s \in Seq(Fields), NEW t \in Seq(Fields),
         Holds(d, q, FieldBits(s \o t))
  PROVE  /\ Holds(d, q, FieldBits(s)) /\ Holds(d, q + Len(FieldBits(s)), FieldBits(t))
         /\ Len(FieldBits(s \o t)) = Len(FieldBits(s)) + Len(FieldBits(t))
<1> DEFINE b == FieldBits(s)
           c == FieldBits(t)
<1>1. b \in Seq(Bit) /\ c \in Seq(Bit)
  BY FieldBitsTyped
<1>2. FieldBits(s \o t) = b \o c
  BY FieldBitsJoined
<1> HIDE DEF b, c
<1>3. Holds(d, q, b \o c) /\ Len(b \o c) = Len(b) + Len(c)
  BY <1>1, <1>2, Joined
<1> QED BY <1>1, <1>2, <1>3, HoldsParts DEF b, c

(* What is held of one field is its value.                                  *)
LEMMA OneFieldHeld ==
  ASSUME NEW d \in Seq(Octet), NEW q \in Nat, NEW w \in 0..16, NEW v \in Int,
         Holds(d, q, FieldBits(<<<<v, w>>>>))
  PROVE  /\ Len(FieldBits(<<<<v, w>>>>)) = w
         /\ v \in Nat /\ v < 2^w => Unpack(d, q, w) = v
<1> DEFINE g == <<v, w>>
<1>1. g \in Fields /\ g[2] = w
  BY DEF Fields
<1>2. FieldBits(<<g>>) = BitsOf(g) /\ Len(BitsOf(g)) = w
  <2> HIDE DEF g
  <2> QED BY <1>1, OneFieldBits, BitsTyped
<1>3. Holds(d, q, BitsOf(g))
  BY <1>2
<1> QED BY <1>2, <1>3, HeldIsRead

(* Two fields are the first and then the second.                            *)
LEMMA TwoFields ==
  ASSUME NEW f \in Fields, NEW g \in Fields
  PROVE  <<f, g>> = <<f>> \o <<g>>
<1> DEFINE x == <<f>>
           y == <<g>>
<1>1. x \in Seq(Fields) /\ y \in Seq(Fields) /\ Len(x) = 1 /\ Len(y) = 1 /\ x[1] = f /\ y[1] = g
  OBVIOUS
<1>2. <<f, g>> \in Seq(Fields) /\ Len(<<f, g>>) = 2 /\ <<f, g>>[1] = f /\ <<f, g>>[2] = g
  OBVIOUS
<1> DEFINE z == <<f, g>>
<1>3. z \in Seq(Fields) /\ Len(z) = 2 /\ z[1] = f /\ z[2] = g
  BY <1>2
<1> HIDE DEF x, y, z
<1> DEFINE v == x \o y
<1>4. /\ v \in Seq(Fields) /\ Len(v) = Len(x) + Len(y) /\ (\A i \in 1..Len(x) : v[i] = x[i])
      /\ \A i \in 1..Len(y) : v[Len(x) + i] = y[i]
  BY <1>1, Joined
<1> HIDE DEF v
<1>5. v \in Seq(Fields) /\ Len(v) = 2 /\ v[1] = f /\ v[2] = g
  BY <1>1, <1>4
<1>6. z = v
  <2>1. \A i \in 1..2 : z[i] = v[i]
    BY <1>3, <1>5
  <2> QED BY <1>3, <1>5, <2>1, SameSequence
<1> QED BY <1>6 DEF v, x, y, z

(* No fields have no bits.                                                  *)
LEMMA NoFieldBits == FieldBits(<<>>) = <<>>
<1>1. [k \in DOMAIN <<>> |-> BitsOf(<<>>[k])] = <<>>
  OBVIOUS
<1>2. FlattenSeq(<<>>) = <<>>
  BY DEF FlattenSeq
<1> QED BY <1>1, <1>2, Zenon DEF FieldBits

(* Both layers read fields the same way.                                    *)
LEMMA SameUnpack == \A d, q, w : TL!Unpack(d, q, w) = Unpack(d, q, w)
BY DEF TL!Unpack, Unpack, TL!OctetAt, OctetAt

(* Digits of w bits each are read.                                          *)
LEMMA DigitsHeld ==
  ASSUME NEW d \in Seq(Octet), NEW q \in Nat, NEW w \in 1..16, NEW x \in Seq(Octet),
         Holds(d, q, FieldBits(TL!DigitFields(x, w)))
  PROVE  /\ Len(FieldBits(TL!DigitFields(x, w))) = w * Len(x)
         /\ (\A k \in 1..Len(x) : x[k] < 2^w) => TL!ReadDigits(d, q, w, Len(x)) = x
<1> DEFINE n == Len(x)
           y(k) == SubSeq(x, 1, k)
           F(k) == FieldBits(TL!DigitFields(y(k), w))
           P(k) == /\ Len(F(k)) = w * k
                   /\ Holds(d, q, F(k)) => \A j \in 1..k : x[j] < 2^w => Unpack(d, q + w * (j - 1), w) = x[j]
           S == {k \in Nat : k <= n => P(k)}
<1>0. n \in Nat /\ w \in Nat /\ w \in 0..16
  OBVIOUS
<1>1. ASSUME NEW k \in Nat, k <= n
      PROVE y(k) \in Seq(Octet) /\ TL!DigitFields(y(k), w) \in Seq(Fields)
  <2>1. y(k) \in Seq(Octet)
    BY <1>1
  <2> HIDE DEF y
  <2> QED BY <2>1, <1>0, DigitFields DEF TL!DigitFields
<1>2. ASSUME NEW k \in Nat, k + 1 <= n
      PROVE TL!DigitFields(y(k + 1), w) = TL!DigitFields(y(k), w) \o <<<<x[k + 1], w>>>>
  <2> DEFINE a == TL!DigitFields(y(k), w)
             g == <<x[k + 1], w>>
             z == TL!DigitFields(y(k + 1), w)
  <2>1. /\ Len(a) = k /\ Len(z) = k + 1
        /\ (\A i \in 1..k : a[i] = <<x[i], w>>) /\ \A i \in 1..k + 1 : z[i] = <<x[i], w>>
    BY <1>2 DEF TL!DigitFields
  <2>2. a \in Seq(Fields) /\ z \in Seq(Fields)
    BY <1>1, <1>2
  <2>3. g \in Fields
    <3>1. x[k + 1] \in Int
      <4>1. x[k + 1] \in Octet
        BY <1>2
      <4> QED BY <4>1, OctetIsInt, Zenon
    <3> QED BY <1>0, <3>1 DEF Fields
  <2>4. z[k + 1] = g
    BY <2>1
  <2> HIDE DEF a, g, z
  <2> DEFINE v == a \o <<g>>
  <2>5. v \in Seq(Fields) /\ Len(v) = k + 1 /\ (\A i \in 1..k : v[i] = a[i]) /\ v[k + 1] = g
    BY <2>1, <2>2, <2>3
  <2> HIDE DEF v
  <2>6. ASSUME NEW i \in 1..k + 1 PROVE z[i] = v[i]
    <3>1. CASE i \in 1..k
      <4>1. z[i] = <<x[i], w>> /\ a[i] = <<x[i], w>> /\ v[i] = a[i]
        BY <2>1, <2>5, <3>1, Zenon
      <4> QED BY <4>1, Zenon
    <3>2. CASE i = k + 1
      BY <2>4, <2>5, <3>2, Zenon
    <3> QED BY <3>1, <3>2
  <2>7. z = v
    BY <2>1, <2>2, <2>5, <2>6, SameSequence
  <2> QED BY <2>7 DEF a, g, v, z
<1>3. 0 \in S
  <2>1. y(0) = <<>>
    OBVIOUS
  <2>2. TL!DigitFields(<<>>, w) = <<>>
    BY DEF TL!DigitFields
  <2>3. FieldBits(<<>>) = <<>>
    BY NoFieldBits
  <2>4. Len(F(0)) = 0
    <3>1. Len(<<>>) = 0
      OBVIOUS
    <3> QED BY <2>1, <2>2, <2>3, <3>1, Zenon
  <2>5. w * 0 = 0
    BY <1>0
  <2> HIDE DEF F
  <2> QED BY <2>4, <2>5
<1>4. ASSUME NEW k \in Nat, k \in S, k + 1 <= n PROVE P(k + 1)
  <2> DEFINE a == TL!DigitFields(y(k), w)
             g == <<<<x[k + 1], w>>>>
             z == x[k + 1]
  <2>1. P(k) /\ k <= n
    <3> HIDE DEF P
    <3> QED BY <1>4
  <2>2. a \in Seq(Fields)
    BY <1>1, <2>1
  <2>3. z \in Nat /\ z \in Int
    <3>1. k + 1 \in 1..n
      BY <1>4
    <3>2. z \in Octet
      BY <3>1
    <3> QED BY <3>2, OctetIsInt, Zenon
  <2>4. g \in Seq(Fields)
    BY <1>0, <2>3, OneField, Zenon
  <2>5. F(k) = FieldBits(a) /\ F(k + 1) = FieldBits(a \o g)
    <3> HIDE DEF y
    <3> QED BY <1>2, <1>4
  <2> HIDE DEF y, F, a
  <2>6. F(k + 1) = F(k) \o FieldBits(g)
    BY <2>2, <2>4, <2>5, FieldBitsJoined
  <2>7. F(k) \in Seq(Bit) /\ FieldBits(g) \in Seq(Bit)
    BY <2>2, <2>4, <2>5, FieldBitsTyped
  <2>8. Len(FieldBits(g)) = w
    <3>1. <<z, w>> \in Fields /\ <<z, w>>[2] = w
      BY <1>0, <2>3 DEF Fields
    <3> HIDE DEF z
    <3> QED BY <3>1, OneFieldBits, BitsTyped DEF z
  <2>9. Len(F(k + 1)) = w * (k + 1)
    <3>1. Len(F(k + 1)) = Len(F(k)) + Len(FieldBits(g))
      BY <2>6, <2>7, Joined
    <3>2. w * k + w = w * (k + 1)
      BY <1>0
    <3> QED BY <2>1, <2>8, <3>1, <3>2
  <2>10. ASSUME Holds(d, q, F(k + 1)), NEW j \in 1..k + 1, x[j] < 2^w
         PROVE  Unpack(d, q + w * (j - 1), w) = x[j]
    <3>1. Holds(d, q, F(k)) /\ Holds(d, q + w * k, FieldBits(g))
      BY <2>1, <2>6, <2>7, <2>10, HoldsParts
    <3>2. CASE j \in 1..k
      BY <2>1, <2>10, <3>1, <3>2
    <3>3. CASE j = k + 1
      <4>1. q + w * k \in Nat /\ q + w * (j - 1) = q + w * k
        BY <1>0, <3>3
      <4>2. z < 2^w
        BY <2>10, <3>3
      <4> QED BY <1>0, <2>3, <3>1, <3>3, <4>1, <4>2, OneFieldHeld
    <3> QED BY <3>2, <3>3
  <2> QED BY <2>9, <2>10
<1>5. \A k \in Nat : k \in S
  <2> HIDE DEF P
  <2>1. \A k \in Nat : k \in S => k + 1 \in S
    BY <1>4
  <2> HIDE DEF S
  <2> QED BY <1>3, <2>1, Induction
<1>6. P(n)
  <2> HIDE DEF P
  <2>1. n \in S
    BY <1>0, <1>5
  <2> QED BY <1>0, <2>1
<1>7. y(n) = x
  OBVIOUS
<1>8. F(n) = FieldBits(TL!DigitFields(x, w))
  BY <1>7
<1> HIDE DEF F
<1>9. Len(F(n)) = w * n /\ \A j \in 1..n : x[j] < 2^w => Unpack(d, q + w * (j - 1), w) = x[j]
  BY <1>6, <1>8
<1>10. ASSUME \A k \in 1..n : x[k] < 2^w PROVE TL!ReadDigits(d, q, w, n) = x
  <2>1. x = [k \in 1..n |-> x[k]]
    OBVIOUS
  <2>2. TL!ReadDigits(d, q, w, n) = [k \in 1..n |-> Unpack(d, q + w * (k - 1), w)]
    BY SameUnpack DEF TL!ReadDigits
  <2>3. \A k \in 1..n : Unpack(d, q + w * (k - 1), w) = x[k]
    BY <1>9, <1>10
  <2>4. [k \in 1..n |-> Unpack(d, q + w * (k - 1), w)] = [k \in 1..n |-> x[k]]
    BY <2>3, Zenon
  <2> QED BY <2>1, <2>2, <2>4, Zenon
<1> QED BY <1>8, <1>9, <1>10

(* Fields behind fields: one more, one more on a condition, digits, and two.*)
OneMore(s, v, w) == s \o <<<<v, w>>>>
OneMoreIf(c, s, v, w) == s \o (IF c THEN <<<<v, w>>>> ELSE <<>>)
DigitsMore(s, x, w) == s \o TL!DigitFields(x, w)
TwoOf(a, v, b, w) == <<<<a, v>>, <<b, w>>>>

(* A value that its field holds is at bit q.                                *)
Shows(d, q, v, w) == v \in Nat /\ v < 2^w => Unpack(d, q, w) = v

ShowsDigits(d, q, x, w) == (\A k \in 1..Len(x) : x[k] < 2^w) => TL!ReadDigits(d, q, w, Len(x)) = x

(* One more field behind fields that are held.                              *)
LEMMA OneMoreHeld ==
  ASSUME NEW d \in Seq(Octet), NEW q \in Nat, NEW s \in Seq(Fields), NEW v \in Int, NEW w \in 0..16,
         Holds(d, q, FieldBits(OneMore(s, v, w)))
  PROVE  /\ Holds(d, q, FieldBits(s)) /\ OneMore(s, v, w) \in Seq(Fields)
         /\ Len(FieldBits(OneMore(s, v, w))) = Len(FieldBits(s)) + w
         /\ Shows(d, q + Len(FieldBits(s)), v, w)
<1> DEFINE g == <<<<v, w>>>>
           l == Len(FieldBits(s))
<1>1. g \in Seq(Fields)
  BY OneField
<1>2. l \in Nat /\ q + l \in Nat
  <2>1. l \in Nat
    BY FieldBitsTyped
  <2> QED BY <2>1
<1>3. Holds(d, q, FieldBits(s \o g))
  BY DEF OneMore
<1> HIDE DEF g, l
<1>4. /\ Holds(d, q, FieldBits(s)) /\ Holds(d, q + l, FieldBits(g)) /\ s \o g \in Seq(Fields)
      /\ Len(FieldBits(s \o g)) = l + Len(FieldBits(g))
  BY <1>1, <1>3, FieldsHeld, MoreFields DEF l
<1>5. Holds(d, q + l, FieldBits(<<<<v, w>>>>))
  BY <1>4 DEF g
<1>6. Len(FieldBits(g)) = w /\ (v \in Nat /\ v < 2^w => Unpack(d, q + l, w) = v)
  BY <1>2, <1>5, OneFieldHeld DEF g
<1> QED BY <1>4, <1>6, Zenon DEF g, l, OneMore, Shows

(* The same of a field that may be left out.                                *)
LEMMA OneMoreIfHeld ==
  ASSUME NEW d \in Seq(Octet), NEW q \in Nat, NEW s \in Seq(Fields), NEW v \in Int, NEW w \in 0..16,
         NEW c \in BOOLEAN, Holds(d, q, FieldBits(OneMoreIf(c, s, v, w)))
  PROVE  /\ Holds(d, q, FieldBits(s)) /\ OneMoreIf(c, s, v, w) \in Seq(Fields)
         /\ Len(FieldBits(OneMoreIf(c, s, v, w))) = Len(FieldBits(s)) + (IF c THEN w ELSE 0)
         /\ c => Shows(d, q + Len(FieldBits(s)), v, w)
<1>1. CASE c
  <2>1. OneMoreIf(c, s, v, w) = OneMore(s, v, w)
    BY <1>1, Zenon DEF OneMoreIf, OneMore
  <2>2. /\ Holds(d, q, FieldBits(s)) /\ OneMore(s, v, w) \in Seq(Fields)
        /\ Len(FieldBits(OneMore(s, v, w))) = Len(FieldBits(s)) + w
        /\ Shows(d, q + Len(FieldBits(s)), v, w)
    BY <2>1, OneMoreHeld
  <2> QED BY <1>1, <2>1, <2>2, Zenon
<1>2. CASE ~c
  <2>1. OneMoreIf(c, s, v, w) = s
    BY <1>2 DEF OneMoreIf
  <2>2. Len(FieldBits(s)) + 0 = Len(FieldBits(s))
    <3>1. Len(FieldBits(s)) \in Nat
      BY FieldBitsTyped
    <3> QED BY <3>1
  <2> QED BY <1>2, <2>1, <2>2, Zenon
<1> QED BY <1>1, <1>2

(* Two fields.                                                              *)
LEMMA TwoHeld ==
  ASSUME NEW d \in Seq(Octet), NEW q \in Nat, NEW a \in Int, NEW v \in 0..16, NEW b \in Int, NEW w \in 0..16,
         Holds(d, q, FieldBits(TwoOf(a, v, b, w)))
  PROVE  /\ TwoOf(a, v, b, w) \in Seq(Fields)
         /\ Len(FieldBits(TwoOf(a, v, b, w))) = v + w
         /\ Shows(d, q, a, v) /\ Shows(d, q + v, b, w)
<1> DEFINE f == <<a, v>>
           g == <<b, w>>
           s == <<f>>
<1>1. f \in Fields /\ g \in Fields
  BY DEF Fields
<1>2. s \in Seq(Fields)
  BY OneField
<1>3. TwoOf(a, v, b, w) = OneMore(s, b, w)
  <2>1. <<f, g>> = <<f>> \o <<g>>
    <3> HIDE DEF f, g
    <3> QED BY <1>1, TwoFields
  <2> QED BY <2>1, Zenon DEF TwoOf, OneMore
<1>4. Holds(d, q, FieldBits(OneMore(s, b, w)))
  BY <1>3
<1> HIDE DEF s
<1>5. /\ Holds(d, q, FieldBits(s)) /\ OneMore(s, b, w) \in Seq(Fields)
      /\ Len(FieldBits(OneMore(s, b, w))) = Len(FieldBits(s)) + w
      /\ Shows(d, q + Len(FieldBits(s)), b, w)
  BY <1>2, <1>4, OneMoreHeld
<1>6. Len(FieldBits(s)) = v /\ Shows(d, q, a, v)
  <2>1. Holds(d, q, FieldBits(<<<<a, v>>>>))
    BY <1>5 DEF s
  <2> QED BY <2>1, OneFieldHeld DEF s, Shows
<1> QED BY <1>3, <1>5, <1>6, Zenon

(* Digits behind fields.                                                    *)
LEMMA DigitsMoreHeld ==
  ASSUME NEW d \in Seq(Octet), NEW q \in Nat, NEW s \in Seq(Fields), NEW x \in Seq(Octet), NEW w \in 1..16,
         Holds(d, q, FieldBits(DigitsMore(s, x, w)))
  PROVE  /\ Holds(d, q, FieldBits(s)) /\ DigitsMore(s, x, w) \in Seq(Fields)
         /\ Len(FieldBits(DigitsMore(s, x, w))) = Len(FieldBits(s)) + w * Len(x)
         /\ ShowsDigits(d, q + Len(FieldBits(s)), x, w)
<1> DEFINE e == TL!DigitFields(x, w)
           l == Len(FieldBits(s))
<1>1. e \in Seq(Fields)
  <2>1. w \in 0..16
    OBVIOUS
  <2> QED BY <2>1, DigitFields DEF TL!DigitFields
<1>2. l \in Nat /\ q + l \in Nat
  <2>1. l \in Nat
    BY FieldBitsTyped
  <2> QED BY <2>1
<1>3. Holds(d, q, FieldBits(s \o e))
  BY DEF DigitsMore
<1> HIDE DEF e, l
<1>4. /\ Holds(d, q, FieldBits(s)) /\ Holds(d, q + l, FieldBits(e)) /\ s \o e \in Seq(Fields)
      /\ Len(FieldBits(s \o e)) = l + Len(FieldBits(e))
  BY <1>1, <1>3, FieldsHeld, MoreFields DEF l
<1>5. Holds(d, q + l, FieldBits(TL!DigitFields(x, w)))
  BY <1>4 DEF e
<1>6. /\ Len(FieldBits(e)) = w * Len(x)
      /\ (\A k \in 1..Len(x) : x[k] < 2^w) => TL!ReadDigits(d, q + l, w, Len(x)) = x
  BY <1>2, <1>5, DigitsHeld DEF e
<1> QED BY <1>4, <1>6, Zenon DEF e, l, DigitsMore, ShowsDigits

(* How much each width of a field holds.                                    *)
LEMMA Limits == 2^1 = 2 /\ 2^2 = 4 /\ 2^3 = 8 /\ 2^4 = 16 /\ 2^6 = 64 /\ 2^8 = 256 /\ 2^16 = 65536
OBVIOUS

(* What a parameter's octets hold, and how many they are.                   *)
LEMMA ParameterHeld ==
  ASSUME NEW p \in TL!Parameter \ {"bearer"}, NEW v \in TL!Value[p], NEW d \in Seq(Octet), NEW k \in Nat,
         Behold(d, k, ParameterOctets(p, v))
  PROVE  /\ TL!Write(p, v) \in Seq(Fields) /\ FieldBits(TL!Write(p, v)) \in Seq(Bit)
         /\ Holds(d, 8 * k, FieldBits(TL!Write(p, v)))
         /\ Len(ParameterOctets(p, v)) = (Len(FieldBits(TL!Write(p, v))) + 7) \div 8
<1> DEFINE b == FieldBits(TL!Write(p, v))
<1>1. TL!Write(p, v) \in Seq(Fields)
  <2>1. p \in DOMAIN TL!Value \ {"bearer"}
    BY DEF TL!Parameter, TL!EncodeOrder, TL!Value
  <2> QED BY <2>1, TransportFields
<1>2. b \in Seq(Bit)
  BY <1>1, FieldBitsTyped
<1>3. ParameterOctets(p, v) = OctetsOf(b)
  BY PackIsOctets DEF ParameterOctets
<1> HIDE DEF b
<1>4. Holds(d, 8 * k, b)
  BY <1>2, <1>3, PackedAreHeld
<1>5. Len(OctetsOf(b)) = (Len(b) + 7) \div 8
  BY <1>2 DEF OctetsOf
<1> QED BY <1>1, <1>2, <1>3, <1>4, <1>5 DEF b

(* The value of a parameter is one that its fields can hold, as a client's  *)
(* structure that was decoded has it: enumerations within the width of      *)
(* their fields, digits of 4 bits when the address says so, and nothing in  *)
(* the members that are not sent.                                           *)
AddressFits(v) ==
  /\ v.digit_mode \in 0..1 /\ v.number_mode \in 0..1 /\ Len(v.digits) <= TL!ADDRESS_MAX
  /\ IF v.digit_mode = 1 THEN v.type < 8
     ELSE v.type = 0 /\ \A k \in 1..Len(v.digits) : v.digits[k] < 16
  /\ IF v.digit_mode = 1 /\ v.number_mode = 0 THEN v.plan < 16 ELSE v.plan = 0
SubaddressFits(v) == v.type < 8 /\ v.odd < 2 /\ Len(v.digits) <= TL!ADDRESS_MAX
CauseFits(v) == v.number < 64 /\ v.class < 4 /\ (v.class = 0 => v.status = 0)
FieldsHold(p, v) == /\ p \in {"teleservice", "service"} => v < 65536
                    /\ p = "address" => AddressFits(v)
                    /\ p = "subaddress" => SubaddressFits(v)
                    /\ p = "reply" => v < 64
                    /\ p = "cause" => CauseFits(v)

(* A field of a parameter is at its offset behind the octets before.        *)
LEMMA FieldIsUnpack == \A d, k, i, w : TL!Field(d, k, i, w) = Unpack(d, 8 * k + i, w)
BY SameUnpack DEF TL!Field

(* The first field is where the parameter begins.                           *)
LEMMA NoOffset == \A k \in Nat : 8 * k + 0 = 8 * k /\ 8 * k \in Nat
OBVIOUS

(* A teleservice or a service category, a reply number, and a cause code    *)
(* are read as they were written.                                           *)
LEMMA NumberKept ==
  ASSUME NEW p \in {"teleservice", "service"}, NEW v \in Nat, v < 65536, NEW d \in Seq(Octet), NEW k \in Nat,
         Holds(d, 8 * k, FieldBits(TL!Write(p, v)))
  PROVE  TL!Read(p, d, k, 2) = v /\ Len(FieldBits(TL!Write(p, v))) = 16
<1>1. TL!Write(p, v) = <<<<v, 16>>>>
  BY DEF TL!Write
<1>2. Len(FieldBits(<<<<v, 16>>>>)) = 16 /\ Unpack(d, 8 * k, 16) = v
  <2>1. 8 * k \in Nat /\ 16 \in 0..16 /\ v \in Int
    OBVIOUS
  <2>2. Holds(d, 8 * k, FieldBits(<<<<v, 16>>>>))
    BY <1>1
  <2> QED BY <2>1, <2>2, Limits, OneFieldHeld
<1>3. TL!Read(p, d, k, 2) = Unpack(d, 8 * k + 0, 16)
  BY FieldIsUnpack DEF TL!Read
<1> QED BY <1>1, <1>2, <1>3, NoOffset

LEMMA ReplyKept ==
  ASSUME NEW v \in Nat, v < 64, NEW d \in Seq(Octet), NEW k \in Nat,
         Holds(d, 8 * k, FieldBits(TL!Write("reply", v)))
  PROVE  TL!Read("reply", d, k, 1) = v /\ Len(FieldBits(TL!Write("reply", v))) = 8
<1> DEFINE q == 8 * k
<1>1. TL!Write("reply", v) = TwoOf(v, 6, 0, 2)
  BY DEF TL!Write, TL!WriteReply, TwoOf
<1>2. q \in Nat /\ 6 \in 0..16 /\ 2 \in 0..16 /\ v \in Int /\ 0 \in Int /\ 6 + 2 = 8
  OBVIOUS
<1>3. TL!Read("reply", d, k, 1) = Unpack(d, q, 6)
  BY FieldIsUnpack, NoOffset DEF TL!Read
<1> HIDE DEF q
<1>4. Holds(d, q, FieldBits(TwoOf(v, 6, 0, 2)))
  BY <1>1 DEF q
<1>5. Len(FieldBits(TwoOf(v, 6, 0, 2))) = 6 + 2 /\ Shows(d, q, v, 6)
  BY <1>2, <1>4, TwoHeld
<1>6. Unpack(d, q, 6) = v
  BY <1>5, Limits DEF Shows
<1> QED BY <1>1, <1>2, <1>3, <1>5, <1>6

LEMMA CauseKept ==
  ASSUME NEW v \in TL!Value.cause, CauseFits(v), NEW d \in Seq(Octet), NEW k \in Nat,
         Holds(d, 8 * k, FieldBits(TL!Write("cause", v)))
  PROVE  /\ Len(FieldBits(TL!Write("cause", v))) = IF v.class = 0 THEN 8 ELSE 16
         /\ TL!Field(d, k, 6, 2) = v.class
         /\ TL!Read("cause", d, k, IF v.class = 0 THEN 1 ELSE 2) = v
<1> DEFINE q == 8 * k
           a == v.number
           b == v.class
           c == v.status
           s == TwoOf(a, 6, b, 2)
           e == b # 0
           u == OneMoreIf(e, s, c, 8)
           n == IF b = 0 THEN 1 ELSE 2
<1>1. a \in Nat /\ b \in Nat /\ c \in Nat /\ c < 256 /\ a < 64 /\ b < 4 /\ (b = 0 => c = 0)
  <2>1. a \in 0..255 /\ b \in Nat /\ c \in 0..255
    BY DEF TL!Value, TL!Octet
  <2>2. a < 64 /\ b < 4 /\ (b = 0 => c = 0)
    BY Zenon DEF CauseFits
  <2> HIDE DEF a, b, c
  <2> QED BY <2>1, <2>2
<1>2. v = [number |-> a, class |-> b, status |-> c]
  BY DEF TL!Value
<1>3. TL!Write("cause", v) = u
  BY DEF TL!Write, TL!WriteCause, TwoOf, OneMoreIf
<1>4. TL!Read("cause", d, k, n) = [number |-> Unpack(d, q, 6), class |-> Unpack(d, q + 6, 2),
                                   status |-> IF n = 2 THEN Unpack(d, q + 8, 8) ELSE 0]
  BY FieldIsUnpack, NoOffset, Zenon DEF TL!Read, TL!ReadCause
<1>5. q \in Nat /\ 6 \in 0..16 /\ 2 \in 0..16 /\ 8 \in 0..16 /\ 6 + 2 = 8 /\ e \in BOOLEAN
  OBVIOUS
<1>6. Holds(d, q, FieldBits(u)) /\ TL!Field(d, k, 6, 2) = Unpack(d, q + 6, 2)
  BY <1>3, FieldIsUnpack
<1> HIDE DEF q, a, b, c, n, e
<1>i. a \in Int /\ b \in Int /\ c \in Int
  BY <1>1
<1>s. s \in Seq(Fields)
  <2>1. <<a, 6>> \in Fields /\ <<b, 2>> \in Fields
    BY <1>5, <1>i DEF Fields
  <2> HIDE DEF Fields
  <2> QED BY <2>1 DEF TwoOf
<1> HIDE DEF u, s
<1>7. /\ Holds(d, q, FieldBits(s)) /\ Len(FieldBits(u)) = Len(FieldBits(s)) + (IF e THEN 8 ELSE 0)
      /\ e => Shows(d, q + Len(FieldBits(s)), c, 8)
  BY <1>5, <1>6, <1>i, <1>s, OneMoreIfHeld DEF u
<1>8. Len(FieldBits(s)) = 8 /\ Shows(d, q, a, 6) /\ Shows(d, q + 6, b, 2)
  BY <1>5, <1>7, <1>i, TwoHeld DEF s
<1>9. Unpack(d, q, 6) = a /\ Unpack(d, q + 6, 2) = b /\ (b # 0 => Unpack(d, q + 8, 8) = c)
  BY <1>1, <1>7, <1>8, Limits DEF Shows, e
<1>10. Len(FieldBits(u)) = IF b = 0 THEN 8 ELSE 16
  BY <1>7, <1>8 DEF e
<1>11. (IF n = 2 THEN Unpack(d, q + 8, 8) ELSE 0) = c
  BY <1>1, <1>9 DEF n
<1>12. TL!Read("cause", d, k, n) = v
  BY <1>2, <1>4, <1>9, <1>11, Zenon
<1> QED BY <1>3, <1>6, <1>9, <1>10, <1>12 DEF b, n

(* Three fields are two and then one.                                       *)
LEMMA ThreeFields ==
  ASSUME NEW f \in Fields, NEW g \in Fields, NEW h \in Fields
  PROVE  <<f, g, h>> = <<f, g>> \o <<h>>
<1> DEFINE x == <<f, g>>
           y == <<h>>
           z == <<f, g, h>>
           v == x \o y
<1>0. x \in Seq(Fields) /\ y \in Seq(Fields)
  OBVIOUS
<1>1. /\ Len(x) = 2 /\ Len(y) = 1 /\ x[1] = f /\ x[2] = g /\ y[1] = h
      /\ z \in Seq(Fields) /\ Len(z) = 3 /\ z[1] = f /\ z[2] = g /\ z[3] = h
  OBVIOUS
<1> HIDE DEF x, y, z
<1>2. /\ v \in Seq(Fields) /\ Len(v) = Len(x) + Len(y) /\ (\A i \in 1..Len(x) : v[i] = x[i])
      /\ \A i \in 1..Len(y) : v[Len(x) + i] = y[i]
  BY <1>0, Joined
<1> HIDE DEF v
<1>3. v \in Seq(Fields) /\ Len(v) = 3 /\ v[1] = f /\ v[2] = g /\ v[3] = h
  BY <1>1, <1>2
<1>4. \A i \in 1..3 : z[i] = v[i]
  BY <1>1, <1>3
<1>5. z = v
  BY <1>1, <1>3, <1>4, SameSequence
<1> QED BY <1>5 DEF v, x, y, z

(* A subaddress is read as it was written.                                  *)
LEMMA SubaddressKept ==
  ASSUME NEW v \in TL!Value.subaddress, SubaddressFits(v), NEW d \in Seq(Octet), NEW k \in Nat,
         Holds(d, 8 * k, FieldBits(TL!Write("subaddress", v)))
  PROVE  /\ Len(FieldBits(TL!Write("subaddress", v))) = 16 + 8 * Len(v.digits)
         /\ Unpack(d, 8 * k + 4, 8) = Len(v.digits)
         /\ TL!ReadSubaddress(d, k) = v
<1> DEFINE q == 8 * k
           a == v.type
           b == v.odd
           x == v.digits
           l == Len(x)
           s == TwoOf(a, 3, b, 1)
           t == OneMore(s, l, 8)
           u == DigitsMore(t, x, 8)
           z == OneMore(u, 0, 4)
<1>1. a \in Nat /\ b \in Nat /\ x \in Seq(Octet) /\ a < 8 /\ b < 2 /\ l \in Nat /\ l <= 48
  <2>1. a \in Nat /\ b \in 0..255 /\ x \in Seq(Octet)
    BY DEF TL!Value, TL!Octet, Octet
  <2>2. a < 8 /\ b < 2 /\ l <= 48
    BY Zenon DEF SubaddressFits, TL!ADDRESS_MAX
  <2> HIDE DEF a, b, x
  <2> QED BY <2>1, <2>2
<1>2. v = [type |-> a, odd |-> b, digits |-> x]
  BY DEF TL!Value
<1>3. TL!Write("subaddress", v) = z
  <2>1. <<<<a, 3>>, <<b, 1>>, <<l, 8>>>> = t
    <3>1. <<a, 3>> \in Fields /\ <<b, 1>> \in Fields /\ <<l, 8>> \in Fields
      BY <1>1 DEF Fields
    <3> HIDE DEF Fields
    <3> QED BY <3>1, ThreeFields DEF TwoOf, OneMore
  <2> HIDE DEF t
  <2> QED BY <2>1 DEF TL!Write, TL!WriteSubaddress, OneMore, DigitsMore
<1>4. q \in Nat
  OBVIOUS
<1>5. Holds(d, q, FieldBits(z))
  BY <1>3
<1>6. TL!ReadSubaddress(d, k) = [type |-> Unpack(d, q, 3), odd |-> Unpack(d, q + 3, 1),
                                 digits |-> TL!ReadDigits(d, q + 12, 8, Unpack(d, q + 4, 8))]
  BY FieldIsUnpack, NoOffset, Zenon DEF TL!ReadSubaddress
<1> HIDE DEF q, a, b, x, l
<1>i. a \in Int /\ b \in Int /\ l \in Int /\ 0 \in Int
  BY <1>1
<1>w. /\ 1 \in 0..16 /\ 3 \in 0..16 /\ 4 \in 0..16 /\ 8 \in 0..16 /\ 8 \in 1..16
      /\ 3 + 1 = 4 /\ 4 + 8 = 12
  OBVIOUS
<1>s. s \in Seq(Fields)
  <2>1. <<a, 3>> \in Fields /\ <<b, 1>> \in Fields
    BY <1>i, <1>w DEF Fields
  <2> HIDE DEF Fields
  <2> QED BY <2>1 DEF TwoOf
<1>t. t \in Seq(Fields)
  <2>1. <<<<l, 8>>>> \in Seq(Fields)
    BY <1>i, Widths, OneField, Zenon
  <2> HIDE DEF s
  <2> QED BY <1>s, <2>1, MoreFields, Zenon DEF OneMore
<1>u. u \in Seq(Fields)
  <2>1. TL!DigitFields(x, 8) \in Seq(Fields)
    BY <1>1, <1>w, DigitFields DEF TL!DigitFields
  <2> HIDE DEF t
  <2> QED BY <1>t, <2>1, MoreFields, Zenon DEF DigitsMore
<1> HIDE DEF z, u, t, s
<1>7. Holds(d, q, FieldBits(u)) /\ Len(FieldBits(z)) = Len(FieldBits(u)) + 4
  BY <1>4, <1>5, <1>i, <1>u, <1>w, OneMoreHeld DEF z
<1>8. /\ Holds(d, q, FieldBits(t)) /\ Len(FieldBits(u)) = Len(FieldBits(t)) + 8 * Len(x)
      /\ ShowsDigits(d, q + Len(FieldBits(t)), x, 8)
  BY <1>1, <1>4, <1>7, <1>t, <1>w, DigitsMoreHeld DEF u
<1>9. /\ Holds(d, q, FieldBits(s)) /\ Len(FieldBits(t)) = Len(FieldBits(s)) + 8
      /\ Shows(d, q + Len(FieldBits(s)), l, 8)
  BY <1>4, <1>8, <1>i, <1>s, <1>w, OneMoreHeld DEF t
<1>10. Len(FieldBits(s)) = 3 + 1 /\ Shows(d, q, a, 3) /\ Shows(d, q + 3, b, 1)
  <2>1. Holds(d, q, FieldBits(TwoOf(a, 3, b, 1)))
    BY <1>9 DEF s
  <2>2. /\ TwoOf(a, 3, b, 1) \in Seq(Fields) /\ Len(FieldBits(TwoOf(a, 3, b, 1))) = 3 + 1
        /\ Shows(d, q, a, 3) /\ Shows(d, q + 3, b, 1)
    BY <1>4, <1>i, <2>1, 3 \in 0..16, 1 \in 0..16, TwoHeld, SMTT(60)
  <2> QED BY <2>2 DEF s
<1>11. Len(FieldBits(s)) = 4 /\ Len(FieldBits(t)) = 12 /\ Len(FieldBits(z)) = 16 + 8 * l
  <2>1. Len(FieldBits(s)) = 4 /\ Len(FieldBits(t)) = 12
    BY <1>9, <1>10
  <2>2. Len(FieldBits(u)) = 12 + 8 * l
    BY <1>8, <2>1 DEF l
  <2> QED BY <1>1, <1>7, <2>1, <2>2
<1>12. Unpack(d, q, 3) = a /\ Unpack(d, q + 3, 1) = b /\ Unpack(d, q + 4, 8) = l
  BY <1>1, <1>9, <1>10, <1>11, Limits DEF Shows
<1>13. TL!ReadDigits(d, q + 12, 8, l) = x
  <2>1. \A j \in 1..Len(x) : x[j] < 2^8
    <3>1. \A j \in 1..Len(x) : x[j] \in Octet
      BY <1>1
    <3>2. \A n \in Octet : n < 2^8
      BY Limits DEF Octet
    <3> QED BY <3>1, <3>2, Zenon
  <2> QED BY <1>8, <1>11, <2>1, Zenon DEF l, ShowsDigits
<1>14. TL!ReadSubaddress(d, k) = v
  BY <1>2, <1>6, <1>12, <1>13, Zenon
<1> QED BY <1>3, <1>11, <1>12, <1>14, Zenon DEF q, l, x

SizeOfDigit(v) == IF v.digit_mode = 1 THEN 8 ELSE 4
HeadSize(v) == TL!AddressHead(v.digit_mode, v.number_mode)

(* An address is read as it was written, whichever of its three forms it    *)
(* has.                                                                     *)
LEMMA AddressKept ==
  ASSUME NEW v \in TL!Value.address, AddressFits(v), NEW d \in Seq(Octet), NEW k \in Nat,
         Holds(d, 8 * k, FieldBits(TL!Write("address", v)))
  PROVE  /\ Len(FieldBits(TL!Write("address", v))) = HeadSize(v) + 8 + SizeOfDigit(v) * Len(v.digits)
         /\ Unpack(d, 8 * k, 1) = v.digit_mode /\ Unpack(d, 8 * k + 1, 1) = v.number_mode
         /\ Unpack(d, 8 * k + HeadSize(v), 8) = Len(v.digits)
         /\ TL!ReadAddress(d, k) = v
<1> DEFINE q == 8 * k
           dm == v.digit_mode
           nm == v.number_mode
           a == v.type
           b == v.plan
           x == v.digits
           l == Len(x)
           w == SizeOfDigit(v)
           h == HeadSize(v)
           e == dm = 1
           f == dm = 1 /\ nm = 0
           s == TwoOf(dm, 1, nm, 1)
           t == OneMoreIf(e, s, a, 3)
           u == OneMoreIf(f, t, b, 4)
           m == OneMore(u, l, 8)
           z == DigitsMore(m, x, w)
<1>1. dm \in Nat /\ nm \in Nat /\ a \in Nat /\ b \in Nat /\ x \in Seq(Octet) /\ l \in Nat
  <2>1. dm \in Nat /\ nm \in Nat /\ a \in Nat /\ b \in Nat /\ x \in Seq(Octet)
    BY DEF TL!Value, TL!Octet, Octet
  <2> HIDE DEF x
  <2> QED BY <2>1
<1>2. v = [digit_mode |-> dm, number_mode |-> nm, type |-> a, plan |-> b, digits |-> x]
  BY DEF TL!Value
<1>3. /\ dm \in 0..1 /\ nm \in 0..1 /\ l <= 48 /\ e \in BOOLEAN /\ f \in BOOLEAN
      /\ (e => a < 8) /\ (~e => a = 0) /\ (f => b < 16) /\ (~f => b = 0)
      /\ (~e => \A j \in 1..l : x[j] < 16)
  BY Zenon DEF AddressFits, TL!ADDRESS_MAX
<1>4. TL!Write("address", v) = z
  BY DEF TL!Write, TL!WriteAddress, TwoOf, OneMoreIf, OneMore, DigitsMore, SizeOfDigit
<1>5. Holds(d, q, FieldBits(z))
  BY <1>4
<1>6. q \in Nat
  OBVIOUS
<1>7. w = (IF e THEN 8 ELSE 4) /\ h = (IF e THEN IF nm = 0 THEN 9 ELSE 5 ELSE 2) /\ (f <=> e /\ nm = 0)
  BY DEF SizeOfDigit, HeadSize, TL!AddressHead
<1>8. TL!ReadAddress(d, k) =
        [digit_mode |-> Unpack(d, q, 1), number_mode |-> Unpack(d, q + 1, 1),
         type |-> IF Unpack(d, q, 1) = 1 THEN Unpack(d, q + 2, 3) ELSE 0,
         plan |-> IF Unpack(d, q, 1) = 1 /\ Unpack(d, q + 1, 1) = 0 THEN Unpack(d, q + 5, 4) ELSE 0,
         digits |-> TL!ReadDigits(d, q + TL!AddressHead(Unpack(d, q, 1), Unpack(d, q + 1, 1)) + 8,
                                  IF Unpack(d, q, 1) = 1 THEN 8 ELSE 4,
                                  Unpack(d, q + TL!AddressHead(Unpack(d, q, 1), Unpack(d, q + 1, 1)), 8))]
  BY FieldIsUnpack, NoOffset, Zenon DEF TL!ReadAddress
<1>9. h = TL!AddressHead(dm, nm) /\ (e <=> dm = 1) /\ (f <=> dm = 1 /\ nm = 0)
  BY DEF HeadSize
<1> HIDE DEF q, dm, nm, a, b, x, l, w, h, e, f
<1>i. dm \in Int /\ nm \in Int /\ a \in Int /\ b \in Int /\ l \in Int
  BY <1>1
<1>w. w \in 1..16 /\ w \in 0..16
  BY <1>7
<1>s. s \in Seq(Fields)
  <2>1. <<dm, 1>> \in Fields /\ <<nm, 1>> \in Fields
    BY <1>i, Widths DEF Fields
  <2> HIDE DEF Fields
  <2> QED BY <2>1 DEF TwoOf
<1>t. t \in Seq(Fields)
  <2>1. <<<<a, 3>>>> \in Seq(Fields)
    BY <1>i, Widths, OneField, Zenon
  <2> HIDE DEF s
  <2> QED BY <1>s, <2>1, MoreFields, NoField, Zenon DEF OneMoreIf
<1>u. u \in Seq(Fields)
  <2>1. <<<<b, 4>>>> \in Seq(Fields)
    BY <1>i, Widths, OneField, Zenon
  <2> HIDE DEF t
  <2> QED BY <1>t, <2>1, MoreFields, NoField, Zenon DEF OneMoreIf
<1>m. m \in Seq(Fields)
  <2>1. <<<<l, 8>>>> \in Seq(Fields)
    BY <1>i, Widths, OneField, Zenon
  <2> HIDE DEF u
  <2> QED BY <1>u, <2>1, MoreFields, Zenon DEF OneMore
<1> HIDE DEF z, m, u, t, s
<1>10. /\ Holds(d, q, FieldBits(m)) /\ Len(FieldBits(z)) = Len(FieldBits(m)) + w * Len(x)
       /\ ShowsDigits(d, q + Len(FieldBits(m)), x, w)
  <2>1. Holds(d, q, FieldBits(DigitsMore(m, x, w)))
    BY <1>5 DEF z
  <2> DEFINE Kept(n) == /\ Holds(d, q, FieldBits(m))
                        /\ Len(FieldBits(DigitsMore(m, x, n))) = Len(FieldBits(m)) + n * Len(x)
                        /\ ShowsDigits(d, q + Len(FieldBits(m)), x, n)
  <2>2. CASE w = 8
    <3>1. Kept(8)
      <4>1. Holds(d, q, FieldBits(DigitsMore(m, x, 8))) /\ 8 \in 1..16
        BY <2>1, <2>2
      <4> QED BY <1>1, <1>6, <1>m, <4>1, DigitsMoreHeld
    <3> HIDE DEF Kept
    <3>2. Kept(w)
      BY <2>2, <3>1
    <3> QED BY <3>2 DEF Kept, z
  <2>3. CASE w = 4
    <3>1. Kept(4)
      <4>1. Holds(d, q, FieldBits(DigitsMore(m, x, 4))) /\ 4 \in 1..16
        BY <2>1, <2>3
      <4> QED BY <1>1, <1>6, <1>m, <4>1, DigitsMoreHeld
    <3> HIDE DEF Kept
    <3>2. Kept(w)
      BY <2>3, <3>1
    <3> QED BY <3>2 DEF Kept, z
  <2> QED BY <1>7, <2>2, <2>3
<1>11. /\ Holds(d, q, FieldBits(u)) /\ Len(FieldBits(m)) = Len(FieldBits(u)) + 8
       /\ Shows(d, q + Len(FieldBits(u)), l, 8)
  BY <1>6, <1>10, <1>i, <1>u, Widths, OneMoreHeld DEF m
<1>12. /\ Holds(d, q, FieldBits(t)) /\ Len(FieldBits(u)) = Len(FieldBits(t)) + (IF f THEN 4 ELSE 0)
       /\ f => Shows(d, q + Len(FieldBits(t)), b, 4)
  BY <1>3, <1>6, <1>11, <1>i, <1>t, Widths, OneMoreIfHeld DEF u
<1>13. /\ Holds(d, q, FieldBits(s)) /\ Len(FieldBits(t)) = Len(FieldBits(s)) + (IF e THEN 3 ELSE 0)
       /\ e => Shows(d, q + Len(FieldBits(s)), a, 3)
  BY <1>3, <1>6, <1>12, <1>i, <1>s, Widths, OneMoreIfHeld DEF t
<1>14. Len(FieldBits(s)) = 2 /\ Shows(d, q, dm, 1) /\ Shows(d, q + 1, nm, 1)
  <2>1. Holds(d, q, FieldBits(TwoOf(dm, 1, nm, 1)))
    BY <1>13 DEF s
  <2>2. Len(FieldBits(TwoOf(dm, 1, nm, 1))) = 1 + 1 /\ Shows(d, q, dm, 1) /\ Shows(d, q + 1, nm, 1)
    BY <1>6, <1>i, <2>1, 1 \in 0..16, TwoHeld, SMTT(60)
  <2> QED BY <2>2 DEF s
<1>15. Len(FieldBits(t)) = (IF e THEN 5 ELSE 2) /\ Len(FieldBits(u)) = h /\ Len(FieldBits(m)) = h + 8 /\ h \in Nat
  BY <1>7, <1>11, <1>12, <1>13, <1>14
<1>16. Unpack(d, q, 1) = dm /\ Unpack(d, q + 1, 1) = nm
  BY <1>1, <1>3, <1>14, Limits DEF Shows
<1>17. (IF e THEN Unpack(d, q + 2, 3) ELSE 0) = a
  BY <1>1, <1>3, <1>13, <1>14, Limits DEF Shows
<1>18. (IF f THEN Unpack(d, q + 5, 4) ELSE 0) = b
  BY <1>1, <1>3, <1>7, <1>12, <1>15, Limits DEF Shows
<1>19. Unpack(d, q + h, 8) = l
  BY <1>1, <1>3, <1>11, <1>15, Limits DEF Shows
<1>20. TL!ReadDigits(d, q + h + 8, w, l) = x
  <2>1. ASSUME NEW j \in 1..Len(x) PROVE x[j] < 2^w
    <3>1. x[j] \in Octet
      BY <1>1
    <3>2. \A n \in Octet : n < 2^8
      BY Limits DEF Octet
    <3>3. CASE e
      BY <1>7, <3>1, <3>2, <3>3
    <3>4. CASE ~e
      <4>1. x[j] < 16 /\ w = 4
        BY <1>3, <1>7, <3>4 DEF l
      <4> QED BY <4>1, Limits
    <3> QED BY <3>3, <3>4
  <2>2. q + Len(FieldBits(m)) = q + h + 8
    BY <1>6, <1>15
  <2> QED BY <1>10, <2>1, <2>2, Zenon DEF l, ShowsDigits
<1>21. Len(FieldBits(z)) = h + 8 + w * l
  BY <1>10, <1>15 DEF l
<1>22. TL!ReadAddress(d, k) = v
  <2>1. (Unpack(d, q, 1) = 1 <=> e) /\ (Unpack(d, q, 1) = 1 /\ Unpack(d, q + 1, 1) = 0 <=> f)
    BY <1>9, <1>16, Zenon
  <2>2. (IF Unpack(d, q, 1) = 1 THEN 8 ELSE 4) = w
    BY <1>7, <2>1, Zenon
  <2>3. TL!AddressHead(Unpack(d, q, 1), Unpack(d, q + 1, 1)) = h
    BY <1>9, <1>16, Zenon
  <2>4. (IF Unpack(d, q, 1) = 1 THEN Unpack(d, q + 2, 3) ELSE 0) = a
    BY <1>17, <2>1, Zenon
  <2>5. (IF Unpack(d, q, 1) = 1 /\ Unpack(d, q + 1, 1) = 0 THEN Unpack(d, q + 5, 4) ELSE 0) = b
    BY <1>18, <2>1, Zenon
  <2>6. TL!ReadDigits(d, q + TL!AddressHead(Unpack(d, q, 1), Unpack(d, q + 1, 1)) + 8,
                      IF Unpack(d, q, 1) = 1 THEN 8 ELSE 4,
                      Unpack(d, q + TL!AddressHead(Unpack(d, q, 1), Unpack(d, q + 1, 1)), 8)) = x
    BY <1>19, <1>20, <2>2, <2>3, Zenon
  <2> QED BY <1>2, <1>8, <1>16, <2>4, <2>5, <2>6, Zenon
<1> QED BY <1>4, <1>16, <1>19, <1>21, <1>22, Zenon DEF q, l, x, w, h, dm, nm

(* Enough octets are written for the bits.                                  *)
LEMMA OctetsHoldBits == \A b \in Nat : /\ (b + 7) \div 8 \in Nat /\ b <= 8 * ((b + 7) \div 8)
                                       /\ (b \in 1..2040 => (b + 7) \div 8 \in 1..255)
                                       /\ (b = 8 => (b + 7) \div 8 = 1) /\ (b = 16 => (b + 7) \div 8 = 2)
OBVIOUS

(* What is not too many.                                                    *)
LEMMA NotTooMany == \A i \in Nat : i <= 48 => i \in 0..48
OBVIOUS

(* A parameter whose value its fields hold is accepted by the decoder that  *)
(* finds its octets, at whatever place, and read as it was written: of      *)
(* wms_ts_encode_CDMA_tl and wms_ts_decode_CDMA_tl each parameter but       *)
(* bearer data, and its length is an octet.                                 *)
THEOREM ParametersAreKept ==
  ASSUME NEW p \in TL!Parameter \ {"bearer"}, NEW v \in TL!Value[p], FieldsHold(p, v),
         NEW d \in Seq(Octet), NEW k \in Nat, Behold(d, k, ParameterOctets(p, v))
  PROVE  LET n == Len(ParameterOctets(p, v))
         IN  n \in 1..255 /\ TL!Acceptable(p, d, k, n) /\ TL!Read(p, d, k, n) = v
<1> DEFINE b == Len(FieldBits(TL!Write(p, v)))
           n == Len(ParameterOctets(p, v))
<1>1. Holds(d, 8 * k, FieldBits(TL!Write(p, v))) /\ n = (b + 7) \div 8 /\ b \in Nat
  <2>1. /\ TL!Write(p, v) \in Seq(Fields)
        /\ Holds(d, 8 * k, FieldBits(TL!Write(p, v))) /\ n = (b + 7) \div 8
    BY ParameterHeld
  <2> QED BY <2>1, FieldBitsTyped
<1> HIDE DEF n, b
<1>2. CASE p \in {"teleservice", "service"}
  <2>1. v \in Nat
    BY <1>2 DEF TL!Value
  <2>a. v < 65536
    <3>1. p \in {"teleservice", "service"} => v < 65536
      BY DEF FieldsHold
    <3> QED BY <1>2, <3>1
  <2>b. Holds(d, 8 * k, FieldBits(TL!Write(p, v)))
    BY <1>1
  <2>2. TL!Read(p, d, k, 2) = v /\ b = 16
    <3> HIDE <1>1
    <3> QED BY <1>2, <2>1, <2>a, <2>b, NumberKept DEF b
  <2>3. n = 2
    BY <1>1, <2>2, OctetsHoldBits
  <2>4. TL!Acceptable(p, d, k, n)
    BY <1>2, <2>3 DEF TL!Acceptable
  <2> QED BY <2>2, <2>3, <2>4 DEF n
<1>3. CASE p = "reply"
  <2>1. v \in Nat
    <3>1. TL!Value.reply = 0..255
      BY DEF TL!Value, TL!Octet
    <3>2. v \in TL!Value.reply
      BY <1>3
    <3>3. v \in 0..255
      BY <3>1, <3>2, Zenon
    <3>4. \A i \in 0..255 : i \in Nat
      OBVIOUS
    <3> QED BY <3>3, <3>4, Zenon
  <2>a. v < 64
    BY <1>3 DEF FieldsHold
  <2>2. TL!Read(p, d, k, 1) = v /\ b = 8
    BY <1>1, <1>3, <2>1, <2>a, ReplyKept DEF b
  <2>3. n = 1
    BY <1>1, <2>2, OctetsHoldBits
  <2>4. TL!Acceptable(p, d, k, n)
    BY <1>3, <2>3 DEF TL!Acceptable
  <2> QED BY <2>2, <2>3, <2>4 DEF n
<1>4. CASE p = "cause"
  <2>1. v \in TL!Value.cause /\ CauseFits(v)
    BY <1>4 DEF FieldsHold
  <2>2. /\ b = (IF v.class = 0 THEN 8 ELSE 16) /\ TL!Field(d, k, 6, 2) = v.class
        /\ TL!Read(p, d, k, IF v.class = 0 THEN 1 ELSE 2) = v
    BY <1>1, <1>4, <2>1, CauseKept DEF b
  <2>3. n = IF v.class = 0 THEN 1 ELSE 2
    BY <1>1, <2>2, OctetsHoldBits
  <2>4. TL!Acceptable(p, d, k, n)
    BY <1>4, <2>2, <2>3 DEF TL!Acceptable, TL!CauseAcceptable
  <2>5. n \in 1..255
    BY <2>3
  <2> QED BY <2>2, <2>3, <2>4, <2>5 DEF n
<1>5. CASE p = "subaddress"
  <2> DEFINE l == Len(v.digits)
  <2>1. v \in TL!Value.subaddress /\ SubaddressFits(v)
    BY <1>5 DEF FieldsHold
  <2>2. b = 16 + 8 * l /\ Unpack(d, 8 * k + 4, 8) = l /\ TL!ReadSubaddress(d, k) = v
    BY <1>1, <1>5, <2>1, SubaddressKept DEF b
  <2>3. l \in 0..48
    <3>1. v.digits \in Seq(Octet)
      BY <2>1 DEF TL!Value, TL!Octet, Octet
    <3>2. l <= 48
      BY <2>1, Zenon DEF SubaddressFits, TL!ADDRESS_MAX
    <3>3. l \in Nat
      BY <3>1
    <3> QED BY <3>2, <3>3, NotTooMany, Zenon
  <2> HIDE DEF l
  <2>4. n \in 1..255 /\ 4 + 8 + 8 * l <= 8 * n
    <3>1. b \in 1..2040 /\ 4 + 8 + 8 * l <= b
      BY <2>2, <2>3
    <3>2. n \in 1..255 /\ b <= 8 * n /\ n \in Nat
      BY <1>1, <3>1, OctetsHoldBits
    <3> QED BY <1>1, <2>3, <3>1, <3>2
  <2>5. TL!Acceptable(p, d, k, n)
    <3>1. TL!DigitsFit(d, k, n, 4, 8)
      BY <2>2, <2>3, <2>4, FieldIsUnpack DEF TL!DigitsFit, TL!ADDRESS_MAX
    <3> QED BY <1>5, <3>1 DEF TL!Acceptable, TL!SubaddressAcceptable
  <2>6. TL!Read(p, d, k, n) = v
    BY <1>5, <2>2 DEF TL!Read
  <2> QED BY <2>4, <2>5, <2>6 DEF n
<1>6. CASE p = "address"
  <2> DEFINE l == Len(v.digits)
             h == HeadSize(v)
             w == SizeOfDigit(v)
  <2>1. v \in TL!Value.address /\ AddressFits(v)
    BY <1>6 DEF FieldsHold
  <2>2. /\ b = h + 8 + w * l /\ Unpack(d, 8 * k, 1) = v.digit_mode
        /\ Unpack(d, 8 * k + 1, 1) = v.number_mode /\ Unpack(d, 8 * k + h, 8) = l /\ TL!ReadAddress(d, k) = v
    BY <1>1, <1>6, <2>1, AddressKept DEF b
  <2>3. l \in 0..48 /\ h \in 0..20 /\ (w = 4 \/ w = 8)
    <3>1. v.digits \in Seq(Octet)
      BY <2>1 DEF TL!Value, TL!Octet, Octet
    <3>2. l <= 48
      BY <2>1, Zenon DEF AddressFits, TL!ADDRESS_MAX
    <3>3. l \in Nat
      BY <3>1
    <3>4. h \in 0..20 /\ (w = 4 \/ w = 8)
      BY DEF HeadSize, SizeOfDigit, TL!AddressHead
    <3> QED BY <3>2, <3>3, <3>4, NotTooMany, Zenon
  <2>4. /\ TL!Field(d, k, 0, 1) = v.digit_mode /\ TL!Field(d, k, 1, 1) = v.number_mode
        /\ TL!AddressHead(TL!Field(d, k, 0, 1), TL!Field(d, k, 1, 1)) = h
        /\ (IF TL!Field(d, k, 0, 1) = 1 THEN 8 ELSE 4) = w /\ TL!Field(d, k, h, 8) = l
    <3>1. TL!Field(d, k, 0, 1) = v.digit_mode /\ TL!Field(d, k, 1, 1) = v.number_mode /\ TL!Field(d, k, h, 8) = l
      BY <2>2, FieldIsUnpack, NoOffset, Zenon
    <3> QED BY <3>1, Zenon DEF HeadSize, SizeOfDigit
  <2> HIDE DEF l, h, w
  <2>5. n \in 1..255 /\ h + 8 + w * l <= 8 * n
    <3>1. b \in 1..2040
      <4>1. h + 8 + w * l \in 1..2040
        <5>1. CASE w = 4
          BY <2>3, <5>1
        <5>2. CASE w = 8
          BY <2>3, <5>2
        <5> QED BY <2>3, <5>1, <5>2
      <4> QED BY <2>2, <4>1
    <3>2. n \in 1..255 /\ b <= 8 * n
      BY <1>1, <3>1, OctetsHoldBits
    <3> QED BY <2>2, <3>2, Zenon
  <2>6. TL!Acceptable(p, d, k, n)
    <3>1. l <= TL!ADDRESS_MAX
      BY <2>3 DEF TL!ADDRESS_MAX
    <3>2. TL!DigitsFit(d, k, n, h, w)
      BY <2>4, <2>5, <3>1, Zenon DEF TL!DigitsFit
    <3>3. TL!AddressAcceptable(d, k, n)
      BY <2>4, <3>2, Zenon DEF TL!AddressAcceptable
    <3> QED BY <1>6, <3>3 DEF TL!Acceptable
  <2>7. TL!Read(p, d, k, n) = v
    BY <1>6, <2>2 DEF TL!Read
  <2> QED BY <2>5, <2>6, <2>7 DEF n
<1>7. p \in {"teleservice", "service", "address", "subaddress", "reply", "cause"}
  BY DEF TL!Parameter, TL!EncodeOrder
<1> QED BY <1>2, <1>3, <1>4, <1>5, <1>6, <1>7

-----------------------------------------------------------------------------
(* ---- fields behind each other -----------------------------------------*)
(* Fields that are held, each at the offset that the widths before it make. *)
LEMMA ListHeld ==
  ASSUME NEW d \in Seq(Octet), NEW q \in Nat, NEW s \in Seq(Fields),
         NEW o \in [0..Len(s) -> Nat], o[0] = 0, \A k \in 1..Len(s) : o[k] = o[k - 1] + s[k][2]
  PROVE  /\ Len(FieldBits(s)) = o[Len(s)]
         /\ Holds(d, q, FieldBits(s)) =>
              \A k \in 1..Len(s) : Shows(d, q + o[k - 1], s[k][1], s[k][2])
<1> DEFINE n == Len(s)
           y(k) == SubSeq(s, 1, k)
           P(k) == /\ Len(FieldBits(y(k))) = o[k]
                   /\ Holds(d, q, FieldBits(y(k))) =>
                        \A j \in 1..k : Shows(d, q + o[j - 1], s[j][1], s[j][2])
           S == {k \in Nat : k <= n => P(k)}
<1>0. n \in Nat
  OBVIOUS
<1>1. ASSUME NEW k \in Nat, k <= n PROVE y(k) \in Seq(Fields)
  BY <1>1
<1>2. ASSUME NEW k \in Nat, k + 1 <= n
      PROVE  /\ s[k + 1] \in Fields /\ s[k + 1] = <<s[k + 1][1], s[k + 1][2]>>
             /\ s[k + 1][1] \in Int /\ s[k + 1][2] \in 0..16
             /\ y(k + 1) = OneMore(y(k), s[k + 1][1], s[k + 1][2])
  <2> DEFINE g == s[k + 1]
  <2>1. k + 1 \in 1..n
    BY <1>2
  <2>2. g \in Fields
    BY <2>1
  <2>3. g[1] \in Int /\ g[2] \in 0..16 /\ g = <<g[1], g[2]>>
    BY <2>2 DEF Fields
  <2>4. y(k + 1) = y(k) \o <<g>>
    BY <1>2
  <2> HIDE DEF g, y
  <2>5. y(k + 1) = y(k) \o <<<<g[1], g[2]>>>>
    BY <2>3, <2>4, Zenon
  <2> QED BY <2>2, <2>3, <2>5, Zenon DEF OneMore, g
<1>3. 0 \in S
  <2>1. y(0) = <<>>
    OBVIOUS
  <2>2. Len(FieldBits(<<>>)) = 0
    <3>1. Len(<<>>) = 0
      OBVIOUS
    <3> QED BY <3>1, NoFieldBits, Zenon
  <2> HIDE DEF y
  <2> QED BY <2>1, <2>2
<1>4. ASSUME NEW k \in Nat, k \in S, k + 1 <= n PROVE P(k + 1)
  <2> DEFINE g == s[k + 1]
             v == g[1]
             w == g[2]
  <2>1. P(k) /\ k <= n
    <3> HIDE DEF P
    <3> QED BY <1>4
  <2>2. y(k) \in Seq(Fields)
    BY <1>1, <2>1
  <2>3. v \in Int /\ w \in 0..16 /\ y(k + 1) = OneMore(y(k), v, w) /\ g \in Fields
    BY <1>2, <1>4
  <2>4. o[k + 1] = o[k] + w /\ o[k] \in Nat
    <3>1. k + 1 \in 1..n /\ (k + 1) - 1 = k /\ k \in 0..n
      BY <1>4
    <3> QED BY <3>1
  <2> HIDE DEF y, g, v, w
  <2>5. Len(FieldBits(y(k + 1))) = o[k + 1]
    <3> DEFINE f == <<v, w>>
    <3>1. f \in Fields /\ f[2] = w
      BY <2>3 DEF Fields
    <3> HIDE DEF f
    <3>2. FieldBits(<<f>>) = BitsOf(f) /\ BitsOf(f) \in Seq(Bit) /\ Len(BitsOf(f)) = w
      BY <3>1, OneFieldBits, BitsTyped
    <3>3. <<f>> \in Seq(Fields)
      BY <3>1
    <3>4. FieldBits(y(k) \o <<f>>) = FieldBits(y(k)) \o BitsOf(f) /\ FieldBits(y(k)) \in Seq(Bit)
      BY <2>2, <3>2, <3>3, FieldBitsJoined, FieldBitsTyped
    <3>5. Len(FieldBits(y(k) \o <<f>>)) = Len(FieldBits(y(k))) + Len(BitsOf(f))
      BY <3>2, <3>4, Joined
    <3>6. y(k + 1) = y(k) \o <<f>>
      BY <2>3 DEF OneMore, f
    <3> QED BY <2>1, <2>4, <3>2, <3>5, <3>6
  <2>6. ASSUME Holds(d, q, FieldBits(y(k + 1)))
        PROVE  \A j \in 1..k + 1 : Shows(d, q + o[j - 1], s[j][1], s[j][2])
    <3>1. Holds(d, q, FieldBits(OneMore(y(k), v, w)))
      BY <2>3, <2>6
    <3>2. Holds(d, q, FieldBits(y(k))) /\ Shows(d, q + Len(FieldBits(y(k))), v, w)
      BY <2>2, <2>3, <3>1, OneMoreHeld
    <3>3. Shows(d, q + o[k], v, w)
      BY <2>1, <3>2
    <3>4. \A j \in 1..k : Shows(d, q + o[j - 1], s[j][1], s[j][2])
      BY <2>1, <3>2
    <3>5. Shows(d, q + o[(k + 1) - 1], s[k + 1][1], s[k + 1][2])
      <4>1. (k + 1) - 1 = k
        OBVIOUS
      <4> QED BY <3>3, <4>1, Zenon DEF v, w, g
    <3>6. \A j \in 1..k + 1 : j \in 1..k \/ j = k + 1
      OBVIOUS
    <3> QED BY <3>4, <3>5, <3>6, Zenon
  <2> QED BY <2>5, <2>6
<1>5. \A k \in Nat : k \in S
  <2> HIDE DEF P
  <2>1. \A k \in Nat : k \in S => k + 1 \in S
    BY <1>4
  <2> HIDE DEF S
  <2> QED BY <1>3, <2>1, Induction
<1>6. P(n)
  <2> HIDE DEF P
  <2>1. n \in S
    BY <1>0, <1>5
  <2> QED BY <1>0, <2>1
<1>7. y(n) = s
  OBVIOUS
<1> HIDE DEF y
<1> QED BY <1>6, <1>7

(* The width of fields is the sum of their widths.                          *)
LEMMA ListLength ==
  ASSUME NEW s \in Seq(Fields),
         NEW o \in [0..Len(s) -> Nat], o[0] = 0, \A k \in 1..Len(s) : o[k] = o[k - 1] + s[k][2]
  PROVE  Len(FieldBits(s)) = o[Len(s)]
<1>1. <<>> \in Seq(Octet) /\ 0 \in Nat
  OBVIOUS
<1> QED BY <1>1, ListHeld

(* Four fields one behind the other.                                        *)
FourOf(a, i, b, j, c, k, e, l) == <<<<a, i>>, <<b, j>>, <<c, k>>, <<e, l>>>>

FourTyped(a, i, b, j, c, k, e, l) ==
  /\ a \in Int /\ b \in Int /\ c \in Int /\ e \in Int
  /\ i \in 0..16 /\ j \in 0..16 /\ k \in 0..16 /\ l \in 0..16

FourShown(d, q, a, i, b, j, c, k, e, l) ==
  /\ FourOf(a, i, b, j, c, k, e, l) \in Seq(Fields)
  /\ Len(FieldBits(FourOf(a, i, b, j, c, k, e, l))) = i + j + k + l
  /\ Shows(d, q, a, i) /\ Shows(d, q + i, b, j) /\ Shows(d, q + (i + j), c, k)
  /\ Shows(d, q + (i + j + k), e, l)

LEMMA FourParts ==
  ASSUME NEW d \in Seq(Octet), NEW q \in Nat, NEW a, NEW i, NEW b, NEW j, NEW c, NEW k, NEW e, NEW l,
         FourTyped(a, i, b, j, c, k, e, l)
  PROVE  /\ FourOf(a, i, b, j, c, k, e, l) \in Seq(Fields)
         /\ Len(FieldBits(FourOf(a, i, b, j, c, k, e, l))) = i + j + k + l
         /\ Holds(d, q, FieldBits(FourOf(a, i, b, j, c, k, e, l))) =>
              FourShown(d, q, a, i, b, j, c, k, e, l)
<1> DEFINE s == FourOf(a, i, b, j, c, k, e, l)
           o == [n \in 0..4 |-> IF n = 0 THEN 0 ELSE IF n = 1 THEN i ELSE IF n = 2 THEN i + j
                                ELSE IF n = 3 THEN i + j + k ELSE i + j + k + l]
<1> USE DEF FourTyped
<1>1. s \in Seq(Fields) /\ Len(s) = 4
  <2>1. <<a, i>> \in Fields /\ <<b, j>> \in Fields /\ <<c, k>> \in Fields /\ <<e, l>> \in Fields
    BY DEF Fields
  <2> HIDE DEF Fields
  <2> QED BY <2>1 DEF FourOf
<1>2. /\ s[1][1] = a /\ s[1][2] = i /\ s[2][1] = b /\ s[2][2] = j
      /\ s[3][1] = c /\ s[3][2] = k /\ s[4][1] = e /\ s[4][2] = l
  BY DEF FourOf
<1>3. /\ o \in [0..4 -> Nat] /\ o[0] = 0 /\ o[1] = i /\ o[2] = i + j /\ o[3] = i + j + k
      /\ o[4] = i + j + k + l
  OBVIOUS
<1> HIDE DEF s, o
<1>4. \A n \in 1..4 : o[n] = o[n - 1] + s[n][2]
  <2> SUFFICES ASSUME NEW n \in 1..4 PROVE o[n] = o[n - 1] + s[n][2]
    OBVIOUS
  <2>1. CASE n = 1
    BY <1>2, <1>3, <2>1
  <2>2. CASE n = 2
    BY <1>2, <1>3, <2>2
  <2>3. CASE n = 3
    BY <1>2, <1>3, <2>3
  <2>4. CASE n = 4
    BY <1>2, <1>3, <2>4
  <2> QED BY <2>1, <2>2, <2>3, <2>4
<1>5. /\ Len(FieldBits(s)) = o[4]
      /\ Holds(d, q, FieldBits(s)) => \A n \in 1..4 : Shows(d, q + o[n - 1], s[n][1], s[n][2])
  BY <1>1, <1>3, <1>4, ListHeld
<1>6. /\ 1 \in 1..4 /\ 2 \in 1..4 /\ 3 \in 1..4 /\ 4 \in 1..4
      /\ 1 - 1 = 0 /\ 2 - 1 = 1 /\ 3 - 1 = 2 /\ 4 - 1 = 3 /\ q + 0 = q
  OBVIOUS
<1>7. Holds(d, q, FieldBits(s)) =>
        /\ Shows(d, q + o[0], a, i) /\ Shows(d, q + o[1], b, j) /\ Shows(d, q + o[2], c, k)
        /\ Shows(d, q + o[3], e, l)
  BY <1>2, <1>5, <1>6, Zenon
<1> QED BY <1>1, <1>3, <1>5, <1>6, <1>7, Zenon DEF s, FourShown

LEMMA FourHeld ==
  ASSUME NEW d \in Seq(Octet), NEW q \in Nat, NEW a, NEW i, NEW b, NEW j, NEW c, NEW k, NEW e, NEW l,
         FourTyped(a, i, b, j, c, k, e, l), Holds(d, q, FieldBits(FourOf(a, i, b, j, c, k, e, l)))
  PROVE  FourShown(d, q, a, i, b, j, c, k, e, l)
BY FourParts, Zenon

FourWide(a, i, b, j, c, k, e, l) ==
  /\ FourOf(a, i, b, j, c, k, e, l) \in Seq(Fields)
  /\ Len(FieldBits(FourOf(a, i, b, j, c, k, e, l))) = i + j + k + l

LEMMA FourLength ==
  ASSUME NEW a, NEW i, NEW b, NEW j, NEW c, NEW k, NEW e, NEW l,
         FourTyped(a, i, b, j, c, k, e, l)
  PROVE  FourWide(a, i, b, j, c, k, e, l)
<1>1. PICK d \in Seq(Octet) : TRUE
  <2>1. <<>> \in Seq(Octet)
    OBVIOUS
  <2> QED BY <2>1
<1>2. PICK q \in Nat : TRUE
  OBVIOUS
<1>3. /\ FourOf(a, i, b, j, c, k, e, l) \in Seq(Fields)
      /\ Len(FieldBits(FourOf(a, i, b, j, c, k, e, l))) = i + j + k + l
      /\ Holds(d, q, FieldBits(FourOf(a, i, b, j, c, k, e, l))) =>
           FourShown(d, q, a, i, b, j, c, k, e, l)
  BY <1>1, <1>2, FourParts
<1> QED BY <1>3, Zenon DEF FourWide

(* An octet of data is the field of eight bits that begins with it.         *)
LEMMA OctetIsUnpack ==
  ASSUME NEW d \in Seq(Octet), NEW k \in Nat
  PROVE  Unpack(d, 8 * k, 8) = OctetAt(d, k)
<1> DEFINE a == OctetAt(d, k)
           b == OctetAt(d, k + 1)
           c == OctetAt(d, k + 2)
<1>1. a \in 0..255 /\ b \in 0..255 /\ c \in 0..255
  <2>1. k \in Nat /\ k + 1 \in Nat /\ k + 2 \in Nat
    OBVIOUS
  <2>2. \A n \in Nat : n < 2^8 => n \in 0..255
    BY Limits
  <2> QED BY <2>1, <2>2, OctetAtIsOctet, Zenon
<1>2. (8 * k) \div 8 = k /\ (8 * k) % 8 = 0
  OBVIOUS
<1>3. Unpack(d, 8 * k, 8) = ((65536 * a + 256 * b + c) \div 2^16) % 2^8
  <2> DEFINE j == (8 * k) \div 8
             r == 24 - ((8 * k) % 8) - 8
  <2>1. Unpack(d, 8 * k, 8) = ((65536 * OctetAt(d, j) + 256 * OctetAt(d, j + 1) + OctetAt(d, j + 2)) \div 2^r) % 2^8
    BY DEF Unpack
  <2>2. j = k /\ r = 16
    BY <1>2
  <2> HIDE DEF j, r
  <2> QED BY <2>1, <2>2
<1> HIDE DEF a, b, c
<1>4. ((65536 * a + 256 * b + c) \div 65536) % 256 = a
  BY <1>1
<1> QED BY <1>3, <1>4, Limits DEF a

(* The fields of a function on 1..n are those of digits.                    *)
LEMMA ArrayFields ==
  ASSUME NEW n \in Nat, NEW v \in [1..n -> Octet]
  PROVE  /\ v \in Seq(Octet) /\ Len(v) = n
         /\ [k \in 1..n |-> <<v[k], 8>>] = TL!DigitFields(v, 8)
<1>1. v \in Seq(Octet) /\ Len(v) = n /\ DOMAIN v = 1..n
  OBVIOUS
<1> QED BY <1>1 DEF TL!DigitFields

(* Octets are read where they were written.                                 *)
OctetFields(v, n) == [j \in 1..n |-> <<v[j], 8>>]
OctetsFrom(d, k, n) == [j \in 1..n |-> OctetAt(d, k + j - 1)]

LEMMA ArrayHeld ==
  ASSUME NEW d \in Seq(Octet), NEW k \in Nat, NEW n \in Nat, NEW v \in [1..n -> Octet],
         Holds(d, 8 * k, FieldBits(OctetFields(v, n)))
  PROVE  Len(FieldBits(OctetFields(v, n))) = 8 * n /\ OctetsFrom(d, k, n) = v
<1> DEFINE q == 8 * k
<1>1. v \in Seq(Octet) /\ Len(v) = n /\ OctetFields(v, n) = TL!DigitFields(v, 8)
  BY ArrayFields DEF OctetFields
<1>2. q \in Nat /\ 8 \in 1..16
  OBVIOUS
<1>3. Holds(d, q, FieldBits(TL!DigitFields(v, 8)))
  BY <1>1
<1> HIDE DEF q
<1>4. /\ Len(FieldBits(TL!DigitFields(v, 8))) = 8 * Len(v)
      /\ (\A j \in 1..Len(v) : v[j] < 2^8) => TL!ReadDigits(d, q, 8, Len(v)) = v
  BY <1>1, <1>2, <1>3, DigitsHeld
<1>5. \A j \in 1..n : v[j] < 2^8
  <2>1. \A x \in Octet : x < 2^8
    BY Limits DEF Octet
  <2> QED BY <2>1
<1>6. TL!ReadDigits(d, q, 8, n) = v
  BY <1>1, <1>4, <1>5, Zenon
<1>7. \A j \in 1..n : TL!Unpack(d, q + 8 * (j - 1), 8) = OctetAt(d, k + j - 1)
  <2> SUFFICES ASSUME NEW j \in 1..n PROVE TL!Unpack(d, q + 8 * (j - 1), 8) = OctetAt(d, k + j - 1)
    OBVIOUS
  <2>1. k + j - 1 \in Nat /\ q + 8 * (j - 1) = 8 * (k + j - 1)
    BY DEF q
  <2>2. Unpack(d, 8 * (k + j - 1), 8) = OctetAt(d, k + j - 1)
    BY <2>1, OctetIsUnpack, Zenon
  <2> QED BY <2>1, <2>2, SameUnpack
<1>8. TL!ReadDigits(d, q, 8, n) = [j \in 1..n |-> TL!Unpack(d, q + 8 * (j - 1), 8)]
  BY DEF TL!ReadDigits
<1>9. OctetsFrom(d, k, n) = v
  BY <1>6, <1>7, <1>8 DEF OctetsFrom
<1> QED BY <1>1, <1>4, <1>9, Zenon

-----------------------------------------------------------------------------
(* ---- subparameters of a few fields ------------------------------------*)
(* What a subparameter's octets hold, and how many they are.                *)
LEMMA SubparameterHeld ==
  ASSUME NEW p \in Encoded, NEW v \in Value[p], NEW d \in Seq(Octet), NEW k \in Nat,
         Behold(d, k, Pack(Write(p, v)))
  PROVE  /\ Holds(d, 8 * k, FieldBits(Write(p, v))) /\ Len(FieldBits(Write(p, v))) \in Nat
         /\ Len(Pack(Write(p, v))) = (Len(FieldBits(Write(p, v))) + 7) \div 8
<1> DEFINE b == FieldBits(Write(p, v))
<1>1. Write(p, v) \in Seq(Fields)
  BY BearerFields
<1>2. b \in Seq(Bit) /\ Len(b) \in Nat
  BY <1>1, FieldBitsTyped
<1>3. Pack(Write(p, v)) = OctetsOf(b)
  BY PackIsOctets
<1> HIDE DEF b
<1>4. Holds(d, 8 * k, b)
  BY <1>2, <1>3, PackedAreHeld
<1>5. Len(OctetsOf(b)) = (Len(b) + 7) \div 8
  BY <1>2 DEF OctetsOf
<1> QED BY <1>2, <1>3, <1>4, <1>5 DEF b

(* A field of a subparameter, and the values of its fields.                 *)
LEMMA FieldIsThere == \A d, k, i, w : Field(d, k, i, w) = Unpack(d, 8 * k + i, w)
BY DEF Field

LEMMA MoreLimits == 2^1 = 2 /\ 2^5 = 32 /\ 2^7 = 128
OBVIOUS

(* A message identifier.                                                    *)
MessageIdFits(v) == v.type < 16 /\ v.id_number < 65536

LEMMA MessageIdKept ==
  ASSUME NEW v \in Value.message_id, MessageIdFits(v), NEW d \in Seq(Octet), NEW k \in Nat,
         Holds(d, 8 * k, FieldBits(Write("message_id", v)))
  PROVE  Len(FieldBits(Write("message_id", v))) = 24 /\ ReadMessageId(d, k) = v
<1> DEFINE q == 8 * k
           a == v.type
           b == v.id_number
           c == v.udh_present
<1>1. a \in Nat /\ b \in Nat /\ c \in 0..1 /\ v = [type |-> a, id_number |-> b, udh_present |-> c]
  BY DEF Value
<1>2. Write("message_id", v) = FourOf(a, 4, b, 16, c, 1, 0, 3)
  BY DEF Write, WriteMessageId, FourOf, RelativeTimes, AbsoluteTimes
<1>3. ReadMessageId(d, k) = [type |-> Unpack(d, q, 4), id_number |-> Unpack(d, q + 4, 16),
                             udh_present |-> Unpack(d, q + 20, 1)]
  <2>1. Field(d, k, 0, 4) = Unpack(d, q, 4) /\ Field(d, k, 4, 16) = Unpack(d, q + 4, 16)
        /\ Field(d, k, 20, 1) = Unpack(d, q + 20, 1)
    BY FieldIsThere, NoOffset
  <2> HIDE DEF q
  <2> QED BY <2>1 DEF ReadMessageId
<1>4. a < 2^4 /\ b < 2^16 /\ q \in Nat
  BY Limits DEF MessageIdFits
<1>5. Holds(d, q, FieldBits(FourOf(a, 4, b, 16, c, 1, 0, 3)))
  BY <1>2
<1> HIDE DEF q, a, b, c
<1>6. FourTyped(a, 4, b, 16, c, 1, 0, 3)
  BY <1>1 DEF FourTyped
<1>7. /\ FourOf(a, 4, b, 16, c, 1, 0, 3) \in Seq(Fields)
      /\ Len(FieldBits(FourOf(a, 4, b, 16, c, 1, 0, 3))) = 4 + 16 + 1 + 3
      /\ Shows(d, q, a, 4) /\ Shows(d, q + 4, b, 16) /\ Shows(d, q + (4 + 16), c, 1)
      /\ Shows(d, q + (4 + 16 + 1), 0, 3)
  <2>1. FourShown(d, q, a, 4, b, 16, c, 1, 0, 3)
    BY <1>4, <1>5, <1>6, FourHeld, Zenon
  <2> QED BY <2>1 DEF FourShown
<1>8. Unpack(d, q, 4) = a /\ Unpack(d, q + 4, 16) = b /\ Unpack(d, q + 20, 1) = c
  <2>1. a < 2^4 /\ b < 2^16 /\ c \in Nat /\ c < 2^1
    BY <1>1, <1>4, MoreLimits
  <2>2. Shows(d, q + 20, c, 1)
    BY <1>7
  <2> QED BY <1>1, <1>7, <2>1, <2>2 DEF Shows
<1> QED BY <1>1, <1>2, <1>3, <1>7, <1>8

(* A number of one octet, and a time.                                       *)
LEMMA OctetKept ==
  ASSUME NEW p \in {"user_response", "language", "rsn_no_notify"}, NEW v \in Nat, v < 256,
         NEW d \in Seq(Octet), NEW k \in Nat, Holds(d, 8 * k, FieldBits(Write(p, v)))
  PROVE  Len(FieldBits(Write(p, v))) = 8 /\ OctetAt(d, k) = v
<1>1. Write(p, v) = <<<<v, 8>>>>
  BY DEF Write, WriteOctet, RelativeTimes, AbsoluteTimes
<1>2. 8 * k \in Nat /\ 8 \in 0..16 /\ v \in Int /\ v < 2^8
  BY Limits
<1>3. Holds(d, 8 * k, FieldBits(<<<<v, 8>>>>))
  BY <1>1
<1>4. Len(FieldBits(<<<<v, 8>>>>)) = 8 /\ Unpack(d, 8 * k, 8) = v
  BY <1>2, <1>3, OneFieldHeld
<1> QED BY <1>1, <1>4, OctetIsUnpack

LEMMA TimeKept ==
  ASSUME NEW p \in AbsoluteTimes, NEW v \in Value[p],
         NEW d \in Seq(Octet), NEW k \in Nat, Holds(d, 8 * k, FieldBits(Write(p, v)))
  PROVE  Len(FieldBits(Write(p, v))) = 48 /\ ReadTime(d, k) = v
<1>1. v \in [1..6 -> Octet]
  BY DEF Value, AbsoluteTimes
<1>2. Write(p, v) = OctetFields(v, 6)
  BY DEF Write, WriteTime, OctetFields, AbsoluteTimes, RelativeTimes
<1>3. 6 \in Nat /\ 8 * 6 = 48
  OBVIOUS
<1>4. Len(FieldBits(OctetFields(v, 6))) = 8 * 6 /\ OctetsFrom(d, k, 6) = v
  <2>1. Holds(d, 8 * k, FieldBits(OctetFields(v, 6)))
    BY <1>2
  <2> QED BY <1>1, <1>3, <2>1, ArrayHeld
<1> QED BY <1>2, <1>3, <1>4, Zenon DEF ReadTime, OctetsFrom

LEMMA IpAddressKept ==
  ASSUME NEW v \in Value.ip_address, NEW d \in Seq(Octet), NEW k \in Nat,
         Holds(d, 8 * k, FieldBits(Write("ip_address", v)))
  PROVE  Len(FieldBits(Write("ip_address", v))) = 40 /\ ReadIpAddress(d, k) = v
<1>1. v \in [1..5 -> Octet]
  BY DEF Value
<1>2. Write("ip_address", v) = OctetFields(v, 5)
  BY DEF Write, WriteIpAddress, OctetFields, AbsoluteTimes, RelativeTimes
<1>3. 5 \in Nat /\ 8 * 5 = 40
  OBVIOUS
<1>4. Len(FieldBits(OctetFields(v, 5))) = 8 * 5 /\ OctetsFrom(d, k, 5) = v
  <2>1. Holds(d, 8 * k, FieldBits(OctetFields(v, 5)))
    BY <1>2
  <2> QED BY <1>1, <1>3, <2>1, ArrayHeld
<1> QED BY <1>2, <1>3, <1>4, Zenon DEF ReadIpAddress, OctetsFrom

(* Two bits, and a number behind them.                                      *)
LEMMA TwoBitsKept ==
  ASSUME NEW a \in Nat, a < 4, NEW b \in Nat, b < 64,
         NEW d \in Seq(Octet), NEW k \in Nat, Holds(d, 8 * k, FieldBits(<<<<a, 2>>, <<b, 6>>>>))
  PROVE  /\ Len(FieldBits(<<<<a, 2>>, <<b, 6>>>>)) = 8
         /\ Field(d, k, 0, 2) = a /\ Field(d, k, 2, 6) = b
<1>1. <<<<a, 2>>, <<b, 6>>>> = TwoOf(a, 2, b, 6)
  BY DEF TwoOf
<1>2. 8 * k \in Nat /\ 2 \in 0..16 /\ 6 \in 0..16 /\ a \in Int /\ b \in Int
  OBVIOUS
<1>3. Holds(d, 8 * k, FieldBits(TwoOf(a, 2, b, 6)))
  BY <1>1
<1>4. /\ Len(FieldBits(TwoOf(a, 2, b, 6))) = 2 + 6 /\ Shows(d, 8 * k, a, 2)
      /\ Shows(d, 8 * k + 2, b, 6)
  BY <1>2, <1>3, TwoHeld
<1>5. Unpack(d, 8 * k, 2) = a /\ Unpack(d, 8 * k + 2, 6) = b
  <2>1. a < 2^2 /\ b < 2^6
    BY Limits
  <2> QED BY <1>4, <2>1, Zenon DEF Shows
<1>6. Field(d, k, 0, 2) = a /\ Field(d, k, 2, 6) = b
  BY <1>5, FieldIsThere, NoOffset
<1>7. 2 + 6 = 8
  OBVIOUS
<1> QED BY <1>1, <1>4, <1>6, <1>7, Zenon

(* The same fields of four bits each: a number in tens and ones.            *)
LEMMA NumMessagesKept ==
  ASSUME NEW v \in Nat, v <= 99, NEW d \in Seq(Octet), NEW k \in Nat,
         Holds(d, 8 * k, FieldBits(Write("num_messages", v)))
  PROVE  /\ Len(FieldBits(Write("num_messages", v))) = 8 /\ ReadNumMessages(d, k) = v
         /\ Field(d, k, 0, 4) < 10 /\ Field(d, k, 4, 4) < 10
<1> DEFINE a == v \div 10
           b == v % 10
<1>1. Write("num_messages", v) = TwoOf(a, 4, b, 4)
  BY DEF Write, WriteNumMessages, TwoOf
<1>2. /\ 8 * k \in Nat /\ 4 \in 0..16 /\ a \in Int /\ b \in Int /\ a \in Nat /\ b \in Nat
      /\ a < 10 /\ b < 10 /\ 10 * a + b = v
  OBVIOUS
<1>3. Holds(d, 8 * k, FieldBits(TwoOf(a, 4, b, 4)))
  BY <1>1
<1> HIDE DEF a, b
<1>4. /\ Len(FieldBits(TwoOf(a, 4, b, 4))) = 4 + 4 /\ Shows(d, 8 * k, a, 4)
      /\ Shows(d, 8 * k + 4, b, 4)
  BY <1>2, <1>3, TwoHeld
<1>5. Unpack(d, 8 * k, 4) = a /\ Unpack(d, 8 * k + 4, 4) = b
  BY <1>2, <1>4, Limits DEF Shows
<1>6. Field(d, k, 0, 4) = a /\ Field(d, k, 4, 4) = b
  BY <1>5, FieldIsThere, NoOffset
<1> QED BY <1>1, <1>2, <1>4, <1>6 DEF ReadNumMessages

(* Three flags.                                                             *)
LEMMA ReplyOptionKept ==
  ASSUME NEW v \in Value.reply_option, NEW d \in Seq(Octet), NEW k \in Nat,
         Holds(d, 8 * k, FieldBits(Write("reply_option", v)))
  PROVE  Len(FieldBits(Write("reply_option", v))) = 8 /\ ReadReplyOption(d, k) = v
<1> DEFINE q == 8 * k
           a == v[1]
           b == v[2]
           c == v[3]
<1>1. v \in [1..3 -> 0..1] /\ a \in 0..1 /\ b \in 0..1 /\ c \in 0..1
  BY DEF Value
<1>2. Write("reply_option", v) = FourOf(a, 1, b, 1, c, 1, 0, 5)
  BY DEF Write, WriteReplyOption, FourOf, RelativeTimes, AbsoluteTimes
<1>3. Holds(d, q, FieldBits(FourOf(a, 1, b, 1, c, 1, 0, 5)))
  BY <1>2
<1>4. /\ 1 \in 0..16 /\ 5 \in 0..16 /\ q \in Nat /\ a \in Int /\ b \in Int /\ c \in Int /\ 0 \in Int
      /\ a \in Nat /\ b \in Nat /\ c \in Nat /\ a < 2 /\ b < 2 /\ c < 2
  BY <1>1
<1> HIDE DEF q, a, b, c
<1>5. /\ FourOf(a, 1, b, 1, c, 1, 0, 5) \in Seq(Fields)
      /\ Len(FieldBits(FourOf(a, 1, b, 1, c, 1, 0, 5))) = 1 + 1 + 1 + 5
      /\ Shows(d, q, a, 1) /\ Shows(d, q + 1, b, 1) /\ Shows(d, q + (1 + 1), c, 1)
      /\ Shows(d, q + (1 + 1 + 1), 0, 5)
  <2>1. Holds(d, q, FieldBits(FourOf(a, 1, b, 1, c, 1, 0, 5)))
    BY <1>3 DEF q, a, b, c
  <2>2. FourTyped(a, 1, b, 1, c, 1, 0, 5)
    BY <1>4 DEF FourTyped
  <2>3. FourShown(d, q, a, 1, b, 1, c, 1, 0, 5)
    BY <1>4, <2>1, <2>2, FourHeld, Zenon
  <2> QED BY <2>3 DEF FourShown
<1>6. Unpack(d, q, 1) = a /\ Unpack(d, q + 1, 1) = b /\ Unpack(d, q + 2, 1) = c
  <2>1. a < 2^1 /\ b < 2^1 /\ c < 2^1 /\ 1 + 1 = 2
    BY <1>4, Limits
  <2> QED BY <1>4, <1>5, <2>1, Zenon DEF Shows
<1>7. \A j \in 1..3 : Field(d, k, j - 1, 1) = v[j]
  <2> SUFFICES ASSUME NEW j \in 1..3 PROVE Field(d, k, j - 1, 1) = v[j]
    OBVIOUS
  <2>1. Field(d, k, j - 1, 1) = Unpack(d, q + (j - 1), 1)
    BY FieldIsThere DEF q
  <2>2. CASE j = 1
    BY <1>4, <1>6, <2>1, <2>2 DEF a
  <2>3. CASE j = 2
    BY <1>6, <2>1, <2>3 DEF b
  <2>4. CASE j = 3
    BY <1>6, <2>1, <2>4 DEF c
  <2> QED BY <2>2, <2>3, <2>4
<1>8. ReadReplyOption(d, k) = v
  BY <1>1, <1>7 DEF ReadReplyOption
<1> QED BY <1>2, <1>5, <1>8

LEMMA DepositIndexKept ==
  ASSUME NEW v \in Nat, v < 65536, NEW d \in Seq(Octet), NEW k \in Nat,
         Holds(d, 8 * k, FieldBits(Write("deposit_index", v)))
  PROVE  Len(FieldBits(Write("deposit_index", v))) = 16 /\ ReadDepositIndex(d, k) = v
<1>1. Write("deposit_index", v) = <<<<v, 16>>>>
  BY DEF Write, WriteDepositIndex, RelativeTimes, AbsoluteTimes
<1>2. 8 * k \in Nat /\ 16 \in 0..16 /\ v \in Int
  OBVIOUS
<1>3. Holds(d, 8 * k, FieldBits(<<<<v, 16>>>>))
  BY <1>1
<1>4. Len(FieldBits(<<<<v, 16>>>>)) = 16 /\ Unpack(d, 8 * k, 16) = v
  BY <1>2, <1>3, Limits, OneFieldHeld
<1> QED BY <1>1, <1>4, FieldIsThere, NoOffset DEF ReadDepositIndex

(* The mode of the display has a number of its own only when it is reserved.*)
DisplayModeFits(v) == v.mode < 4 /\ v.download < 64 /\ (v.mode # 3 => v.download = 0)

LEMMA DisplayModeKept ==
  ASSUME NEW v \in Value.display_mode, DisplayModeFits(v), NEW d \in Seq(Octet), NEW k \in Nat,
         Holds(d, 8 * k, FieldBits(Write("display_mode", v)))
  PROVE  Len(FieldBits(Write("display_mode", v))) = 8 /\ ReadDisplayMode(d, k) = v
<1> DEFINE a == v.mode
           b == v.download
<1>1. a \in Nat /\ b \in Nat /\ v = [mode |-> a, download |-> b]
  BY OctetIsNat DEF Value
<1>2. a < 4 /\ b < 64 /\ (a # 3 => b = 0)
  BY DEF DisplayModeFits
<1>3. Write("display_mode", v) = <<<<a, 2>>, <<IF a = 3 THEN b ELSE 0, 6>>>>
  BY DEF Write, WriteDisplayMode, RelativeTimes, AbsoluteTimes
<1> HIDE DEF a, b
<1>4. (IF a = 3 THEN b ELSE 0) = b
  BY <1>1, <1>2
<1>5. Write("display_mode", v) = <<<<a, 2>>, <<b, 6>>>>
  BY <1>3, <1>4
<1>6. /\ Len(FieldBits(<<<<a, 2>>, <<b, 6>>>>)) = 8 /\ Field(d, k, 0, 2) = a /\ Field(d, k, 2, 6) = b
  <2>1. Holds(d, 8 * k, FieldBits(<<<<a, 2>>, <<b, 6>>>>))
    BY <1>5
  <2> QED BY <1>1, <1>2, <2>1, TwoBitsKept
<1>7. ReadDisplayMode(d, k) = v
  BY <1>1, <1>4, <1>6 DEF ReadDisplayMode
<1> QED BY <1>5, <1>6, <1>7

-----------------------------------------------------------------------------
(* ---- times and numbers ------------------------------------------------*)
(* Two digits are a number and back.                                        *)
LEMMA DigitsKept == \A n \in 0..99 : T!BcdToInt(T!IntToBcd(n)) = n
<1> SUFFICES ASSUME NEW n \in 0..99 PROVE T!BcdToInt(T!IntToBcd(n)) = n
  OBVIOUS
<1> DEFINE x == n % 10
           y == n \div 10
<1>1. x \in 0..9 /\ y \in 0..9 /\ n = x + y * 10
  OBVIOUS
<1>2. T!IntToBcd(n) = (x + y * 16) % 256
  BY DEF T!IntToBcd
<1> HIDE DEF x, y
<1>3. T!IntToBcd(n) = x + y * 16
  BY <1>1, <1>2
<1>4. T!IntToBcd(n) % 16 = x /\ T!IntToBcd(n) \div 16 = y
  BY <1>1, <1>3
<1> QED BY <1>1, <1>4 DEF T!BcdToInt, T!IsBcd

(* What a time of such digits means.                                        *)
Reads(t, y, m, d, h, i) ==
  /\ t.year = T!IntToBcd(y) /\ t.month = T!IntToBcd(m) /\ t.day = T!IntToBcd(d)
  /\ t.hour = T!IntToBcd(h) /\ t.minute = T!IntToBcd(i)

Means(t, y, m, d, h, i) == T!Days(t) = y * 365 + m * 30 + d /\ T!Minutes(t) = h * 60 + i

TwoDigits == 0..99
LEMMA TimeMeans ==
  ASSUME NEW t, NEW y \in TwoDigits, NEW m \in TwoDigits, NEW d \in TwoDigits, NEW h \in TwoDigits,
         NEW i \in TwoDigits,
         Reads(t, y, m, d, h, i)
  PROVE  Means(t, y, m, d, h, i)
<1>1. /\ T!BcdToInt(t.year) = y /\ T!BcdToInt(t.month) = m /\ T!BcdToInt(t.day) = d
      /\ T!BcdToInt(t.hour) = h /\ T!BcdToInt(t.minute) = i
  BY DigitsKept DEF Reads, TwoDigits
<1> QED BY <1>1, Zenon DEF T!Days, T!Minutes, Means

(* A relative time that was decoded is encoded as the octet it came from,   *)
(* but between 12 and 24 hours.                                             *)
Unambiguous(v) == v \in 0..255 /\ v \notin 144..166
LEMMA RelativeKept ==
  ASSUME NEW v, Unambiguous(v)
  PROVE  T!EncodeRelative(T!DecodeRelative(v)) = v
<1> DEFINE t == T!DecodeRelative(v)
           z == T!EncodeRelative(t)
<1>z. T!IntToBcd(0) = 0 /\ 0 \in TwoDigits
  BY DEF T!IntToBcd, TwoDigits
<1>0. v \in 0..255 /\ v \notin 144..166
  BY DEF Unambiguous
<1>1. ASSUME v < 144 PROVE z = v
  <2> DEFINE m == (v + 1) * 5
             h == m \div 60
             i == m % 60
  <2>1. h \in TwoDigits /\ i \in TwoDigits /\ h * 60 + i = m /\ m = 5 * (v + 1)
    BY <1>0, <1>1 DEF TwoDigits
  <2>2. t = [T!Zero EXCEPT !.hour = T!IntToBcd(h), !.minute = T!IntToBcd(i)]
    BY <1>0, <1>1 DEF T!DecodeRelative
  <2> HIDE DEF m, h, i
  <2>3. Reads(t, 0, 0, 0, h, i)
    BY <1>z, <2>2 DEF T!Zero, T!Field, Reads
  <2> HIDE DEF t, z
  <2>4. Means(t, 0, 0, 0, h, i)
    <3>1. h \in TwoDigits /\ i \in TwoDigits
      BY <2>1
    <3> QED BY <1>z, <2>3, <3>1, TimeMeans, Zenon
  <2>6. T!Days(t) = 0 /\ T!Minutes(t) = 5 * (v + 1)
    BY <2>1, <2>4 DEF Means
  <2>5. z = ((5 * (v + 1) + 4) \div 5 - 1) % 256
    BY <1>0, <1>1, <2>6 DEF T!EncodeRelative, z
  <2> QED BY <1>0, <1>1, <2>5
<1>2. ASSUME v \in 167..196 PROVE z = v
  <2> DEFINE n == v - 166
             m == n \div 30
             d == n % 30
  <2>1. m \in TwoDigits /\ d \in TwoDigits /\ m * 30 + d = n /\ n \in 1..30 /\ n + 166 = v
    BY <1>0, <1>2 DEF TwoDigits
  <2>2. t = [T!Zero EXCEPT !.month = T!IntToBcd(m), !.day = T!IntToBcd(d)]
    BY <1>0, <1>2 DEF T!DecodeRelative
  <2> HIDE DEF n, m, d
  <2>3. Reads(t, 0, m, d, 0, 0)
    BY <1>z, <2>2 DEF T!Zero, T!Field, Reads
  <2> HIDE DEF t, z
  <2>4. Means(t, 0, m, d, 0, 0)
    <3>1. m \in TwoDigits /\ d \in TwoDigits
      BY <2>1
    <3> QED BY <1>z, <2>3, <3>1, TimeMeans, Zenon
  <2>6. T!Days(t) = n
    <3>1. T!Days(t) = 0 * 365 + m * 30 + d
      BY <2>4, Zenon DEF Means
    <3>2. m \in Nat /\ d \in Nat
      BY <2>1 DEF TwoDigits
    <3> QED BY <2>1, <3>1, <3>2
  <2>5. z = n + 166
    BY <1>0, <2>1, <2>6 DEF T!EncodeRelative, z
  <2> QED BY <2>1, <2>5
<1>3. ASSUME v >= 197 PROVE z = v
  <2> DEFINE n == (v - 192) * 7
             y == n \div 365
             r == n % 365
             m == r \div 30
             d == r % 30
  <2>1. y \in TwoDigits /\ m \in TwoDigits /\ d \in TwoDigits /\ y * 365 + m * 30 + d = n /\ n = 7 * (v - 192)
    <3>1. n \in 35..441 /\ n = 7 * (v - 192)
      BY <1>0, <1>3
    <3> HIDE DEF n
    <3>2. y \in 0..99 /\ r \in 0..364 /\ y * 365 + r = n
      BY <3>1
    <3> HIDE DEF r, y
    <3>3. m \in 0..99 /\ d \in 0..99 /\ m * 30 + d = r
      BY <3>2
    <3> QED BY <3>1, <3>2, <3>3 DEF TwoDigits
  <2>2. t = [T!Zero EXCEPT !.year = T!IntToBcd(y), !.month = T!IntToBcd(m), !.day = T!IntToBcd(d)]
    BY <1>0, <1>3 DEF T!DecodeRelative
  <2> HIDE DEF n, y, r, m, d
  <2>3. Reads(t, y, m, d, 0, 0)
    BY <1>z, <2>2 DEF T!Zero, T!Field, Reads
  <2> HIDE DEF t, z
  <2>4. Means(t, y, m, d, 0, 0)
    <3>1. y \in TwoDigits /\ m \in TwoDigits /\ d \in TwoDigits
      BY <2>1
    <3> QED BY <1>z, <2>3, <3>1, TimeMeans, Zenon
  <2>6. T!Days(t) = 7 * (v - 192)
    BY <2>1, <2>4 DEF Means
  <2>5. z = ((7 * (v - 192) + 6) \div 7 + 192) % 256
    BY <1>0, <1>3, <2>6 DEF T!EncodeRelative, z
  <2> QED BY <1>0, <1>3, <2>5
<1>4. v < 144 \/ v \in 167..196 \/ v >= 197
  BY <1>0
<1> QED BY <1>1, <1>2, <1>3, <1>4

LEMMA RelativeTimeKept ==
  ASSUME NEW p \in RelativeTimes, NEW v \in Representable, NEW d \in Seq(Octet), NEW k \in Nat,
         Holds(d, 8 * k, FieldBits(Write(p, v)))
  PROVE  Len(FieldBits(Write(p, v))) = 8 /\ ReadRelative(d, k) = v
<1>1. PICK w \in Octet \ (144..166) : v = T!DecodeRelative(w)
  BY DEF Representable
<1>2. Unambiguous(w) /\ w \in Nat /\ w < 2^8 /\ w \in Int
  BY Limits DEF Octet, Unambiguous
<1>3. T!EncodeRelative(v) = w
  BY <1>1, <1>2, RelativeKept, Zenon
<1>4. Write(p, v) = <<<<w, 8>>>>
  BY <1>3 DEF Write, WriteRelative, RelativeTimes, AbsoluteTimes
<1>5. 8 * k \in Nat /\ 8 \in 0..16
  OBVIOUS
<1>6. Holds(d, 8 * k, FieldBits(<<<<w, 8>>>>))
  BY <1>4
<1>7. Len(FieldBits(<<<<w, 8>>>>)) = 8 /\ Unpack(d, 8 * k, 8) = w
  BY <1>2, <1>5, <1>6, OneFieldHeld
<1>8. OctetAt(d, k) = w
  BY <1>7, OctetIsUnpack
<1> QED BY <1>1, <1>4, <1>7, <1>8 DEF ReadRelative

(* Two bits alone: a priority or a privacy.                                 *)
LEMMA PriorityKept ==
  ASSUME NEW p \in {"priority", "privacy"}, NEW v \in Nat, v < 4, NEW d \in Seq(Octet), NEW k \in Nat,
         Holds(d, 8 * k, FieldBits(Write(p, v)))
  PROVE  Len(FieldBits(Write(p, v))) = 8 /\ ReadTwoBits(d, k) = v
<1>1. Write(p, v) = <<<<v, 2>>, <<0, 6>>>>
  BY DEF Write, WriteTwoBits, RelativeTimes, AbsoluteTimes
<1>2. 0 \in Nat /\ 0 < 64
  OBVIOUS
<1>3. Holds(d, 8 * k, FieldBits(<<<<v, 2>>, <<0, 6>>>>))
  BY <1>1
<1>4. Len(FieldBits(<<<<v, 2>>, <<0, 6>>>>)) = 8 /\ Field(d, k, 0, 2) = v
  BY <1>2, <1>3, TwoBitsKept
<1> QED BY <1>1, <1>4 DEF ReadTwoBits

(* An alert mode, which is not written when it is the default.              *)
LEMMA AlertModeKept ==
  ASSUME NEW v \in Nat, v < 4, NEW d \in Seq(Octet), NEW k \in Nat,
         Holds(d, 8 * k, FieldBits(Write("alert_mode", v)))
  PROVE  /\ Len(FieldBits(Write("alert_mode", v))) = IF v = 0 THEN 0 ELSE 8
         /\ ReadAlertMode(d, k, IF v = 0 THEN 0 ELSE 1) = v
<1>1. CASE v = 0
  <2>1. Write("alert_mode", v) = <<>>
    BY <1>1 DEF Write, WriteAlertMode, RelativeTimes, AbsoluteTimes
  <2>2. Len(<<>>) = 0
    OBVIOUS
  <2>3. Len(FieldBits(Write("alert_mode", v))) = 0
    BY <2>1, <2>2, NoFieldBits, Zenon
  <2> QED BY <1>1, <2>3 DEF ReadAlertMode
<1>2. CASE v # 0
  <2>1. Write("alert_mode", v) = <<<<v, 2>>, <<0, 6>>>>
    BY <1>2 DEF Write, WriteAlertMode, RelativeTimes, AbsoluteTimes
  <2>2. 0 \in Nat /\ 0 < 64
    OBVIOUS
  <2>3. Holds(d, 8 * k, FieldBits(<<<<v, 2>>, <<0, 6>>>>))
    BY <2>1
  <2>4. Len(FieldBits(<<<<v, 2>>, <<0, 6>>>>)) = 8 /\ Field(d, k, 0, 2) = v
    BY <2>2, <2>3, TwoBitsKept
  <2>5. Len(FieldBits(Write("alert_mode", v))) = 8
    BY <2>1, <2>4
  <2> QED BY <1>2, <2>4, <2>5 DEF ReadAlertMode
<1> QED BY <1>1, <1>2

(* The status of a delivery.                                                *)
LEMMA DeliveryStatusKept ==
  ASSUME NEW v \in Value.delivery_status, v[1] < 4, v[2] < 64, NEW d \in Seq(Octet), NEW k \in Nat,
         Holds(d, 8 * k, FieldBits(Write("delivery_status", v)))
  PROVE  Len(FieldBits(Write("delivery_status", v))) = 8 /\ ReadDeliveryStatus(d, k) = v
<1> DEFINE a == v[1]
           b == v[2]
<1>1. v \in [1..2 -> Nat] /\ a \in Nat /\ b \in Nat
  BY DEF Value
<1>2. v = <<a, b>>
  BY <1>1
<1>3. Write("delivery_status", v) = <<<<a, 2>>, <<b, 6>>>>
  BY DEF Write, WriteDeliveryStatus, RelativeTimes, AbsoluteTimes
<1>4. Holds(d, 8 * k, FieldBits(<<<<a, 2>>, <<b, 6>>>>))
  BY <1>3
<1>5. a < 4 /\ b < 64
  OBVIOUS
<1> HIDE DEF a, b
<1>6. Len(FieldBits(<<<<a, 2>>, <<b, 6>>>>)) = 8 /\ Field(d, k, 0, 2) = a /\ Field(d, k, 2, 6) = b
  BY <1>1, <1>4, <1>5, TwoBitsKept
<1> QED BY <1>2, <1>3, <1>6 DEF ReadDeliveryStatus

(* ---- a number to call back ---------------------------------------------*)
LEMMA SameReadDigits == \A d, q, w, n : ReadDigits(d, q, w, n) = TL!ReadDigits(d, q, w, n)
BY SameUnpack DEF ReadDigits, TL!ReadDigits

CallbackFits(v) ==
  /\ v.digit_mode \in 0..1 /\ Len(v.digits) <= ADDRESS_MAX
  /\ IF v.digit_mode = 1 THEN v.number_type < 8 /\ v.number_plan < 16
     ELSE v.number_type = 0 /\ v.number_plan = 0 /\ \A k \in 1..Len(v.digits) : v.digits[k] < 16

(* One bit, and two fields more on a condition.                             *)
CallbackHead(e, a, b, c) == <<<<a, 1>>>> \o (IF e THEN <<<<b, 3>>, <<c, 4>>>> ELSE <<>>)

LEMMA CallbackHeadHeld ==
  ASSUME NEW d \in Seq(Octet), NEW q \in Nat, NEW a \in Int, NEW b \in Int, NEW c \in Int, NEW e \in BOOLEAN,
         Holds(d, q, FieldBits(CallbackHead(e, a, b, c)))
  PROVE  /\ CallbackHead(e, a, b, c) \in Seq(Fields)
         /\ Len(FieldBits(CallbackHead(e, a, b, c))) = IF e THEN 8 ELSE 1
         /\ Shows(d, q, a, 1)
         /\ e => Shows(d, q + 1, b, 3) /\ Shows(d, q + 4, c, 4)
<1> DEFINE s == <<<<a, 1>>>>
           t == <<<<b, 3>>, <<c, 4>>>>
           u == CallbackHead(e, a, b, c)
<1>1. s \in Seq(Fields) /\ t \in Seq(Fields) /\ <<>> \in Seq(Fields)
  <2>1. <<a, 1>> \in Fields /\ <<b, 3>> \in Fields /\ <<c, 4>> \in Fields
    BY DEF Fields
  <2> HIDE DEF Fields
  <2> QED BY <2>1
<1>2. t = TwoOf(b, 3, c, 4)
  BY DEF TwoOf
<1>3. u = IF e THEN s \o t ELSE s
  <2> HIDE DEF s, t
  <2>1. s \o <<>> = s
    BY <1>1, NoField
  <2>2. u = s \o (IF e THEN t ELSE <<>>)
    BY DEF CallbackHead, s, t
  <2> QED BY <2>1, <2>2, Zenon
<1>4. 1 \in 0..16 /\ 3 \in 0..16 /\ 4 \in 0..16 /\ q + 1 \in Nat /\ (q + 1) + 3 = q + 4 /\ 1 + (3 + 4) = 8
  OBVIOUS
<1> HIDE DEF s, t, u
<1>5. Holds(d, q, FieldBits(u))
  BY DEF u
<1>6. ASSUME Holds(d, q, FieldBits(s)) PROVE Len(FieldBits(s)) = 1 /\ Shows(d, q, a, 1)
  <2>1. Holds(d, q, FieldBits(<<<<a, 1>>>>))
    BY <1>6 DEF s
  <2>2. Len(FieldBits(<<<<a, 1>>>>)) = 1 /\ (a \in Nat /\ a < 2^1 => Unpack(d, q, 1) = a)
    BY <1>4, <2>1, OneFieldHeld
  <2> QED BY <2>2 DEF s, Shows
<1>7. CASE e
  <2>1. u = s \o t
    BY <1>3, <1>7
  <2>2. /\ Holds(d, q, FieldBits(s)) /\ Holds(d, q + Len(FieldBits(s)), FieldBits(t))
        /\ Len(FieldBits(s \o t)) = Len(FieldBits(s)) + Len(FieldBits(t))
    BY <1>1, <1>5, <2>1, FieldsHeld
  <2>3. Len(FieldBits(s)) = 1 /\ Shows(d, q, a, 1)
    BY <1>6, <2>2
  <2>4. Holds(d, q + 1, FieldBits(TwoOf(b, 3, c, 4)))
    BY <1>2, <2>2, <2>3
  <2>5. Len(FieldBits(TwoOf(b, 3, c, 4))) = 3 + 4 /\ Shows(d, q + 1, b, 3) /\ Shows(d, (q + 1) + 3, c, 4)
    BY <1>4, <2>4, TwoHeld, SMTT(60)
  <2>6. Len(FieldBits(u)) = 8
    BY <1>2, <1>4, <2>1, <2>2, <2>3, <2>5, Zenon
  <2>7. u \in Seq(Fields)
    BY <1>1, <2>1, MoreFields
  <2> QED BY <1>4, <1>7, <2>3, <2>5, <2>6, <2>7 DEF u
<1>8. CASE ~e
  <2>1. u = s
    BY <1>3, <1>8
  <2>2. Len(FieldBits(u)) = 1 /\ Shows(d, q, a, 1) /\ u \in Seq(Fields)
    BY <1>1, <1>5, <1>6, <2>1
  <2> QED BY <1>8, <2>2 DEF u
<1> QED BY <1>7, <1>8

LEMMA CallbackKept ==
  ASSUME NEW v \in Value.callback, CallbackFits(v), NEW d \in Seq(Octet), NEW k \in Nat,
         Holds(d, 8 * k, FieldBits(Write("callback", v)))
  PROVE  ReadCallback(d, k) = v
<1> DEFINE q == 8 * k
           dm == v.digit_mode
           a == v.number_type
           b == v.number_plan
           x == v.digits
           l == Len(x)
           e == dm = 1
           w == IF e THEN 8 ELSE 4
           h == IF e THEN 8 ELSE 1
           s == CallbackHead(e, dm, a, b)
           m == OneMore(s, l, 8)
           z == DigitsMore(m, x, w)
<1>1. dm \in Nat /\ a \in Nat /\ b \in Nat /\ x \in Seq(Octet) /\ l \in Nat
  <2>1. dm \in Nat /\ a \in Nat /\ b \in Nat /\ x \in Seq(Octet)
    BY DEF Value
  <2> HIDE DEF x
  <2> QED BY <2>1
<1>2. v = [digit_mode |-> dm, number_type |-> a, number_plan |-> b, digits |-> x]
  BY DEF Value
<1>3. /\ dm \in 0..1 /\ l <= 48 /\ e \in BOOLEAN
      /\ (e => a < 8 /\ b < 16) /\ (~e => a = 0 /\ b = 0)
      /\ (~e => \A j \in 1..l : x[j] < 16)
  BY Zenon DEF CallbackFits, ADDRESS_MAX
<1>4. Write("callback", v) = z
  <2>1. Digits(v) = TL!DigitFields(x, w)
    BY DEF Digits, TL!DigitFields
  <2> QED BY <2>1 DEF Write, WriteCallback, CallbackHead, OneMore, DigitsMore, RelativeTimes, AbsoluteTimes
<1>5. Holds(d, q, FieldBits(z))
  BY <1>4
<1>6. q \in Nat /\ 8 \in 0..16 /\ (w = 8 \/ w = 4)
  OBVIOUS
<1>7. ReadCallback(d, k) =
        [digit_mode |-> Unpack(d, q, 1),
         number_type |-> IF Unpack(d, q, 1) = 1 THEN Unpack(d, q + 1, 3) ELSE 0,
         number_plan |-> IF Unpack(d, q, 1) = 1 THEN Unpack(d, q + 4, 4) ELSE 0,
         digits |-> TL!ReadDigits(d, q + (IF Unpack(d, q, 1) = 1 THEN 8 ELSE 1) + 8,
                      IF Unpack(d, q, 1) = 1 THEN 8 ELSE 4,
                      IF Unpack(d, q + (IF Unpack(d, q, 1) = 1 THEN 8 ELSE 1), 8) > 48 THEN 48
                      ELSE Unpack(d, q + (IF Unpack(d, q, 1) = 1 THEN 8 ELSE 1), 8))]
  BY FieldIsThere, NoOffset, SameReadDigits, Zenon DEF ReadCallback, ADDRESS_MAX
<1>8. e <=> dm = 1
  OBVIOUS
<1>9. w = (IF e THEN 8 ELSE 4) /\ h = (IF e THEN 8 ELSE 1)
  OBVIOUS
<1> HIDE DEF q, dm, a, b, x, l, w, h, e
<1>i. dm \in Int /\ a \in Int /\ b \in Int /\ l \in Int
  BY <1>1
<1>s. s \in Seq(Fields)
  <2>1. <<<<dm, 1>>>> \in Seq(Fields) /\ <<>> \in Seq(Fields)
    BY <1>i, Widths, OneField, NoField, Zenon
  <2>2. <<<<a, 3>>, <<b, 4>>>> \in Seq(Fields)
    <3>1. <<a, 3>> \in Fields /\ <<b, 4>> \in Fields
      BY <1>i DEF Fields
    <3> HIDE DEF Fields
    <3> QED BY <3>1
  <2> QED BY <2>1, <2>2, MoreFields, Zenon DEF CallbackHead
<1>m. m \in Seq(Fields)
  <2>1. <<<<l, 8>>>> \in Seq(Fields)
    BY <1>i, Widths, OneField, Zenon
  <2> HIDE DEF s
  <2> QED BY <1>s, <2>1, MoreFields, Zenon DEF OneMore
<1> HIDE DEF z, m, s
<1>10. Holds(d, q, FieldBits(m)) /\ ShowsDigits(d, q + Len(FieldBits(m)), x, w)
  <2>1. Holds(d, q, FieldBits(DigitsMore(m, x, w)))
    BY <1>5 DEF z
  <2> DEFINE Kept(n) == /\ Holds(d, q, FieldBits(m))
                        /\ ShowsDigits(d, q + Len(FieldBits(m)), x, n)
  <2>2. CASE w = 8
    <3>1. Kept(8)
      <4>1. Holds(d, q, FieldBits(DigitsMore(m, x, 8))) /\ 8 \in 1..16
        BY <2>1, <2>2
      <4> QED BY <1>1, <1>6, <1>m, <4>1, DigitsMoreHeld
    <3> HIDE DEF Kept
    <3>2. Kept(w)
      BY <2>2, <3>1
    <3> QED BY <3>2 DEF Kept, z
  <2>3. CASE w = 4
    <3>1. Kept(4)
      <4>1. Holds(d, q, FieldBits(DigitsMore(m, x, 4))) /\ 4 \in 1..16
        BY <2>1, <2>3
      <4> QED BY <1>1, <1>6, <1>m, <4>1, DigitsMoreHeld
    <3> HIDE DEF Kept
    <3>2. Kept(w)
      BY <2>3, <3>1
    <3> QED BY <3>2 DEF Kept, z
  <2> QED BY <1>6, <2>2, <2>3
<1>11. /\ Holds(d, q, FieldBits(s)) /\ Len(FieldBits(m)) = Len(FieldBits(s)) + 8
       /\ Shows(d, q + Len(FieldBits(s)), l, 8)
  BY <1>6, <1>10, <1>i, <1>s, OneMoreHeld DEF m
<1>12. /\ Len(FieldBits(s)) = (IF e THEN 8 ELSE 1) /\ Shows(d, q, dm, 1)
       /\ e => Shows(d, q + 1, a, 3) /\ Shows(d, q + 4, b, 4)
  BY <1>3, <1>6, <1>11, <1>i, CallbackHeadHeld DEF s
<1>15. Len(FieldBits(s)) = h /\ Len(FieldBits(m)) = h + 8 /\ h \in Nat
  BY <1>9, <1>11, <1>12
<1>16. Unpack(d, q, 1) = dm
  BY <1>1, <1>3, <1>12, Limits DEF Shows
<1>17. (IF e THEN Unpack(d, q + 1, 3) ELSE 0) = a /\ (IF e THEN Unpack(d, q + 4, 4) ELSE 0) = b
  BY <1>1, <1>3, <1>12, Limits DEF Shows
<1>19. Unpack(d, q + h, 8) = l /\ ~(l > 48)
  BY <1>1, <1>3, <1>11, <1>15, Limits DEF Shows
<1>20. TL!ReadDigits(d, q + h + 8, w, l) = x
  <2>1. ASSUME NEW j \in 1..Len(x) PROVE x[j] < 2^w
    <3>1. x[j] \in Octet
      BY <1>1
    <3>2. \A n \in Octet : n < 2^8
      BY Limits DEF Octet
    <3>3. CASE e
      BY <1>9, <3>1, <3>2, <3>3
    <3>4. CASE ~e
      <4>1. x[j] < 16 /\ w = 4
        BY <1>3, <1>9, <3>4 DEF l
      <4> QED BY <4>1, Limits
    <3> QED BY <3>3, <3>4
  <2>2. q + Len(FieldBits(m)) = q + h + 8
    BY <1>6, <1>15
  <2> QED BY <1>10, <2>1, <2>2, Zenon DEF l, ShowsDigits
<1>22. ReadCallback(d, k) = v
  <2>1. Unpack(d, q, 1) = 1 <=> e
    BY <1>8, <1>16, Zenon
  <2>2. (IF Unpack(d, q, 1) = 1 THEN 8 ELSE 4) = w
    BY <1>9, <2>1, Zenon
  <2>3. (IF Unpack(d, q, 1) = 1 THEN 8 ELSE 1) = h
    BY <1>9, <2>1, Zenon
  <2>4. (IF Unpack(d, q, 1) = 1 THEN Unpack(d, q + 1, 3) ELSE 0) = a
    BY <1>17, <2>1, Zenon
  <2>5. (IF Unpack(d, q, 1) = 1 THEN Unpack(d, q + 4, 4) ELSE 0) = b
    BY <1>17, <2>1, Zenon
  <2>6. (IF Unpack(d, q + h, 8) > 48 THEN 48 ELSE Unpack(d, q + h, 8)) = l
    BY <1>19
  <2> QED BY <1>2, <1>7, <1>16, <1>20, <2>2, <2>3, <2>4, <2>5, <2>6, Zenon
<1> QED BY <1>22

-----------------------------------------------------------------------------
(* ---- fields in parts ---------------------------------------------------*)
(* Parts that are held one behind the other, each at the offset that the    *)
(* bits before it make.                                                     *)
LEMMA PartsHeld ==
  ASSUME NEW d \in Seq(Octet), NEW q \in Nat, NEW f \in Seq(Seq(Fields)),
         Holds(d, q, FieldBits(FlattenSeq(f))),
         NEW o \in [0..Len(f) -> Nat], o[0] = 0, \A k \in 1..Len(f) : o[k] = o[k - 1] + Len(FieldBits(f[k]))
  PROVE  /\ Len(FieldBits(FlattenSeq(f))) = o[Len(f)]
         /\ \A k \in 1..Len(f) : Holds(d, q + o[k - 1], FieldBits(f[k]))
<1> DEFINE n == Len(f)
<1>0. n \in Nat /\ \A k \in 1..n : f[k] \in Seq(Fields)
  OBVIOUS
<1>1. CASE n = 0
  <2>1. f = <<>>
    BY <1>1
  <2>2. FlattenSeq(f) = <<>>
    BY <2>1 DEF FlattenSeq
  <2>3. Len(<<>>) = 0
    OBVIOUS
  <2>4. Len(FieldBits(FlattenSeq(f))) = 0
    BY <2>2, <2>3, NoFieldBits, Zenon
  <2> QED BY <1>1, <2>4
<1>2. CASE n # 0
  <2>1. PICK g : Flattens(g, f, Fields)
    BY <1>2, FlattenDef
  <2>2. /\ g \in [1..n -> Seq(Fields)] /\ g[1] = f[1] /\ FlattenSeq(f) = g[n]
        /\ \A k \in 1..n - 1 : g[k + 1] = g[k] \o f[k + 1]
    BY <2>1 DEF Flattens
  <2> DEFINE P(k) == /\ Len(FieldBits(g[k])) = o[k]
                     /\ Holds(d, q, FieldBits(g[k])) =>
                          \A j \in 1..k : Holds(d, q + o[j - 1], FieldBits(f[j]))
             S == {k \in Nat : k + 1 <= n => P(k + 1)}
  <2>3. P(1)
    <3>1. 1 \in 1..n /\ 1 - 1 = 0 /\ q + 0 = q /\ o[1] = 0 + Len(FieldBits(f[1]))
      BY <1>0, <1>2
    <3>2. Len(FieldBits(f[1])) \in Nat
      BY <1>0, <3>1, FieldBitsTyped
    <3>3. o[1] = Len(FieldBits(f[1]))
      BY <3>1, <3>2
    <3>4. \A j \in 1..1 : j = 1
      OBVIOUS
    <3> QED BY <2>2, <3>1, <3>3, <3>4, Zenon
  <2>4. ASSUME NEW k \in Nat, k \in S, (k + 1) + 1 <= n PROVE P((k + 1) + 1)
    <3> DEFINE m == k + 1
               b == FieldBits(g[m])
               c == FieldBits(f[m + 1])
    <3>1. P(m) /\ m \in 1..n - 1 /\ m \in 1..n /\ m + 1 \in 1..n /\ (m + 1) - 1 = m
      <4>1. k + 1 <= n
        BY <1>0, <2>4
      <4> HIDE DEF P
      <4> QED BY <1>0, <2>4, <4>1
    <3>2. g[m] \in Seq(Fields) /\ f[m + 1] \in Seq(Fields) /\ g[m + 1] = g[m] \o f[m + 1]
      BY <1>0, <2>2, <3>1
    <3>3. o[m + 1] = o[m] + Len(c) /\ o[m] \in Nat
      <4>1. o[m + 1] = o[(m + 1) - 1] + Len(c)
        <5> HIDE DEF P, m
        <5> QED BY <3>1
      <4>2. m \in 0..n
        <5> HIDE DEF P
        <5> QED BY <1>0, <3>1
      <4> HIDE DEF P, m
      <4> QED BY <3>1, <4>1, <4>2
    <3> HIDE DEF m
    <3>4. FieldBits(g[m + 1]) = b \o c /\ b \in Seq(Bit) /\ c \in Seq(Bit)
      BY <3>2, FieldBitsJoined, FieldBitsTyped
    <3> HIDE DEF b, c
    <3>5. Len(FieldBits(g[m + 1])) = Len(b) + Len(c)
      BY <3>4, Joined
    <3>6. Len(b) = o[m]
      BY <3>1 DEF b
    <3>7. ASSUME Holds(d, q, FieldBits(g[m + 1])), NEW j \in 1..m + 1
          PROVE  Holds(d, q + o[j - 1], FieldBits(f[j]))
      <4>1. Holds(d, q, b \o c)
        BY <3>4, <3>7
      <4>2. Holds(d, q, b) /\ Holds(d, q + Len(b), c)
        BY <3>4, <4>1, HoldsParts
      <4>3. CASE j \in 1..m
        BY <3>1, <4>2, <4>3 DEF b
      <4>4. CASE j = m + 1
        <5>1. Holds(d, q + o[m], FieldBits(f[m + 1]))
          BY <3>6, <4>2 DEF c
        <5> QED BY <3>1, <4>4, <5>1, Zenon
      <4> QED BY <3>1, <4>3, <4>4
    <3>8. P(m + 1)
      BY <3>3, <3>5, <3>6, <3>7
    <3> HIDE DEF P
    <3> QED BY <3>8 DEF m
  <2>5. \A k \in Nat : k \in S
    <3> HIDE DEF P
    <3>1. 0 \in S
      <4>1. 0 + 1 = 1
        OBVIOUS
      <4> QED BY <2>3, <4>1
    <3>2. \A k \in Nat : k \in S => k + 1 \in S
      BY <2>4
    <3> HIDE DEF S
    <3> QED BY <3>1, <3>2, Induction
  <2>6. P(n)
    <3> HIDE DEF P
    <3>1. n - 1 \in Nat /\ (n - 1) + 1 = n
      BY <1>0, <1>2
    <3>2. n - 1 \in S
      BY <2>5, <3>1
    <3>3. (n - 1) + 1 <= n => P((n - 1) + 1)
      BY <3>2
    <3> QED BY <1>0, <3>1, <3>3
  <2>7. Holds(d, q, FieldBits(g[n]))
    BY <2>2
  <2> QED BY <2>2, <2>6, <2>7
<1> QED BY <1>1, <1>2

(* ---- the result of a service category program --------------------------*)
Result == [service : Nat, language : Nat, status : Nat]
ResultFits(r) == r.service < 65536 /\ r.language < 256 /\ r.status < 16
ScptResultFits(v) == Len(v) \in 1..MAX_SERVICES /\ \A k \in 1..Len(v) : ResultFits(v[k])

ResultFields(r) == FourOf(r.service, 16, r.language, 8, r.status, 4, 0, 4)
ReadResult(d, q) == [service |-> Unpack(d, q, 16), language |-> Unpack(d, q + 16, 8),
                     status |-> Unpack(d, q + 24, 4)]

LEMMA ResultKept ==
  ASSUME NEW r \in Result, ResultFits(r), NEW d \in Seq(Octet), NEW q \in Nat,
         Holds(d, q, FieldBits(ResultFields(r)))
  PROVE  Len(FieldBits(ResultFields(r))) = 32 /\ ReadResult(d, q) = r
<1> DEFINE a == r.service
           b == r.language
           c == r.status
<1>1. a \in Nat /\ b \in Nat /\ c \in Nat /\ r = [service |-> a, language |-> b, status |-> c]
  BY DEF Result
<1>2. a < 2^16 /\ b < 2^8 /\ c < 2^4
  BY Limits DEF ResultFits
<1>3. Holds(d, q, FieldBits(FourOf(a, 16, b, 8, c, 4, 0, 4)))
  BY DEF ResultFields
<1> HIDE DEF a, b, c
<1>4. FourTyped(a, 16, b, 8, c, 4, 0, 4)
  BY <1>1 DEF FourTyped
<1>5. FourShown(d, q, a, 16, b, 8, c, 4, 0, 4)
  BY <1>3, <1>4, FourHeld, Zenon
<1>6. /\ Len(FieldBits(FourOf(a, 16, b, 8, c, 4, 0, 4))) = 32
      /\ Shows(d, q, a, 16) /\ Shows(d, q + 16, b, 8) /\ Shows(d, q + 24, c, 4)
  BY <1>5 DEF FourShown
<1>7. Unpack(d, q, 16) = a /\ Unpack(d, q + 16, 8) = b /\ Unpack(d, q + 24, 4) = c
  BY <1>1, <1>2, <1>6, Zenon DEF Shows
<1> QED BY <1>1, <1>6, <1>7 DEF ReadResult, ResultFields, a, b, c

LEMMA ResultLength == \A r \in Result : Len(FieldBits(ResultFields(r))) = 32
<1> SUFFICES ASSUME NEW r \in Result PROVE Len(FieldBits(ResultFields(r))) = 32
  OBVIOUS
<1> DEFINE a == r.service
           b == r.language
           c == r.status
<1>1. FourTyped(a, 16, b, 8, c, 4, 0, 4)
  BY DEF FourTyped, Result
<1> HIDE DEF a, b, c
<1>2. FourWide(a, 16, b, 8, c, 4, 0, 4)
  BY <1>1, FourLength, Zenon
<1>3. ResultFields(r) = FourOf(a, 16, b, 8, c, 4, 0, 4)
  BY DEF ResultFields, a, b, c
<1> QED BY <1>2, <1>3 DEF FourWide

LEMMA ScptResultKept ==
  ASSUME NEW v \in Value.scpt_result, ScptResultFits(v), NEW d \in Seq(Octet), NEW k \in Nat, NEW n \in Nat,
         Holds(d, 8 * k, FieldBits(Write("scpt_result", v))),
         n = (Len(FieldBits(Write("scpt_result", v))) + 7) \div 8
  PROVE  ReadScptResult(d, k, n) = v
<1> DEFINE N == Len(v)
           q == 8 * k
           f == [j \in DOMAIN v |-> ResultFields(v[j])]
           o == [j \in 0..N |-> 32 * j]
<1>1. v \in Seq(Result) /\ N \in 1..5 /\ N \in Nat /\ DOMAIN v = 1..N /\ \A j \in 1..N : v[j] \in Result /\ ResultFits(v[j])
  <2>1. v \in Seq(Result)
    BY DEF Value, Result
  <2>2. N \in 1..5 /\ \A j \in 1..N : ResultFits(v[j])
    BY DEF ScptResultFits, MAX_SERVICES
  <2> HIDE DEF Result
  <2> QED BY <2>1, <2>2
<1>2. Write("scpt_result", v) = FlattenSeq(f)
  BY DEF Write, WriteScptResult, ResultFields, FourOf, RelativeTimes, AbsoluteTimes
<1>3. \A j \in 1..N : ResultFields(v[j]) \in Seq(Fields)
  <2>1. \A r \in Result : ResultFields(r) \in Seq(Fields)
    BY DEF Result, ResultFields, FourOf, Fields
  <2> QED BY <1>1, <2>1
<1>4. f \in Seq(Seq(Fields)) /\ Len(f) = N /\ \A j \in 1..N : f[j] = ResultFields(v[j])
  BY <1>1, <1>3
<1>5. o \in [0..N -> Nat] /\ o[0] = 0 /\ \A j \in 1..N : o[j - 1] = 32 * j - 32 /\ o[j] = 32 * j
  BY <1>1
<1>6. q \in Nat
  OBVIOUS
<1> HIDE DEF f, o, N, q
<1>7. \A j \in 1..N : Len(FieldBits(f[j])) = 32
  <2> SUFFICES ASSUME NEW j \in 1..N PROVE Len(FieldBits(ResultFields(v[j]))) = 32
    BY <1>4
  <2> QED BY <1>1, ResultLength
<1>8. /\ Len(FieldBits(FlattenSeq(f))) = 32 * N
      /\ \A j \in 1..N : Holds(d, q + (32 * j - 32), FieldBits(f[j]))
  <2>1. \A j \in 1..Len(f) : o[j] = o[j - 1] + Len(FieldBits(f[j]))
    <3> SUFFICES ASSUME NEW j \in 1..N PROVE o[j] = o[j - 1] + Len(FieldBits(f[j]))
      BY <1>4
    <3>1. Len(FieldBits(f[j])) = 32 /\ o[j - 1] = 32 * j - 32 /\ o[j] = 32 * j
      BY <1>5, <1>7
    <3> QED BY <1>1, <3>1
  <2>2. Holds(d, q, FieldBits(FlattenSeq(f)))
    BY <1>2 DEF q
  <2>3. o \in [0..Len(f) -> Nat]
    BY <1>4, <1>5
  <2>4. /\ Len(FieldBits(FlattenSeq(f))) = o[Len(f)]
        /\ \A j \in 1..Len(f) : Holds(d, q + o[j - 1], FieldBits(f[j]))
    BY <1>4, <1>5, <1>6, <2>1, <2>2, <2>3, PartsHeld
  <2> QED BY <1>1, <1>4, <1>5, <2>4
<1>9. n = 4 * N
  BY <1>1, <1>2, <1>8
<1>10. (IF n <= 4 THEN 1 ELSE IF n > 4 * MAX_SERVICES THEN MAX_SERVICES ELSE (n + 3) \div 4) = N
  BY <1>1, <1>9 DEF MAX_SERVICES
<1>11. \A j \in 1..N : ReadResult(d, q + (32 * j - 32)) = v[j]
  <2> SUFFICES ASSUME NEW j \in 1..N PROVE ReadResult(d, q + (32 * j - 32)) = v[j]
    OBVIOUS
  <2>1. q + (32 * j - 32) \in Nat
    BY <1>1, <1>6
  <2>2. Holds(d, q + (32 * j - 32), FieldBits(ResultFields(v[j])))
    BY <1>4, <1>8
  <2> QED BY <1>1, <2>1, <2>2, ResultKept, Zenon
<1>12. \A j \in 1..N :
         [service |-> Field(d, k, 32 * j - 32, 16), language |-> Field(d, k, 32 * j - 16, 8),
          status |-> Field(d, k, 32 * j - 8, 4)] = v[j]
  <2> SUFFICES ASSUME NEW j \in 1..N
               PROVE  [service |-> Field(d, k, 32 * j - 32, 16), language |-> Field(d, k, 32 * j - 16, 8),
                       status |-> Field(d, k, 32 * j - 8, 4)] = v[j]
    OBVIOUS
  <2> DEFINE a == q + (32 * j - 32)
  <2>1. /\ Field(d, k, 32 * j - 32, 16) = Unpack(d, a, 16)
        /\ Field(d, k, 32 * j - 16, 8) = Unpack(d, q + (32 * j - 16), 8)
        /\ Field(d, k, 32 * j - 8, 4) = Unpack(d, q + (32 * j - 8), 4)
    BY FieldIsThere, Zenon DEF q
  <2>2. q + (32 * j - 16) = a + 16 /\ q + (32 * j - 8) = a + 24
    BY <1>1, <1>6
  <2>3. ReadResult(d, a) = v[j]
    BY <1>11
  <2>4. ReadResult(d, a) = [service |-> Unpack(d, a, 16), language |-> Unpack(d, a + 16, 8),
                            status |-> Unpack(d, a + 24, 4)]
    BY DEF ReadResult
  <2> HIDE DEF a
  <2> QED BY <2>1, <2>2, <2>3, <2>4, Zenon
<1>13. ReadScptResult(d, k, n) = [j \in 1..N |-> v[j]]
  <2> DEFINE e(j) == [service |-> Field(d, k, 32 * j - 32, 16), language |-> Field(d, k, 32 * j - 16, 8),
                      status |-> Field(d, k, 32 * j - 8, 4)]
             c == IF n <= 4 THEN 1 ELSE IF n > 4 * MAX_SERVICES THEN MAX_SERVICES ELSE (n + 3) \div 4
  <2>1. ReadScptResult(d, k, n) = [j \in 1..c |-> e(j)]
    BY DEF ReadScptResult
  <2>2. c = N /\ \A j \in 1..N : e(j) = v[j]
    BY <1>10, <1>12
  <2> HIDE DEF e, c
  <2> QED BY <2>1, <2>2
<1>14. v = [j \in 1..N |-> v[j]]
  BY <1>1
<1> QED BY <1>13, <1>14

-----------------------------------------------------------------------------
(* ---- a service category program ----------------------------------------*)
(* There are octets that hold given bits.                                   *)
LEMMA SomeHold ==
  ASSUME NEW s \in Seq(Fields)
  PROVE  \E d \in Seq(Octet), q \in Nat : Holds(d, q, FieldBits(s))
<1> DEFINE b == FieldBits(s)
           d == OctetsOf(b)
<1>1. b \in Seq(Bit)
  BY FieldBitsTyped
<1>2. d \in Seq(Octet)
  <2> HIDE DEF b
  <2> QED BY <1>1, OctetsTyped DEF Bit
<1> HIDE DEF d
<1>3. Behold(d, 0, d)
  <2>1. \A i \in 1..Len(d) : 0 + i = i
    BY <1>2
  <2>2. 0 + Len(d) <= Len(d)
    BY <1>2
  <2> QED BY <2>1, <2>2 DEF Behold
<1>4. Holds(d, 8 * 0, b)
  <2>1. Behold(d, 0, OctetsOf(b)) /\ 0 \in Nat
    BY <1>3 DEF d
  <2> HIDE DEF b
  <2> QED BY <1>1, <1>2, <2>1, PackedAreHeld
<1>5. 8 * 0 \in Nat
  OBVIOUS
<1> QED BY <1>2, <1>4, <1>5

(* The head of an entry, six fields of 48 bits together.                    *)
EntryHead(a, b, c, m, e, l) == <<<<a, 4>>, <<b, 16>>, <<c, 8>>, <<m, 8>>, <<e, 4>>, <<l, 8>>>>
HeadShown(d, q, a, b, c, m, e, l) ==
  /\ Shows(d, q, a, 4) /\ Shows(d, q + 4, b, 16) /\ Shows(d, q + 20, c, 8)
  /\ Shows(d, q + 28, m, 8) /\ Shows(d, q + 36, e, 4) /\ Shows(d, q + 40, l, 8)

LEMMA EntryHeadHeld ==
  ASSUME NEW d \in Seq(Octet), NEW q \in Nat, NEW a \in Int, NEW b \in Int, NEW c \in Int, NEW m \in Int,
         NEW e \in Int, NEW l \in Int, Holds(d, q, FieldBits(EntryHead(a, b, c, m, e, l)))
  PROVE  Len(FieldBits(EntryHead(a, b, c, m, e, l))) = 48 /\ HeadShown(d, q, a, b, c, m, e, l)
<1> DEFINE s == EntryHead(a, b, c, m, e, l)
           o == [n \in 0..6 |-> IF n = 0 THEN 0 ELSE IF n = 1 THEN 4 ELSE IF n = 2 THEN 20
                                ELSE IF n = 3 THEN 28 ELSE IF n = 4 THEN 36
                                ELSE IF n = 5 THEN 40 ELSE 48]
<1>1. s \in Seq(Fields) /\ Len(s) = 6
  <2>1. /\ <<a, 4>> \in Fields /\ <<b, 16>> \in Fields /\ <<c, 8>> \in Fields /\ <<m, 8>> \in Fields
        /\ <<e, 4>> \in Fields /\ <<l, 8>> \in Fields
    BY DEF Fields
  <2> HIDE DEF Fields
  <2> QED BY <2>1 DEF EntryHead
<1>2. /\ s[1][1] = a /\ s[1][2] = 4 /\ s[2][1] = b /\ s[2][2] = 16
      /\ s[3][1] = c /\ s[3][2] = 8 /\ s[4][1] = m /\ s[4][2] = 8
      /\ s[5][1] = e /\ s[5][2] = 4 /\ s[6][1] = l /\ s[6][2] = 8
  BY DEF EntryHead
<1>3. /\ o \in [0..6 -> Nat] /\ o[0] = 0 /\ o[1] = 4 /\ o[2] = 20 /\ o[3] = 28 /\ o[4] = 36
      /\ o[5] = 40 /\ o[6] = 48
  OBVIOUS
<1>h. Holds(d, q, FieldBits(s))
  OBVIOUS
<1> HIDE DEF s, o
<1>4. \A n \in 1..6 : o[n] = o[n - 1] + s[n][2]
  <2> SUFFICES ASSUME NEW n \in 1..6 PROVE o[n] = o[n - 1] + s[n][2]
    OBVIOUS
  <2>1. CASE n = 1
    <3>1. n - 1 = 0 /\ o[n] = 4 /\ s[n][2] = 4
      BY <1>2, <1>3, <2>1
    <3> QED BY <1>3, <3>1
  <2>2. CASE n = 2
    <3>1. n - 1 = 1 /\ o[n] = 20 /\ s[n][2] = 16
      BY <1>2, <1>3, <2>2
    <3> QED BY <1>3, <3>1
  <2>3. CASE n = 3
    <3>1. n - 1 = 2 /\ o[n] = 28 /\ s[n][2] = 8
      BY <1>2, <1>3, <2>3
    <3> QED BY <1>3, <3>1
  <2>4. CASE n = 4
    <3>1. n - 1 = 3 /\ o[n] = 36 /\ s[n][2] = 8
      BY <1>2, <1>3, <2>4
    <3> QED BY <1>3, <3>1
  <2>5. CASE n = 5
    <3>1. n - 1 = 4 /\ o[n] = 40 /\ s[n][2] = 4
      BY <1>2, <1>3, <2>5
    <3> QED BY <1>3, <3>1
  <2>6. CASE n = 6
    <3>1. n - 1 = 5 /\ o[n] = 48 /\ s[n][2] = 8
      BY <1>2, <1>3, <2>6
    <3> QED BY <1>3, <3>1
  <2> QED BY <2>1, <2>2, <2>3, <2>4, <2>5, <2>6
<1>5. Len(FieldBits(s)) = o[6] /\ \A n \in 1..6 : Shows(d, q + o[n - 1], s[n][1], s[n][2])
  <2>1. /\ o \in [0..Len(s) -> Nat] /\ o[0] = 0 /\ \A n \in 1..Len(s) : o[n] = o[n - 1] + s[n][2]
    BY <1>1, <1>3, <1>4
  <2>2. Len(FieldBits(s)) = o[Len(s)] /\ \A n \in 1..Len(s) : Shows(d, q + o[n - 1], s[n][1], s[n][2])
    BY <1>1, <1>h, <2>1, ListHeld, Zenon
  <2> QED BY <1>1, <2>2, Zenon
<1>6. /\ 1 \in 1..6 /\ 2 \in 1..6 /\ 3 \in 1..6 /\ 4 \in 1..6 /\ 5 \in 1..6 /\ 6 \in 1..6
      /\ 1 - 1 = 0 /\ 2 - 1 = 1 /\ 3 - 1 = 2 /\ 4 - 1 = 3 /\ 5 - 1 = 4 /\ 6 - 1 = 5 /\ q + 0 = q
  OBVIOUS
<1>7. /\ Shows(d, q + o[0], a, 4) /\ Shows(d, q + o[1], b, 16) /\ Shows(d, q + o[2], c, 8)
      /\ Shows(d, q + o[3], m, 8) /\ Shows(d, q + o[4], e, 4) /\ Shows(d, q + o[5], l, 8)
  BY <1>2, <1>5, <1>6, Zenon
<1> QED BY <1>3, <1>5, <1>6, <1>7, Zenon DEF s, HeadShown

(* An entry fits its fields and its table, and so does a character the size *)
(* of the encoding; characters of 16 bits are whole.                        *)
EntryFits(e, size) ==
  /\ e.op_code < 16 /\ e.language < 256 /\ e.alert < 16 /\ Len(e.label) <= LABEL_SIZE
  /\ size = 7 => \A k \in 1..Len(e.label) : e.label[k] < 128
  /\ size = 16 => Len(e.label) % 2 = 0
Characters(e, size) == IF size = 16 THEN Len(e.label) \div 2 ELSE Len(e.label)

(* What is read of an entry: its members, and what was written for service. *)
EntryRead(e, service) == [op_code |-> e.op_code, service |-> service, language |-> e.language,
                          max_messages |-> e.max_messages, alert |-> e.alert, label |-> e.label]

LEMMA EntryKept ==
  ASSUME NEW e \in Entry, NEW size \in {7, 8, 16}, NEW bit \in 0..7, EntryFits(e, size),
         NEW d \in Seq(Octet), NEW q \in Nat, Holds(d, q, FieldBits(WriteEntry(e, size, bit)))
  PROVE  /\ Len(FieldBits(WriteEntry(e, size, bit))) = 48 + size * Characters(e, size)
         /\ EntryBits(d, q, size) = 48 + size * Characters(e, size)
         /\ ReadEntry(d, q, size) = EntryRead(e, ServiceSent(e, bit))
<1> DEFINE a == e.op_code
           b == ServiceSent(e, bit)
           c == e.language
           m == e.max_messages
           t == e.alert
           x == e.label
           n == Len(x)
           l == Characters(e, size)
           w == IF size = 16 THEN 8 ELSE size
           s == EntryHead(a, b, c, m, t, l)
           z == DigitsMore(s, x, w)
<1>1. /\ a \in Nat /\ b \in Nat /\ c \in Nat /\ m \in Nat /\ t \in Nat /\ x \in Seq(Octet)
      /\ b < 65536 /\ m < 256
  <2>1. a \in Nat /\ c \in Nat /\ m \in Octet /\ t \in Nat /\ x \in Seq(Octet)
    BY DEF Entry
  <2>2. b \in Nat /\ b < 65536
    BY ServiceIsSent
  <2> HIDE DEF a, b, c, m, t, x
  <2>3. \A i \in Octet : i \in Nat /\ i < 256
    BY DEF Octet
  <2> QED BY <2>1, <2>2, <2>3
<1>2. EntryRead(e, ServiceSent(e, bit))
        = [op_code |-> a, service |-> b, language |-> c, max_messages |-> m, alert |-> t, label |-> x]
  BY DEF EntryRead
<1>n. n \in Nat
  <2> HIDE DEF x
  <2> QED BY <1>1
<1>3. /\ a < 16 /\ c < 256 /\ t < 16 /\ n <= 30
      /\ (size = 7 => \A k \in 1..n : x[k] < 128) /\ (size = 16 => n % 2 = 0)
  BY Zenon DEF EntryFits, LABEL_SIZE
<1>4. l = IF size = 16 THEN n \div 2 ELSE n
  BY Zenon DEF Characters
<1>5. WriteEntry(e, size, bit) = z
  <2>1. WriteService(e, bit) = <<b, 16>>
    BY ServiceIsSent
  <2> QED BY <2>1, Zenon DEF WriteEntry, EntryHead, DigitsMore, Characters, TL!DigitFields
<1>6. Holds(d, q, FieldBits(z))
  BY <1>5
<1>7. ReadEntry(d, q, size) =
        [op_code |-> Unpack(d, q, 4), service |-> Unpack(d, q + 4, 16),
         language |-> Unpack(d, q + 20, 8), max_messages |-> Unpack(d, q + 28, 8),
         alert |-> Unpack(d, q + 36, 4),
         label |-> TL!ReadDigits(d, q + 48, w,
                     IF Unpack(d, q + 40, 8) * (IF size = 16 THEN 2 ELSE 1) > 30 THEN 30
                     ELSE Unpack(d, q + 40, 8) * (IF size = 16 THEN 2 ELSE 1))]
  BY SameReadDigits, Zenon DEF ReadEntry, LABEL_SIZE
<1>8. w = (IF size = 16 THEN 8 ELSE size) /\ w \in 1..16
  OBVIOUS
<1> HIDE DEF a, b, c, m, t, x, n, l, w
<1>9. l \in Nat /\ l <= 30 /\ l * (IF size = 16 THEN 2 ELSE 1) = n /\ w * n = size * l
  <2>1. CASE size = 16
    BY <1>n, <1>3, <1>4, <1>8, <2>1
  <2>2. CASE size = 7
    BY <1>n, <1>3, <1>4, <1>8, <2>2
  <2>3. CASE size = 8
    BY <1>n, <1>3, <1>4, <1>8, <2>3
  <2> QED BY <2>1, <2>2, <2>3
<1>i. a \in Int /\ b \in Int /\ c \in Int /\ m \in Int /\ t \in Int /\ l \in Int
  BY <1>1, <1>9
<1>s. s \in Seq(Fields)
  <2>1. /\ <<a, 4>> \in Fields /\ <<b, 16>> \in Fields /\ <<c, 8>> \in Fields /\ <<m, 8>> \in Fields
        /\ <<t, 4>> \in Fields /\ <<l, 8>> \in Fields
    BY <1>i DEF Fields
  <2> HIDE DEF Fields
  <2> QED BY <2>1 DEF EntryHead
<1> HIDE DEF s
<1>10. /\ Holds(d, q, FieldBits(s)) /\ Len(FieldBits(z)) = Len(FieldBits(s)) + w * Len(x)
       /\ ShowsDigits(d, q + Len(FieldBits(s)), x, w)
  <2>1. Holds(d, q, FieldBits(DigitsMore(s, x, w)))
    BY <1>6
  <2> DEFINE Kept(i) == /\ Holds(d, q, FieldBits(s))
                        /\ Len(FieldBits(DigitsMore(s, x, i))) = Len(FieldBits(s)) + i * Len(x)
                        /\ ShowsDigits(d, q + Len(FieldBits(s)), x, i)
  <2>2. Kept(w)
    BY <1>1, <1>8, <1>s, <2>1, DigitsMoreHeld
  <2> QED BY <2>2
<1> HIDE DEF z
<1>11. Len(FieldBits(s)) = 48 /\ HeadShown(d, q, a, b, c, m, t, l)
  BY <1>i, <1>10, EntryHeadHeld DEF s
<1>12. /\ Unpack(d, q, 4) = a /\ Unpack(d, q + 4, 16) = b /\ Unpack(d, q + 20, 8) = c
       /\ Unpack(d, q + 28, 8) = m /\ Unpack(d, q + 36, 4) = t /\ Unpack(d, q + 40, 8) = l
  <2>1. a < 2^4 /\ b < 2^16 /\ c < 2^8 /\ m < 2^8 /\ t < 2^4 /\ l < 2^8
    BY <1>1, <1>3, <1>9, Limits
  <2>2. a \in Nat /\ b \in Nat /\ c \in Nat /\ m \in Nat /\ t \in Nat /\ l \in Nat
    BY <1>1, <1>9
  <2> QED BY <1>11, <2>1, <2>2, Zenon DEF HeadShown, Shows
<1>13. TL!ReadDigits(d, q + 48, w, n) = x
  <2>1. ASSUME NEW j \in 1..Len(x) PROVE x[j] < 2^w
    <3>1. x[j] \in Octet
      BY <1>1
    <3>2. \A i \in Octet : i < 2^8
      BY Limits DEF Octet
    <3>3. CASE size = 7
      <4>1. x[j] < 128 /\ w = 7
        BY <1>3, <1>8, <3>3 DEF n
      <4> QED BY <4>1, MoreLimits
    <3>4. CASE size # 7
      <4>1. w = 8
        BY <1>8, <3>4
      <4> QED BY <3>1, <3>2, <4>1
    <3> QED BY <3>3, <3>4
  <2> QED BY <1>10, <1>11, <2>1, Zenon DEF n, ShowsDigits
<1>14. EntryBits(d, q, size) = 48 + size * l
  BY <1>12 DEF EntryBits
<1>15. Len(FieldBits(z)) = 48 + size * l
  BY <1>9, <1>10, <1>11 DEF n
<1>16. (IF l * (IF size = 16 THEN 2 ELSE 1) > 30 THEN 30 ELSE l * (IF size = 16 THEN 2 ELSE 1)) = n
  BY <1>n, <1>3, <1>9
<1>17. ReadEntry(d, q, size) = EntryRead(e, ServiceSent(e, bit))
  BY <1>2, <1>7, <1>12, <1>13, <1>16, Zenon
<1> QED BY <1>5, <1>14, <1>15, <1>17, Zenon DEF l

LEMMA EntryLength ==
  ASSUME NEW e \in Entry, NEW size \in {7, 8, 16}, NEW bit \in 0..7, EntryFits(e, size)
  PROVE  Len(FieldBits(WriteEntry(e, size, bit))) = 48 + size * Characters(e, size)
<1>1. PICK d \in Seq(Octet), q \in Nat : Holds(d, q, FieldBits(WriteEntry(e, size, bit)))
  BY EntryFields, SomeHold
<1> QED BY <1>1, EntryKept

-----------------------------------------------------------------------------
(* ---- the entries, read one by one -------------------------------------*)
(* An octet that is read, wherever it begins, is a number.                  *)
LEMMA UnpackIsNat == \A d \in Seq(Octet), q \in Nat : Unpack(d, q, 8) \in Nat
<1> SUFFICES ASSUME NEW d \in Seq(Octet), NEW q \in Nat PROVE Unpack(d, q, 8) \in Nat
  OBVIOUS
<1> DEFINE j == q \div 8
           r == 24 - (q % 8) - 8
           x == 65536 * OctetAt(d, j) + 256 * OctetAt(d, j + 1) + OctetAt(d, j + 2)
<1>1. j \in Nat /\ j + 1 \in Nat /\ j + 2 \in Nat /\ r \in 0..16
  OBVIOUS
<1>2. Unpack(d, q, 8) = (x \div 2^r) % 2^8
  BY DEF Unpack
<1>3. OctetAt(d, j) \in Nat /\ OctetAt(d, j + 1) \in Nat /\ OctetAt(d, j + 2) \in Nat
  <2> HIDE DEF j
  <2> QED BY <1>1, OctetAtIsOctet
<1>4. x \in Nat
  <2> DEFINE a == OctetAt(d, j)
             b == OctetAt(d, j + 1)
             c == OctetAt(d, j + 2)
  <2> HIDE DEF a, b, c
  <2> QED BY <1>3 DEF a, b, c
<1>5. 2^r \in Nat \ {0}
  <2> HIDE DEF r
  <2> QED BY <1>1, PowersOfTwo, Zenon
<1> DEFINE m == 2^r
<1>6. m \in Nat /\ m # 0
  <2> HIDE DEF r
  <2> QED BY <1>5
<1> HIDE DEF x, m
<1>7. (x \div m) % 256 \in Nat
  <2>1. x \div m \in Int
    BY <1>4, <1>6
  <2> QED BY <2>1
<1> QED BY <1>2, <1>7, Limits DEF m

(* What a service category program's encoding is written as stands for it.  *)
LEMMA EncodingBack ==
  ASSUME NEW e \in {Encodings[k] : k \in 1..10}
  PROVE  EncodingCode(e) \in 0..9 /\ EncodingOf(EncodingCode(e)) = e
<1>1. PICK k \in 1..10 : e = Encodings[k]
  OBVIOUS
<1>2. k - 1 \in 0..9 /\ (k - 1) + 1 = k
  OBVIOUS
<1>3. \E j \in 0..9 : Encodings[j + 1] = e
  BY <1>1, <1>2, Zenon
<1>4. EncodingCode(e) \in 0..9 /\ Encodings[EncodingCode(e) + 1] = e
  BY <1>3, Zenon DEF EncodingCode
<1>5. EncodingCode(e) <= 9
  BY <1>4
<1> QED BY <1>4, <1>5 DEF EncodingOf

(* Where the entries begin: the table of starts that the reader makes.      *)
Starts(d, k, size) ==
  LET start[i \in 1..MAX_SERVICES + 1] ==
        IF i = 1 THEN 8 * k + 5 ELSE start[i - 1] + EntryBits(d, start[i - 1], size)
  IN start

LEMMA StartsAreThere ==
  ASSUME NEW d \in Seq(Octet), NEW k \in Nat, NEW size \in {7, 8, 16}
  PROVE  /\ Starts(d, k, size)[1] = 8 * k + 5
         /\ \A i \in 1..5 : Starts(d, k, size)[i + 1] = Starts(d, k, size)[i]
                                                          + EntryBits(d, Starts(d, k, size)[i], size)
<1> DEFINE a == 8 * k + 5
           G == [p \in Nat \X (1..5) |-> p[1] + EntryBits(d, p[1], size)]
<1>1. ASSUME NEW x \in Nat PROVE EntryBits(d, x, size) \in Nat /\ x + EntryBits(d, x, size) \in Nat
  <2> DEFINE u == Unpack(d, x + 40, 8)
  <2>1. u \in Nat
    BY UnpackIsNat
  <2> HIDE DEF u
  <2>2. 48 + size * u \in Nat
    <3>1. CASE size = 7
      BY <2>1, <3>1
    <3>2. CASE size = 8
      BY <2>1, <3>2
    <3>3. CASE size = 16
      BY <2>1, <3>3
    <3> QED BY <3>1, <3>2, <3>3
  <2> QED BY <2>2 DEF EntryBits, u
<1>2. a \in Nat
  OBVIOUS
<1>3. G \in [Nat \X (1..5) -> Nat] /\ \A x \in Nat, i \in 1..5 : G[<<x, i>>] = x + EntryBits(d, x, size)
  BY <1>1
<1> HIDE DEF G, a
<1>4. PICK f : Recursion(f, a, G, Nat, 5)
  BY <1>2, <1>3, RecursionExists
<1>5. /\ f \in [0..5 -> Nat] /\ f[0] = a
      /\ \A i \in 1..5 : f[i] = f[i - 1] + EntryBits(d, f[i - 1], size)
  <2>1. \A i \in 1..5 : i - 1 \in 0..5
    OBVIOUS
  <2> QED BY <1>3, <1>4, <2>1 DEF Recursion
<1> DEFINE Makes6(s) == s = [i \in 1..6 |-> IF i = 1 THEN 8 * k + 5 ELSE s[i - 1] + EntryBits(d, s[i - 1], size)]
           t == [i \in 1..6 |-> f[i - 1]]
           s == CHOOSE s : Makes6(s)
<1>6. Starts(d, k, size) = s
  <2>1. MAX_SERVICES + 1 = 6
    BY DEF MAX_SERVICES
  <2> QED BY <2>1 DEF Starts
<1>7. Makes6(t)
  <2>1. \A i \in 1..6 : t[i] = IF i = 1 THEN 8 * k + 5 ELSE t[i - 1] + EntryBits(d, t[i - 1], size)
    <3> SUFFICES ASSUME NEW i \in 1..6
                 PROVE  t[i] = IF i = 1 THEN 8 * k + 5 ELSE t[i - 1] + EntryBits(d, t[i - 1], size)
      OBVIOUS
    <3>1. CASE i = 1
      <4>1. i \in 1..6 /\ i - 1 = 0
        BY <3>1
      <4> QED BY <1>5, <3>1, <4>1 DEF a
    <3>2. CASE i # 1
      <4>1. i \in 1..6 /\ i - 1 \in 1..6 /\ i - 1 \in 1..5
        BY <3>2
      <4>2. t[i] = f[i - 1] /\ t[i - 1] = f[(i - 1) - 1]
        BY <4>1
      <4>3. f[i - 1] = f[(i - 1) - 1] + EntryBits(d, f[(i - 1) - 1], size)
        BY <1>5, <4>1, Zenon
      <4> HIDE DEF t
      <4> QED BY <3>2, <4>2, <4>3, Zenon
    <3> QED BY <3>1, <3>2
  <2>2. t = [i \in 1..6 |-> t[i]]
    OBVIOUS
  <2> HIDE DEF t
  <2> QED BY <2>1, <2>2
<1>8. Makes6(s)
  <2> HIDE DEF Makes6, t
  <2> QED BY <1>7
<1> HIDE DEF s
<1>9. s[1] = 8 * k + 5 /\ \A i \in 1..5 : s[i + 1] = s[i] + EntryBits(d, s[i], size)
  <2>1. \A i \in 1..6 : s[i] = IF i = 1 THEN 8 * k + 5 ELSE s[i - 1] + EntryBits(d, s[i - 1], size)
    BY <1>8, Zenon
  <2>2. 1 \in 1..6 /\ \A i \in 1..5 : i + 1 \in 1..6 /\ i + 1 # 1 /\ (i + 1) - 1 = i
    OBVIOUS
  <2> QED BY <2>1, <2>2, Zenon
<1> QED BY <1>6, <1>9

(* Widths one behind the other make offsets.                                *)
Offsets(o, u, n) == /\ o \in [0..n -> Nat] /\ o[0] = 0
                    /\ \A j \in 1..n : o[j] = o[j - 1] + u[j]
LEMMA OffsetsOf ==
  ASSUME NEW n \in Nat, NEW u \in [1..n -> Nat]
  PROVE  \E o : Offsets(o, u, n)
<1> DEFINE G == [p \in Nat \X (1..n) |-> p[1] + u[p[2]]]
<1>1. G \in [Nat \X (1..n) -> Nat] /\ \A x \in Nat, i \in 1..n : G[<<x, i>>] = x + u[i]
  OBVIOUS
<1> HIDE DEF G
<1>2. PICK o : Recursion(o, 0, G, Nat, n)
  BY <1>1, RecursionExists
<1>3. o \in [0..n -> Nat] /\ o[0] = 0 /\ \A i \in 1..n : o[i] = o[i - 1] + u[i]
  <2>1. \A i \in 1..n : i - 1 \in 0..n
    OBVIOUS
  <2> QED BY <1>1, <1>2, <2>1 DEF Recursion
<1> QED BY <1>3 DEF Offsets

(* Every entry is 48 bits at least, so that only behind the last one fewer  *)
(* than eight are left.                                                     *)
LEMMA OffsetsGrow ==
  ASSUME NEW n \in Nat, NEW u \in [1..n -> Nat], \A i \in 1..n : u[i] >= 48, NEW o, Offsets(o, u, n)
  PROVE  \A i \in 0..n : i < n => o[i] + 48 <= o[n]
<1> DEFINE P(i) == \A j \in 0..i : j < i => o[j] + 48 <= o[i]
           S == {i \in Nat : i <= n => P(i)}
<1>0. o \in [0..n -> Nat] /\ \A j \in 1..n : o[j] = o[j - 1] + u[j]
  BY DEF Offsets
<1>1. 0 \in S
  OBVIOUS
<1>2. ASSUME NEW i \in Nat, i \in S, i + 1 <= n PROVE P(i + 1)
  <2>1. P(i) /\ i + 1 \in 1..n /\ (i + 1) - 1 = i /\ i \in 0..n
    <3> HIDE DEF P
    <3> QED BY <1>2
  <2>2. o[i + 1] = o[i] + u[i + 1] /\ u[i + 1] >= 48 /\ o[i] \in Nat /\ u[i + 1] \in Nat
    BY <1>0, <2>1
  <2> SUFFICES ASSUME NEW j \in 0..i + 1, j < i + 1 PROVE o[j] + 48 <= o[i + 1]
    OBVIOUS
  <2>3. j \in 0..i /\ j \in 0..n /\ (j = i \/ j < i)
    BY <2>1
  <2>4. o[j] \in Nat
    BY <1>0, <2>3
  <2>5. j < i => o[j] + 48 <= o[i]
    BY <2>1, <2>3
  <2> QED BY <2>2, <2>3, <2>4, <2>5
<1>3. \A i \in Nat : i \in S
  <2> HIDE DEF P
  <2>1. \A i \in Nat : i \in S => i + 1 \in S
    BY <1>2
  <2> HIDE DEF S
  <2> QED BY <1>1, <2>1, Induction
<1>4. P(n)
  <2> HIDE DEF P
  <2>1. n \in S
    BY <1>3
  <2> QED BY <2>1
<1> QED BY <1>4

ScptDataFits(v) == /\ Len(v.entries) \in 1..MAX_SERVICES
                   /\ \A j \in 1..Len(v.entries) : EntryFits(v.entries[j], DigitSize(v.encoding))

(* What is read of a service category program, the table by its name.       *)
EntryCount(d, st, k, n) ==
  CHOOSE i \in 1..MAX_SERVICES :
    /\ st[i + 1] + 7 >= 8 * (k + n) \/ i = MAX_SERVICES
    /\ \A j \in 1..i - 1 : ~(st[j + 1] + 7 >= 8 * (k + n))
EntriesRead(d, st, k, n, size) == [i \in 1..EntryCount(d, st, k, n) |-> ReadEntry(d, st[i], size)]

LEMMA ScptDataIsRead ==
  ASSUME NEW d, NEW k, NEW n
  PROVE  ReadScptData(d, k, n) =
           [encoding |-> EncodingOf(Field(d, k, 0, 5)),
            entries |-> EntriesRead(d, Starts(d, k, DigitSize(EncodingOf(Field(d, k, 0, 5)))), k, n,
                                    DigitSize(EncodingOf(Field(d, k, 0, 5))))]
BY Zenon DEF ReadScptData, Starts, EntriesRead, EntryCount

LEMMA ScptDataKept ==
  ASSUME NEW v \in Value.scpt_data, ScptDataFits(v), NEW d \in Seq(Octet), NEW k \in Nat, NEW n \in Nat,
         Holds(d, 8 * k, FieldBits(Write("scpt_data", v))),
         n = (Len(FieldBits(Write("scpt_data", v))) + 7) \div 8
  PROVE  SameEntries(v, ReadScptData(d, k, n))
<1> DEFINE q == 8 * k
           enc == v.encoding
           E == v.entries
           N == Len(E)
           size == DigitSize(enc)
           code == EncodingCode(enc)
           a == <<<<code, 5>>>>
           bit == [j \in 1..N |-> ServiceBit(v, j)]
           f == [j \in DOMAIN E |-> WriteEntry(E[j], size, bit[j])]
           u == [j \in 1..N |-> 48 + size * Characters(E[j], size)]
<1>1. enc \in {Encodings[j] : j \in 1..10} /\ E \in Seq(Entry) /\ v = [encoding |-> enc, entries |-> E]
  BY DEF Value
<1>2. size \in {7, 8, 16}
  BY DEF DigitSize
<1>3. N \in 1..5 /\ N \in Nat /\ \A j \in 1..N : EntryFits(E[j], size)
  <2>1. N \in 1..5 /\ \A j \in 1..N : EntryFits(E[j], size)
    BY DEF ScptDataFits, MAX_SERVICES
  <2> HIDE DEF E, size
  <2> QED BY <2>1
<1>b. \A j \in 1..N : bit[j] = ServiceBit(v, j) /\ bit[j] \in 0..7
  BY ServiceBits
<1>4. Write("scpt_data", v) = a \o FlattenSeq(f)
  <2>1. DOMAIN E = 1..N
    BY <1>1
  <2>2. f = [j \in DOMAIN E |-> WriteEntry(E[j], size, ServiceBit(v, j))]
    BY <2>1, Zenon
  <2>3. Write("scpt_data", v) = WriteScptData(v)
    BY DEF Write, RelativeTimes, AbsoluteTimes
  <2> QED BY <2>2, <2>3, Zenon DEF WriteScptData
<1>5. code \in 0..9 /\ EncodingOf(code) = enc
  BY <1>1, EncodingBack
<1>7. q \in Nat /\ Holds(d, q, FieldBits(a \o FlattenSeq(f)))
  <2>1. q \in Nat
    OBVIOUS
  <2> HIDE DEF a, f
  <2>2. Holds(d, q, FieldBits(a \o FlattenSeq(f)))
    BY <1>4
  <2> QED BY <2>1, <2>2
<1>8. n = (Len(FieldBits(a \o FlattenSeq(f))) + 7) \div 8
  BY <1>4
<1>d. DOMAIN E = 1..N /\ \A j \in 1..N : E[j] \in Entry
  BY <1>1
<1>z. size = DigitSize(enc) /\ N = Len(E)
  OBVIOUS
<1> HIDE DEF enc, E, N, size, code, bit
<1>9. \A j \in 1..N : WriteEntry(E[j], size, bit[j]) \in Seq(Fields)
  BY <1>2, <1>b, <1>d, EntryFields
<1>10. f \in Seq(Seq(Fields)) /\ Len(f) = N /\ \A j \in 1..N : f[j] = WriteEntry(E[j], size, bit[j])
  BY <1>3, <1>9, <1>d
<1>11. \A j \in 1..N : Characters(E[j], size) \in Nat
  <2> SUFFICES ASSUME NEW j \in 1..N PROVE Characters(E[j], size) \in Nat
    OBVIOUS
  <2>1. E[j].label \in Seq(Octet)
    <3>1. E[j] \in Entry
      BY <1>d
    <3> QED BY <3>1 DEF Entry
  <2> DEFINE l == Len(E[j].label)
  <2>2. l \in Nat
    BY <2>1, LengthIsNat, Zenon
  <2>3. Characters(E[j], size) = IF size = 16 THEN l \div 2 ELSE l
    BY DEF Characters
  <2> HIDE DEF l
  <2>4. l \div 2 \in Nat
    BY <2>2
  <2> QED BY <2>2, <2>3, <2>4
<1>12. u \in [1..N -> Nat] /\ \A j \in 1..N : u[j] >= 48 /\ u[j] = 48 + size * Characters(E[j], size)
  <2>1. ASSUME NEW j \in 1..N PROVE u[j] \in Nat /\ u[j] >= 48
    <3> DEFINE c == Characters(E[j], size)
    <3>1. c \in Nat /\ u[j] = 48 + size * c
      BY <1>11
    <3> HIDE DEF c, u
    <3>2. CASE size = 7
      BY <3>1, <3>2
    <3>3. CASE size = 8
      BY <3>1, <3>3
    <3>4. CASE size = 16
      BY <3>1, <3>4
    <3> QED BY <1>2, <3>2, <3>3, <3>4
  <2> QED BY <2>1
<1>13. \A j \in 1..N : Len(FieldBits(f[j])) = u[j]
  BY <1>2, <1>3, <1>b, <1>d, <1>10, <1>12, EntryLength
<1> HIDE DEF f, u
<1>14. PICK o : Offsets(o, u, N)
  BY <1>3, <1>12, OffsetsOf
<1>15. o \in [0..N -> Nat] /\ o[0] = 0 /\ \A j \in 1..N : o[j] = o[j - 1] + u[j]
  BY <1>14 DEF Offsets
<1>16. \A j \in 0..N : j < N => o[j] + 48 <= o[N]
  BY <1>3, <1>12, <1>14, OffsetsGrow
<1> DEFINE b == FlattenSeq(f)
<1>17. a \in Seq(Fields) /\ b \in Seq(Fields)
  <2>1. code \in Int
    BY <1>5
  <2>2. a \in Seq(Fields)
    BY <2>1, Widths, OneField, Zenon
  <2>3. b \in Seq(Fields)
    BY <1>10, FlattenTyped
  <2> QED BY <2>2, <2>3
<1>18. Holds(d, q, FieldBits(a \o b)) /\ n = (Len(FieldBits(a \o b)) + 7) \div 8
  BY <1>7, <1>8
<1> HIDE DEF a, b, q
<1>19. /\ Holds(d, q, FieldBits(a)) /\ Holds(d, q + Len(FieldBits(a)), FieldBits(b))
       /\ Len(FieldBits(a \o b)) = Len(FieldBits(a)) + Len(FieldBits(b))
  BY <1>7, <1>17, <1>18, FieldsHeld
<1>20. Len(FieldBits(a)) = 5 /\ Unpack(d, q, 5) = code
  <2>1. Holds(d, q, FieldBits(<<<<code, 5>>>>))
    BY <1>19 DEF a
  <2>2. code \in Int /\ code \in Nat /\ code < 2^5 /\ 5 \in 0..16
    BY <1>5, MoreLimits
  <2> QED BY <1>7, <2>1, <2>2, OneFieldHeld DEF a
<1> DEFINE r == q + 5
<1>21. r \in Nat /\ Holds(d, r, FieldBits(FlattenSeq(f)))
  BY <1>7, <1>19, <1>20 DEF b
<1> HIDE DEF r
<1>22. /\ Len(FieldBits(b)) = o[N]
       /\ \A j \in 1..N : Holds(d, r + o[j - 1], FieldBits(f[j]))
  <2>1. /\ o \in [0..Len(f) -> Nat] /\ \A j \in 1..Len(f) : o[j] = o[j - 1] + Len(FieldBits(f[j]))
    BY <1>10, <1>13, <1>15
  <2>2. /\ Len(FieldBits(FlattenSeq(f))) = o[Len(f)]
        /\ \A j \in 1..Len(f) : Holds(d, r + o[j - 1], FieldBits(f[j]))
    BY <1>10, <1>15, <1>21, <2>1, PartsHeld
  <2> QED BY <1>10, <2>2 DEF b
<1>23. ASSUME NEW j \in 1..N
       PROVE  /\ EntryBits(d, r + o[j - 1], size) = u[j]
              /\ ReadEntry(d, r + o[j - 1], size) = EntryRead(E[j], ServiceSent(E[j], bit[j]))
  <2>1. r + o[j - 1] \in Nat
    <3>1. o[j - 1] \in Nat
      BY <1>3, <1>15
    <3> QED BY <1>21, <3>1
  <2>2. Holds(d, r + o[j - 1], FieldBits(WriteEntry(E[j], size, bit[j])))
    BY <1>10, <1>22
  <2> DEFINE p == r + o[j - 1]
  <2>3. /\ p \in Nat /\ Holds(d, p, FieldBits(WriteEntry(E[j], size, bit[j])))
        /\ E[j] \in Entry /\ EntryFits(E[j], size) /\ bit[j] \in 0..7
    BY <1>3, <1>b, <1>d, <2>1, <2>2
  <2> HIDE DEF p
  <2>4. /\ EntryBits(d, p, size) = 48 + size * Characters(E[j], size)
        /\ ReadEntry(d, p, size) = EntryRead(E[j], ServiceSent(E[j], bit[j]))
    BY <1>2, <2>3, EntryKept
  <2> QED BY <1>12, <2>4 DEF p
<1> DEFINE st == Starts(d, k, size)
<1>24. st[1] = r /\ \A i \in 1..5 : st[i + 1] = st[i] + EntryBits(d, st[i], size)
  BY <1>2, StartsAreThere DEF r, q
<1> HIDE DEF st
<1>25. \A i \in 0..N : st[i + 1] = r + o[i]
  <2> DEFINE S == {i \in Nat : i <= N => st[i + 1] = r + o[i]}
  <2>1. 0 \in S
    <3>1. 0 + 1 = 1 /\ r + 0 = r
      BY <1>21
    <3> QED BY <1>15, <1>24, <3>1
  <2>2. ASSUME NEW i \in Nat, i \in S, i + 1 <= N PROVE st[(i + 1) + 1] = r + o[i + 1]
    <3>1. st[i + 1] = r + o[i] /\ i + 1 \in 1..N /\ i + 1 \in 1..5 /\ (i + 1) - 1 = i /\ i \in 0..N
      BY <1>3, <2>2
    <3>2. st[(i + 1) + 1] = st[i + 1] + EntryBits(d, st[i + 1], size)
      BY <1>24, <3>1
    <3>3. EntryBits(d, r + o[i], size) = u[i + 1]
      BY <1>23, <3>1
    <3>4. o[i + 1] = o[i] + u[i + 1] /\ o[i] \in Nat /\ u[i + 1] \in Nat
      BY <1>12, <1>15, <3>1
    <3> QED BY <1>21, <3>1, <3>2, <3>3, <3>4
  <2>3. \A i \in Nat : i \in S => i + 1 \in S
    BY <2>2
  <2>4. \A i \in Nat : i \in S
    <3> HIDE DEF S
    <3> QED BY <2>1, <2>3, Induction
  <2> QED BY <1>3, <2>4
<1> DEFINE Ended(i) == st[i + 1] + 7 >= 8 * (k + n)
<1>26. Ended(N) /\ \A i \in 1..N - 1 : ~Ended(i)
  <2>1. n = (5 + o[N] + 7) \div 8 /\ o[N] \in Nat
    BY <1>3, <1>15, <1>18, <1>19, <1>20, <1>22
  <2>2. 8 * (k + n) = q + 8 * n /\ r = q + 5
    BY DEF q, r
  <2>3. 5 + o[N] <= 8 * n /\ 8 * n <= 5 + o[N] + 7
    BY <2>1
  <2>4. Ended(N)
    <3>1. st[N + 1] = r + o[N]
      BY <1>3, <1>25
    <3> QED BY <1>7, <2>1, <2>2, <2>3, <3>1
  <2>5. ASSUME NEW i \in 1..N - 1 PROVE ~Ended(i)
    <3>1. o[i] + 48 <= o[N] /\ o[i] \in Nat
      BY <1>3, <1>15, <1>16
    <3>2. st[i + 1] = r + o[i]
      <4>1. i \in 0..N
        BY <1>3
      <4> QED BY <1>25, <4>1, Zenon
    <3> DEFINE x == o[i]
               y == o[N]
               z == st[i + 1]
               e == 8 * (k + n)
    <3>3. x + 48 <= y /\ x \in Nat /\ y \in Nat /\ z = r + x
      BY <2>1, <3>1, <3>2
    <3>4. e = q + 8 * n /\ r = q + 5 /\ q \in Nat /\ 5 + y <= 8 * n
      BY <1>7, <2>2, <2>3
    <3> HIDE DEF x, y, z, e, q
    <3>5. ~(z + 7 >= e)
      BY <3>3, <3>4
    <3> QED BY <3>5 DEF z, e
  <2> QED BY <2>4, <2>5
<1> DEFINE Counts(i) == /\ Ended(i) \/ i = 5
                        /\ \A j \in 1..i - 1 : ~Ended(j)
           count == CHOOSE i \in 1..5 : Counts(i)
<1>27. count = N
  <2> HIDE DEF Ended
  <2>1. N \in 1..5 /\ Counts(N)
    BY <1>3, <1>26
  <2>2. ASSUME NEW i \in 1..5, Counts(i) PROVE i = N
    <3>1. CASE i < N
      <4>1. i # 5 /\ i \in 1..N - 1
        BY <1>3, <3>1
      <4> QED BY <1>26, <2>2, <4>1
    <3>2. CASE i > N
      <4>1. N \in 1..i - 1
        BY <1>3, <3>2
      <4> QED BY <1>26, <2>2, <4>1
    <3> QED BY <1>3, <3>1, <3>2
  <2> HIDE DEF Counts
  <2> QED BY <2>1, <2>2
<1>28. Field(d, k, 0, 5) = code
  BY <1>20, FieldIsThere, NoOffset DEF q
<1>29. ReadScptData(d, k, n) = [encoding |-> enc, entries |-> [i \in 1..count |-> ReadEntry(d, st[i], size)]]
  <2>1. EntryCount(d, st, k, n) = count
    BY Zenon DEF EntryCount, MAX_SERVICES
  <2> HIDE DEF count
  <2>2. EntriesRead(d, st, k, n, size) = [i \in 1..count |-> ReadEntry(d, st[i], size)]
    BY <2>1, Zenon DEF EntriesRead
  <2> QED BY <1>5, <1>28, <1>z, <2>2, ScptDataIsRead, Zenon DEF st
<1> DEFINE W == [i \in 1..count |-> ReadEntry(d, st[i], size)]
<1>30. Len(W) = N /\ \A i \in 1..N : W[i] = EntryRead(E[i], ServiceSent(E[i], bit[i]))
  <2>1. ASSUME NEW i \in 1..N PROVE ReadEntry(d, st[i], size) = EntryRead(E[i], ServiceSent(E[i], bit[i]))
    <3>1. i - 1 \in 0..N /\ (i - 1) + 1 = i
      BY <1>3
    <3>2. st[i] = r + o[i - 1]
      BY <1>25, <3>1
    <3> QED BY <1>23, <3>2
  <2> HIDE DEF count
  <2> QED BY <1>3, <1>27, <2>1
<1> HIDE DEF W
<1>31. \A i \in 1..N : /\ SameEntry(E[i], W[i])
                       /\ ServiceIsWritten(v, i) => E[i].service = W[i].service
  <2> SUFFICES ASSUME NEW i \in 1..N
               PROVE  /\ SameEntry(E[i], W[i])
                      /\ ServiceIsWritten(v, i) => E[i].service = W[i].service
    OBVIOUS
  <2> DEFINE x == ServiceSent(E[i], bit[i])
  <2>1. W[i] = EntryRead(E[i], x)
    BY <1>30
  <2>2. bit[i] = 0 /\ E[i].service < 256 => x = E[i].service
    BY <1>b, <1>d, ServiceIsSent
  <2> HIDE DEF x
  <2>3. SameEntry(E[i], W[i]) /\ W[i].service = x
    BY <2>1 DEF EntryRead, SameEntry
  <2>4. ServiceIsWritten(v, i) => bit[i] = 0 /\ E[i].service < 256
    BY <1>b DEF ServiceIsWritten, E
  <2> QED BY <2>2, <2>3, <2>4
<1>32. ReadScptData(d, k, n) = [encoding |-> enc, entries |-> W]
  BY <1>29 DEF W
<1>33. v.encoding = enc /\ v.entries = E
  BY DEF enc, E
<1> QED BY <1>30, <1>31, <1>32, <1>33, <1>z DEF SameEntries

(* The value of a subparameter is one that its fields can hold.             *)
OctetFits(v) == v < 256
WordFits(v) == v < 65536
StatusFits(v) == v[1] < 4 /\ v[2] < 64
SubparameterFits(p, v) ==
  /\ p = "message_id" => MessageIdFits(v)
  /\ p \in {"user_response", "language", "rsn_no_notify"} => OctetFits(v)
  /\ p \in RelativeTimes => v \in Representable
  /\ p \in {"priority", "privacy", "alert_mode"} => v < 4
  /\ p = "num_messages" => v <= 99
  /\ p = "callback" => CallbackFits(v)
  /\ p = "display_mode" => DisplayModeFits(v)
  /\ p = "scpt_data" => ScptDataFits(v)
  /\ p = "scpt_result" => ScptResultFits(v)
  /\ p = "deposit_index" => WordFits(v)
  /\ p = "delivery_status" => StatusFits(v)

Kept(p, v, d, k, n) == Acceptable(p, d, k, n) /\ Same(p, v, Read(p, d, k, n))

(* What a client encodes of bearer data is what the receiver decodes: of    *)
(* wms_ts_encode_CDMA_bd and wms_ts_decode_CDMA_bd_from_uint8 each          *)
(* subparameter but user data, wherever it stands among others; of a        *)
(* service category program all but the services that                       *)
(* wmstscdma.c:994 does not write.                                          *)
THEOREM SubparametersAreKept ==
  ASSUME NEW p \in Encoded, NEW v \in Value[p], SubparameterFits(p, v),
         NEW d \in Seq(Octet), NEW k \in Nat, Behold(d, k, Pack(Write(p, v)))
  PROVE  Kept(p, v, d, k, Len(Pack(Write(p, v))))
<1> DEFINE b == Len(FieldBits(Write(p, v)))
           n == Len(Pack(Write(p, v)))
<1>1. Holds(d, 8 * k, FieldBits(Write(p, v))) /\ n = (b + 7) \div 8 /\ b \in Nat /\ n \in Nat
  <2>1. Holds(d, 8 * k, FieldBits(Write(p, v))) /\ b \in Nat /\ n = (b + 7) \div 8
    BY SubparameterHeld
  <2> HIDE DEF b, n
  <2> QED BY <2>1
<1> HIDE DEF n
<1>s. p # "scpt_data" /\ Acceptable(p, d, k, n) /\ Read(p, d, k, n) = v => Kept(p, v, d, k, n)
  <2>1. p # "user_data"
    BY DEF Encoded
  <2> QED BY <2>1 DEF Kept, Same
<1>2. CASE p = "message_id"
  <2>1. v \in Value.message_id /\ MessageIdFits(v)
    BY <1>2, Zenon DEF SubparameterFits
  <2>2. b = 24 /\ ReadMessageId(d, k) = v
    BY <1>1, <1>2, <2>1, MessageIdKept
  <2> HIDE DEF b
  <2>3. n >= 3
    BY <1>1, <2>2
  <2>4. Acceptable(p, d, k, n)
    BY <1>2, <2>3 DEF Acceptable
  <2>5. Read(p, d, k, n) = ReadMessageId(d, k)
    BY <1>2 DEF Read, RelativeTimes, AbsoluteTimes
  <2> QED BY <1>2, <1>s, <2>2, <2>4, <2>5 DEF n
<1>3. CASE p \in {"user_response", "language", "rsn_no_notify"}
  <2>1. v \in Nat /\ v < 256
    <3>1. OctetFits(v)
      BY <1>3, Zenon DEF SubparameterFits
    <3>2. v \in Octet \/ v \in Nat
      BY <1>3 DEF Value
    <3> QED BY <3>1, <3>2, OctetIsNat DEF OctetFits
  <2>2. b = 8 /\ OctetAt(d, k) = v
    BY <1>1, <1>3, <2>1, OctetKept
  <2> HIDE DEF b
  <2>3. n = 1 /\ k + n - 1 = k /\ n >= 1
    BY <1>1, <2>2
  <2>4. Acceptable(p, d, k, n)
    BY <1>3, <2>3 DEF Acceptable
  <2>5. Read(p, d, k, n) = OctetAt(d, k)
    <3>1. ReadOctet(d, k, n) = OctetAt(d, k)
      BY <2>3 DEF ReadOctet
    <3>2. CASE p = "rsn_no_notify"
      BY <3>2 DEF Read, RelativeTimes, AbsoluteTimes
    <3>3. CASE p = "language"
      BY <3>1, <3>3 DEF Read, RelativeTimes, AbsoluteTimes
    <3>4. CASE p = "user_response"
      BY <3>1, <3>4 DEF Read, RelativeTimes, AbsoluteTimes
    <3> QED BY <1>3, <3>2, <3>3, <3>4
  <2> QED BY <1>3, <1>s, <2>2, <2>4, <2>5 DEF n
<1>4. CASE p \in RelativeTimes
  <2>1. v \in Representable
    BY <1>4, Zenon DEF SubparameterFits
  <2>2. ReadRelative(d, k) = v
    BY <1>1, <1>4, <2>1, RelativeTimeKept
  <2>3. Acceptable(p, d, k, n)
    BY <1>4 DEF Acceptable, RelativeTimes
  <2>4. Read(p, d, k, n) = ReadRelative(d, k)
    <3>1. CASE p = "validity_relative"
      BY <3>1 DEF Read, RelativeTimes, AbsoluteTimes
    <3>2. CASE p = "deferred_relative"
      BY <3>2 DEF Read, RelativeTimes, AbsoluteTimes
    <3> QED BY <1>4, <3>1, <3>2 DEF RelativeTimes
  <2> QED BY <1>4, <1>s, <2>2, <2>3, <2>4 DEF n, RelativeTimes, AbsoluteTimes
<1>5. CASE p \in AbsoluteTimes
  <2>2. ReadTime(d, k) = v
    BY <1>1, <1>5, TimeKept
  <2>3. Acceptable(p, d, k, n)
    BY <1>5 DEF Acceptable, AbsoluteTimes
  <2>4. Read(p, d, k, n) = ReadTime(d, k)
    BY <1>5 DEF Read, RelativeTimes, AbsoluteTimes
  <2> QED BY <1>5, <1>s, <2>2, <2>3, <2>4 DEF n, RelativeTimes, AbsoluteTimes
<1>6. CASE p \in {"priority", "privacy"}
  <2>1. v \in Nat /\ v < 4
    <3>1. v < 4
      BY <1>6, Zenon DEF SubparameterFits
    <3> QED BY <1>6, <3>1 DEF Value
  <2>2. b = 8 /\ ReadTwoBits(d, k) = v
    BY <1>1, <1>6, <2>1, PriorityKept
  <2> HIDE DEF b
  <2>3. n >= 1
    BY <1>1, <2>2
  <2>4. Acceptable(p, d, k, n)
    BY <1>6, <2>3 DEF Acceptable
  <2>5. Read(p, d, k, n) = ReadTwoBits(d, k)
    BY <1>6 DEF Read, RelativeTimes, AbsoluteTimes
  <2> QED BY <1>6, <1>s, <2>2, <2>4, <2>5 DEF n
<1>7. CASE p = "alert_mode"
  <2>1. v \in Nat /\ v < 4
    <3>1. v < 4
      BY <1>7, Zenon DEF SubparameterFits
    <3> QED BY <1>7, <3>1 DEF Value
  <2>2. b = (IF v = 0 THEN 0 ELSE 8) /\ ReadAlertMode(d, k, IF v = 0 THEN 0 ELSE 1) = v
    BY <1>1, <1>7, <2>1, AlertModeKept
  <2> HIDE DEF b
  <2>3. n = IF v = 0 THEN 0 ELSE 1
    BY <1>1, <2>2
  <2>4. Acceptable(p, d, k, n)
    BY <1>7 DEF Acceptable
  <2>5. Read(p, d, k, n) = ReadAlertMode(d, k, n)
    BY <1>7 DEF Read, RelativeTimes, AbsoluteTimes
  <2> QED BY <1>7, <1>s, <2>2, <2>3, <2>4, <2>5 DEF n
<1>8. CASE p = "num_messages"
  <2>1. v \in Nat /\ v <= 99
    <3>1. v <= 99
      BY <1>8, Zenon DEF SubparameterFits
    <3>2. v \in Octet
      BY <1>8 DEF Value
    <3> QED BY <3>1, <3>2, OctetIsNat
  <2>2. /\ b = 8 /\ ReadNumMessages(d, k) = v
        /\ Field(d, k, 0, 4) < 10 /\ Field(d, k, 4, 4) < 10
    BY <1>1, <1>8, <2>1, NumMessagesKept
  <2> HIDE DEF b
  <2>3. n >= 1
    BY <1>1, <2>2
  <2>4. Acceptable(p, d, k, n)
    BY <1>8, <2>2, <2>3 DEF Acceptable
  <2>5. Read(p, d, k, n) = ReadNumMessages(d, k)
    BY <1>8 DEF Read, RelativeTimes, AbsoluteTimes
  <2> QED BY <1>8, <1>s, <2>2, <2>4, <2>5 DEF n
<1>9. CASE p = "reply_option"
  <2>1. v \in Value.reply_option
    BY <1>9
  <2>2. ReadReplyOption(d, k) = v
    BY <1>1, <1>9, <2>1, ReplyOptionKept
  <2>4. Acceptable(p, d, k, n)
    BY <1>9 DEF Acceptable
  <2>5. Read(p, d, k, n) = ReadReplyOption(d, k)
    BY <1>9 DEF Read, RelativeTimes, AbsoluteTimes
  <2> QED BY <1>9, <1>s, <2>2, <2>4, <2>5 DEF n
<1>10. CASE p = "callback"
  <2>1. v \in Value.callback /\ CallbackFits(v)
    BY <1>10, Zenon DEF SubparameterFits
  <2>2. ReadCallback(d, k) = v
    BY <1>1, <1>10, <2>1, CallbackKept
  <2>4. Acceptable(p, d, k, n)
    BY <1>10 DEF Acceptable
  <2>5. Read(p, d, k, n) = ReadCallback(d, k)
    BY <1>10 DEF Read, RelativeTimes, AbsoluteTimes
  <2> QED BY <1>10, <1>s, <2>2, <2>4, <2>5 DEF n
<1>11. CASE p = "display_mode"
  <2>1. v \in Value.display_mode /\ DisplayModeFits(v)
    BY <1>11, Zenon DEF SubparameterFits
  <2>2. b = 8 /\ ReadDisplayMode(d, k) = v
    BY <1>1, <1>11, <2>1, DisplayModeKept
  <2> HIDE DEF b
  <2>3. n >= 1
    BY <1>1, <2>2
  <2>4. Acceptable(p, d, k, n)
    BY <1>11, <2>3 DEF Acceptable
  <2>5. Read(p, d, k, n) = ReadDisplayMode(d, k)
    BY <1>11 DEF Read, RelativeTimes, AbsoluteTimes
  <2> QED BY <1>11, <1>s, <2>2, <2>4, <2>5 DEF n
<1>12. CASE p = "scpt_data"
  <2>1. v \in Value.scpt_data /\ ScptDataFits(v)
    BY <1>12, Zenon DEF SubparameterFits
  <2>2. SameEntries(v, ReadScptData(d, k, n))
    BY <1>1, <1>12, <2>1, ScptDataKept
  <2>4. Acceptable(p, d, k, n)
    BY <1>12 DEF Acceptable
  <2>5. Read(p, d, k, n) = ReadScptData(d, k, n)
    BY <1>12, Zenon DEF Read, RelativeTimes, AbsoluteTimes
  <2>6. Same(p, v, Read(p, d, k, n))
    BY <1>12, <2>2, <2>5 DEF Same
  <2> QED BY <2>4, <2>6 DEF Kept, n
<1>13. CASE p = "scpt_result"
  <2>1. v \in Value.scpt_result /\ ScptResultFits(v)
    BY <1>13, Zenon DEF SubparameterFits
  <2>2. ReadScptResult(d, k, n) = v
    BY <1>1, <1>13, <2>1, ScptResultKept
  <2>4. Acceptable(p, d, k, n)
    BY <1>13 DEF Acceptable
  <2>5. Read(p, d, k, n) = ReadScptResult(d, k, n)
    BY <1>13 DEF Read, RelativeTimes, AbsoluteTimes
  <2> QED BY <1>13, <1>s, <2>2, <2>4, <2>5 DEF n
<1>14. CASE p = "deposit_index"
  <2>1. v \in Nat /\ v < 65536
    <3>1. WordFits(v)
      BY <1>14, Zenon DEF SubparameterFits
    <3> QED BY <1>14, <3>1 DEF Value, WordFits
  <2>2. ReadDepositIndex(d, k) = v
    BY <1>1, <1>14, <2>1, DepositIndexKept
  <2>4. Acceptable(p, d, k, n)
    BY <1>14 DEF Acceptable
  <2>5. Read(p, d, k, n) = ReadDepositIndex(d, k)
    BY <1>14 DEF Read, RelativeTimes, AbsoluteTimes
  <2> QED BY <1>14, <1>s, <2>2, <2>4, <2>5 DEF n
<1>15. CASE p = "delivery_status"
  <2>1. v \in Value.delivery_status /\ v[1] < 4 /\ v[2] < 64
    <3>1. StatusFits(v)
      BY <1>15, Zenon DEF SubparameterFits
    <3> QED BY <1>15, <3>1 DEF StatusFits
  <2>2. ReadDeliveryStatus(d, k) = v
    BY <1>1, <1>15, <2>1, DeliveryStatusKept
  <2>4. Acceptable(p, d, k, n)
    BY <1>15 DEF Acceptable
  <2>5. Read(p, d, k, n) = ReadDeliveryStatus(d, k)
    BY <1>15 DEF Read, RelativeTimes, AbsoluteTimes
  <2> QED BY <1>15, <1>s, <2>2, <2>4, <2>5 DEF n
<1>16. CASE p = "ip_address"
  <2>1. v \in Value.ip_address
    BY <1>16
  <2>2. ReadIpAddress(d, k) = v
    BY <1>1, <1>16, <2>1, IpAddressKept
  <2>4. Acceptable(p, d, k, n)
    BY <1>16 DEF Acceptable
  <2>5. Read(p, d, k, n) = ReadIpAddress(d, k)
    BY <1>16 DEF Read, RelativeTimes, AbsoluteTimes
  <2> QED BY <1>16, <1>s, <2>2, <2>4, <2>5 DEF n
<1>17. \/ p \in {"user_response", "language", "rsn_no_notify"} \/ p \in RelativeTimes \/ p \in AbsoluteTimes
       \/ p \in {"priority", "privacy"}
       \/ p \in {"message_id", "alert_mode", "num_messages", "reply_option", "callback", "display_mode",
                 "scpt_data", "scpt_result", "deposit_index", "delivery_status", "ip_address"}
  BY DEF Encoded, Known, Id, RelativeTimes, AbsoluteTimes
<1> QED BY <1>2, <1>3, <1>4, <1>5, <1>6, <1>7, <1>8, <1>9, <1>10, <1>11, <1>12, <1>13, <1>14, <1>15, <1>16, <1>17
=============================================================================
