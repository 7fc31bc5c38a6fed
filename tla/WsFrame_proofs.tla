--------------------------- MODULE WsFrame_proofs ---------------------------
(***************************************************************************)
(* Proofs about WsFrame, for every base of the length bytes and longest     *)
(* short length, every buffer step, and any lengths of at most 32 bits.     *)
(*                                                                          *)
(* What a recursive function over a sequence computes (FlattenSeq) is       *)
(* proved by induction over a set of numbers, from the least element that   *)
(* a well-founded relation gives it (SetInduction).                         *)
(***************************************************************************)
EXTENDS WsFrame, SequenceTheorems, WellFoundedInduction, TLAPS

-----------------------------------------------------------------------------
(* Numbers and their digits.                                                *)

LEMMA DivMod ==
  ASSUME NEW n \in Nat, NEW b \in Nat \ {0}
  PROVE  /\ n \div b \in Nat /\ n % b \in Nat /\ n % b < b
         /\ n = b * (n \div b) + (n % b)
OBVIOUS

LEMMA DivBound ==
  ASSUME NEW n \in Nat, NEW b \in Nat \ {0}, NEW c \in Nat, n < b * c
  PROVE  n \div b < c
<1>1. PICK q \in Nat, r \in Nat : q = n \div b /\ n = b * q + r
  BY DivMod
<1>2. SUFFICES ASSUME q >= c PROVE FALSE
  BY <1>1
<1>3. b * q >= b * c
  BY <1>2
<1>4. QED BY <1>1, <1>3

LEMMA ModSmall ==
  ASSUME NEW n \in Nat, NEW b \in Nat \ {0}, n < b
  PROVE  n % b = n
OBVIOUS

(* Quotient and remainder are determined by the sum they make.              *)
LEMMA DivUnique ==
  ASSUME NEW b \in Nat \ {0}, NEW q \in Nat, NEW r \in Nat, r < b
  PROVE  (b * q + r) \div b = q /\ (b * q + r) % b = r
<1> DEFINE n == b * q + r
<1>1. n \in Nat
  OBVIOUS
<1>2. PICK k \in Nat, m \in Nat : k = n \div b /\ m = n % b /\ m < b /\ n = b * k + m
  <2> HIDE DEF n
  <2>1. QED BY <1>1, DivMod
<1>3. b * (q - k) = m - r
  BY <1>2
<1>4. ~(q - k >= 1)
  <2>1. SUFFICES ASSUME q - k >= 1 PROVE FALSE
    OBVIOUS
  <2>2. b * (q - k) >= b
    BY <2>1
  <2>3. QED BY <1>2, <1>3, <2>2
<1>5. ~(k - q >= 1)
  <2>1. SUFFICES ASSUME k - q >= 1 PROVE FALSE
    OBVIOUS
  <2>2. b * (k - q) >= b
    BY <2>1
  <2>3. b * (k - q) = r - m
    BY <1>2
  <2>4. QED BY <1>2, <2>2, <2>3
<1>6. k = q /\ m = r
  BY <1>2, <1>3, <1>4, <1>5
<1>7. QED BY <1>2, <1>6

(* A multiple grows to the next one: the buffer by AIUI_FRAME_CHUNK_LENGTH. *)
LEMMA ModAdd ==
  ASSUME NEW n \in Nat, NEW b \in Nat \ {0}, n % b = 0
  PROVE  (n + b) % b = 0
<1>1. PICK q \in Nat : n = b * q
  BY DivMod
<1>2. n + b = b * (q + 1) + 0
  BY <1>1
<1>3. (b * (q + 1) + 0) % b = 0
  <2>1. q + 1 \in Nat /\ 0 \in Nat /\ 0 < b
    OBVIOUS
  <2>2. QED BY <2>1, DivUnique
<1>4. QED BY <1>2, <1>3

(* Induction over the natural numbers, for a set instead of a predicate.    *)
LEMMA SetInduction ==
  ASSUME NEW S, 0 \in S, \A n \in Nat : n \in S => n + 1 \in S
  PROVE  \A n \in Nat : n \in S
<1> DEFINE T == Nat \ S
<1>1. SUFFICES ASSUME T # {} PROVE FALSE
  OBVIOUS
<1> DEFINE R == OpToRel(<, Nat)
<1>2. \E x \in T : \A y \in T : ~ (<<y, x>> \in R)
  <2>1. IsWellFoundedOn(R, Nat)
    BY NatLessThanWellFounded
  <2>2. T \subseteq Nat
    OBVIOUS
  <2> HIDE DEF R, T
  <2>3. QED BY <2>1, <2>2, <1>1, WFMin
<1>3. PICK x \in T : \A y \in T : ~ (<<y, x>> \in R)
  BY <1>2
<1>4. x # 0 /\ x - 1 \in Nat /\ (x - 1) + 1 = x
  OBVIOUS
<1>5. <<x - 1, x>> \in R
  BY <1>4 DEF OpToRel
<1>6. x - 1 \in S
  BY <1>3, <1>4, <1>5
<1>7. QED BY <1>4, <1>6

(* What FlattenSeq recurs over: the first parts of seqs put together.       *)
Joining(seqs, n, g) ==
  [i \in 1 .. n |-> IF i = 1 THEN seqs[i] ELSE g[i-1] \o seqs[i]]

(* There is such a function: it can be extended to one more part.           *)
LEMMA JoiningExists ==
  ASSUME NEW V, NEW n \in Nat, NEW seqs,
         \A i \in 1 .. n : seqs[i] \in Seq(V)
  PROVE  \E g : g = Joining(seqs, n, g)
<1> DEFINE Upto(k, g) ==
             \A i \in 1 .. n : i <= k =>
               g[i] = IF i = 1 THEN seqs[i] ELSE g[i-1] \o seqs[i]
           S == {k \in Nat : \E g \in [1 .. n -> Seq(V)] : Upto(k, g)}
<1>1. 0 \in S
  <2>1. [i \in 1 .. n |-> <<>>] \in [1 .. n -> Seq(V)]
    BY EmptySeq
  <2>2. Upto(0, [i \in 1 .. n |-> <<>>])
    OBVIOUS
  <2>3. QED BY <2>1, <2>2
<1>2. ASSUME NEW k \in Nat, k \in S
      PROVE  k + 1 \in S
  <2>1. PICK g \in [1 .. n -> Seq(V)] : Upto(k, g)
    BY <1>2
  <2>2. CASE ~(k + 1 <= n)
    <3>1. \A i \in 1 .. n : i <= k + 1 => i <= k
      BY <2>2
    <3>2. Upto(k + 1, g)
      BY <2>1, <3>1
    <3> HIDE DEF Upto
    <3>3. QED BY <3>2
  <2>3. CASE k + 1 <= n
    <3> DEFINE new == IF k = 0 THEN seqs[k+1] ELSE g[k] \o seqs[k+1]
               h == [g EXCEPT ![k+1] = new]
    <3>1. new \in Seq(V)
      <4>1. k + 1 \in 1 .. n /\ seqs[k+1] \in Seq(V)
        BY <2>3
      <4>2. CASE k = 0
        BY <4>1, <4>2
      <4>3. CASE k # 0
        <5>1. k \in 1 .. n
          BY <2>3, <4>3
        <5>2. g[k] \in Seq(V)
          BY <5>1
        <5>3. QED BY <4>1, <4>3, <5>2, ConcatProperties
      <4>4. QED BY <4>2, <4>3
    <3>2. h \in [1 .. n -> Seq(V)]
      BY <3>1
    <3>3. Upto(k + 1, h)
      <4>1. SUFFICES ASSUME NEW i \in 1 .. n, i <= k + 1
                     PROVE  h[i] = IF i = 1 THEN seqs[i] ELSE h[i-1] \o seqs[i]
        OBVIOUS
      <4>2. i # 1 => h[i-1] = g[i-1]
        BY <4>1
      <4>3. CASE i = k + 1
        <5>1. h[i] = new
          BY <4>3
        <5>2. QED BY <4>2, <4>3, <5>1
      <4>4. CASE i # k + 1
        <5>1. h[i] = g[i] /\ i <= k
          BY <4>1, <4>4
        <5>2. QED BY <2>1, <4>2, <5>1
      <4>5. QED BY <4>3, <4>4
    <3> HIDE DEF Upto, h
    <3>4. QED BY <3>2, <3>3
  <2>4. QED BY <2>2, <2>3
<1>3. n \in S
  <2> HIDE DEF S
  <2>1. QED BY <1>1, <1>2, SetInduction
<1>4. PICK g \in [1 .. n -> Seq(V)] : Upto(n, g)
  BY <1>3
<1>5. \A i \in 1 .. n : g[i] = Joining(seqs, n, g)[i]
  <2>1. \A i \in 1 .. n : g[i] = IF i = 1 THEN seqs[i] ELSE g[i-1] \o seqs[i]
    <3>1. Upto(n, g)
      BY <1>4
    <3>2. \A i \in 1 .. n : i <= n
      OBVIOUS
    <3>3. QED BY <3>1, <3>2
  <2>2. QED BY <2>1 DEF Joining
<1>6. g = Joining(seqs, n, g)
  <2>1. DOMAIN Joining(seqs, n, g) = 1 .. n
    BY DEF Joining
  <2>2. Joining(seqs, n, g) = [i \in 1 .. n |-> Joining(seqs, n, g)[i]]
    BY DEF Joining
  <2>3. g = [i \in 1 .. n |-> g[i]]
    BY <1>4
  <2> HIDE DEF Upto
  <2>4. QED BY <1>5, <2>2, <2>3
<1>7. QED BY <1>6

(* The parts of a sequence put together are a sequence of their elements.   *)
LEMMA FlattenType ==
  ASSUME NEW V, NEW seqs \in Seq(Seq(V))
  PROVE  FlattenSeq(seqs) \in Seq(V)
<1>1. CASE Len(seqs) = 0
  <2>1. seqs = <<>>
    BY <1>1, EmptySeq
  <2>2. QED BY <1>1, <2>1, EmptySeq DEF FlattenSeq
<1>2. CASE Len(seqs) # 0
  <2> DEFINE n == Len(seqs)
             f == CHOOSE g : g = Joining(seqs, n, g)
  <2>1. n \in Nat /\ n >= 1 /\ \A i \in 1 .. n : seqs[i] \in Seq(V)
    BY <1>2, LenProperties, ElementOfSeq
  <2>2. FlattenSeq(seqs) = f[n]
    BY <1>2 DEF FlattenSeq, Joining
  <2>3. f = Joining(seqs, n, f)
    <3> HIDE DEF n
    <3>1. \E g : g = Joining(seqs, n, g)
      BY <2>1, JoiningExists
    <3>2. QED BY <3>1
  <2> HIDE DEF f, n
  <2>4. \A i \in 1 .. n : f[i] = IF i = 1 THEN seqs[i] ELSE f[i-1] \o seqs[i]
    BY <2>3 DEF Joining
  <2> DEFINE T == {i \in Nat : i + 1 <= n => f[i+1] \in Seq(V)}
  <2>5. 0 \in T
    BY <2>1, <2>4
  <2>6. ASSUME NEW i \in Nat, i \in T
        PROVE  i + 1 \in T
    <3>1. SUFFICES ASSUME i + 2 <= n PROVE f[i+2] \in Seq(V)
      BY <2>1
    <3>2. i + 1 \in 1 .. n /\ i + 2 \in 1 .. n /\ i + 2 # 1 /\ (i + 2) - 1 = i + 1
      BY <2>1, <3>1
    <3>3. f[i+1] \in Seq(V) /\ seqs[i+2] \in Seq(V)
      BY <2>1, <2>6, <3>2
    <3>4. f[i+2] = f[i+1] \o seqs[i+2]
      BY <2>4, <3>2
    <3>5. QED BY <3>3, <3>4, ConcatProperties
  <2>7. n - 1 \in Nat /\ (n - 1) + 1 = n
    BY <2>1
  <2>8. n - 1 \in T
    <3> HIDE DEF T
    <3>1. QED BY <2>5, <2>6, <2>7, SetInduction
  <2>9. QED BY <2>1, <2>2, <2>7, <2>8
<1>3. QED BY <1>1, <1>2
(* Reverse, which keeps the newest part first.                              *)
LEMMA ReverseFacts ==
  ASSUME NEW S, NEW s \in Seq(S)
  PROVE  /\ Reverse(s) \in Seq(S) /\ Len(Reverse(s)) = Len(s)
         /\ \A i \in 1 .. Len(s) : Reverse(s)[i] = s[Len(s) - i + 1]
<1>1. Len(s) \in Nat /\ \A i \in 1 .. Len(s) : s[Len(s) - i + 1] \in S
  BY LenProperties, ElementOfSeq
<1>2. Reverse(s) \in [1 .. Len(s) -> S]
  BY <1>1 DEF Reverse
<1>3. QED BY <1>1, <1>2, LenProperties DEF Reverse, Seq

LEMMA ReverseTwice ==
  ASSUME NEW S, NEW s \in Seq(S)
  PROVE  Reverse(Reverse(s)) = s
<1> DEFINE r == Reverse(s)
<1>1. r \in Seq(S) /\ Len(r) = Len(s) /\ Len(s) \in Nat
  BY ReverseFacts, LenProperties
<1>2. Reverse(r) \in Seq(S) /\ Len(Reverse(r)) = Len(s)
  BY <1>1, ReverseFacts
<1>3. \A i \in 1 .. Len(s) : Reverse(r)[i] = s[i]
  <2>1. SUFFICES ASSUME NEW i \in 1 .. Len(s) PROVE Reverse(r)[i] = s[i]
    OBVIOUS
  <2>2. Reverse(r)[i] = r[Len(s) - i + 1]
    <3> HIDE DEF r
    <3>1. QED BY <1>1, ReverseFacts
  <2>3. Len(s) - i + 1 \in 1 .. Len(s) /\ Len(s) - (Len(s) - i + 1) + 1 = i
    BY <1>1
  <2>4. r[Len(s) - i + 1] = s[i]
    BY <2>3, ReverseFacts
  <2>5. QED BY <2>2, <2>4
<1> HIDE DEF r
<1>4. Reverse(r) = s
  BY <1>2, <1>3, SeqEqual
<1>5. QED BY <1>4 DEF r

(* A part put before the earlier ones is the last in the order of sending.  *)
LEMMA ReverseCons ==
  ASSUME NEW S, NEW s \in Seq(S), NEW p \in S
  PROVE  Reverse(<<p>> \o s) = Append(Reverse(s), p)
<1> DEFINE c == <<p>> \o s
           r == Reverse(s)
<1>1. c \in Seq(S) /\ Len(c) = Len(s) + 1 /\ c[1] = p
      /\ \A i \in 2 .. Len(s) + 1 : c[i] = s[i-1]
  OBVIOUS
<1>2. Len(s) \in Nat /\ r \in Seq(S) /\ Len(r) = Len(s)
      /\ \A i \in 1 .. Len(s) : r[i] = s[Len(s) - i + 1]
  BY ReverseFacts, LenProperties
<1> HIDE DEF c, r
<1>3. /\ Reverse(c) \in Seq(S) /\ Len(Reverse(c)) = Len(s) + 1
      /\ \A i \in 1 .. Len(s) + 1 : Reverse(c)[i] = c[Len(s) + 1 - i + 1]
  BY <1>1, ReverseFacts
<1>4. /\ Append(r, p) \in Seq(S) /\ Len(Append(r, p)) = Len(s) + 1
      /\ \A i \in 1 .. Len(s) : Append(r, p)[i] = r[i]
      /\ Append(r, p)[Len(s) + 1] = p
  BY <1>2, AppendProperties
<1>5. ASSUME NEW i \in 1 .. Len(s) + 1
      PROVE  Reverse(c)[i] = Append(r, p)[i]
  <2>1. CASE i = Len(s) + 1
    BY <2>1, <1>1, <1>2, <1>3, <1>4
  <2>2. CASE i \in 1 .. Len(s)
    <3>1. Len(s) + 1 - i + 1 \in 2 .. Len(s) + 1
      BY <1>2, <2>2
    <3>2. Reverse(c)[i] = c[Len(s) + 1 - i + 1]
      BY <1>2, <1>3, <2>2
    <3>3. (Len(s) + 1 - i + 1) - 1 = Len(s) - i + 1
      BY <1>2
    <3>4. QED BY <1>1, <1>2, <1>4, <2>2, <3>1, <3>2, <3>3
  <2>3. QED BY <1>2, <2>1, <2>2
<1>6. Reverse(c) = Append(r, p)
  BY <1>2, <1>3, <1>4, <1>5, SeqEqual
<1>7. QED BY <1>6 DEF c, r

-----------------------------------------------------------------------------
(* Length codes and frames.                                                 *)

LEMMA BaseFacts ==
  /\ Base \in Nat \ {0} /\ Square \in Nat \ {0} /\ Square * Base \in Nat \ {0}
  /\ Short \in Nat \ {0} /\ Short + 2 < 128
BY FrameAssumption DEF Square

(* A number's digits: what is left of it without the lowest ones.           *)
LEMMA DigitsFacts ==
  ASSUME NEW n \in Nat
  PROVE  \E a, b, c, d, e \in Nat :
           /\ Digit(n, 1) = a /\ Digit(n, Base) = b
           /\ Digit(n, Square) = c /\ Digit(n, Square * Base) = d
           /\ n = ((e * Base + d) * Base + c) * Square + (b * Base + a)
           /\ b * Base + a < Square
           /\ n < Square => ((e * Base + d) * Base + c) = 0
           /\ n < Wide => e = 0
<1> DEFINE sq == Square
           cube == Square * Base
<1>0. sq = Base * Base /\ cube = sq * Base /\ Wide = sq * sq
  BY DEF Square, Wide
<1>1. Base \in Nat \ {0} /\ sq \in Nat \ {0} /\ cube \in Nat \ {0}
  BY BaseFacts
<1> HIDE DEF sq, cube
<1>2. PICK q1 \in Nat, a \in Nat :
        q1 = n \div Base /\ a = n % Base /\ a < Base /\ n = Base * q1 + a
  BY <1>1, DivMod
<1>3. PICK q2 \in Nat, b \in Nat :
        q2 = q1 \div Base /\ b = q1 % Base /\ b < Base /\ q1 = Base * q2 + b
  BY <1>1, DivMod
<1>4. PICK q3 \in Nat, c \in Nat :
        q3 = q2 \div Base /\ c = q2 % Base /\ c < Base /\ q2 = Base * q3 + c
  BY <1>1, DivMod
<1>5. PICK e \in Nat, d \in Nat :
        e = q3 \div Base /\ d = q3 % Base /\ d < Base /\ q3 = Base * e + d
  BY <1>1, DivMod
<1>6. Digit(n, 1) = a
  <2>1. n \div 1 = n
    OBVIOUS
  <2>2. QED BY <1>2, <2>1 DEF Digit
<1>7. Digit(n, Base) = b
  BY <1>2, <1>3 DEF Digit
<1>8. b * Base + a \in Nat /\ b * Base + a < sq
  <2>1. b * Base + Base <= sq
    BY <1>0, <1>1, <1>3
  <2>2. QED BY <1>1, <1>2, <2>1
<1>9. n = sq * q2 + (b * Base + a)
  <2>1. Base * q1 = Base * (Base * q2) + Base * b
    BY <1>1, <1>3
  <2>2. Base * (Base * q2) = sq * q2
    BY <1>0, <1>1
  <2>3. Base * b \in Nat /\ sq * q2 \in Nat /\ Base * b = b * Base
    BY <1>1
  <2>4. QED BY <1>2, <2>1, <2>2, <2>3
<1>10. n \div sq = q2
  BY <1>1, <1>8, <1>9, DivUnique
<1>11. Digit(n, sq) = c
  BY <1>4, <1>10 DEF Digit
<1>12. n \div cube = q3
  <2>1. sq * q2 = cube * q3 + sq * c
    <3>1. sq * q2 = sq * (Base * q3) + sq * c
      BY <1>1, <1>4
    <3>2. sq * (Base * q3) = cube * q3
      BY <1>0, <1>1
    <3>3. QED BY <3>1, <3>2
  <2>2. PICK r \in Nat : r = sq * c + (b * Base + a) /\ n = cube * q3 + r
    <3>1. sq * c \in Nat /\ cube * q3 \in Nat
      BY <1>1
    <3>2. QED BY <1>8, <1>9, <2>1, <3>1
  <2>3. r < cube
    <3>1. sq * c + sq <= cube
      <4>1. sq * (c + 1) <= sq * Base
        BY <1>1, <1>4
      <4>2. sq * (c + 1) = sq * c + sq
        BY <1>1
      <4>3. QED BY <1>0, <4>1, <4>2
    <3>2. sq * c \in Nat
      BY <1>1
    <3>3. QED BY <1>1, <1>8, <2>2, <3>1, <3>2
  <2>4. QED BY <1>1, <2>2, <2>3, DivUnique
<1>13. Digit(n, cube) = d
  BY <1>5, <1>12 DEF Digit
<1>14. (e * Base + d) * Base + c = q2
  <2>1. e * Base + d = q3
    BY <1>1, <1>5
  <2>2. q3 * Base + c = q2
    BY <1>1, <1>4
  <2>3. QED BY <2>1, <2>2
<1>15. n < sq => q2 = 0
  <2>1. SUFFICES ASSUME n < sq, q2 >= 1 PROVE FALSE
    OBVIOUS
  <2>2. sq * q2 >= sq
    BY <1>1, <2>1
  <2>3. sq * q2 \in Nat
    BY <1>1
  <2>4. QED BY <1>1, <1>8, <1>9, <2>1, <2>2, <2>3
<1>16. n < sq * sq => e = 0
  <2>1. SUFFICES ASSUME n < sq * sq PROVE e = 0
    OBVIOUS
  <2>2. q2 < sq
    BY <1>1, <1>10, <2>1, DivBound
  <2>3. q3 < Base
    BY <1>0, <1>1, <1>4, <2>2, DivBound
  <2>4. SUFFICES ASSUME e >= 1 PROVE FALSE
    OBVIOUS
  <2>5. Base * e >= Base
    BY <1>1, <2>4
  <2>6. Base * e \in Nat
    BY <1>1
  <2>7. QED BY <1>1, <1>5, <2>3, <2>5, <2>6
<1>17. n = ((e * Base + d) * Base + c) * sq + (b * Base + a)
  <2>1. sq * q2 = q2 * sq
    BY <1>1
  <2>2. QED BY <1>9, <1>14, <2>1
<1>18. QED
  BY <1>0, <1>6, <1>7, <1>8, <1>11, <1>13, <1>14, <1>15, <1>16, <1>17 DEF sq, cube

(* The three forms of a length code and its bytes.                          *)
OneByte(code, n) == n <= Short /\ code = <<n>>

ThreeBytes(code, n) ==
  \E b, a \in Nat : code = <<Short + 1, b, a>> /\ b * Base + a = n

NineBytes(code, n, high) ==
  \E d, c, b, a \in Nat :
    /\ code = <<Short + 2, high[1], high[2], high[3], high[4], d, c, b, a>>
    /\ (d * Base + c) * Square + (b * Base + a) = n
    /\ n >= Square

Coded(code, n, high) ==
  OneByte(code, n) \/ ThreeBytes(code, n) \/ NineBytes(code, n, high)

(* The length code and bytes written for a length say how long it is, apart *)
(* from the upper four of eight bytes.                                      *)
LEMMA LengthCode ==
  ASSUME NEW n \in Nat, n < Wide, NEW high
  PROVE  Coded(LengthBytes(n, high), n, high)
<1>1. PICK a, b, c, d, e \in Nat :
           /\ Digit(n, 1) = a /\ Digit(n, Base) = b
           /\ Digit(n, Square) = c /\ Digit(n, Square * Base) = d
           /\ n = ((e * Base + d) * Base + c) * Square + (b * Base + a)
           /\ b * Base + a < Square
           /\ n < Square => ((e * Base + d) * Base + c) = 0
           /\ n < Wide => e = 0
  BY DigitsFacts
<1>2. Base \in Nat \ {0} /\ Square \in Nat \ {0}
  BY BaseFacts
<1>3. CASE n <= Short
  BY <1>3 DEF LengthBytes, Coded, OneByte
<1>4. CASE ~(n <= Short) /\ n < Square
  <2>1. b * Base + a = n
    <3>1. ((e * Base + d) * Base + c) * Square = 0
      BY <1>1, <1>2, <1>4
    <3>2. b * Base + a \in Nat
      BY <1>2
    <3>3. QED BY <1>1, <3>1, <3>2
  <2>2. LengthBytes(n, high) = <<Short + 1, b, a>>
    BY <1>1, <1>4 DEF LengthBytes
  <2>3. QED BY <2>1, <2>2 DEF Coded, ThreeBytes
<1>5. CASE ~(n <= Short) /\ ~(n < Square)
  <2>1. e * Base + d = d
    BY <1>1, <1>2
  <2>2. (d * Base + c) * Square + (b * Base + a) = n
    BY <1>1, <2>1
  <2>3. LengthBytes(n, high) =
          <<Short + 2, high[1], high[2], high[3], high[4], d, c, b, a>>
    BY <1>1, <1>5 DEF LengthBytes
  <2>4. n >= Square
    BY <1>2, <1>5
  <2>5. QED BY <2>2, <2>3, <2>4 DEF Coded, NineBytes
<1>6. QED BY <1>3, <1>4, <1>5

(* What of a frame the parser reads: its length code at 2, the header's end *)
(* and, behind it, the payload.                                             *)
Reads(F, k, n) ==
  /\ F[2] = IF k = 2 THEN n ELSE IF k = 4 THEN Short + 1 ELSE Short + 2
  /\ k = 2 => n <= Short
  /\ k = 4 => Value2(F, 3) = n
  /\ k = 10 => Value4(F, 7) = n

(* F has a header of k bytes before the payload, of n bytes.                *)
Framed(F, first, payload, k, n) ==
  /\ F \in Seq(Nat) /\ Len(F) = k + n /\ F[1] = first
  /\ \A i \in 1 .. n : F[k + i] = payload[i]
  /\ Reads(F, k, n)

(* Every frame built is framed so, in one of the three forms.               *)
LEMMA FrameFacts ==
  ASSUME NEW first \in Nat, NEW payload \in Seq(Nat), NEW n \in Nat,
         n = Len(payload), n < Wide
  PROVE  \E k \in {2, 4, 10} : Framed(Frame(first, payload), first, payload, k, n)
<1> SUFFICES ASSUME NEW F, F = Frame(first, payload)
             PROVE  \E k \in {2, 4, 10} : Framed(F, first, payload, k, n)
  OBVIOUS
<1> USE DEF Framed
<1> DEFINE code == LengthBytes(n, Zeros)
           body == code \o payload
<1>1. F = <<first>> \o body
  BY DEF Frame
<1>2. Short \in Nat /\ Base \in Nat /\ Square \in Nat
  BY BaseFacts
<1>3. ASSUME NEW k \in Nat, body \in Seq(Nat), Len(body) = k + n,
             \A i \in 1 .. n : body[k + i] = payload[i]
      PROVE  /\ F \in Seq(Nat) /\ Len(F) = (k + 1) + n /\ F[1] = first
             /\ \A i \in 1 .. k + n : F[1 + i] = body[i]
             /\ \A i \in 1 .. n : F[(k + 1) + i] = payload[i]
  <2> HIDE DEF body
  <2>1. /\ F \in Seq(Nat) /\ Len(F) = 1 + (k + n) /\ F[1] = first
        /\ \A i \in 1 .. k + n : F[1 + i] = body[i]
    BY <1>1, <1>3
  <2>2. ASSUME NEW i \in 1 .. n PROVE F[(k + 1) + i] = payload[i]
    <3>1. k + i \in 1 .. k + n /\ 1 + (k + i) = (k + 1) + i
      OBVIOUS
    <3>2. QED BY <1>3, <2>1, <3>1
  <2>3. QED BY <2>1, <2>2
<1>4. CASE OneByte(code, n)
  <2>1. /\ body \in Seq(Nat) /\ Len(body) = 1 + n /\ body[1] = n
        /\ \A i \in 1 .. n : body[1 + i] = payload[i]
    BY <1>4 DEF OneByte
  <2> HIDE DEF body, code
  <2>2. /\ F \in Seq(Nat) /\ Len(F) = 2 + n /\ F[1] = first /\ F[2] = n
        /\ \A i \in 1 .. n : F[2 + i] = payload[i]
    BY <1>3, <2>1
  <2>3. Reads(F, 2, n)
    BY <1>4, <2>2 DEF Reads, OneByte
  <2>4. QED BY <2>2, <2>3
<1>5. CASE ThreeBytes(code, n)
  <2>1. PICK b \in Nat, a \in Nat : code = <<Short + 1, b, a>> /\ b * Base + a = n
    BY <1>5 DEF ThreeBytes
  <2>2. /\ body \in Seq(Nat) /\ Len(body) = 3 + n
        /\ body[1] = Short + 1 /\ body[2] = b /\ body[3] = a
        /\ \A i \in 1 .. n : body[3 + i] = payload[i]
    BY <1>2, <2>1
  <2> HIDE DEF body, code
  <2>3. /\ F \in Seq(Nat) /\ Len(F) = 4 + n /\ F[1] = first
        /\ F[1 + 1] = Short + 1 /\ F[1 + 2] = b /\ F[1 + 3] = a
        /\ \A i \in 1 .. n : F[4 + i] = payload[i]
    <3>1. /\ F \in Seq(Nat) /\ Len(F) = (3 + 1) + n /\ F[1] = first
          /\ \A i \in 1 .. 3 + n : F[1 + i] = body[i]
          /\ \A i \in 1 .. n : F[(3 + 1) + i] = payload[i]
      BY <1>3, <2>2
    <3>2. 1 \in 1 .. 3 + n /\ 2 \in 1 .. 3 + n /\ 3 \in 1 .. 3 + n
      OBVIOUS
    <3>3. F[1 + 1] = body[1] /\ F[1 + 2] = body[2] /\ F[1 + 3] = body[3]
      BY <3>1, <3>2
    <3>4. QED BY <2>2, <3>1, <3>3
  <2>4. Reads(F, 4, n)
    BY <2>1, <2>3 DEF Reads, Value2
  <2>5. QED BY <2>3, <2>4
<1>6. CASE NineBytes(code, n, Zeros)
  <2>1. PICK d \in Nat, c \in Nat, b \in Nat, a \in Nat :
             /\ code = <<Short + 2, Zeros[1], Zeros[2], Zeros[3], Zeros[4], d, c, b, a>>
             /\ (d * Base + c) * Square + (b * Base + a) = n
    BY <1>6 DEF NineBytes
  <2>2. code = <<Short + 2, 0, 0, 0, 0, d, c, b, a>>
    BY <2>1 DEF Zeros
  <2>3. /\ body \in Seq(Nat) /\ Len(body) = 9 + n
        /\ body[1] = Short + 2
        /\ body[6] = d /\ body[7] = c /\ body[8] = b /\ body[9] = a
        /\ \A i \in 1 .. n : body[9 + i] = payload[i]
    BY <1>2, <2>2
  <2> HIDE DEF body, code
  <2>4. /\ F \in Seq(Nat) /\ Len(F) = 10 + n /\ F[1] = first
        /\ F[1 + 1] = Short + 2 /\ F[1 + 6] = d /\ F[1 + 7] = c
        /\ F[1 + 8] = b /\ F[1 + 9] = a
        /\ \A i \in 1 .. n : F[10 + i] = payload[i]
    <3>1. /\ F \in Seq(Nat) /\ Len(F) = (9 + 1) + n /\ F[1] = first
          /\ \A i \in 1 .. 9 + n : F[1 + i] = body[i]
          /\ \A i \in 1 .. n : F[(9 + 1) + i] = payload[i]
      BY <1>3, <2>3
    <3>2. /\ 1 \in 1 .. 9 + n /\ 6 \in 1 .. 9 + n /\ 7 \in 1 .. 9 + n
          /\ 8 \in 1 .. 9 + n /\ 9 \in 1 .. 9 + n
      OBVIOUS
    <3>3. /\ F[1 + 1] = body[1] /\ F[1 + 6] = body[6] /\ F[1 + 7] = body[7]
          /\ F[1 + 8] = body[8] /\ F[1 + 9] = body[9]
      BY <3>1, <3>2
    <3>4. QED BY <2>3, <3>1, <3>3
  <2>5. Reads(F, 10, n)
    <3>1. F[2] = Short + 2 /\ F[7] = d /\ F[8] = c /\ F[9] = b /\ F[10] = a
      BY <2>4
    <3>2. Value2(F, 7) = d * Base + c /\ Value2(F, 7 + 2) = b * Base + a
      BY <3>1 DEF Value2
    <3>3. Value4(F, 7) = n
      BY <2>1, <3>2 DEF Value4
    <3>4. QED BY <3>1, <3>3 DEF Reads
  <2>6. QED BY <2>4, <2>5
<1>7. Coded(code, n, Zeros)
  BY LengthCode DEF code
<1> HIDE DEF code, body, Framed
<1>8. QED BY <1>4, <1>5, <1>6, <1>7 DEF Coded

(* bytes are the first m of F.                                              *)
Starts(bytes, F, m) == Len(bytes) = m /\ \A i \in 1 .. m : bytes[i] = F[i]

(* Complete with all k + n bytes and not before, with a header of k.        *)
Ended(bytes, m, k, n) ==
  /\ IsComplete(bytes) <=> m = k + n
  /\ IsComplete(bytes) => HeaderLen(bytes) = k

(* The parser knows a frame's end, and only its end: bytes are the first m  *)
(* of F.                                                                    *)
LEMMA FrameStart ==
  ASSUME NEW F, NEW k \in {2, 4, 10}, NEW n \in Nat, Reads(F, k, n),
         NEW bytes, NEW m \in Nat, Starts(bytes, F, m), m <= k + n
  PROVE  Ended(bytes, m, k, n)
<1>1. Short \in Nat \ {0} /\ Short + 2 < 128
  BY BaseFacts
<1> USE DEF Starts, Ended
<1>2. CASE m < 2
  BY <1>2 DEF IsComplete
<1>3. ASSUME m >= 2
      PROVE  /\ HeaderLen(bytes) = k
             /\ m >= k => PayloadLen(bytes) = n
  <2>1. bytes[2] = F[2]
    BY <1>3
  <2>2. F[2] \in Nat /\ F[2] <= Short + 2
        /\ (k = 2 <=> F[2] # Short + 1 /\ F[2] # Short + 2)
        /\ (k = 4 <=> F[2] = Short + 1) /\ (k = 10 <=> F[2] = Short + 2)
    BY <1>1 DEF Reads
  <2>3. Code(bytes) = F[2]
    BY <1>1, <2>1, <2>2 DEF Code, Fin
  <2>4. HeaderLen(bytes) = k
    BY <1>1, <2>2, <2>3 DEF HeaderLen
  <2>5. ASSUME m >= k PROVE PayloadLen(bytes) = n
    <3>1. CASE k = 2
      <4>1. PayloadLen(bytes) = F[2]
        BY <1>1, <2>2, <2>3, <3>1 DEF PayloadLen
      <4>2. QED BY <3>1, <4>1 DEF Reads
    <3>2. CASE k = 4
      <4>1. bytes[3] = F[3] /\ bytes[3 + 1] = F[3 + 1]
        BY <2>5, <3>2
      <4>2. Value2(bytes, 3) = Value2(F, 3)
        BY <4>1 DEF Value2
      <4>3. PayloadLen(bytes) = Value2(bytes, 3)
        BY <2>2, <2>3, <3>2 DEF PayloadLen
      <4>4. QED BY <3>2, <4>2, <4>3 DEF Reads
    <3>3. CASE k = 10
      <4>1. /\ bytes[7] = F[7] /\ bytes[7 + 1] = F[7 + 1]
            /\ bytes[7 + 2] = F[7 + 2] /\ bytes[7 + 2 + 1] = F[7 + 2 + 1]
        BY <2>5, <3>3
      <4>2. Value4(bytes, 7) = Value4(F, 7)
        BY <4>1 DEF Value2, Value4
      <4>3. PayloadLen(bytes) = Value4(bytes, 7)
        BY <1>1, <2>2, <2>3, <3>3 DEF PayloadLen
      <4>4. QED BY <3>3, <4>2, <4>3 DEF Reads
    <3>4. QED BY <3>1, <3>2, <3>3
  <2>6. QED BY <2>4, <2>5
<1>4. CASE m >= 2
  <2>1. HeaderLen(bytes) = k /\ (m >= k => PayloadLen(bytes) = n)
    BY <1>3, <1>4
  <2>2. QED BY <1>4, <2>1 DEF IsComplete
<1>5. QED BY <1>2, <1>4

(* Put together in order from the newest, or torn, they are a payload.      *)
LEMMA AssembledType ==
  ASSUME NEW parts \in Seq(Payload), parts # <<>>
  PROVE  Assembled(parts) \in Payload
<1> DEFINE newest == Len(parts[1])
           oldest == Len(parts[Len(parts)])
           gap == newest - oldest
<1>1. newest \in Nat /\ oldest \in Nat
  <2>1. Len(parts) \in Nat /\ 1 \in 1 .. Len(parts) /\ Len(parts) \in 1 .. Len(parts)
    BY EmptySeq
  <2>2. parts[1] \in Seq(Nat) /\ parts[Len(parts)] \in Seq(Nat)
    BY <2>1, ElementOfSeq DEF Payload
  <2>3. QED BY <2>2, LenProperties
<1>2. Reverse(parts) \in Seq(Seq(Nat))
  BY ReverseFacts DEF Payload
<1>3. FlattenSeq(Reverse(parts)) \in Seq(Nat)
  BY <1>2, FlattenType
<1> DEFINE blanks == [i \in 1 .. gap |-> Blank]
<1>4. gap >= 0 => blanks \in Seq(Nat)
  BY <1>1 DEF Blank
<1> DEFINE flat == FlattenSeq(Reverse(parts))
<1>5. Assembled(parts) = IF newest < oldest THEN Torn ELSE blanks \o flat
  BY DEF Assembled
<1> HIDE DEF newest, oldest, flat
<1>6. CASE newest < oldest
  BY <1>5, <1>6 DEF Torn, Blank, Payload
<1>7. CASE ~(newest < oldest)
  <2>1. blanks \in Seq(Nat)
    BY <1>1, <1>4, <1>7
  <2> HIDE DEF blanks
  <2>2. blanks \o flat \in Seq(Nat)
    BY <1>3, <2>1, ConcatProperties DEF flat
  <2>3. QED BY <1>5, <1>7, <2>2 DEF Payload
<1>8. QED BY <1>6, <1>7

(* A message whose first and last parts are equally long is put together    *)
(* whole, without a gap.                                                    *)
LEMMA AssembledEven ==
  ASSUME NEW s \in Seq(Payload), s # <<>>, Len(s[1]) = Len(Last(s))
  PROVE  Assembled(Reverse(s)) = Whole(s)
<1> DEFINE r == Reverse(s)
<1>1. /\ Len(s) \in Nat \ {0} /\ Len(r) = Len(s)
      /\ \A i \in 1 .. Len(s) : r[i] = s[Len(s) - i + 1]
  BY ReverseFacts, EmptySeq
<1>2. r[1] = Last(s) /\ r[Len(r)] = s[1]
  <2> HIDE DEF r
  <2>1. 1 \in 1 .. Len(s) /\ Len(s) \in 1 .. Len(s)
        /\ Len(s) - 1 + 1 = Len(s) /\ Len(s) - Len(s) + 1 = 1
    BY <1>1
  <2>2. QED BY <1>1, <2>1 DEF Last
<1>3. Len(s[1]) \in Nat
  BY <1>1, ElementOfSeq, LenProperties DEF Payload
<1>4. Reverse(r) = s
  BY ReverseTwice
<1>5. FlattenSeq(s) \in Seq(Nat)
  BY FlattenType DEF Payload
<1> HIDE DEF r
<1>6. Assembled(r) = [i \in 1 .. 0 |-> Blank] \o FlattenSeq(s)
  <2>1. PICK k \in Nat : k = Len(r[1]) /\ k = Len(r[Len(r)])
    BY <1>2, <1>3
  <2>2. Assembled(r) = IF k < k THEN Torn
                       ELSE [i \in 1 .. k - k |-> Blank] \o FlattenSeq(Reverse(r))
    BY <2>1 DEF Assembled
  <2>3. ~(k < k) /\ k - k = 0
    OBVIOUS
  <2>4. QED BY <1>4, <2>2, <2>3
<1>7. [i \in 1 .. 0 |-> Blank] = <<>>
  OBVIOUS
<1>8. <<>> \o FlattenSeq(s) = FlattenSeq(s)
  BY <1>5, ConcatEmptySeq
<1>9. QED BY <1>6, <1>7, <1>8 DEF Whole, r

-----------------------------------------------------------------------------
(* The inductive invariant.                                                 *)

(* With no byte to be read every finished message was passed on, and the    *)
(* frames kept are those of the unfinished one.                             *)
Resting == Len(message) = Len(sent) /\ Reverse(prev) = open

(* The frame on its way ends a message, or is the last of those sent of an  *)
(* unfinished one; the frames before it are kept.                           *)
Arriving(first, payload) ==
  IF first >= Fin
    THEN /\ Len(sent) = Len(message) + 1 /\ open = <<>>
         /\ sent[Len(sent)] = Append(Reverse(prev), payload)
    ELSE /\ Len(sent) = Len(message)
         /\ open = Append(Reverse(prev), payload)

(* The bytes read of a frame and those to be read are one frame.            *)
Coming(first, payload) ==
  /\ first \in Nat /\ payload \in Payload /\ Len(payload) < Wide
  /\ raw \o wire = Frame(first, payload)
  /\ control = 0 => Arriving(first, payload)

Stream ==
  IF wire = <<>> THEN raw = <<>> /\ (control = 0 => Resting)
                 ELSE \E first \in Nat, payload \in Payload : Coming(first, payload)

Delivered ==
  control = 0 =>
    /\ Len(message) <= Len(sent)
    /\ \A i \in 1 .. Len(message) :
         sent[i] # <<>> /\ message[i] = Assembled(Reverse(sent[i]))

IInv == TypeOK /\ capacity \in Nat /\ Stream /\ Delivered

LEMMA InitIInv == Init => IInv
<1> SUFFICES ASSUME Init PROVE IInv
  OBVIOUS
<1>1. /\ raw = <<>> /\ prev = <<>> /\ message = <<>> /\ wire = <<>>
      /\ sent = <<>> /\ open = <<>> /\ control = 0 /\ capacity = Chunk
      /\ sending = [len |-> 0, said |-> 0]
  BY DEF Init
<1>2. Chunk \in Nat \ {0}
  BY FrameAssumption
<1>3. TypeOK
  <2>1. Chunk % Chunk = 0
    BY <1>2, DivUnique
  <2>2. \A S : <<>> \in Seq(S)
    BY EmptySeq
  <2>3. sending.len = 0 /\ sending.said = 0
    BY <1>1
  <2>4. QED BY <1>1, <2>1, <2>2, <2>3 DEF TypeOK
<1>4. Reverse(prev) = <<>>
  BY <1>1 DEF Reverse
<1>5. Stream
  BY <1>1, <1>4 DEF Stream, Resting
<1>6. Delivered
  BY <1>1 DEF Delivered
<1>7. QED BY <1>1, <1>2, <1>3, <1>5, <1>6 DEF IInv

(* Reading a byte moves the border between what was and what is to be read. *)
LEMMA Shifted ==
  ASSUME NEW r \in Seq(Nat), NEW w \in Seq(Nat), w # <<>>
  PROVE  Append(r, Head(w)) \o Tail(w) = r \o w
<1>1. PICK h, t : h = Head(w) /\ t = Tail(w)
  OBVIOUS
<1>2. h \in Nat /\ t \in Seq(Nat) /\ <<h>> \in Seq(Nat)
  BY <1>1, HeadTailProperties
<1>3. <<h>> \o t = w
  <2>1. <<h>> \o t \in Seq(Nat) /\ Len(<<h>> \o t) = Len(w)
    BY <1>1, <1>2, HeadTailProperties
  <2>2. \A i \in 1 .. Len(w) : (<<h>> \o t)[i] = w[i]
    BY <1>1, <1>2, HeadTailProperties
  <2>3. QED BY <2>1, <2>2, SeqEqual
<1>4. Append(r, h) = r \o <<h>>
  BY <1>2, AppendIsConcat
<1>5. (r \o <<h>>) \o t = r \o (<<h>> \o t)
  BY <1>2, ConcatAssociative
<1>6. QED BY <1>1, <1>3, <1>4, <1>5

LEMMA FirstOf ==
  ASSUME NEW b \in Seq(Nat), NEW t \in Seq(Nat)
  PROVE  /\ Len(b \o t) = Len(b) + Len(t)
         /\ \A i \in 1 .. Len(b) : b[i] = (b \o t)[i]
<1>1. PICK F : F = b \o t
  OBVIOUS
<1>2. PICK m \in Nat, l \in Nat : m = Len(b) /\ l = Len(t)
  BY LenProperties
<1>3. Len(F) = m + l /\ \A i \in 1 .. m + l : F[i] = IF i <= m THEN b[i] ELSE t[i - m]
  BY <1>1, <1>2, ConcatProperties
<1>4. \A i \in 1 .. m : b[i] = F[i]
  BY <1>3
<1>5. QED BY <1>1, <1>2, <1>3, <1>4

LEMMA SubSeqFacts ==
  ASSUME NEW b, NEW j \in Nat, NEW l \in Nat, \A i \in j .. l : b[i] \in Nat,
         NEW p, p = SubSeq(b, j, l)
  PROVE  /\ p \in Seq(Nat) /\ Len(p) = IF j <= l THEN l - j + 1 ELSE 0
         /\ \A i \in 1 .. l - j + 1 : p[i] = b[j + i - 1]
<1>1. j \in Int /\ l \in Int
  OBVIOUS
<1>2. QED BY <1>1, SubSeqProperties

(* The bytes that follow a header are its payload.                          *)
LEMMA Behind ==
  ASSUME NEW b \in Seq(Nat), NEW h \in Nat, NEW n \in Nat, Len(b) = h + n,
         NEW payload \in Seq(Nat), Len(payload) = n,
         \A i \in 1 .. n : b[h + i] = payload[i]
  PROVE  SubSeq(b, h + 1, h + n) = payload
<1>1. PICK j \in Nat : j = h + 1
  OBVIOUS
<1>2. PICK l \in Nat : l = h + n
  OBVIOUS
<1>3. PICK p : p = SubSeq(b, j, l)
  OBVIOUS
<1>4. \A i \in j .. l : b[i] \in Nat
  <2>1. ASSUME NEW i \in j .. l PROVE b[i] \in Nat
    <3>1. i \in 1 .. Len(b)
      BY <1>1, <1>2
    <3>2. QED BY <3>1, ElementOfSeq
  <2>2. QED BY <2>1
<1>5. /\ p \in Seq(Nat) /\ Len(p) = IF j <= l THEN l - j + 1 ELSE 0
      /\ \A i \in 1 .. l - j + 1 : p[i] = b[j + i - 1]
  BY <1>3, <1>4, SubSeqFacts
<1>6. l - j + 1 = n
  BY <1>1, <1>2
<1>7. Len(p) = n
  <2>1. j <= l <=> n >= 1
    BY <1>1, <1>2
  <2>2. QED BY <1>5, <1>6, <2>1
<1>8. ASSUME NEW i \in 1 .. n PROVE p[i] = payload[i]
  <2>1. i \in 1 .. l - j + 1 /\ j + i - 1 = h + i
    BY <1>1, <1>6
  <2>2. QED BY <1>5, <2>1
<1>9. p = payload
  BY <1>5, <1>7, <1>8, SeqEqual
<1>10. QED BY <1>1, <1>2, <1>3, <1>9

(* A frame with l bytes to be read is complete if there are none.           *)
Known(bytes, first, payload, l) ==
  /\ IsComplete(bytes) <=> l = 0
  /\ IsComplete(bytes) => PayloadOf(bytes) = payload /\ bytes[1] = first

(* Of the m bytes read and the l to be read of a frame.                     *)
LEMMA FrameRead ==
  ASSUME NEW first, NEW payload \in Seq(Nat), NEW n \in Nat, Len(payload) = n,
         NEW F, NEW h \in {2, 4, 10}, Framed(F, first, payload, h, n),
         NEW bytes \in Seq(Nat), NEW m \in Nat, Starts(bytes, F, m),
         NEW l \in Nat, m + l = h + n
  PROVE  Known(bytes, first, payload, l)
<1>1. Ended(bytes, m, h, n)
  <2>1. Reads(F, h, n)
    BY DEF Framed
  <2>2. m <= h + n
    OBVIOUS
  <2>3. QED BY <2>1, <2>2, FrameStart
<1>2. IsComplete(bytes) <=> l = 0
  BY <1>1 DEF Ended
<1>3. ASSUME IsComplete(bytes)
      PROVE  PayloadOf(bytes) = payload /\ bytes[1] = first
  <2>1. m = h + n /\ HeaderLen(bytes) = h
    BY <1>1, <1>3 DEF Ended
  <2>2. Len(bytes) = m /\ \A i \in 1 .. m : bytes[i] = F[i]
    BY DEF Starts
  <2>3. F[1] = first /\ \A i \in 1 .. n : F[h + i] = payload[i]
    BY DEF Framed
  <2>4. bytes[1] = first
    <3>1. 1 \in 1 .. m
      BY <2>1
    <3>2. QED BY <2>2, <2>3, <3>1
  <2>5. \A i \in 1 .. n : bytes[h + i] = payload[i]
    <3>1. \A i \in 1 .. n : h + i \in 1 .. m
      BY <2>1
    <3>2. QED BY <2>2, <2>3, <3>1
  <2>6. PayloadOf(bytes) = SubSeq(bytes, h + 1, h + n)
    BY <2>1, <2>2 DEF PayloadOf
  <2>7. SubSeq(bytes, h + 1, h + n) = payload
    <3>1. h \in Nat /\ Len(bytes) = h + n
      BY <2>1, <2>2
    <3>2. QED BY <2>5, <3>1, Behind
  <2>8. QED BY <2>4, <2>6, <2>7
<1>4. QED BY <1>2, <1>3 DEF Known

(* The frame as what was read and what is to be read of it.                 *)
Halves(first, payload, bytes, rest) ==
  /\ bytes \in Seq(Nat) /\ rest \in Seq(Nat)
  /\ bytes \o rest = Frame(first, payload)
  /\ IsComplete(bytes) <=> rest = <<>>
  /\ IsComplete(bytes) => PayloadOf(bytes) = payload /\ bytes[1] = first

(* What a byte that is read makes of the frame on its way.                  *)
LEMMA ByteRead ==
  ASSUME IInv, wire # <<>>,
         NEW first \in Nat, NEW payload \in Payload, Coming(first, payload),
         NEW bytes, bytes = Append(raw, Head(wire)),
         NEW rest, rest = Tail(wire)
  PROVE  Halves(first, payload, bytes, rest)
<1>1. raw \in Seq(Nat) /\ wire \in Seq(Nat) /\ payload \in Seq(Nat)
  BY DEF IInv, TypeOK, Payload
<1>2. bytes \in Seq(Nat) /\ rest \in Seq(Nat)
  BY <1>1, HeadTailProperties, AppendProperties
<1>3. PICK F : F = Frame(first, payload)
  OBVIOUS
<1>4. bytes \o rest = F
  <2>1. bytes \o rest = raw \o wire
    BY <1>1, Shifted
  <2>2. QED BY <1>3, <2>1 DEF Coming
<1>5. PICK m \in Nat, l \in Nat : m = Len(bytes) /\ l = Len(rest)
  BY <1>2, LenProperties
<1>6. Len(F) = m + l /\ \A i \in 1 .. m : bytes[i] = F[i]
  BY <1>2, <1>4, <1>5, FirstOf
<1>7. PICK n \in Nat : n = Len(payload) /\ n < Wide
  BY <1>1, LenProperties DEF Coming
<1>8. PICK h \in {2, 4, 10} : Framed(F, first, payload, h, n)
  BY <1>1, <1>3, <1>7, FrameFacts
<1>9. m + l = h + n
  BY <1>6, <1>8 DEF Framed
<1>10. Starts(bytes, F, m)
  BY <1>5, <1>6 DEF Starts
<1>11. rest = <<>> <=> l = 0
  BY <1>2, <1>5, EmptySeq
<1>12. Known(bytes, first, payload, l)
  <2>1. Len(payload) = n
    BY <1>7
  <2> HIDE <1>6
  <2>2. QED BY <1>1, <1>2, <1>8, <1>9, <1>10, <2>1, FrameRead
<1>13. QED BY <1>2, <1>3, <1>4, <1>11, <1>12 DEF Known, Halves

(* What ParseChar does, told of the frame on its way: the last of its bytes *)
(* hands its payload on, any other is stored.                               *)
LEMMA ParseCharStep ==
  ASSUME IInv, ParseChar
  PROVE  \E first \in Nat, payload \in Payload,
            bytes \in Seq(Nat), rest \in Seq(Nat) :
           /\ Coming(first, payload)
           /\ bytes \o rest = Frame(first, payload)
           /\ wire' = rest
           /\ IF rest = <<>>
                THEN /\ raw' = <<>> /\ capacity' = Chunk
                     /\ prev' = Kept(first >= Fin, <<payload>> \o prev)
                     /\ message' = IF first >= Fin
                          THEN Append(message, Assembled(<<payload>> \o prev))
                          ELSE message
                ELSE /\ raw' = bytes /\ capacity' = Room(capacity, Len(raw))
                     /\ prev' = prev /\ message' = message
<1>1. wire # <<>>
  BY DEF ParseChar
<1>2. PICK first \in Nat, payload \in Payload : Coming(first, payload)
  BY <1>1 DEF IInv, Stream
<1>3. PICK bytes : bytes = Append(raw, Head(wire))
  OBVIOUS
<1>4. PICK rest : rest = Tail(wire)
  OBVIOUS
<1>5. Halves(first, payload, bytes, rest)
  BY <1>1, <1>2, <1>3, <1>4, ByteRead
<1>6. wire' = rest
  BY <1>4 DEF ParseChar
<1>7. /\ IsComplete(bytes) =>
           /\ raw' = <<>> /\ capacity' = Chunk
           /\ prev' = Kept(bytes[1] >= Fin, <<PayloadOf(bytes)>> \o prev)
           /\ message' = IF bytes[1] >= Fin
                THEN Append(message, Assembled(<<PayloadOf(bytes)>> \o prev))
                ELSE message
      /\ ~IsComplete(bytes) =>
           /\ raw' = bytes /\ capacity' = Room(capacity, Len(raw))
           /\ prev' = prev /\ message' = message
  BY <1>3 DEF ParseChar
<1>8. CASE rest = <<>>
  <2>1. IsComplete(bytes) /\ PayloadOf(bytes) = payload /\ bytes[1] = first
    BY <1>5, <1>8 DEF Halves
  <2>2. QED BY <1>2, <1>5, <1>6, <1>7, <1>8, <2>1 DEF Halves
<1>9. CASE rest # <<>>
  BY <1>2, <1>5, <1>6, <1>7, <1>9 DEF Halves
<1>10. QED BY <1>8, <1>9

LEMMA ParseCharIInv ==
  ASSUME IInv, ParseChar
  PROVE  IInv'
<1>1. PICK first \in Nat, payload \in Payload,
            bytes \in Seq(Nat), rest \in Seq(Nat) :
           /\ Coming(first, payload)
           /\ bytes \o rest = Frame(first, payload)
           /\ wire' = rest
           /\ IF rest = <<>>
                THEN /\ raw' = <<>> /\ capacity' = Chunk
                     /\ prev' = Kept(first >= Fin, <<payload>> \o prev)
                     /\ message' = IF first >= Fin
                          THEN Append(message, Assembled(<<payload>> \o prev))
                          ELSE message
                ELSE /\ raw' = bytes /\ capacity' = Room(capacity, Len(raw))
                     /\ prev' = prev /\ message' = message
  BY ParseCharStep
<1>2. sent' = sent /\ open' = open /\ control' = control /\ sending' = sending
  BY DEF ParseChar
<1>3. TypeOK /\ capacity \in Nat /\ Stream /\ Delivered /\ Chunk \in Nat \ {0}
  BY FrameAssumption DEF IInv
<1>4. PICK parts : parts = <<payload>> \o prev
  OBVIOUS
<1>5. prev \in Seq(Payload) /\ parts \in Seq(Payload) /\ parts # <<>>
  BY <1>3, <1>4 DEF TypeOK
<1>6. Reverse(parts) = Append(Reverse(prev), payload)
  BY <1>4, <1>5, ReverseCons
<1>7. Chunk % Chunk = 0
  BY <1>3, DivUnique
<1>8. CASE rest # <<>>
  <2>1. capacity' \in Nat /\ capacity' % Chunk = 0
    <3>1. capacity % Chunk = 0 /\ capacity \in Nat
      BY <1>3 DEF TypeOK
    <3>2. (capacity + Chunk) % Chunk = 0
      BY <1>3, <3>1, ModAdd
    <3>3. capacity' = capacity \/ capacity' = capacity + Chunk
      BY <1>1, <1>8 DEF Room
    <3>4. QED BY <1>3, <3>1, <3>2, <3>3
  <2>2. raw' = bytes /\ prev' = prev /\ message' = message
    BY <1>1, <1>8
  <2>3. TypeOK'
    BY <1>1, <1>2, <1>3, <2>1, <2>2 DEF TypeOK
  <2>4. Coming(first, payload)'
    BY <1>1, <1>2, <2>2 DEF Coming, Arriving
  <2>5. Stream'
    <3>1. wire' # <<>>
      BY <1>1, <1>8
    <3>2. QED BY <2>4, <3>1 DEF Stream
  <2>6. Delivered'
    BY <1>2, <1>3, <2>2 DEF Delivered
  <2>7. QED BY <2>1, <2>3, <2>5, <2>6 DEF IInv
<1>9. CASE rest = <<>> /\ first >= Fin
  <2>1. PICK whole : whole = Assembled(parts)
    OBVIOUS
  <2>2. whole \in Payload
    BY <1>5, <2>1, AssembledType
  <2>3. /\ raw' = <<>> /\ wire' = <<>> /\ capacity' = Chunk /\ prev' = <<>>
        /\ message' = Append(message, whole)
    BY <1>1, <1>4, <1>9, <2>1 DEF Kept
  <2>4. message \in Seq(Payload) /\ Len(message) \in Nat
    BY <1>3, LenProperties DEF TypeOK
  <2>5. /\ message' \in Seq(Payload) /\ Len(message') = Len(message) + 1
        /\ \A i \in 1 .. Len(message) : message'[i] = message[i]
        /\ message'[Len(message) + 1] = whole
    BY <2>2, <2>3, <2>4, AppendProperties
  <2>6. TypeOK'
    <3>1. <<>> \in Seq(Nat) /\ <<>> \in Seq(Payload)
      BY EmptySeq
    <3>2. QED BY <1>2, <1>3, <1>7, <2>3, <2>5, <3>1 DEF TypeOK
  <2>7. ASSUME control = 0
        PROVE  /\ Len(sent) = Len(message) + 1 /\ open = <<>>
               /\ sent[Len(message) + 1] = Reverse(parts)
    BY <1>1, <1>6, <1>9, <2>7 DEF Coming, Arriving
  <2>8. Stream'
    <3>1. control = 0 => Resting'
      <4>1. Reverse(<<>>) = <<>>
        BY DEF Reverse
      <4>2. QED BY <1>2, <2>3, <2>5, <2>7, <4>1 DEF Resting
    <3>2. QED BY <1>2, <2>3, <3>1 DEF Stream
  <2>9. Delivered'
    <3>1. SUFFICES ASSUME control = 0
                   PROVE  /\ Len(message') <= Len(sent)
                          /\ \A i \in 1 .. Len(message') :
                               sent[i] # <<>> /\ message'[i] = Assembled(Reverse(sent[i]))
      BY <1>2 DEF Delivered
    <3>2. PICK k \in Nat : k = Len(message)
      BY <2>4
    <3>3. Len(sent) = k + 1 /\ Len(message') = k + 1
      BY <2>5, <2>7, <3>1, <3>2
    <3>4. ASSUME NEW i \in 1 .. k
          PROVE  sent[i] # <<>> /\ message'[i] = Assembled(Reverse(sent[i]))
      BY <1>3, <2>5, <3>1, <3>2 DEF Delivered
    <3>5. sent[k + 1] # <<>> /\ message'[k + 1] = Assembled(Reverse(sent[k + 1]))
      <4>1. sent[k + 1] = Reverse(parts)
        BY <2>7, <3>1, <3>2
      <4>2. Reverse(sent[k + 1]) = parts
        BY <1>5, <4>1, ReverseTwice
      <4>3. sent[k + 1] # <<>>
        <5>1. Reverse(<<>>) = <<>>
          BY DEF Reverse
        <5>2. QED BY <1>5, <4>2, <5>1
      <4>4. message'[k + 1] = whole
        BY <2>5, <3>2
      <4>5. QED BY <2>1, <4>2, <4>3, <4>4
    <3>6. \A i \in 1 .. k + 1 : i \in 1 .. k \/ i = k + 1
      OBVIOUS
    <3>7. QED BY <3>3, <3>4, <3>5, <3>6
  <2>10. capacity' \in Nat
    BY <1>3, <2>3
  <2>11. QED BY <2>6, <2>8, <2>9, <2>10 DEF IInv
<1>10. CASE rest = <<>> /\ ~(first >= Fin)
  <2>1. /\ raw' = <<>> /\ wire' = <<>> /\ capacity' = Chunk /\ prev' = parts
        /\ message' = message
    BY <1>1, <1>4, <1>10 DEF Kept
  <2>2. TypeOK'
    <3>1. <<>> \in Seq(Nat)
      BY EmptySeq
    <3>2. QED BY <1>2, <1>3, <1>5, <1>7, <2>1, <3>1 DEF TypeOK
  <2>3. control = 0 => Len(sent) = Len(message) /\ open = Reverse(parts)
    BY <1>1, <1>6, <1>10 DEF Coming, Arriving
  <2>4. Stream'
    BY <1>2, <2>1, <2>3 DEF Stream, Resting
  <2>5. Delivered'
    BY <1>2, <1>3, <2>1 DEF Delivered
  <2>6. capacity' \in Nat
    BY <1>3, <2>1
  <2>7. QED BY <2>2, <2>4, <2>5, <2>6 DEF IInv
<1>11. QED BY <1>8, <1>9, <1>10

(* Front, which takes an unfinished message back.                           *)
LEMMA FrontFacts ==
  ASSUME NEW S, NEW s \in Seq(S), NEW n \in Nat, n = Len(s), n # 0
  PROVE  /\ Front(s) \in Seq(S) /\ Len(Front(s)) = n - 1
         /\ \A i \in 1 .. n - 1 : Front(s)[i] = s[i]
<1>1. PICK j \in Nat : j = n - 1
  OBVIOUS
<1>2. PICK f : f = SubSeq(s, 1, j)
  OBVIOUS
<1>3. Front(s) = f
  BY <1>1, <1>2 DEF Front
<1>4. \A i \in 1 .. j : s[i] \in S
  BY <1>1, ElementOfSeq
<1>5. /\ f \in Seq(S) /\ Len(f) = IF 1 <= j THEN j - 1 + 1 ELSE 0
      /\ \A i \in 1 .. j - 1 + 1 : f[i] = s[1 + i - 1]
  BY <1>2, <1>4, SubSeqProperties
<1>6. QED BY <1>1, <1>3, <1>5

(* A disconnect takes back a message that was not passed on, if there is    *)
(* one, and leaves nothing of a frame or a message behind.                  *)
LEMMA DisconectIInv ==
  ASSUME IInv, Disconect
  PROVE  IInv'
<1>1. /\ raw' = <<>> /\ capacity' = Chunk /\ prev' = <<>>
      /\ wire' = <<>> /\ open' = <<>>
      /\ sent' = IF Len(sent) > Len(message) THEN Front(sent) ELSE sent
      /\ message' = message /\ control' = control /\ sending' = sending
  BY DEF Disconect
<1>2. TypeOK /\ Stream /\ Delivered /\ Chunk \in Nat \ {0}
  BY FrameAssumption DEF IInv
<1>3. sent \in Seq(Seq(Payload)) /\ message \in Seq(Payload)
  BY <1>2 DEF TypeOK
<1>4. PICK n \in Nat, k \in Nat : n = Len(sent) /\ k = Len(message)
  BY <1>3, LenProperties
<1>5. control = 0 => n = k \/ n = k + 1
  BY <1>2, <1>4 DEF Stream, Resting, Coming, Arriving
<1>6. ASSUME n > k
      PROVE  /\ sent' \in Seq(Seq(Payload)) /\ Len(sent') = n - 1
             /\ \A i \in 1 .. n - 1 : sent'[i] = sent[i]
  <2>2. sent' = Front(sent)
    BY <1>1, <1>4, <1>6
  <2>3. PICK f : f = Front(sent)
    OBVIOUS
  <2>4. f \in Seq(Seq(Payload)) /\ Len(f) = n - 1
        /\ \A i \in 1 .. n - 1 : f[i] = sent[i]
    <3>1. n # 0
      BY <1>6
    <3>2. QED BY <1>3, <1>4, <2>3, <3>1, FrontFacts
  <2>5. QED BY <2>2, <2>3, <2>4
<1>7. ~(n > k) => sent' = sent
  BY <1>1, <1>4
<1>8. PICK m \in Nat : m = Len(sent') /\ (control = 0 => m = k) /\ m <= n
                       /\ \A i \in 1 .. m : sent'[i] = sent[i]
  BY <1>4, <1>5, <1>6, <1>7
<1>9. TypeOK'
  <2>1. <<>> \in Seq(Nat) /\ <<>> \in Seq(Payload) /\ Chunk % Chunk = 0
    BY <1>2, EmptySeq, DivUnique
  <2>2. sent' \in Seq(Seq(Payload))
    BY <1>3, <1>6, <1>7
  <2>3. QED BY <1>1, <1>2, <2>1, <2>2 DEF TypeOK
<1>10. Stream'
  <2>1. Reverse(<<>>) = <<>>
    BY DEF Reverse
  <2>2. QED BY <1>1, <1>4, <1>8, <2>1 DEF Stream, Resting
<1>11. Delivered'
  <2>1. SUFFICES ASSUME control = 0
                 PROVE  /\ k <= m
                        /\ \A i \in 1 .. k :
                             sent'[i] # <<>> /\ message[i] = Assembled(Reverse(sent'[i]))
    BY <1>1, <1>4, <1>8 DEF Delivered
  <2>2. k = m /\ \A i \in 1 .. k : sent'[i] = sent[i]
    BY <1>8, <2>1
  <2>3. \A i \in 1 .. k : sent[i] # <<>> /\ message[i] = Assembled(Reverse(sent[i]))
    BY <1>2, <1>4, <2>1 DEF Delivered
  <2>4. QED BY <2>2, <2>3
<1>12. QED BY <1>1, <1>2, <1>9, <1>10, <1>11 DEF IInv

(* The frame the server writes with nothing on its way.                     *)
LEMMA Written ==
  ASSUME NEW first \in Nat, NEW payload \in Payload, Len(payload) < Wide,
         NEW r, NEW w, r = <<>>, w = Frame(first, payload)
  PROVE  w \in Seq(Nat) /\ w # <<>> /\ r \o w = Frame(first, payload)
<1>1. payload \in Seq(Nat)
  BY DEF Payload
<1>2. PICK n \in Nat : n = Len(payload) /\ n < Wide
  BY <1>1, LenProperties
<1>3. PICK h \in {2, 4, 10} : Framed(w, first, payload, h, n)
  BY <1>1, <1>2, FrameFacts
<1>4. w \in Seq(Nat) /\ Len(w) = h + n
  BY <1>3 DEF Framed
<1>5. w # <<>>
  BY <1>4, EmptySeq
<1>6. <<>> \o w = w
  BY <1>4, ConcatEmptySeq
<1>7. QED BY <1>4, <1>5, <1>6

(* What the server sends is a payload of the length asked for.              *)
LEMMA FreshFacts ==
  ASSUME TypeOK, NEW n \in Nat
  PROVE  Fresh(n) \in Payload /\ Len(Fresh(n)) = n
<1>1. FlattenSeq(sent) \in Seq(Payload) /\ open \in Seq(Payload)
  BY FlattenType DEF TypeOK
<1>2. FlattenSeq(sent) \o open \in Seq(Seq(Nat))
  BY <1>1, ConcatProperties DEF Payload
<1>3. PICK last \in Nat : last = Len(Whole(FlattenSeq(sent) \o open))
  BY <1>2, FlattenType, LenProperties DEF Whole
<1>4. Fresh(n) = [i \in 1 .. n |-> last + i]
  BY <1>3 DEF Fresh
<1>5. QED BY <1>4 DEF Payload

LEMMA ServerDataIInv ==
  ASSUME IInv, NEW fin \in BOOLEAN, NEW n \in Lengths, ServerData(fin, n)
  PROVE  IInv'
<1>1. TypeOK /\ Stream /\ Delivered /\ capacity \in Nat
  BY DEF IInv
<1>2. n \in Nat /\ n < Wide
  <2>1. n \in Nat /\ n + 10 < Wide /\ Wide \in Nat
    BY FrameAssumption DEF Wide, Square
  <2>2. QED BY <2>1
<1>3. PICK payload \in Payload : payload = Fresh(n) /\ Len(payload) < Wide
  BY <1>1, <1>2, FreshFacts
<1>4. PICK first \in Nat :
        /\ first = (IF fin THEN Fin ELSE 0) + (IF open = <<>> THEN 1 ELSE 0)
        /\ first >= Fin <=> fin
  BY DEF Fin
<1>5. PICK parts : parts = Append(open, payload)
  OBVIOUS
<1>6. /\ wire = <<>> /\ wire' = Frame(first, payload)
      /\ fin => sent' = Append(sent, parts) /\ open' = <<>>
      /\ ~fin => open' = parts /\ sent' = sent
      /\ raw' = raw /\ capacity' = capacity /\ prev' = prev
      /\ message' = message /\ control' = control /\ sending' = sending
  BY <1>3, <1>4, <1>5 DEF ServerData
<1>7. raw = <<>> /\ (control = 0 => Len(message) = Len(sent) /\ Reverse(prev) = open)
  BY <1>1, <1>6 DEF Stream, Resting
<1>8. wire' \in Seq(Nat) /\ wire' # <<>> /\ raw' \o wire' = Frame(first, payload)
  BY <1>3, <1>6, <1>7, Written
<1>9. open \in Seq(Payload) /\ sent \in Seq(Seq(Payload)) /\ parts \in Seq(Payload)
  BY <1>1, <1>5, AppendProperties DEF TypeOK
<1>10. PICK k \in Nat : k = Len(sent)
  BY <1>9, LenProperties
<1>11. fin => /\ sent' \in Seq(Seq(Payload)) /\ Len(sent') = k + 1
              /\ sent'[k + 1] = parts
              /\ \A i \in 1 .. k : sent'[i] = sent[i]
  <2>1. PICK more : more = Append(sent, parts)
    OBVIOUS
  <2>2. /\ more \in Seq(Seq(Payload)) /\ Len(more) = k + 1
        /\ more[k + 1] = parts /\ \A i \in 1 .. k : more[i] = sent[i]
    BY <1>9, <1>10, <2>1, AppendProperties
  <2>3. fin => sent' = more
    BY <1>6, <2>1
  <2>4. QED BY <2>2, <2>3
<1>12. TypeOK'
  <2>1. sent' \in Seq(Seq(Payload)) /\ open' \in Seq(Payload)
    BY <1>6, <1>9, <1>11, EmptySeq
  <2>2. QED BY <1>1, <1>6, <1>8, <2>1 DEF TypeOK
<1>13. control = 0 => Arriving(first, payload)'
  BY <1>4, <1>5, <1>6, <1>7, <1>10, <1>11 DEF Arriving
<1>14. Coming(first, payload)'
  BY <1>3, <1>6, <1>8, <1>13 DEF Coming
<1>15. Stream'
  BY <1>8, <1>14 DEF Stream
<1>16. Delivered'
  <2>1. SUFFICES ASSUME control = 0
                 PROVE  /\ Len(message) <= Len(sent')
                        /\ \A i \in 1 .. Len(message) :
                             sent'[i] # <<>> /\ message[i] = Assembled(Reverse(sent'[i]))
    BY <1>6 DEF Delivered
  <2>2. Len(message) = k
    BY <1>7, <1>10, <2>1
  <2>3. Len(sent') >= k /\ \A i \in 1 .. k : sent'[i] = sent[i]
    <3>1. CASE fin
      BY <1>11, <3>1
    <3>2. CASE ~fin
      BY <1>6, <1>10, <3>2
    <3>3. QED BY <3>1, <3>2
  <2>4. \A i \in 1 .. k : sent[i] # <<>> /\ message[i] = Assembled(Reverse(sent[i]))
    BY <1>1, <2>1, <2>2 DEF Delivered
  <2>5. QED BY <2>2, <2>3, <2>4
<1>17. QED BY <1>1, <1>6, <1>12, <1>15, <1>16 DEF IInv

LEMMA ServerControlIInv ==
  ASSUME IInv, NEW opcode \in Opcodes, ServerControl(opcode)
  PROVE  IInv'
<1>1. TypeOK /\ Stream /\ capacity \in Nat
  BY DEF IInv
<1>2. PICK first \in Nat : first = Fin + opcode
  BY FrameAssumption DEF Fin
<1>3. <<>> \in Payload /\ Len(<<>>) < Wide
  <2>1. Wide \in Nat \ {0}
    <3>1. Square \in Nat \ {0}
      BY BaseFacts
    <3>2. QED BY <3>1 DEF Wide
  <2>2. QED BY <2>1, EmptySeq DEF Payload
<1>4. /\ wire = <<>> /\ wire' = Frame(first, <<>>) /\ control' = control + 1
      /\ raw' = raw /\ capacity' = capacity /\ prev' = prev /\ sent' = sent
      /\ open' = open /\ message' = message /\ sending' = sending
  BY <1>2 DEF ServerControl
<1>5. raw = <<>>
  BY <1>1, <1>4 DEF Stream
<1>6. wire' \in Seq(Nat) /\ wire' # <<>> /\ raw' \o wire' = Frame(first, <<>>)
  BY <1>3, <1>4, <1>5, Written
<1>7. control' \in Nat /\ control' # 0
  BY <1>1, <1>4 DEF TypeOK
<1>8. TypeOK'
  BY <1>1, <1>4, <1>6, <1>7 DEF TypeOK
<1>9. Coming(first, <<>>)'
  BY <1>3, <1>6, <1>7 DEF Coming
<1>10. Stream'
  BY <1>3, <1>6, <1>9 DEF Stream
<1>11. Delivered'
  BY <1>7 DEF Delivered
<1>12. QED BY <1>1, <1>4, <1>8, <1>10, <1>11 DEF IInv

(* The length a header says: the one sent, and of a nine-byte code whatever *)
(* was above its four bytes.                                                *)
LEMMA SaidFacts ==
  ASSUME NEW len \in Nat, len < Wide,
         NEW high, \A i \in 1 .. 4 : high[i] \in Nat
  PROVE  \E q \in Nat : /\ Said(LengthBytes(len, high)) = q * Wide + len
                        /\ (len < Square => q = 0)
<1>1. /\ Short \in Nat /\ Base \in Nat /\ Square \in Nat
      /\ Wide \in Nat
  BY BaseFacts DEF Wide
<1>2. PICK code : code = LengthBytes(len, high)
  OBVIOUS
<1>3. CASE OneByte(code, len)
  <2>1. Said(code) = len
    BY <1>1, <1>3 DEF Said, OneByte
  <2>2. Said(code) = 0 * Wide + len
    BY <1>1, <2>1
  <2>3. QED BY <1>2, <2>2
<1>4. CASE ThreeBytes(code, len)
  <2>1. PICK b \in Nat, a \in Nat : code = <<Short + 1, b, a>> /\ b * Base + a = len
    BY <1>4 DEF ThreeBytes
  <2>2. code[1] = Short + 1 /\ code[2] = b /\ code[2 + 1] = a
    BY <2>1
  <2>3. Said(code) = len
    <3>1. Said(code) = Value2(code, 2)
      BY <1>1, <2>2 DEF Said
    <3>2. Value2(code, 2) = b * Base + a
      BY <2>2 DEF Value2
    <3>3. QED BY <2>1, <3>1, <3>2
  <2>4. Said(code) = 0 * Wide + len
    BY <1>1, <2>3
  <2>5. QED BY <1>2, <2>4
<1>5. CASE NineBytes(code, len, high)
  <2>1. PICK d \in Nat, c \in Nat, b \in Nat, a \in Nat :
             /\ code = <<Short + 2, high[1], high[2], high[3], high[4], d, c, b, a>>
             /\ (d * Base + c) * Square + (b * Base + a) = len
             /\ len >= Square
    BY <1>5 DEF NineBytes
  <2>2. /\ code[1] = Short + 2 /\ code[2] = high[1] /\ code[2 + 1] = high[2]
        /\ code[2 + 2] = high[3] /\ code[2 + 2 + 1] = high[4]
        /\ code[6] = d /\ code[6 + 1] = c /\ code[6 + 2] = b /\ code[6 + 2 + 1] = a
    BY <2>1
  <2>3. Value4(code, 6) = len
    BY <2>1, <2>2 DEF Value4, Value2
  <2>4. PICK q \in Nat : q = Value4(code, 2)
    <3>1. /\ high[1] \in Nat /\ high[2] \in Nat /\ high[3] \in Nat /\ high[4] \in Nat
      OBVIOUS
    <3>2. Value4(code, 2) =
            (high[1] * Base + high[2]) * Square + (high[3] * Base + high[4])
      BY <2>2 DEF Value4, Value2
    <3>3. high[1] * Base + high[2] \in Nat /\ high[3] * Base + high[4] \in Nat
      BY <1>1, <3>1
    <3>4. QED BY <1>1, <3>2, <3>3
  <2>5. Said(code) = q * Wide + len
    <3>1. Short + 2 # Short + 1
      BY <1>1
    <3>2. Said(code) = Value4(code, 2) * Wide + Value4(code, 6)
      BY <2>2, <3>1 DEF Said
    <3>3. QED BY <2>3, <2>4, <3>2
  <2>6. ~(len < Square)
    BY <1>1, <2>1
  <2>7. QED BY <1>2, <2>5, <2>6
<1>6. Coded(code, len, high)
  BY <1>2, LengthCode
<1>7. QED BY <1>3, <1>4, <1>5, <1>6 DEF Coded

(* What is said of a frame sent is its length, but for the four bytes above *)
(* a length of four, which are not written from it.                         *)
Sends ==
  /\ sending.len \in SendLens \cup {0}
  /\ \E q \in Nat : /\ sending.said = q * Wide + sending.len
                    /\ (sending.len < Square => q = 0)

LEMMA SendIInv ==
  ASSUME NEW len \in SendLens, NEW b \in 0 .. 1, Send(len, <<0, 0, 0, b>>)
  PROVE  Sends' /\ (IInv => IInv')
<1>1. Wide \in Nat /\ Square \in Nat
  BY BaseFacts DEF Wide
<1>2. len \in Nat /\ len < Wide
  BY <1>1, FrameAssumption
<1>3. PICK high : high = <<0, 0, 0, b>>
  OBVIOUS
<1>4. \A i \in 1 .. 4 : high[i] \in Nat
  BY <1>3
<1>5. PICK said : said = Said(LengthBytes(len, high))
  OBVIOUS
<1>6. PICK q \in Nat : said = q * Wide + len /\ (len < Square => q = 0)
  BY <1>2, <1>4, <1>5, SaidFacts
<1>7. sending' = [len |-> len, said |-> said]
  BY <1>3, <1>5 DEF Send
<1>8. sending'.len = len /\ sending'.said = said /\ said \in Nat
  <2>1. q * Wide \in Nat
    BY <1>1
  <2>2. QED BY <1>2, <1>6, <1>7, <2>1
<1>9. Sends'
  BY <1>6, <1>8 DEF Sends
<1>10. ASSUME IInv PROVE IInv'
  <2>1. /\ raw' = raw /\ capacity' = capacity /\ prev' = prev
        /\ message' = message /\ wire' = wire /\ sent' = sent /\ open' = open
        /\ control' = control
    BY DEF Send
  <2>2. TypeOK'
    BY <1>2, <1>8, <1>10, <2>1 DEF IInv, TypeOK
  <2>3. Stream'
    BY <1>10, <2>1 DEF IInv, Stream, Resting, Coming, Arriving
  <2>4. Delivered'
    BY <1>10, <2>1 DEF IInv, Delivered
  <2>5. QED BY <1>10, <2>1, <2>2, <2>3, <2>4 DEF IInv
<1>11. QED BY <1>9, <1>10

LEMMA StepIInv ==
  ASSUME IInv, [Next]_vars
  PROVE  IInv'
<1>1. CASE UNCHANGED vars
  <2>1. /\ raw' = raw /\ capacity' = capacity /\ prev' = prev
        /\ message' = message /\ wire' = wire /\ sent' = sent /\ open' = open
        /\ control' = control /\ sending' = sending
    BY <1>1 DEF vars
  <2>2. QED BY <2>1 DEF IInv, TypeOK, Stream, Resting, Coming, Arriving, Delivered
<1>2. CASE \E len \in SendLens, b \in 0 .. 1 : Send(len, <<0, 0, 0, b>>)
  BY <1>2, SendIInv
<1>3. CASE ParseChar
  BY <1>3, ParseCharIInv
<1>4. CASE Disconect
  BY <1>4, DisconectIInv
<1>5. CASE \E fin \in BOOLEAN, n \in Lengths : ServerData(fin, n)
  BY <1>5, ServerDataIInv
<1>6. CASE \E opcode \in Opcodes : ServerControl(opcode)
  BY <1>6, ServerControlIInv
<1>7. QED BY <1>1, <1>2, <1>3, <1>4, <1>5, <1>6 DEF Next

(* The bytes read and unread are one frame, the frames before it are kept,  *)
(* and every message passed on is one that was sent, put together.          *)
THEOREM Invariance == Spec => []IInv
<1>1. IInv /\ [Next]_vars => IInv'
  BY StepIInv
<1>2. QED BY InitIInv, <1>1, PTL DEF Spec

(* The state keeps its types, and the buffer a multiple of the chunk        *)
(* (_aiui_websocket_parse_frame).                                           *)
THEOREM TypeCorrect == Spec => []TypeOK
<1>1. IInv => TypeOK
  BY DEF IInv
<1>2. QED BY <1>1, Invariance, PTL

(* The parser and the server agree on where a frame ends, whatever the      *)
(* lengths, the forms of their codes and the cuts between the bytes read.   *)
THEOREM BoundaryAlways == Spec => []BoundaryKept
<1>1. IInv => BoundaryKept
  BY DEF IInv, Stream, BoundaryKept
<1>2. QED BY <1>1, Invariance, PTL

(* With all bytes read every finished message was passed on and the frames  *)
(* kept are those of the unfinished one, over any number of disconnects     *)
(* (_aiui_websocket_parse_frame, aiui_websocket_disconect).                 *)
THEOREM InSyncAlways == Spec => []InSync
<1>1. IInv => InSync
  BY DEF IInv, Stream, Resting, InSync
<1>2. QED BY <1>1, Invariance, PTL

(* A message whose first and last frames are equally long reaches the       *)
(* callback as it was sent, in its place (_aiui_dispatch_frame).            *)
THEOREM EvenWholeAlways == Spec => []EvenWhole
<1>1. ASSUME IInv PROVE EvenWhole
  <2>1. SUFFICES ASSUME control = 0, NEW i \in 1 .. Len(message),
                        Len(sent[i][1]) = Len(Last(sent[i]))
                 PROVE  message[i] = Whole(sent[i])
    BY DEF EvenWhole
  <2>2. PICK s : s = sent[i]
    OBVIOUS
  <2>3. s # <<>> /\ message[i] = Assembled(Reverse(s))
    BY <1>1, <2>1, <2>2 DEF IInv, Delivered
  <2>4. s \in Seq(Payload)
    <3>1. sent \in Seq(Seq(Payload)) /\ message \in Seq(Payload)
          /\ Len(message) <= Len(sent)
      BY <1>1, <2>1 DEF IInv, TypeOK, Delivered
    <3>2. i \in 1 .. Len(sent)
      BY <3>1, LenProperties
    <3>3. QED BY <2>2, <3>1, <3>2, ElementOfSeq
  <2>5. Len(s[1]) = Len(Last(s))
    BY <2>1, <2>2
  <2>6. Assembled(Reverse(s)) = Whole(s)
    BY <2>3, <2>4, <2>5, AssembledEven
  <2>7. QED BY <2>2, <2>3, <2>6
<1>2. IInv => EvenWhole
  BY <1>1
<1>3. QED BY <1>2, Invariance, PTL

(* The lower 32 bits of the length a sent header says are the length of     *)
(* what was sent, and below 65536 all of them are (_aiui_websocket_send).   *)
THEOREM SendsAlways == Spec => []Sends
<1>1. Init => Sends
  <2>1. SUFFICES ASSUME Init PROVE Sends
    OBVIOUS
  <2>2. sending.len = 0 /\ sending.said = 0
    BY <2>1 DEF Init
  <2>3. 0 = 0 * Wide + 0
    <3>1. Wide \in Nat
      BY BaseFacts DEF Wide
    <3>2. QED BY <3>1
  <2>4. QED BY <2>2, <2>3 DEF Sends
<1>2. Sends /\ [Next]_vars => Sends'
  <2>1. SUFFICES ASSUME Sends, [Next]_vars PROVE Sends'
    OBVIOUS
  <2>2. CASE sending' = sending
    BY <2>1, <2>2 DEF Sends
  <2>3. CASE \E len \in SendLens, b \in 0 .. 1 : Send(len, <<0, 0, 0, b>>)
    BY <2>3, SendIInv
  <2>4. QED BY <2>1, <2>2, <2>3
            DEF Next, ParseChar, Disconect, ServerData, ServerControl, vars
<1>3. QED BY <1>1, <1>2, PTL DEF Spec

(* What is sent is shorter than a length of eight bytes.                    *)
ShortSends == \A n \in SendLens : n < Square

(* Of such a frame the header says how long it is.                          *)
THEOREM SaidIsLenAlways ==
  ASSUME ShortSends
  PROVE  Spec => []SaidIsLen
<1>1. Sends => SaidIsLen
  <2>1. SUFFICES ASSUME Sends PROVE SaidIsLen
    OBVIOUS
  <2>2. Wide \in Nat /\ Square \in Nat \ {0}
    BY BaseFacts DEF Wide
  <2>3. PICK q \in Nat : /\ sending.said = q * Wide + sending.len
                         /\ (sending.len < Square => q = 0)
    BY <2>1 DEF Sends
  <2>4. sending.len < Square /\ sending.len \in Nat
    <3>1. sending.len \in SendLens \/ sending.len = 0
      BY <2>1 DEF Sends
    <3>2. CASE sending.len = 0
      BY <2>2, <3>2
    <3>3. CASE sending.len \in SendLens
      <4>1. sending.len \in 0 .. Wide - 1
        BY <3>3, FrameAssumption
      <4>2. sending.len < Square
        BY <3>3, ShortSends DEF ShortSends
      <4>3. QED BY <2>2, <4>1, <4>2
    <3>4. QED BY <3>1, <3>2, <3>3
  <2>5. q = 0
    BY <2>3, <2>4
  <2>6. 0 * Wide + sending.len = sending.len
    BY <2>2, <2>4
  <2>7. QED BY <2>3, <2>5, <2>6 DEF SaidIsLen
<1>2. QED BY <1>1, SendsAlways, PTL

(* No byte is stored past the end of the frame's buffer: it grows before    *)
(* the byte it has no room for (_aiui_websocket_parse_frame).               *)
THEOREM Fits == Spec => []RawFits
<1>1. Init => RawFits
  BY FrameAssumption, EmptySeq DEF Init, RawFits
<1>2. ASSUME IInv, RawFits, [Next]_vars PROVE RawFits'
  <2>1. PICK r \in Seq(Nat) : r = raw
    BY <1>2 DEF IInv, TypeOK
  <2>2. PICK n \in Nat : n = Len(r) /\ n <= capacity
    BY <1>2, <2>1, LenProperties DEF RawFits
  <2>3. capacity \in Nat /\ Chunk \in Nat \ {0}
    BY <1>2, FrameAssumption DEF IInv
  <2>4. CASE raw' = <<>> /\ capacity' = Chunk
    BY <2>3, <2>4, EmptySeq DEF RawFits
  <2>5. CASE raw' = raw /\ capacity' = capacity
    BY <1>2, <2>5 DEF RawFits
  <2>6. CASE /\ wire # <<>> /\ raw' = Append(raw, Head(wire))
             /\ capacity' = Room(capacity, Len(raw))
    <3>1. Head(wire) \in Nat
      BY <1>2, <2>6, HeadTailProperties DEF IInv, TypeOK
    <3>2. Len(raw') = n + 1
      BY <2>1, <2>2, <2>6, <3>1, AppendProperties
    <3>3. capacity' >= n + 1
      BY <2>1, <2>2, <2>3, <2>6 DEF Room
    <3>4. QED BY <2>3, <2>6, <3>2, <3>3 DEF RawFits, Room
  <2>7. QED
    BY <1>2, <2>4, <2>5, <2>6
       DEF Next, ParseChar, Disconect, Send, ServerData, ServerControl, vars
<1>3. IInv /\ RawFits /\ [Next]_vars => RawFits'
  BY <1>2
<1>4. QED BY <1>1, <1>3, Invariance, PTL DEF Spec
=============================================================================
