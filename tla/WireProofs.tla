----------------------------- MODULE WireProofs -----------------------------
(***************************************************************************)
(* Theorems about Wire: what is announced is what is written unless a text *)
(* is blank, and what is written is read back if a byte can count every    *)
(* list of arguments, for all values and every data class whose fields are *)
(* sized, written and parsed in one order.                                 *)
(*                                                                         *)
(* The functions of Wire are recursive.  What they compute is found in two *)
(* steps: some function solves the recursion (so that CHOOSE finds one),   *)
(* and whatever solves it has the property, or there were a least place    *)
(* where it has not.                                                       *)
(***************************************************************************)
EXTENDS Wire, FiniteSetTheorems, SequenceTheorems, WellFoundedInduction, TLAPS
-----------------------------------------------------------------------------
(***************************************************************************)
(* Numbers.  A set of natural numbers that is not empty has a least one.   *)
(***************************************************************************)

\* Induction from the library cannot be used; a least number can.
LEMMA LeastNumber ==
  ASSUME NEW T \in SUBSET Nat, T # {}
  PROVE  \E m \in T : \A k \in T : m <= k
<1>1. PICK n \in T : TRUE
  OBVIOUS
<1> DEFINE F == {0 .. k : k \in T \intersect 0 .. n}
<1>2. F \subseteq FiniteSubsetsOf(0 .. n)
  <2>1. ASSUME NEW k \in T \intersect 0 .. n
        PROVE  0 .. k \in SUBSET (0 .. n) /\ IsFiniteSet(0 .. k)
    BY <2>1, FS_Interval
  <2> QED BY <2>1 DEF FiniteSubsetsOf
<1>3. F # {}
  BY <1>1
<1>4. PICK x \in F : \A y \in F : ~ (<<y, x>> \in StrictSubsetOrdering(0 .. n))
  <2>1. IsWellFoundedOn(StrictSubsetOrdering(0 .. n), FiniteSubsetsOf(0 .. n))
    BY FS_StrictSubsetOrderingWellFounded
  <2> HIDE DEF F
  <2> QED BY <2>1, <1>2, <1>3, WFMin
<1>5. PICK m \in T \intersect 0 .. n : x = 0 .. m
  BY <1>4
<1>6. ASSUME NEW k \in T, k < m PROVE FALSE
  <2>1. k \in T \intersect 0 .. n
    BY <1>5, <1>6
  <2>2. /\ 0 .. k \in F /\ 0 .. k \subseteq 0 .. m /\ m \notin 0 .. k /\ m \in 0 .. m
    BY <2>1, <1>5, <1>6
  <2>3. <<0 .. k, x>> \in StrictSubsetOrdering(0 .. n)
    BY <2>2, <2>1, <1>5 DEF StrictSubsetOrdering
  <2> QED BY <2>2, <2>3, <1>4
<1> QED BY <1>5, <1>6

\* f solves the recursion of Left.
Divides(n, b, f) ==
  f = [i \in 0 .. b |-> IF i = 0 THEN n ELSE f[i - 1] \div 256]

\* There is a solution,
LEMMA DividesExists ==
  ASSUME NEW n, NEW b \in Nat
  PROVE  \E f : Divides(n, b, f)
<1> DEFINE Bad == {k \in Nat : ~ \E f : Divides(n, k, f)}
<1> SUFFICES ASSUME Bad # {} PROVE FALSE
  OBVIOUS
<1>1. PICK m \in Bad : \A k \in Bad : m <= k
  BY LeastNumber
<1>2. m # 0
  <2>1. Divides(n, 0, [i \in 0 .. 0 |-> n])
    BY DEF Divides
  <2> QED BY <2>1
<1>3. m - 1 \in Nat /\ m - 1 \notin Bad
  BY <1>1, <1>2
<1>4. PICK f : Divides(n, m - 1, f)
  BY <1>3
<1> DEFINE g == [i \in 0 .. m |-> IF i < m THEN f[i] ELSE f[m - 1] \div 256]
<1>5. Divides(n, m, g)
  <2>1. ASSUME NEW i \in 0 .. m
        PROVE  g[i] = IF i = 0 THEN n ELSE g[i - 1] \div 256
    <3>1. CASE i = 0
      BY <3>1, <1>2, <1>3, <1>4 DEF Divides
    <3>2. CASE i # 0 /\ i < m
      <4>1. i \in 0 .. m - 1 /\ i - 1 < m /\ i - 1 \in 0 .. m
        BY <3>2, <1>3
      <4>2. g[i] = f[i] /\ g[i - 1] = f[i - 1]
        BY <4>1, <3>2
      <4>3. f[i] = f[i - 1] \div 256
        BY <4>1, <3>2, <1>4 DEF Divides
      <4> QED BY <4>2, <4>3, <3>2
    <3>3. CASE i = m
      BY <3>3, <1>2, <1>3
    <3> QED BY <3>1, <3>2, <3>3
  <2> QED BY <2>1 DEF Divides
<1> QED BY <1>5, <1>1

\* and all solutions agree.
LEMMA DividesAgree ==
  ASSUME NEW n, NEW b \in Nat, NEW c \in Nat, NEW f, NEW g,
         Divides(n, b, f), Divides(n, c, g), NEW i \in 0 .. b, i <= c
  PROVE  f[i] = g[i]
<1> DEFINE Bad == {k \in Nat : k <= b /\ k <= c /\ f[k] # g[k]}
<1> SUFFICES ASSUME Bad # {} PROVE FALSE
  OBVIOUS
<1>1. PICK m \in Bad : \A k \in Bad : m <= k
  BY LeastNumber
<1>2. CASE m = 0
  BY <1>2, <1>1 DEF Divides
<1>3. CASE m # 0
  <2>1. m - 1 \in Nat /\ m - 1 <= b /\ m - 1 <= c /\ f[m - 1] = g[m - 1]
    BY <1>1, <1>3
  <2>2. m \in 0 .. b /\ m \in 0 .. c /\ f[m] # g[m]
    BY <1>1
  <2>3. f[m] = f[m - 1] \div 256 /\ g[m] = g[m - 1] \div 256
    BY <2>2, <1>3 DEF Divides
  <2> QED BY <2>1, <2>2, <2>3
<1> QED BY <1>2, <1>3

\* Left is one of them.
LEMMA LeftDef ==
  ASSUME NEW n, NEW b \in Nat
  PROVE  \E f : Divides(n, b, f) /\ Left(n, b) = f[b]
<1> DEFINE f == CHOOSE f : Divides(n, b, f)
<1>1. Divides(n, b, f)
  BY DividesExists
<1>2. Left(n, b) = f[b]
  BY Zenon DEF Left, Divides
<1> QED BY <1>1, <1>2

\* So Left can be computed step by step.
LEMMA LeftStep ==
  ASSUME NEW n, NEW k \in Nat
  PROVE  Left(n, 0) = n /\ Left(n, k + 1) = Left(n, k) \div 256
<1>1. PICK f0 : Divides(n, 0, f0) /\ Left(n, 0) = f0[0]
  BY LeftDef
<1>2. PICK f : Divides(n, k, f) /\ Left(n, k) = f[k]
  BY LeftDef
<1>3. PICK g : Divides(n, k + 1, g) /\ Left(n, k + 1) = g[k + 1]
  BY LeftDef
<1>4. f[k] = g[k]
  BY <1>2, <1>3, DividesAgree
<1>5. f0[0] = n
  BY <1>1 DEF Divides
<1>6. g[k + 1] = g[k] \div 256
  BY <1>3 DEF Divides
<1> QED BY <1>1, <1>2, <1>3, <1>4, <1>5, <1>6

LEMMA LeftNat ==
  ASSUME NEW n \in Nat, NEW b \in Nat
  PROVE  Left(n, b) \in Nat
<1> DEFINE Bad == {k \in Nat : Left(n, k) \notin Nat}
<1> SUFFICES ASSUME Bad # {} PROVE FALSE
  OBVIOUS
<1>1. PICK m \in Bad : \A k \in Bad : m <= k
  BY LeastNumber
<1>2. CASE m = 0
  BY <1>2, <1>1, LeftStep
<1>3. CASE m # 0
  <2>1. m - 1 \in Nat /\ Left(n, m - 1) \in Nat
    BY <1>1, <1>3
  <2>2. Left(n, (m - 1) + 1) = Left(n, m - 1) \div 256
    BY <2>1, LeftStep
  <2>3. Left(n, m) \in Nat
    BY <2>1, <2>2
  <2> QED BY <1>1, <2>3
<1> QED BY <1>2, <1>3

-----------------------------------------------------------------------------
(***************************************************************************)
(* Bytes of a number, and the number of its bytes                          *)
(***************************************************************************)

\* Bytes are numbers.
LEMMA ByteNat == Byte \subseteq Nat /\ \A b \in Byte : b <= 255
BY DEF Byte

\* f solves the recursion of Number.
Adds(bytes, f) ==
  f = [k \in 0 .. Len(bytes) |->
         IF k = 0 THEN 0 ELSE bytes[Len(bytes) + 1 - k] + 256 * f[k - 1]]

\* There is a solution, for what it is to begin with and to add.
LEMMA AddsExists ==
  ASSUME NEW bytes, Len(bytes) \in Nat
  PROVE  \E f : Adds(bytes, f)
<1> DEFINE To(k, f) == f = [i \in 0 .. k |->
                              IF i = 0 THEN 0 ELSE bytes[Len(bytes) + 1 - i] + 256 * f[i - 1]]
           Bad == {k \in Nat : ~ \E f : To(k, f)}
<1> SUFFICES ASSUME Bad # {} PROVE FALSE
  BY DEF Adds
<1>1. PICK m \in Bad : \A k \in Bad : m <= k
  BY LeastNumber
<1>2. m # 0
  <2>1. To(0, [i \in 0 .. 0 |-> 0])
    OBVIOUS
  <2> HIDE DEF To
  <2> QED BY <2>1
<1>3. m - 1 \in Nat /\ m - 1 \notin Bad
  BY <1>1, <1>2
<1>4. PICK f : To(m - 1, f)
  BY <1>3
<1> DEFINE g == [i \in 0 .. m |-> IF i < m THEN f[i]
                   ELSE bytes[Len(bytes) + 1 - m] + 256 * f[m - 1]]
<1>5. To(m, g)
  <2>1. ASSUME NEW i \in 0 .. m
        PROVE  g[i] = IF i = 0 THEN 0 ELSE bytes[Len(bytes) + 1 - i] + 256 * g[i - 1]
    <3>1. CASE i = 0
      BY <3>1, <1>2, <1>3, <1>4
    <3>2. CASE i # 0 /\ i < m
      <4>1. i \in 0 .. m - 1 /\ i - 1 < m /\ i - 1 \in 0 .. m
        BY <3>2, <1>3
      <4>2. g[i] = f[i] /\ g[i - 1] = f[i - 1]
        BY <4>1, <3>2
      <4>3. f[i] = bytes[Len(bytes) + 1 - i] + 256 * f[i - 1]
        BY <4>1, <3>2, <1>4
      <4> QED BY <4>2, <4>3, <3>2
    <3>3. CASE i = m
      BY <3>3, <1>2, <1>3
    <3> QED BY <3>1, <3>2, <3>3
  <2> QED BY <2>1
<1> QED BY <1>5, <1>1

\* Number is the last value of a solution.
LEMMA NumberDef ==
  ASSUME NEW bytes, Len(bytes) \in Nat
  PROVE  \E f : Adds(bytes, f) /\ Number(bytes) = f[Len(bytes)]
<1> DEFINE f == CHOOSE f : Adds(bytes, f)
<1>1. Adds(bytes, f)
  BY AddsExists
<1>2. Number(bytes) = f[Len(bytes)]
  BY Zenon DEF Number, Adds
<1> QED BY <1>1, <1>2

LEMMA NumberNat ==
  ASSUME NEW bytes \in Seq(Byte)
  PROVE  Number(bytes) \in Nat
<1>1. PICK f : Adds(bytes, f) /\ Number(bytes) = f[Len(bytes)]
  BY NumberDef
<1> DEFINE Bad == {k \in Nat : k <= Len(bytes) /\ f[k] \notin Nat}
<1> SUFFICES ASSUME Bad # {} PROVE FALSE
  BY <1>1
<1>2. PICK m \in Bad : \A k \in Bad : m <= k
  BY LeastNumber
<1>3. CASE m = 0
  BY <1>3, <1>1, <1>2 DEF Adds
<1>4. CASE m # 0
  <2>1. m - 1 \in Nat /\ f[m - 1] \in Nat
    BY <1>2, <1>4
  <2>2. m \in 0 .. Len(bytes) /\ Len(bytes) + 1 - m \in 1 .. Len(bytes)
    BY <1>2, <1>4
  <2>3. bytes[Len(bytes) + 1 - m] \in Nat
    <3>1. PICK j \in 1 .. Len(bytes) : j = Len(bytes) + 1 - m
      BY <2>2
    <3>2. bytes[j] \in Byte
      OBVIOUS
    <3>3. bytes[j] \in Nat
      BY <3>2, ByteNat
    <3> QED BY Zenon, <3>1, <3>3
  <2>4. f[m] = bytes[Len(bytes) + 1 - m] + 256 * f[m - 1]
    BY <1>1, <1>4, <2>2 DEF Adds
  <2> QED BY <1>2, <2>1, <2>3, <2>4
<1> QED BY <1>3, <1>4

\* A number is written to as many bytes as asked for.
LEMMA LittleEndianBytes ==
  ASSUME NEW n \in Nat, NEW w \in Nat
  PROVE  /\ LittleEndian(n, w) \in Seq(Byte)
         /\ Len(LittleEndian(n, w)) = w
         /\ \A i \in 1 .. w : LittleEndian(n, w)[i] = Left(n, i - 1) % 256
<1>1. \A i \in 1 .. w : Left(n, i - 1) % 256 \in Byte
  <2> SUFFICES ASSUME NEW i \in 1 .. w PROVE Left(n, i - 1) % 256 \in Byte
    OBVIOUS
  <2>1. Left(n, i - 1) \in Nat
    BY LeftNat
  <2> QED BY <2>1 DEF Byte
<1> QED BY <1>1 DEF LittleEndian

\* The number in its bytes is what they were made of, if nothing was left of it.
LEMMA NumberRead ==
  ASSUME NEW n \in Nat, NEW w \in Nat, Left(n, w) = 0
  PROVE  Number(LittleEndian(n, w)) = n
<1> DEFINE b == LittleEndian(n, w)
<1>1. b \in Seq(Byte) /\ Len(b) = w /\ \A i \in 1 .. w : b[i] = Left(n, i - 1) % 256
  BY LittleEndianBytes
<1>2. PICK f : Adds(b, f) /\ Number(b) = f[w]
  BY <1>1, NumberDef
<1> HIDE DEF b
<1> DEFINE Bad == {k \in Nat : k <= w /\ f[k] # Left(n, w - k)}
<1>3. SUFFICES ASSUME Bad # {} PROVE FALSE
  <2>1. f[w] = Left(n, w - w)
    BY <1>3
  <2> QED BY <1>2, <2>1, LeftStep DEF b
<1>4. PICK m \in Bad : \A k \in Bad : m <= k
  BY <1>3, LeastNumber
<1>5. CASE m = 0
  BY <1>5, <1>1, <1>2, <1>4 DEF Adds
<1>6. CASE m # 0
  <2>1. m - 1 \in Nat /\ f[m - 1] = Left(n, w - (m - 1)) /\ w - m \in Nat
    BY <1>4, <1>6
  <2>2. m \in 0 .. w /\ w + 1 - m \in 1 .. w /\ (w + 1 - m) - 1 = w - m
    BY <1>4, <1>6
  <2>3. f[m] = b[w + 1 - m] + 256 * f[m - 1]
    BY <1>1, <1>2, <1>6, <2>2 DEF Adds
  <2>4. b[w + 1 - m] = Left(n, w - m) % 256
    BY <1>1, <2>2
  <2>5. Left(n, (w - m) + 1) = Left(n, w - m) \div 256
    BY <2>1, LeftStep
  <2>6. w - (m - 1) = (w - m) + 1
    BY <2>1
  <2>7. Left(n, w - m) \in Nat
    BY <2>1, LeftNat
  <2>8. f[m] = Left(n, w - m)
    <3> DEFINE x == Left(n, w - m)
    <3>1. f[m] = (x % 256) + 256 * (x \div 256)
      BY <2>1, <2>3, <2>4, <2>5, <2>6
    <3> HIDE DEF x
    <3>2. x \in Nat => (x % 256) + 256 * (x \div 256) = x
      OBVIOUS
    <3> QED BY <3>1, <3>2, <2>7 DEF x
  <2> QED BY <1>4, <2>8
<1> QED BY <1>5, <1>6

\* Nothing is left of a byte,
LEMMA LeftSmall ==
  ASSUME NEW n \in Nat, NEW k \in Nat, Left(n, k) < 128
  PROVE  Left(n, k + 1) = 0
<1>1. Left(n, k) \in Nat /\ Left(n, k + 1) = Left(n, k) \div 256
  BY LeftNat, LeftStep
<1> DEFINE x == Left(n, k)
<1> HIDE DEF x
<1>2. x \in Nat /\ x < 128 => x \div 256 = 0
  OBVIOUS
<1> QED BY <1>1, <1>2 DEF x

\* and nothing of two bytes.
LEMMA Small ==
  ASSUME NEW n \in Nat
  PROVE  /\ n <= 65535 => Left(n, 2) = 0
         /\ IsInt(n) => Left(n, 4) = 0
<1>1. Left(n, 0) = n /\ Left(n, 0 + 1) = n \div 256 /\ Left(n, 1 + 1) = Left(n, 1) \div 256
  BY LeftStep
<1>2. n <= 65535 => (n \div 256) \div 256 = 0
  OBVIOUS
<1>3. IsInt(n) => Left(n, 3 + 1) = 0
  BY LeftSmall DEF IsInt
<1> QED BY <1>1, <1>2, <1>3

-----------------------------------------------------------------------------
(***************************************************************************)
(* Combining by halves comes to the same as combining one after the other  *)
(***************************************************************************)

Mid(lo, hi) == (lo + hi) \div 2

\* The middle is in between.
LEMMA MidBetween ==
  ASSUME NEW lo \in Nat, NEW hi \in Nat, hi > lo + 1
  PROVE  Mid(lo, hi) \in Nat /\ lo < Mid(lo, hi) /\ Mid(lo, hi) < hi
BY DEF Mid

Places(n) == (0 .. n) \X (0 .. n)

\* One step of the halving: what f says of the halves decides the whole.
Half(seq, op, base, f, lo, hi) ==
  IF hi <= lo THEN base
  ELSE IF hi = lo + 1 THEN seq[hi]
  ELSE op[<<f[<<lo, Mid(lo, hi)>>], f[<<Mid(lo, hi), hi>>]>>]
Halves(seq, op, base, f) ==
  f = [x \in Places(Len(seq)) |-> Half(seq, op, base, f, x[1], x[2])]

\* There is a solution of the halving,
LEMMA HalvesExist ==
  ASSUME NEW seq, Len(seq) \in Nat, NEW op, NEW base
  PROVE  \E f : Halves(seq, op, base, f)
<1> DEFINE n == Len(seq)
           To(k, f) == \A lo, hi \in 0 .. n :
                          hi <= lo + k => f[<<lo, hi>>] = Half(seq, op, base, f, lo, hi)
           Bad == {k \in Nat : ~ \E f : To(k, f)}
<1>1. SUFFICES ASSUME Bad # {} PROVE FALSE
  <2>1. PICK f : To(n, f)
    BY <1>1
  <2> DEFINE g == [x \in Places(n) |-> f[<<x[1], x[2]>>]]
  <2>2. \A lo, hi \in 0 .. n : g[<<lo, hi>>] = f[<<lo, hi>>]
    BY DEF Places
  <2>3. ASSUME NEW lo \in 0 .. n, NEW hi \in 0 .. n
        PROVE  f[<<lo, hi>>] = Half(seq, op, base, g, lo, hi)
    <3>1. f[<<lo, hi>>] = Half(seq, op, base, f, lo, hi)
      BY <2>1
    <3>2. CASE hi > lo + 1
      <4>1. Mid(lo, hi) \in 0 .. n
        BY <3>2, MidBetween
      <4> HIDE DEF g
      <4> QED BY <4>1, <2>2, <3>1 DEF Half
    <3>3. CASE ~ (hi > lo + 1)
      BY <3>1, <3>3 DEF Half
    <3> QED BY <3>2, <3>3
  <2> DEFINE h(x) == Half(seq, op, base, g, x[1], x[2])
  <2>4. \A x \in Places(n) : f[<<x[1], x[2]>>] = h(x)
    BY <2>3 DEF Places
  <2>5. g = [x \in Places(n) |-> h(x)]
    <3> HIDE DEF h
    <3> QED BY <2>4
  <2>6. Halves(seq, op, base, g)
    BY <2>5 DEF Halves
  <2> QED BY <2>6
<1>2. PICK m \in Bad : \A k \in Bad : m <= k
  BY <1>1, LeastNumber
<1>3. m # 0
  <2> DEFINE f == [x \in Places(n) |-> base]
  <2>1. ASSUME NEW lo \in 0 .. n, NEW hi \in 0 .. n, hi <= lo + 0
        PROVE  f[<<lo, hi>>] = Half(seq, op, base, f, lo, hi)
    <3>1. f[<<lo, hi>>] = base
      BY DEF Places
    <3>2. hi <= lo
      BY <2>1
    <3> QED BY <3>1, <3>2 DEF Half
  <2>2. To(0, f)
    <3> HIDE DEF f
    <3> QED BY <2>1
  <2> HIDE DEF To, f
  <2> QED BY <2>2
<1>4. m \in Nat /\ m - 1 \in Nat /\ m - 1 \notin Bad
  <2> HIDE DEF To
  <2> QED BY <1>2, <1>3
<1>5. PICK f : To(m - 1, f)
  BY <1>4
<1> DEFINE g == [x \in Places(n) |->
                   IF x[2] <= x[1] + (m - 1) THEN f[<<x[1], x[2]>>]
                   ELSE Half(seq, op, base, f, x[1], x[2])]
<1>6. ASSUME NEW lo \in 0 .. n, NEW hi \in 0 .. n, hi <= lo + m
      PROVE  g[<<lo, hi>>] = Half(seq, op, base, g, lo, hi)
  <2>1. g[<<lo, hi>>] = Half(seq, op, base, f, lo, hi)
    BY <1>5 DEF Places
  <2>2. CASE hi > lo + 1
    <3>1. /\ Mid(lo, hi) \in 0 .. n
          /\ Mid(lo, hi) <= lo + (m - 1) /\ hi <= Mid(lo, hi) + (m - 1)
      <4>1. lo \in Nat /\ hi \in Nat /\ n \in Nat
        OBVIOUS
      <4>2. Mid(lo, hi) \in Nat /\ lo < Mid(lo, hi) /\ Mid(lo, hi) < hi
        BY <2>2, <4>1, MidBetween
      <4> HIDE DEF Bad
      <4> QED BY <1>4, <1>6, <4>1, <4>2
    <3>2. /\ g[<<lo, Mid(lo, hi)>>] = f[<<lo, Mid(lo, hi)>>]
          /\ g[<<Mid(lo, hi), hi>>] = f[<<Mid(lo, hi), hi>>]
      BY <3>1 DEF Places
    <3> HIDE DEF g
    <3> QED BY <2>1, <3>2 DEF Half
  <2>3. CASE ~ (hi > lo + 1)
    <3>1. hi <= lo \/ hi = lo + 1
      BY <2>3
    <3> HIDE DEF g
    <3> QED BY <2>1, <3>1 DEF Half
  <2> QED BY <2>2, <2>3
<1>7. To(m, g)
  <2> HIDE DEF g
  <2> QED BY <1>6
<1> QED BY <1>7, <1>2

\* which decides at every place as its halves do,
LEMMA HalvesAt ==
  ASSUME NEW seq, Len(seq) \in Nat, NEW op, NEW base, NEW f, Halves(seq, op, base, f),
         NEW lo \in 0 .. Len(seq), NEW hi \in 0 .. Len(seq)
  PROVE  f[<<lo, hi>>] = Half(seq, op, base, f, lo, hi)
<1> DEFINE h(x) == Half(seq, op, base, f, x[1], x[2])
<1>1. f = [x \in Places(Len(seq)) |-> h(x)]
  BY DEF Halves
<1>2. <<lo, hi>> \in Places(Len(seq)) /\ <<lo, hi>>[1] = lo /\ <<lo, hi>>[2] = hi
  BY DEF Places
<1>3. h(<<lo, hi>>) = Half(seq, op, base, f, lo, hi)
  BY <1>2
<1> HIDE DEF h
<1>4. f[<<lo, hi>>] = h(<<lo, hi>>)
  BY <1>1, <1>2
<1> QED BY <1>3, <1>4

\* An operation that can be grouped at will, with a neutral element.
Monoid(S, op, base) ==
  /\ base \in S
  /\ \A x, y \in S : op[<<x, y>>] \in S
  /\ \A x, y, z \in S : op[<<op[<<x, y>>], z>>] = op[<<x, op[<<y, z>>]>>]
  /\ \A x \in S : op[<<base, x>>] = x /\ op[<<x, base>>] = x

\* and which may be split anywhere, not only in the middle.
LEMMA HalvesSplit ==
  ASSUME NEW S, NEW op, NEW base, Monoid(S, op, base), NEW seq \in Seq(S),
         NEW f, Halves(seq, op, base, f)
  PROVE  /\ \A lo, hi \in 0 .. Len(seq) : f[<<lo, hi>>] \in S
         /\ \A lo \in 0 .. Len(seq) : f[<<lo, lo>>] = base
         /\ \A k \in 1 .. Len(seq) : f[<<k - 1, k>>] = seq[k]
         /\ \A lo, c, hi \in 0 .. Len(seq) :
              lo <= c /\ c <= hi => f[<<lo, hi>>] = op[<<f[<<lo, c>>], f[<<c, hi>>]>>]
<1> DEFINE n == Len(seq)
           T(k) == \A lo, hi \in 0 .. n : hi <= lo + k => f[<<lo, hi>>] \in S
           BadT == {k \in Nat : ~ T(k)}
<1>0. n \in Nat /\ \A i \in 1 .. n : seq[i] \in S
  OBVIOUS
<1>a. \A lo, hi \in 0 .. n : f[<<lo, hi>>] = Half(seq, op, base, f, lo, hi)
  BY <1>0, HalvesAt
<1>1. ASSUME BadT # {} PROVE FALSE
  <2>1. PICK m \in BadT : \A k \in BadT : m <= k
    BY <1>1, LeastNumber
  <2>2. PICK lo \in 0 .. n, hi \in 0 .. n : hi <= lo + m /\ f[<<lo, hi>>] \notin S
    BY <2>1
  <2>0. lo \in Nat /\ hi \in Nat /\ m \in Nat
    BY <1>0, <2>1
  <2>a. f[<<lo, hi>>] = Half(seq, op, base, f, lo, hi)
    BY <1>a
  <2>3. hi > lo + 1
    <3>1. CASE hi <= lo
      BY <2>2, <2>a, <3>1 DEF Half, Monoid
    <3>2. CASE hi = lo + 1
      <4>1. hi \in 1 .. n
        BY <2>0, <3>2
      <4> QED BY <1>0, <2>0, <2>2, <2>a, <3>2, <4>1 DEF Half
    <3> QED BY <2>0, <3>1, <3>2
  <2>4. m - 1 \in Nat /\ T(m - 1)
    <3>1. m - 1 \in Nat /\ m - 1 < m
      BY <2>0, <2>2, <2>3
    <3> HIDE DEF T
    <3> QED BY <2>1, <3>1
  <2>5. /\ Mid(lo, hi) \in 0 .. n
        /\ Mid(lo, hi) <= lo + (m - 1) /\ hi <= Mid(lo, hi) + (m - 1)
    <3>1. Mid(lo, hi) \in Nat /\ lo < Mid(lo, hi) /\ Mid(lo, hi) < hi
      BY <2>0, <2>3, MidBetween
    <3> QED BY <2>0, <2>2, <3>1
  <2>6. f[<<lo, Mid(lo, hi)>>] \in S /\ f[<<Mid(lo, hi), hi>>] \in S
    BY <2>4, <2>5
  <2>7. ~ (hi <= lo) /\ hi # lo + 1
    BY <2>0, <2>3
  <2>8. f[<<lo, hi>>] = op[<<f[<<lo, Mid(lo, hi)>>], f[<<Mid(lo, hi), hi>>]>>]
    BY <2>a, <2>7 DEF Half
  <2> QED BY <2>2, <2>6, <2>8 DEF Monoid
<1>2. \A lo, hi \in 0 .. n : f[<<lo, hi>>] \in S
  <2>1. T(n)
    <3> HIDE DEF T
    <3> QED BY <1>0, <1>1
  <2> SUFFICES ASSUME NEW lo \in 0 .. n, NEW hi \in 0 .. n PROVE f[<<lo, hi>>] \in S
    OBVIOUS
  <2>2. hi <= lo + n
    BY <1>0
  <2> QED BY <2>1, <2>2
<1> DEFINE Split(lo, c, hi) == f[<<lo, hi>>] = op[<<f[<<lo, c>>], f[<<c, hi>>]>>]
           P(k) == \A lo, c, hi \in 0 .. n :
                     lo <= c /\ c <= hi /\ hi <= lo + k => Split(lo, c, hi)
           BadP == {k \in Nat : ~ P(k)}
<1>3. \A lo \in 0 .. n : f[<<lo, lo>>] = base
  <2> SUFFICES ASSUME NEW lo \in 0 .. n PROVE f[<<lo, lo>>] = base
    OBVIOUS
  <2>1. lo <= lo
    BY <1>0
  <2>2. f[<<lo, lo>>] = Half(seq, op, base, f, lo, lo)
    BY <1>a
  <2> QED BY <2>1, <2>2 DEF Half
<1>4. ASSUME BadP # {} PROVE FALSE
  <2> HIDE DEF Split
  <2>1. PICK m \in BadP : \A k \in BadP : m <= k
    BY <1>4, LeastNumber
  <2>2. PICK lo \in 0 .. n, c \in 0 .. n, hi \in 0 .. n :
          lo <= c /\ c <= hi /\ hi <= lo + m /\ ~ Split(lo, c, hi)
    BY <2>1
  <2>0. lo \in Nat /\ c \in Nat /\ hi \in Nat /\ m \in Nat
    BY <1>0, <2>1
  <2>3. c # lo /\ c # hi
    <3>1. CASE c = lo
      <4>1. f[<<lo, lo>>] = base /\ f[<<lo, hi>>] \in S
        BY <1>2, <1>3
      <4> QED BY <2>2, <3>1, <4>1 DEF Split, Monoid
    <3>2. CASE c = hi
      <4>1. f[<<hi, hi>>] = base /\ f[<<lo, hi>>] \in S
        BY <1>2, <1>3
      <4> QED BY <2>2, <3>2, <4>1 DEF Split, Monoid
    <3> QED BY <3>1, <3>2
  <2>4. lo < c /\ c < hi /\ hi > lo + 1
    BY <2>0, <2>2, <2>3
  <2>5. m - 1 \in Nat /\ P(m - 1)
    <3>1. m - 1 \in Nat /\ m - 1 < m
      BY <2>0, <2>2, <2>4
    <3> HIDE DEF P
    <3> QED BY <2>1, <3>1
  <2> DEFINE mid == Mid(lo, hi)
  <2>6. mid \in 0 .. n /\ lo < mid /\ mid < hi
    <3>1. mid \in Nat /\ lo < mid /\ mid < hi
      BY <2>0, <2>4, MidBetween
    <3> QED BY <2>0, <3>1
  <2>7. f[<<lo, hi>>] = op[<<f[<<lo, mid>>], f[<<mid, hi>>]>>]
    <3>1. f[<<lo, hi>>] = Half(seq, op, base, f, lo, hi)
      BY <1>a
    <3>2. ~ (hi <= lo) /\ hi # lo + 1
      BY <2>0, <2>4
    <3> QED BY <3>1, <3>2 DEF Half
  <2> HIDE DEF mid
  <2>t. \A u, v \in 0 .. n : f[<<u, v>>] \in S
    BY <1>2
  <2>8. CASE c <= mid
    <3>1. Split(lo, c, mid) /\ Split(c, mid, hi)
      BY <2>0, <2>2, <2>4, <2>5, <2>6, <2>8
    <3>2. f[<<lo, c>>] \in S /\ f[<<c, mid>>] \in S /\ f[<<mid, hi>>] \in S
      BY <2>t, <2>6
    <3> DEFINE u == f[<<lo, c>>]
               v == f[<<c, mid>>]
               w == f[<<mid, hi>>]
    <3>3. f[<<lo, mid>>] = op[<<u, v>>] /\ f[<<c, hi>>] = op[<<v, w>>]
      BY <3>1 DEF Split
    <3>4. op[<<op[<<u, v>>], w>>] = op[<<u, op[<<v, w>>]>>]
      BY <3>2 DEF Monoid
    <3>5. f[<<lo, hi>>] = op[<<op[<<u, v>>], w>>]
      BY <2>7, <3>3
    <3>6. f[<<lo, hi>>] = op[<<u, f[<<c, hi>>]>>]
      BY <3>3, <3>4, <3>5
    <3> QED BY <2>2, <3>6 DEF Split
  <2>9. CASE c > mid
    <3>1. Split(lo, mid, c) /\ Split(mid, c, hi)
      BY <2>0, <2>2, <2>4, <2>5, <2>6, <2>9
    <3>2. f[<<lo, mid>>] \in S /\ f[<<mid, c>>] \in S /\ f[<<c, hi>>] \in S
      BY <2>t, <2>6
    <3> DEFINE u == f[<<lo, mid>>]
               v == f[<<mid, c>>]
               w == f[<<c, hi>>]
    <3>3. f[<<lo, c>>] = op[<<u, v>>] /\ f[<<mid, hi>>] = op[<<v, w>>]
      BY <3>1 DEF Split
    <3>4. op[<<op[<<u, v>>], w>>] = op[<<u, op[<<v, w>>]>>]
      BY <3>2 DEF Monoid
    <3>5. f[<<lo, hi>>] = op[<<u, op[<<v, w>>]>>]
      BY <2>7, <3>3
    <3>6. f[<<lo, hi>>] = op[<<f[<<lo, c>>], w>>]
      BY <3>3, <3>4, <3>5
    <3> QED BY <2>2, <3>6 DEF Split
  <2> QED BY <2>0, <2>6, <2>8, <2>9
<1>5. \A lo, c, hi \in 0 .. n : lo <= c /\ c <= hi => Split(lo, c, hi)
  <2> HIDE DEF Split
  <2> SUFFICES ASSUME NEW lo \in 0 .. n, NEW c \in 0 .. n, NEW hi \in 0 .. n,
                      lo <= c, c <= hi
               PROVE  Split(lo, c, hi)
    OBVIOUS
  <2>1. P(n)
    <3> HIDE DEF P
    <3> QED BY <1>0, <1>4
  <2>2. hi <= lo + n
    BY <1>0
  <2> QED BY <2>1, <2>2
<1>6. ASSUME NEW k \in 1 .. n PROVE f[<<k - 1, k>>] = seq[k]
  <2>1. k - 1 \in 0 .. n /\ k \in 0 .. n /\ ~ (k <= k - 1) /\ k = (k - 1) + 1
    BY <1>0
  <2> QED BY <1>a, <2>1 DEF Half
<1> QED BY <1>2, <1>3, <1>5, <1>6

\* Combined is a solution at the whole sequence.
LEMMA CombinedHalves ==
  ASSUME NEW seq, Len(seq) \in Nat, NEW op, NEW base
  PROVE  \E f : Halves(seq, op, base, f) /\ Combined(seq, op, base) = f[<<0, Len(seq)>>]
<1> DEFINE f == CHOOSE f : Halves(seq, op, base, f)
<1>1. Halves(seq, op, base, f)
  BY HalvesExist
<1>2. Combined(seq, op, base) = f[<<0, Len(seq)>>]
  BY Zenon DEF Combined, Halves, Half, Places, Mid
<1> QED BY <1>1, <1>2

\* So Combined is what its parts combine to.
LEMMA CombinedParts ==
  ASSUME NEW S, NEW op, NEW base, Monoid(S, op, base), NEW seq \in Seq(S)
  PROVE  \E f :
           /\ \A lo, hi \in 0 .. Len(seq) : f[<<lo, hi>>] \in S
           /\ \A lo \in 0 .. Len(seq) : f[<<lo, lo>>] = base
           /\ \A k \in 1 .. Len(seq) : f[<<k - 1, k>>] = seq[k]
           /\ \A lo, c, hi \in 0 .. Len(seq) :
                lo <= c /\ c <= hi => f[<<lo, hi>>] = op[<<f[<<lo, c>>], f[<<c, hi>>]>>]
           /\ Combined(seq, op, base) = f[<<0, Len(seq)>>]
<1>1. Len(seq) \in Nat
  OBVIOUS
<1>2. PICK f : Halves(seq, op, base, f) /\ Combined(seq, op, base) = f[<<0, Len(seq)>>]
  BY <1>1, CombinedHalves
<1> QED BY <1>2, HalvesSplit

-----------------------------------------------------------------------------
(***************************************************************************)
(* Sequences that are joined, and sums                                     *)
(***************************************************************************)

\* Parts of a joined sequence of sequences.
JoinParts(seqs, f) ==
  /\ \A lo, hi \in 0 .. Len(seqs) : f[<<lo, hi>>] \in Seq(Byte)
  /\ \A lo \in 0 .. Len(seqs) : f[<<lo, lo>>] = <<>>
  /\ \A k \in 1 .. Len(seqs) : f[<<k - 1, k>>] = seqs[k]
  /\ \A lo, c, hi \in 0 .. Len(seqs) :
       lo <= c /\ c <= hi => f[<<lo, hi>>] = f[<<lo, c>>] \o f[<<c, hi>>]
  /\ Joined(seqs) = f[<<0, Len(seqs)>>]

\* Joined, and every part of it.
LEMMA JoinedParts ==
  ASSUME NEW seqs \in Seq(Seq(Byte))
  PROVE  \E f : JoinParts(seqs, f)
<1> DEFINE S == Seq(Byte)
           op == [x \in S \X S |-> x[1] \o x[2]]
<1> HIDE DEF S
<1>1. ASSUME NEW x \in S, NEW y \in S PROVE op[<<x, y>>] = x \o y /\ x \o y \in S
  <2>1. <<x, y>> \in S \X S /\ <<x, y>>[1] = x /\ <<x, y>>[2] = y
    OBVIOUS
  <2>2. op[<<x, y>>] = <<x, y>>[1] \o <<x, y>>[2]
    BY <2>1
  <2>3. x \o y \in S
    BY ConcatProperties DEF S
  <2> QED BY <2>1, <2>2, <2>3
<1>2. Monoid(S, op, <<>>)
  <2>1. <<>> \in S /\ \A x \in S : <<>> \o x = x /\ x \o <<>> = x
    BY ConcatEmptySeq DEF S
  <2>2. \A x, y, z \in S : (x \o y) \o z = x \o (y \o z)
    BY ConcatAssociative, SMTT(40) DEF S
  <2> HIDE DEF op
  <2>3. ASSUME NEW x \in S, NEW y \in S, NEW z \in S
        PROVE  op[<<op[<<x, y>>], z>>] = op[<<x, op[<<y, z>>]>>]
    <3>1. op[<<x, y>>] = x \o y /\ op[<<y, z>>] = y \o z /\ x \o y \in S /\ y \o z \in S
      BY <1>1
    <3>2. op[<<x \o y, z>>] = (x \o y) \o z /\ op[<<x, y \o z>>] = x \o (y \o z)
      BY <1>1, <3>1
    <3> QED BY <2>2, <3>1, <3>2
  <2>4. ASSUME NEW x \in S PROVE op[<<(<<>>), x>>] = x /\ op[<<x, <<>> >>] = x
    <3>1. op[<<(<<>>), x>>] = <<>> \o x /\ op[<<x, <<>> >>] = x \o <<>>
      BY <1>1, <2>1
    <3> QED BY <2>1, <3>1
  <2>5. ASSUME NEW x \in S, NEW y \in S PROVE op[<<x, y>>] \in S
    <3>1. op[<<x, y>>] = x \o y /\ x \o y \in S
      BY <1>1
    <3> QED BY <3>1
  <2> QED BY <2>1, <2>3, <2>4, <2>5 DEF Monoid
<1>3. seqs \in Seq(S) /\ Joined(seqs) = Combined(seqs, op, <<>>)
  BY DEF S, Joined
<1> HIDE DEF op
<1>4. PICK f :
        /\ \A lo, hi \in 0 .. Len(seqs) : f[<<lo, hi>>] \in S
        /\ \A lo \in 0 .. Len(seqs) : f[<<lo, lo>>] = <<>>
        /\ \A k \in 1 .. Len(seqs) : f[<<k - 1, k>>] = seqs[k]
        /\ \A lo, c, hi \in 0 .. Len(seqs) :
             lo <= c /\ c <= hi => f[<<lo, hi>>] = op[<<f[<<lo, c>>], f[<<c, hi>>]>>]
        /\ Joined(seqs) = f[<<0, Len(seqs)>>]
  BY <1>2, <1>3, CombinedParts
<1>5. ASSUME NEW lo \in 0 .. Len(seqs), NEW c \in 0 .. Len(seqs), NEW hi \in 0 .. Len(seqs),
             lo <= c, c <= hi
      PROVE  f[<<lo, hi>>] = f[<<lo, c>>] \o f[<<c, hi>>]
  <2>1. f[<<lo, c>>] \in S /\ f[<<c, hi>>] \in S
    BY <1>4
  <2>2. f[<<lo, hi>>] = op[<<f[<<lo, c>>], f[<<c, hi>>]>>]
    BY <1>4, <1>5
  <2> QED BY <1>1, <2>1, <2>2
<1> QED BY <1>4, <1>5 DEF JoinParts, S

\* Sums of parts of a sequence.
SumParts(sizes, f) ==
  /\ \A lo, hi \in 0 .. Len(sizes) : f[<<lo, hi>>] \in Nat
  /\ \A lo \in 0 .. Len(sizes) : f[<<lo, lo>>] = 0
  /\ \A k \in 1 .. Len(sizes) : f[<<k - 1, k>>] = sizes[k]
  /\ \A lo, c, hi \in 0 .. Len(sizes) :
       lo <= c /\ c <= hi => f[<<lo, hi>>] = f[<<lo, c>>] + f[<<c, hi>>]
  /\ SumOf(sizes) = f[<<0, Len(sizes)>>]

\* SumOf, and every part of it.
LEMMA SumOfParts ==
  ASSUME NEW sizes \in Seq(Nat)
  PROVE  \E f : SumParts(sizes, f)
<1> DEFINE op == [x \in Nat \X Nat |-> x[1] + x[2]]
<1>1. \A x, y \in Nat : op[<<x, y>>] = x + y
  OBVIOUS
<1>3. SumOf(sizes) = Combined(sizes, op, 0)
  BY DEF SumOf
<1> HIDE DEF op
<1>2. Monoid(Nat, op, 0)
  <2>1. ASSUME NEW x \in Nat, NEW y \in Nat PROVE op[<<x, y>>] \in Nat
    <3>1. op[<<x, y>>] = x + y
      BY <1>1
    <3> QED BY <3>1
  <2>2. ASSUME NEW x \in Nat, NEW y \in Nat, NEW z \in Nat
        PROVE  op[<<op[<<x, y>>], z>>] = op[<<x, op[<<y, z>>]>>]
    <3>1. op[<<x, y>>] = x + y /\ op[<<y, z>>] = y + z /\ x + y \in Nat /\ y + z \in Nat
      BY <1>1
    <3>2. op[<<x + y, z>>] = (x + y) + z /\ op[<<x, y + z>>] = x + (y + z)
      BY <1>1, <3>1
    <3> QED BY <3>1, <3>2
  <2>3. ASSUME NEW x \in Nat PROVE op[<<0, x>>] = x /\ op[<<x, 0>>] = x
    <3>1. op[<<0, x>>] = 0 + x /\ op[<<x, 0>>] = x + 0
      BY <1>1
    <3> QED BY <3>1
  <2> QED BY <2>1, <2>2, <2>3 DEF Monoid
<1>4. PICK f :
        /\ \A lo, hi \in 0 .. Len(sizes) : f[<<lo, hi>>] \in Nat
        /\ \A lo \in 0 .. Len(sizes) : f[<<lo, lo>>] = 0
        /\ \A k \in 1 .. Len(sizes) : f[<<k - 1, k>>] = sizes[k]
        /\ \A lo, c, hi \in 0 .. Len(sizes) :
             lo <= c /\ c <= hi => f[<<lo, hi>>] = op[<<f[<<lo, c>>], f[<<c, hi>>]>>]
        /\ SumOf(sizes) = f[<<0, Len(sizes)>>]
  BY <1>2, <1>3, CombinedParts, SMTT(40)
<1>5. ASSUME NEW lo \in 0 .. Len(sizes), NEW c \in 0 .. Len(sizes), NEW hi \in 0 .. Len(sizes),
             lo <= c, c <= hi
      PROVE  f[<<lo, hi>>] = f[<<lo, c>>] + f[<<c, hi>>]
  <2>1. f[<<lo, c>>] \in Nat /\ f[<<c, hi>>] \in Nat
    BY <1>4
  <2>2. f[<<lo, hi>>] = op[<<f[<<lo, c>>], f[<<c, hi>>]>>]
    BY <1>4, <1>5
  <2> QED BY <1>1, <2>1, <2>2
<1> QED BY <1>4, <1>5 DEF SumParts

\* Sums are compared term by term.
LEMMA SumCompare ==
  ASSUME NEW x \in Seq(Nat), NEW y \in Seq(Nat), Len(x) = Len(y),
         \A i \in 1 .. Len(x) : x[i] >= y[i]
  PROVE  /\ SumOf(x) \in Nat /\ SumOf(y) \in Nat
         /\ SumOf(x) >= SumOf(y)
         /\ (\E i \in 1 .. Len(x) : x[i] > y[i]) => SumOf(x) > SumOf(y)
<1> DEFINE n == Len(x)
<1>0. n \in Nat /\ Len(y) = n /\ (\A i \in 1 .. n : x[i] \in Nat /\ y[i] \in Nat)
  OBVIOUS
<1>1. PICK f : SumParts(x, f)
  BY SumOfParts
<1>2. PICK g : SumParts(y, g)
  BY SumOfParts
<1> DEFINE Some(k) == \E i \in 1 .. k : x[i] > y[i]
           Fine(k) == /\ f[<<0, k>>] >= g[<<0, k>>]
                      /\ Some(k) => f[<<0, k>>] > g[<<0, k>>]
           Bad == {k \in Nat : k <= n /\ ~ Fine(k)}
<1>3. ASSUME NEW k \in 1 .. n
      PROVE  /\ f[<<0, k>>] = f[<<0, k - 1>>] + x[k]
             /\ g[<<0, k>>] = g[<<0, k - 1>>] + y[k]
             /\ f[<<0, k - 1>>] \in Nat /\ g[<<0, k - 1>>] \in Nat
  <2>1. 0 \in 0 .. n /\ k - 1 \in 0 .. n /\ k \in 0 .. n /\ 0 <= k - 1 /\ k - 1 <= k
    BY <1>0
  <2>2. f[<<0, k>>] = f[<<0, k - 1>>] + f[<<k - 1, k>>] /\ f[<<k - 1, k>>] = x[k]
    BY <1>1, <2>1 DEF SumParts
  <2>3. g[<<0, k>>] = g[<<0, k - 1>>] + g[<<k - 1, k>>] /\ g[<<k - 1, k>>] = y[k]
    <3>1. k \in 1 .. Len(y) /\ 0 \in 0 .. Len(y) /\ k - 1 \in 0 .. Len(y) /\ k \in 0 .. Len(y)
      BY <1>0
    <3>2. g[<<k - 1, k>>] = y[k]
      BY <1>2, <3>1 DEF SumParts
    <3> QED BY <1>2, <2>1, <3>1, <3>2 DEF SumParts
  <2>4. f[<<0, k - 1>>] \in Nat /\ g[<<0, k - 1>>] \in Nat
    <3>1. 0 .. Len(y) = 0 .. n
      BY <1>0
    <3> QED BY <1>1, <1>2, <2>1, <3>1 DEF SumParts
  <2> QED BY <2>2, <2>3, <2>4
<1>4. ASSUME Bad # {} PROVE FALSE
  <2> HIDE DEF Fine
  <2>1. PICK m \in Bad : \A k \in Bad : m <= k
    BY <1>4, LeastNumber
  <2>2. m \in Nat /\ m <= n /\ ~ Fine(m)
    OBVIOUS
  <2>3. CASE m = 0
    <3>1. f[<<0, 0>>] = 0 /\ g[<<0, 0>>] = 0
      BY <1>0, <1>1, <1>2 DEF SumParts
    <3> QED BY <2>2, <2>3, <3>1 DEF Fine
  <2>4. CASE m # 0
    <3>1. m - 1 \in Nat /\ m - 1 <= n /\ m - 1 < m /\ m \in 1 .. n
      BY <1>0, <2>2, <2>4
    <3>2. Fine(m - 1)
      BY <2>1, <3>1
    <3> DEFINE F == f[<<0, m - 1>>]
               G == g[<<0, m - 1>>]
    <3>3. /\ f[<<0, m>>] = F + x[m] /\ g[<<0, m>>] = G + y[m]
          /\ F \in Nat /\ G \in Nat /\ x[m] \in Nat /\ y[m] \in Nat /\ x[m] >= y[m]
      BY <1>0, <1>3, <3>1
    <3>4. F >= G /\ (Some(m - 1) => F > G)
      BY <3>2 DEF Fine
    <3>5. Some(m) => Some(m - 1) \/ x[m] > y[m]
      <4> SUFFICES ASSUME NEW i \in 1 .. m, x[i] > y[i] PROVE Some(m - 1) \/ x[m] > y[m]
        OBVIOUS
      <4>1. i = m \/ i \in 1 .. m - 1
        BY <3>1
      <4> QED BY <4>1
    <3>6. f[<<0, m>>] >= g[<<0, m>>]
      <4> HIDE DEF F, G
      <4> QED BY <3>3, <3>4, SMTT(40)
    <3>7. ASSUME Some(m) PROVE f[<<0, m>>] > g[<<0, m>>]
      <4> HIDE DEF F, G, Some
      <4> QED BY <3>3, <3>4, <3>5, <3>7, SMTT(40)
    <3>8. Fine(m)
      <4> HIDE DEF Some
      <4> QED BY <3>6, <3>7 DEF Fine
    <3> QED BY <2>2, <3>8
  <2> QED BY <2>3, <2>4
<1>5. Fine(n)
  <2> HIDE DEF Fine
  <2> QED BY <1>0, <1>4
<1>6. SumOf(x) = f[<<0, n>>] /\ SumOf(y) = g[<<0, n>>] /\ f[<<0, n>>] \in Nat /\ g[<<0, n>>] \in Nat
  BY <1>0, <1>1, <1>2 DEF SumParts
<1> QED BY <1>5, <1>6

\* What is joined is as long as the sum of the lengths.
LEMMA LenJoined ==
  ASSUME NEW seqs \in Seq(Seq(Byte)), NEW lens, lens = [i \in 1 .. Len(seqs) |-> Len(seqs[i])]
  PROVE  /\ Joined(seqs) \in Seq(Byte) /\ lens \in Seq(Nat)
         /\ Len(Joined(seqs)) = SumOf(lens)
<1> DEFINE n == Len(seqs)
<1>0. n \in Nat /\ (\A i \in 1 .. n : seqs[i] \in Seq(Byte) /\ Len(seqs[i]) \in Nat)
  OBVIOUS
<1>1. lens \in Seq(Nat) /\ Len(lens) = n
  BY <1>0
<1>2. PICK f : JoinParts(seqs, f)
  BY JoinedParts
<1>3. PICK g : SumParts(lens, g)
  BY <1>1, SumOfParts
<1> DEFINE Fine(k) == Len(f[<<0, k>>]) = g[<<0, k>>]
           Bad == {k \in Nat : k <= n /\ ~ Fine(k)}
<1>4. ASSUME Bad # {} PROVE FALSE
  <2> HIDE DEF Fine
  <2>1. PICK m \in Bad : \A k \in Bad : m <= k
    BY <1>4, LeastNumber
  <2>2. m \in Nat /\ m <= n /\ ~ Fine(m)
    OBVIOUS
  <2>3. CASE m = 0
    <3>1. f[<<0, 0>>] = <<>> /\ g[<<0, 0>>] = 0
      BY <1>0, <1>1, <1>2, <1>3 DEF SumParts, JoinParts
    <3> QED BY <2>2, <2>3, <3>1 DEF Fine
  <2>4. CASE m # 0
    <3>1. m - 1 \in Nat /\ m - 1 <= n /\ m - 1 < m /\ m \in 1 .. n
      BY <1>0, <2>2, <2>4
    <3>2. Fine(m - 1)
      BY <2>1, <3>1
    <3>3. 0 \in 0 .. n /\ m - 1 \in 0 .. n /\ m \in 0 .. n /\ 0 <= m - 1 /\ m - 1 <= m
      BY <2>2, <3>1
    <3>4. /\ f[<<0, m>>] = f[<<0, m - 1>>] \o f[<<m - 1, m>>] /\ f[<<m - 1, m>>] = seqs[m]
          /\ f[<<0, m - 1>>] \in Seq(Byte)
      BY <1>2, <3>1, <3>3 DEF JoinParts
    <3>5. /\ g[<<0, m>>] = g[<<0, m - 1>>] + g[<<m - 1, m>>] /\ g[<<m - 1, m>>] = lens[m]
      BY <1>1, <1>3, <3>1, <3>3 DEF SumParts
    <3>6. lens[m] = Len(seqs[m]) /\ seqs[m] \in Seq(Byte)
      BY <1>0, <3>1
    <3>7. \A u, v \in Seq(Byte) : Len(u \o v) = Len(u) + Len(v)
      OBVIOUS
    <3>8. Len(f[<<0, m>>]) = Len(f[<<0, m - 1>>]) + Len(seqs[m])
      BY <3>4, <3>6, <3>7
    <3>9. Fine(m)
      BY <3>2, <3>5, <3>6, <3>8 DEF Fine
    <3> QED BY <2>2, <3>9
  <2> QED BY <2>3, <2>4
<1>5. Fine(n)
  <2> HIDE DEF Fine
  <2> QED BY <1>0, <1>4
<1>6. Joined(seqs) = f[<<0, n>>] /\ SumOf(lens) = g[<<0, n>>] /\ f[<<0, n>>] \in Seq(Byte)
  BY <1>0, <1>1, <1>2, <1>3 DEF SumParts, JoinParts
<1> QED BY <1>1, <1>5, <1>6

-----------------------------------------------------------------------------
(***************************************************************************)
(* Bytes found where they stand                                            *)
(***************************************************************************)

\* b stands in the bytes in after the first at of them.
Occurs(b, in, at) ==
  /\ b \in Seq(Byte) /\ in \in Seq(Byte) /\ at \in Nat /\ at + Len(b) <= Len(in)
  /\ \A i \in 1 .. Len(b) : in[at + i] = b[i]

\* Bytes stand in themselves,
LEMMA OccursWhole ==
  ASSUME NEW b \in Seq(Byte)
  PROVE  Occurs(b, b, 0)
BY DEF Occurs

\* and parts of them where the parts before them end.
LEMMA OccursParts ==
  ASSUME NEW u \in Seq(Byte), NEW v \in Seq(Byte), NEW in, NEW at, Occurs(u \o v, in, at)
  PROVE  Occurs(u, in, at) /\ Occurs(v, in, at + Len(u)) /\ Len(u \o v) = Len(u) + Len(v)
<1> DEFINE w == u \o v
<1>1. /\ w \in Seq(Byte) /\ Len(w) = Len(u) + Len(v)
      /\ \A i \in 1 .. Len(u) : w[i] = u[i]
      /\ \A i \in 1 .. Len(v) : w[Len(u) + i] = v[i]
  OBVIOUS
<1> HIDE DEF w
<1>2. /\ in \in Seq(Byte) /\ at \in Nat /\ at + Len(w) <= Len(in)
      /\ \A i \in 1 .. Len(w) : in[at + i] = w[i]
  BY DEF Occurs, w
<1>3. Len(u) \in Nat /\ Len(v) \in Nat
  OBVIOUS
<1>4. Occurs(u, in, at)
  <2>1. \A i \in 1 .. Len(u) : i \in 1 .. Len(w)
    BY <1>1, <1>3
  <2> QED BY <1>1, <1>2, <1>3, <2>1 DEF Occurs
<1>5. Occurs(v, in, at + Len(u))
  <2>1. ASSUME NEW i \in 1 .. Len(v) PROVE in[(at + Len(u)) + i] = v[i]
    <3>1. Len(u) + i \in 1 .. Len(w) /\ (at + Len(u)) + i = at + (Len(u) + i)
      BY <1>1, <1>2, <1>3
    <3>2. in[at + (Len(u) + i)] = w[Len(u) + i]
      BY <1>2, <3>1
    <3> QED BY <1>1, <3>1, <3>2
  <2> QED BY <1>1, <1>2, <1>3, <2>1 DEF Occurs
<1> QED BY <1>1, <1>4, <1>5 DEF w

\* The sequences that were joined stand one behind the other.
Laid(seqs, in, pos) ==
  /\ pos \in [0 .. Len(seqs) -> Nat]
  /\ \A k \in 1 .. Len(seqs) :
       pos[k] = pos[k - 1] + Len(seqs[k]) /\ Occurs(seqs[k], in, pos[k - 1])

\* They do so wherever their join occurs.
LEMMA JoinedLaid ==
  ASSUME NEW seqs \in Seq(Seq(Byte)), NEW in, NEW at, Occurs(Joined(seqs), in, at)
  PROVE  \E pos : /\ Laid(seqs, in, pos)
                  /\ pos[0] = at /\ pos[Len(seqs)] = at + Len(Joined(seqs))
<1> DEFINE n == Len(seqs)
<1>0. n \in Nat /\ 0 \in 0 .. n /\ n \in 0 .. n /\ at \in Nat
  BY DEF Occurs
<1>1. PICK f : JoinParts(seqs, f)
  BY JoinedParts
<1> DEFINE pos == [k \in 0 .. n |-> at + Len(f[<<0, k>>])]
<1>2. \A k \in 0 .. n : f[<<0, k>>] \in Seq(Byte) /\ f[<<k, n>>] \in Seq(Byte)
  BY <1>0, <1>1 DEF JoinParts
<1>3. pos \in [0 .. n -> Nat]
  <2>1. ASSUME NEW k \in 0 .. n PROVE at + Len(f[<<0, k>>]) \in Nat
    <3>1. Len(f[<<0, k>>]) \in Nat
      BY <1>2
    <3> QED BY <1>0, <3>1
  <2> QED BY <2>1
<1>4. pos[0] = at /\ pos[n] = at + Len(Joined(seqs))
  <2>1. f[<<0, 0>>] = <<>> /\ Joined(seqs) = f[<<0, n>>]
    BY <1>0, <1>1 DEF JoinParts
  <2> QED BY <1>0, <2>1
<1>5. ASSUME NEW k \in 1 .. n
      PROVE  pos[k] = pos[k - 1] + Len(seqs[k]) /\ Occurs(seqs[k], in, pos[k - 1])
  <2>1. k - 1 \in 0 .. n /\ k \in 0 .. n /\ 0 <= k - 1 /\ k - 1 <= k /\ 0 <= k /\ k <= n
    BY <1>0
  <2> DEFINE u == f[<<0, k - 1>>]
             v == seqs[k]
             w == f[<<k, n>>]
  <2>2. f[<<0, k>>] = u \o v /\ f[<<0, n>>] = f[<<0, k>>] \o w
    <3>1. f[<<k - 1, k>>] = seqs[k]
      BY <1>1 DEF JoinParts
    <3>2. f[<<0, k>>] = f[<<0, k - 1>>] \o f[<<k - 1, k>>]
      BY <1>0, <1>1, <2>1 DEF JoinParts
    <3>3. f[<<0, n>>] = f[<<0, k>>] \o f[<<k, n>>]
      BY <1>0, <1>1, <2>1 DEF JoinParts
    <3> QED BY <3>1, <3>2, <3>3
  <2>3. u \in Seq(Byte) /\ v \in Seq(Byte) /\ w \in Seq(Byte) /\ u \o v \in Seq(Byte)
    <3>1. u \in Seq(Byte) /\ w \in Seq(Byte)
      BY <1>2, <2>1
    <3>2. v \in Seq(Byte)
      OBVIOUS
    <3> HIDE DEF u, v, w
    <3> QED BY <3>1, <3>2, ConcatProperties
  <2>4. pos[k - 1] = at + Len(u) /\ pos[k] = at + Len(u \o v)
    BY <2>1, <2>2
  <2> HIDE DEF u, v, w, pos
  <2>5. Occurs((u \o v) \o w, in, at)
    BY <1>1, <2>2 DEF JoinParts
  <2>6. Occurs(u \o v, in, at)
    BY <2>3, <2>5, OccursParts
  <2>7. Occurs(v, in, at + Len(u)) /\ Len(u \o v) = Len(u) + Len(v)
    BY <2>3, <2>6, OccursParts
  <2>8. Len(u) \in Nat /\ Len(v) \in Nat
    BY <2>3
  <2>9. pos[k] = pos[k - 1] + Len(v)
    BY <1>0, <2>4, <2>7, <2>8
  <2>10. Occurs(v, in, pos[k - 1])
    BY Zenon, <2>4, <2>7
  <2> QED BY <2>9, <2>10 DEF v
<1> HIDE DEF pos
<1>6. Laid(seqs, in, pos)
  BY <1>3, <1>5 DEF Laid
<1> QED BY <1>4, <1>6

-----------------------------------------------------------------------------
(***************************************************************************)
(* What each reader finds where its bytes were written                     *)
(***************************************************************************)

\* As many bytes as were written are read as they were.
LEMMA BytesFound ==
  ASSUME NEW b, NEW in, NEW at, Occurs(b, in, at)
  PROVE  /\ ReadBytes(in, at, Len(b)) = Got(b, at + Len(b))
         /\ SubSeq(in, at + 1, at + Len(b)) = b
         /\ Len(b) \in Nat /\ at + Len(b) \in Nat /\ at \in Nat
         /\ in \in Seq(Byte) /\ Len(in) \in Nat /\ at + Len(b) <= Len(in)
<1>1. /\ b \in Seq(Byte) /\ in \in Seq(Byte) /\ at \in Nat /\ at + Len(b) <= Len(in)
      /\ \A i \in 1 .. Len(b) : in[at + i] = b[i]
  BY DEF Occurs
<1>2. Len(b) \in Nat /\ Len(in) \in Nat
  BY <1>1
<1> DEFINE s == SubSeq(in, at + 1, at + Len(b))
<1>3. /\ s \in Seq(Byte) /\ Len(s) = Len(b)
      /\ \A i \in 1 .. Len(b) : s[i] = in[at + i]
  <2>1. at + 1 \in 1 .. Len(in) + 1 /\ at + Len(b) \in at .. Len(in)
    BY <1>1, <1>2
  <2> QED BY <1>1, <1>2, <2>1
<1>4. s = b
  <2> HIDE DEF s
  <2>1. \A i \in 1 .. Len(b) : s[i] = b[i]
    BY <1>1, <1>3
  <2> QED BY <1>1, <1>3, <2>1
<1>5. ReadBytes(in, at, Len(b)) = Got(s, at + Len(b))
  <2> HIDE DEF s
  <2>1. Len(b) >= 0 /\ at + Len(b) <= Len(in)
    BY <1>1, <1>2
  <2> QED BY <2>1 DEF ReadBytes, s
<1>6. ReadBytes(in, at, Len(b)) = Got(b, at + Len(b)) /\ SubSeq(in, at + 1, at + Len(b)) = b
  BY <1>4, <1>5
<1>7. at + Len(b) \in Nat
  BY <1>1, <1>2
<1> HIDE DEF s
<1> QED BY <1>1, <1>2, <1>6, <1>7

\* A number in the range of its width is read.
LEMMA NumberFound ==
  ASSUME NEW n \in Nat, NEW w \in Nat, Left(n, w) = 0,
         NEW in, NEW at, Occurs(LittleEndian(n, w), in, at)
  PROVE  ReadNumber(in, at, w) = Got(n, at + w) /\ at + w \in Nat
<1>1. Len(LittleEndian(n, w)) = w
  BY LittleEndianBytes
<1>2. ReadBytes(in, at, w) = Got(LittleEndian(n, w), at + w) /\ at + w \in Nat
  BY <1>1, BytesFound
<1>3. Number(LittleEndian(n, w)) = n
  BY NumberRead
<1> QED BY <1>2, <1>3 DEF ReadNumber, Then, Got

\* A time is read, unless its bytes stand for none.
LEMMA TimeFound ==
  ASSUME NEW n \in Nat, Left(n, 6) = 0, LittleEndian(n, 6) # NoTime,
         NEW in, NEW at, Occurs(LittleEndian(n, 6), in, at)
  PROVE  ReadTime(in, at) = Got(n, at + 6) /\ at + 6 \in Nat
<1>1. Len(LittleEndian(n, 6)) = 6
  BY LittleEndianBytes
<1>2. ReadBytes(in, at, 6) = Got(LittleEndian(n, 6), at + 6) /\ at + 6 \in Nat
  BY <1>1, BytesFound
<1>3. Number(LittleEndian(n, 6)) = n
  BY NumberRead
<1>4. ReadTime(in, at)
        = Got(IF LittleEndian(n, 6) = NoTime THEN -1 ELSE Number(LittleEndian(n, 6)), at + 6)
  <2> DEFINE r == ReadBytes(in, at, 6)
  <2>1. r.ok /\ r.val = LittleEndian(n, 6) /\ r.at = at + 6
    BY <1>2 DEF Got
  <2>2. ReadTime(in, at) = Got(IF r.val = NoTime THEN -1 ELSE Number(r.val), r.at)
    BY <2>1 DEF ReadTime, Then
  <2> QED BY <2>1, <2>2
<1> QED BY <1>2, <1>3, <1>4

\* A BigInteger is read as a number is.
LEMMA BigIntegerFound ==
  ASSUME NEW n \in Nat, Left(n, 32) = 0,
         NEW in, NEW at, Occurs(LittleEndian(n, 32), in, at)
  PROVE  ReadBigInteger(in, at) = Got(n, at + 32) /\ at + 32 \in Nat
<1>1. Len(LittleEndian(n, 32)) = 32
  BY LittleEndianBytes, ZenonT(60)
<1>2. SubSeq(in, at + 1, at + 32) = LittleEndian(n, 32) /\ at + 32 \in Nat
  BY <1>1, BytesFound
<1>3. at \in Nat /\ Len(in) \in Nat /\ at + 32 <= Len(in)
  BY <1>1, BytesFound
<1>4. ~ (at > Len(in)) /\ (IF at + 32 < Len(in) THEN at + 32 ELSE Len(in)) = at + 32
  BY <1>3
<1>5. Number(LittleEndian(n, 32)) = n
  BY NumberRead
<1> QED BY <1>2, <1>4, <1>5 DEF ReadBigInteger

\* VarInt.sizeOf tells the length VarInt.encode gives.
LEMMA VarIntBytes ==
  ASSUME NEW n, IsInt(n)
  PROVE  VarInt(n) \in Seq(Byte) /\ Len(VarInt(n)) = VarIntSize(n) /\ n \in Nat
<1>1. n \in Nat
  BY DEF IsInt
<1>2. CASE n < 253
  BY <1>1, <1>2 DEF VarInt, VarIntSize, Byte
<1>3. ASSUME NEW t \in Byte, NEW w \in Nat
      PROVE  <<t>> \o LittleEndian(n, w) \in Seq(Byte) /\ Len(<<t>> \o LittleEndian(n, w)) = 1 + w
  <2>1. LittleEndian(n, w) \in Seq(Byte) /\ Len(LittleEndian(n, w)) = w
    BY <1>1, LittleEndianBytes
  <2>2. <<t>> \in Seq(Byte) /\ Len(<<t>>) = 1
    OBVIOUS
  <2> QED BY <2>1, <2>2, ConcatProperties
<1>4. 253 \in Byte /\ 254 \in Byte
  BY DEF Byte
<1>5. CASE ~ (n < 253) /\ n <= 65535
  <2>1. VarInt(n) = <<253>> \o LittleEndian(n, 2) /\ VarIntSize(n) = 1 + 2
    BY <1>5 DEF VarInt, VarIntSize
  <2> QED BY <1>1, <1>3, <1>4, <2>1
<1>6. CASE ~ (n < 253) /\ ~ (n <= 65535)
  <2>1. VarInt(n) = <<254>> \o LittleEndian(n, 4) /\ VarIntSize(n) = 1 + 4
    BY <1>6 DEF VarInt, VarIntSize
  <2> QED BY <1>1, <1>3, <1>4, <2>1
<1> QED BY <1>2, <1>5, <1>6

\* The three forms a length is written in are read.
LEMMA VarIntFound ==
  ASSUME NEW n, IsInt(n), NEW in, NEW at, Occurs(VarInt(n), in, at)
  PROVE  ReadVarInt(in, at) = Got(n, at + VarIntSize(n)) /\ at + VarIntSize(n) \in Nat
<1>1. n \in Nat /\ at \in Nat
  BY DEF IsInt, Occurs
<1>2. CASE n < 253
  <2>1. VarInt(n) = <<n>> /\ VarIntSize(n) = 1
    BY <1>2 DEF VarInt, VarIntSize
  <2>2. in[at + 1] = n /\ at + 1 <= Len(in) /\ in \in Seq(Byte)
    BY <2>1 DEF Occurs
  <2>3. ~ (at >= Len(in))
    BY <1>1, <2>2
  <2> QED BY <1>1, <1>2, <2>1, <2>2, <2>3 DEF ReadVarInt
<1>3. ASSUME NEW t \in Byte, NEW w \in Nat, VarInt(n) = <<t>> \o LittleEndian(n, w)
      PROVE  Occurs(LittleEndian(n, w), in, at + 1) /\ in[at + 1] = t /\ ~ (at >= Len(in))
  <2>1. LittleEndian(n, w) \in Seq(Byte) /\ <<t>> \in Seq(Byte) /\ Len(<<t>>) = 1
    BY <1>1, LittleEndianBytes
  <2>2. Occurs(<<t>>, in, at) /\ Occurs(LittleEndian(n, w), in, at + 1)
    BY <1>3, <2>1, OccursParts
  <2>3. in[at + 1] = t /\ at + 1 <= Len(in) /\ Len(in) \in Nat
    BY <2>2 DEF Occurs
  <2> QED BY <1>1, <2>2, <2>3
<1>4. 253 \in Byte /\ 254 \in Byte
  BY DEF Byte
<1>5. CASE ~ (n < 253) /\ n <= 65535
  <2>1. VarInt(n) = <<253>> \o LittleEndian(n, 2) /\ VarIntSize(n) = 3
    BY <1>5 DEF VarInt, VarIntSize
  <2>2. Occurs(LittleEndian(n, 2), in, at + 1) /\ in[at + 1] = 253 /\ ~ (at >= Len(in))
    BY <1>3, <1>4, <2>1
  <2>3. ReadNumber(in, at + 1, 2) = Got(n, (at + 1) + 2)
    BY <1>1, <1>5, <2>2, Small, NumberFound
  <2>4. (at + 1) + 2 = at + 3
    BY <1>1
  <2> QED BY <1>1, <2>1, <2>2, <2>3, <2>4 DEF ReadVarInt
<1>6. CASE ~ (n < 253) /\ ~ (n <= 65535)
  <2>1. VarInt(n) = <<254>> \o LittleEndian(n, 4) /\ VarIntSize(n) = 5
    BY <1>6 DEF VarInt, VarIntSize
  <2>2. Occurs(LittleEndian(n, 4), in, at + 1) /\ in[at + 1] = 254 /\ ~ (at >= Len(in))
    BY <1>3, <1>4, <2>1
  <2>3. ReadNumber(in, at + 1, 4) = Got(n, (at + 1) + 4)
    BY <1>1, <2>2, Small, NumberFound
  <2>4. (at + 1) + 4 = at + 5
    BY <1>1
  <2> QED BY <1>1, <2>1, <2>2, <2>3, <2>4 DEF ReadVarInt
<1> QED BY <1>2, <1>5, <1>6

\* No length is one byte.
LEMMA ZeroVarInt ==
  IsInt(0) /\ VarInt(0) = <<0>> /\ VarIntSize(0) = 1 /\ <<0>> \in Seq(Byte)
<1>1. Left(0, 0) = 0 /\ Left(0, 1) = 0 /\ Left(0, 2) = 0 /\ Left(0, 3) = 0
  <2>1. Left(0, 0) = 0 /\ Left(0, 0 + 1) = Left(0, 0) \div 256
    BY LeftStep
  <2>2. Left(0, 1 + 1) = Left(0, 1) \div 256 /\ Left(0, 2 + 1) = Left(0, 2) \div 256
    BY LeftStep
  <2> QED BY <2>1, <2>2
<1> QED BY <1>1 DEF IsInt, VarInt, VarIntSize, Byte

\* Byte arrays, and strings that are written, with the length before them.
LEMMA ArrayBytes ==
  ASSUME NEW v, v = Null \/ IsArray(v)
  PROVE  /\ WriteBytes(v) \in Seq(Byte) /\ Len(WriteBytes(v)) = SizeOfArray(v)
         /\ Len(WriteBytes(v)) \in Nat
<1>1. CASE v = Null \/ v = <<>>
  <2>1. WriteBytes(v) = <<0>>
    BY <1>1, ZeroVarInt DEF WriteBytes
  <2>2. SizeOfArray(v) = 1
    <3>1. CASE v = Null
      BY <3>1 DEF SizeOfArray
    <3>2. CASE v # Null /\ v = <<>>
      BY <3>2, ZeroVarInt DEF SizeOfArray, SizeOfBytes
    <3> QED BY <1>1, <3>1, <3>2
  <2> QED BY <2>1, <2>2, ZeroVarInt
<1>2. CASE ~ (v = Null \/ v = <<>>)
  <2>1. v \in Seq(Byte) /\ IsInt(Len(v)) /\ Len(v) \in Nat
    BY <1>2 DEF IsArray
  <2>2. WriteBytes(v) = VarInt(Len(v)) \o v
    BY <1>2 DEF WriteBytes
  <2>3. VarInt(Len(v)) \in Seq(Byte) /\ Len(VarInt(Len(v))) = VarIntSize(Len(v))
    BY <2>1, VarIntBytes
  <2>4. SizeOfArray(v) = VarIntSize(Len(v)) + Len(v)
    BY <1>2 DEF SizeOfArray, SizeOfBytes
  <2>5. VarInt(Len(v)) \o v \in Seq(Byte) /\ Len(VarInt(Len(v)) \o v) = Len(VarInt(Len(v))) + Len(v)
    BY <2>1, <2>3, ConcatProperties
  <2>6. Len(VarInt(Len(v)) \o v) \in Nat
    BY <2>5
  <2> QED BY <2>2, <2>3, <2>4, <2>5, <2>6
<1> QED BY <1>1, <1>2

\* An empty array comes back as null.
LEMMA ArrayFound ==
  ASSUME NEW v, v = Null \/ IsArray(v), NEW in, NEW at, Occurs(WriteBytes(v), in, at)
  PROVE  ReadByLengthByte(in, at)
           = Got(IF v = <<>> THEN Null ELSE v, at + Len(WriteBytes(v)))
<1>1. CASE v = Null \/ v = <<>>
  <2>1. WriteBytes(v) = <<0>> /\ Len(<<0>>) = 1
    BY <1>1, ZeroVarInt DEF WriteBytes
  <2>2. ReadVarInt(in, at) = Got(0, at + 1)
    BY <2>1, ZeroVarInt, VarIntFound
  <2>3. ReadByLengthByte(in, at) = Got(Null, at + 1)
    BY <2>2 DEF ReadByLengthByte, Then, Got
  <2> QED BY <1>1, <2>1, <2>3
<1>2. CASE ~ (v = Null \/ v = <<>>)
  <2>1. v \in Seq(Byte) /\ IsInt(Len(v)) /\ Len(v) \in Nat /\ Len(v) # 0
    BY <1>2 DEF IsArray
  <2>2. WriteBytes(v) = VarInt(Len(v)) \o v
    BY <1>2 DEF WriteBytes
  <2>3. VarInt(Len(v)) \in Seq(Byte) /\ Len(VarInt(Len(v))) = VarIntSize(Len(v))
    BY <2>1, VarIntBytes
  <2> DEFINE s == VarIntSize(Len(v))
  <2>4. /\ Occurs(VarInt(Len(v)), in, at) /\ Occurs(v, in, at + s)
        /\ Len(WriteBytes(v)) = s + Len(v)
    <3>1. Occurs(VarInt(Len(v)) \o v, in, at)
      BY <2>2
    <3>2. /\ Occurs(VarInt(Len(v)), in, at) /\ Occurs(v, in, at + Len(VarInt(Len(v))))
          /\ Len(VarInt(Len(v)) \o v) = Len(VarInt(Len(v))) + Len(v)
      BY <2>1, <2>3, <3>1, OccursParts
    <3> QED BY <2>2, <2>3, <3>2
  <2>5. ReadVarInt(in, at) = Got(Len(v), at + s)
    BY <2>1, <2>4, VarIntFound
  <2>6. ReadBytes(in, at + s, Len(v)) = Got(v, (at + s) + Len(v))
    BY <2>4, BytesFound
  <2>7. ReadByLengthByte(in, at) = ReadBytes(in, at + s, Len(v))
    BY <2>1, <2>5 DEF ReadByLengthByte, Then, Got
  <2>8. (at + s) + Len(v) = at + (s + Len(v))
    BY <2>1 DEF Occurs, s, VarIntSize
  <2> QED BY <1>2, <2>4, <2>6, <2>7, <2>8
<1> QED BY <1>1, <1>2

\* A string has the size of its bytes, unless it is blank and not empty.
LEMMA StringBytes ==
  ASSUME NEW v, v = Null \/ IsArray(v)
  PROVE  /\ WriteString(v) \in Seq(Byte) /\ Len(WriteString(v)) \in Nat /\ SizeOfString(v) \in Nat
         /\ SizeOfString(v) >= Len(WriteString(v))
         /\ SizeOfString(v) = Len(WriteString(v)) <=> ~ BlankText(v)
<1>1. CASE ~ IsBlank(v)
  <2>1. WriteString(v) = WriteBytes(v) /\ ~ BlankText(v) /\ SizeOfString(v) = SizeOfArray(v)
    BY <1>1 DEF WriteString, BlankText, SizeOfString
  <2>2. WriteBytes(v) \in Seq(Byte) /\ Len(WriteBytes(v)) = SizeOfArray(v) /\ Len(WriteBytes(v)) \in Nat
    BY ArrayBytes
  <2> QED BY <2>1, <2>2
<1>2. CASE IsBlank(v)
  <2>1. WriteString(v) = <<0>> /\ <<0>> \in Seq(Byte) /\ Len(<<0>>) = 1
    BY <1>2, ZeroVarInt DEF WriteString
  <2>2. CASE v = Null
    <3>1. SizeOfString(v) = 1 /\ ~ BlankText(v)
      BY <2>2 DEF SizeOfString, SizeOfArray, BlankText
    <3> QED BY <2>1, <3>1
  <2>3. CASE v # Null /\ v = <<>>
    <3>1. SizeOfString(v) = 1 /\ ~ BlankText(v)
      BY <2>3, ZeroVarInt DEF SizeOfString, SizeOfArray, SizeOfBytes, BlankText
    <3> QED BY <2>1, <3>1
  <2>4. CASE v # Null /\ v # <<>>
    <3>1. v \in Seq(Byte) /\ Len(v) \in Nat /\ Len(v) # 0
      BY <2>4 DEF IsArray
    <3>2. SizeOfString(v) = VarIntSize(Len(v)) + Len(v) /\ BlankText(v)
      BY <1>2, <2>4 DEF SizeOfString, SizeOfArray, SizeOfBytes, BlankText
    <3>3. VarIntSize(Len(v)) \in {1, 3, 5}
      BY DEF VarIntSize
    <3> QED BY <2>1, <3>1, <3>2, <3>3
  <2> QED BY <2>2, <2>3, <2>4
<1> QED BY <1>1, <1>2

\* null comes back as an empty string.
LEMMA StringFound ==
  ASSUME NEW v, v = Null \/ IsArray(v), ~ BlankText(v),
         NEW in, NEW at, Occurs(WriteString(v), in, at)
  PROVE  ReadString(in, at) = Got(IF v = Null THEN <<>> ELSE v, at + Len(WriteString(v)))
<1>0. WriteString(v) = WriteBytes(v)
  <2>1. CASE IsBlank(v)
    <3>1. v = Null \/ v = <<>>
      BY <2>1 DEF BlankText
    <3> QED BY <2>1, <3>1 DEF WriteString, WriteBytes
  <2>2. CASE ~ IsBlank(v)
    BY <2>2 DEF WriteString
  <2> QED BY <2>1, <2>2
<1> DEFINE e == at + Len(WriteString(v))
           r == ReadByLengthByte(in, at)
<1>1. r = Got(IF v = <<>> THEN Null ELSE v, e)
  BY <1>0, ArrayFound
<1> HIDE DEF e
<1>2. r.ok /\ r.at = e /\ r.val = IF v = <<>> THEN Null ELSE v
  BY <1>1 DEF Got
<1>3. ReadString(in, at) = Got(IF r.val = Null THEN <<>> ELSE r.val, e)
  BY <1>2 DEF ReadString, Then
<1>4. (IF r.val = Null THEN <<>> ELSE r.val) = IF v = Null THEN <<>> ELSE v
  BY <1>2
<1> QED BY <1>3, <1>4 DEF e

\* A byte is read with its sign.
LEMMA ByteFound ==
  ASSUME NEW b \in Byte, NEW in, NEW at, Occurs(<<b>>, in, at)
  PROVE  ReadByte(in, at) = Got(Signed(b), at + 1) /\ at + 1 \in Nat
<1>1. Len(<<b>>) = 1 /\ <<b>>[1] = b
  OBVIOUS
<1>2. at \in Nat /\ Len(in) \in Nat /\ at + 1 <= Len(in)
  BY <1>1, BytesFound
<1>3. in[at + 1] = b
  BY <1>1 DEF Occurs
<1>4. at < Len(in)
  BY <1>2
<1> QED BY <1>2, <1>3, <1>4 DEF ReadByte

\* A key of less than 128 bytes is read.
LEMMA KeyFound ==
  ASSUME NEW v \in Seq(Byte), Len(v) < 128, NEW in, NEW at, Occurs(<<Len(v)>> \o v, in, at)
  PROVE  /\ ReadKey(in, at) = Got(v, at + (1 + Len(v)))
         /\ <<Len(v)>> \o v \in Seq(Byte) /\ Len(<<Len(v)>> \o v) = 1 + Len(v)
<1>1. Len(v) \in Nat /\ Len(v) \in Byte
  <2>1. Len(v) \in Nat
    OBVIOUS
  <2>2. \A n \in Nat : n < 128 => n \in Byte
    BY DEF Byte
  <2> QED BY <2>1, <2>2
<1>2. <<Len(v)>> \in Seq(Byte) /\ Len(<<Len(v)>>) = 1
  BY <1>1
<1>3. /\ Occurs(<<Len(v)>>, in, at) /\ Occurs(v, in, at + 1)
      /\ <<Len(v)>> \o v \in Seq(Byte) /\ Len(<<Len(v)>> \o v) = 1 + Len(v)
  BY <1>2, OccursParts, ConcatProperties
<1>4. ReadByte(in, at) = Got(Len(v), at + 1)
  <2>1. Signed(Len(v)) = Len(v)
    BY <1>1 DEF Signed
  <2> QED BY <1>1, <1>3, <2>1, ByteFound
<1>5. ReadBytes(in, at + 1, Len(v)) = Got(v, (at + 1) + Len(v))
  BY <1>3, BytesFound
<1>6. ReadKey(in, at) = ReadBytes(in, at + 1, Len(v))
  BY <1>4 DEF ReadKey, Then, Got
<1>7. (at + 1) + Len(v) = at + (1 + Len(v))
  BY <1>1 DEF Occurs
<1> QED BY <1>3, <1>5, <1>6, <1>7

-----------------------------------------------------------------------------
(***************************************************************************)
(* Readers in turn, as an operation that groups: by halves or one after    *)
(* the other                                                               *)
(***************************************************************************)

\* What reading may come to.
Outcomes(V) == {Fails} \union UNION {{Got(v, q) : q \in Nat} : v \in V}
Readers(V) == [Nat -> Outcomes(V)]

\* What an outcome is made of.
LEMMA GotFields ==
  ASSUME NEW v, NEW q
  PROVE  Got(v, q).ok = TRUE /\ Got(v, q).val = v /\ Got(v, q).at = q
BY DEF Got

\* The same, of whatever equals it.
LEMMA GotIs ==
  ASSUME NEW r, NEW v, NEW q, r = Got(v, q)
  PROVE  r.ok /\ r.val = v /\ r.at = q
BY GotFields, ZenonT(60)

\* An outcome failed or got something.
LEMMA OutcomeForms ==
  ASSUME NEW V, NEW r \in Outcomes(V)
  PROVE  /\ r = Fails \/ (r = Got(r.val, r.at) /\ r.val \in V /\ r.at \in Nat /\ r.ok)
         /\ r.ok => r = Got(r.val, r.at) /\ r.val \in V /\ r.at \in Nat
         /\ ~ r.ok => r = Fails
         /\ r.ok \in BOOLEAN
<1>1. CASE r = Fails
  <2>1. r.ok = FALSE
    BY <1>1 DEF Fails
  <2> QED BY <1>1, <2>1
<1>2. CASE r # Fails
  <2>1. PICK v \in V, q \in Nat : r = Got(v, q)
    BY <1>2 DEF Outcomes
  <2>2. r.ok = TRUE /\ r.val = v /\ r.at = q
    BY <2>1, GotFields, ZenonT(60)
  <2> QED BY <2>1, <2>2
<1> QED BY <1>1, <1>2

LEMMA GotOutcome ==
  ASSUME NEW V, NEW v \in V, NEW q \in Nat
  PROVE  Got(v, q) \in Outcomes(V) /\ Got(v, q).ok /\ Got(v, q).val = v /\ Got(v, q).at = q
<1>1. Got(v, q) \in Outcomes(V)
  <2>1. Got(v, q) \in {Got(v, n) : n \in Nat}
    OBVIOUS
  <2> QED BY <2>1 DEF Outcomes
<1> QED BY <1>1, GotFields, ZenonT(60)

LEMMA FailsOutcome ==
  ASSUME NEW V
  PROVE  Fails \in Outcomes(V) /\ ~ Fails.ok
BY DEF Outcomes, Fails

\* Two readers of sequences, the second after the first.
After(r, s) ==
  [p \in Nat |-> Then(r[p], LAMBDA v, q : Then(s[q], LAMBDA w, t : Got(v \o w, t)))]
NoReader == [p \in Nat |-> Got(<<>>, p)]
OneReader(r) == [p \in Nat |-> Then(r[p], LAMBDA v, q : Got(<<v>>, q))]

\* What two readers get.
LEMMA AfterAt ==
  ASSUME NEW V, NEW r \in Readers(Seq(V)), NEW s \in Readers(Seq(V)), NEW p \in Nat
  PROVE  /\ After(r, s)[p] \in Outcomes(Seq(V))
         /\ After(r, s)[p].ok => r[p].ok /\ s[r[p].at].ok
         /\ r[p].ok /\ s[r[p].at].ok =>
              After(r, s)[p] = Got(r[p].val \o s[r[p].at].val, s[r[p].at].at)
         /\ ~ (r[p].ok /\ s[r[p].at].ok) => After(r, s)[p] = Fails
<1>1. r[p] \in Outcomes(Seq(V))
  BY DEF Readers
<1>2. After(r, s)[p] = IF r[p].ok
                       THEN IF s[r[p].at].ok
                            THEN Got(r[p].val \o s[r[p].at].val, s[r[p].at].at)
                            ELSE Fails
                       ELSE Fails
  BY DEF After, Then
<1>3. CASE r[p].ok
  <2>1. r[p].at \in Nat /\ r[p].val \in Seq(V)
    BY <1>1, <1>3, OutcomeForms
  <2>2. s[r[p].at] \in Outcomes(Seq(V))
    BY <2>1 DEF Readers
  <2>3. CASE s[r[p].at].ok
    <3>1. s[r[p].at].at \in Nat /\ s[r[p].at].val \in Seq(V)
      BY <2>2, <2>3, OutcomeForms
    <3>2. r[p].val \o s[r[p].at].val \in Seq(V)
      BY <2>1, <3>1, ConcatProperties
    <3>3. Got(r[p].val \o s[r[p].at].val, s[r[p].at].at) \in Outcomes(Seq(V))
      BY <3>1, <3>2, GotOutcome
    <3> QED BY <1>2, <1>3, <2>3, <3>3
  <2>4. CASE ~ s[r[p].at].ok
    BY <1>2, <1>3, <2>4, FailsOutcome
  <2> QED BY <2>3, <2>4
<1>4. CASE ~ r[p].ok
  BY <1>2, <1>4, FailsOutcome
<1> QED BY <1>3, <1>4

\* Two readers make a reader,
LEMMA AfterReader ==
  ASSUME NEW V, NEW r \in Readers(Seq(V)), NEW s \in Readers(Seq(V))
  PROVE  After(r, s) \in Readers(Seq(V))
<1>1. \A p \in Nat : After(r, s)[p] \in Outcomes(Seq(V))
  BY AfterAt
<1>2. DOMAIN After(r, s) = Nat /\ After(r, s) = [p \in Nat |-> After(r, s)[p]]
  BY DEF After
<1> QED BY <1>1, <1>2 DEF Readers

\* Readers of the same are the same.
LEMMA SameReaders ==
  ASSUME NEW V, NEW r \in Readers(V), NEW s \in Readers(V), \A p \in Nat : r[p] = s[p]
  PROVE  r = s
BY DEF Readers

\* three of them in either grouping the same one,
LEMMA AfterGroups ==
  ASSUME NEW V, NEW r \in Readers(Seq(V)), NEW s \in Readers(Seq(V)), NEW t \in Readers(Seq(V))
  PROVE  After(After(r, s), t) = After(r, After(s, t))
<1> DEFINE rs == After(r, s)
           st == After(s, t)
<1>1. rs \in Readers(Seq(V)) /\ st \in Readers(Seq(V))
  BY AfterReader
<1>2. ASSUME NEW p \in Nat PROVE After(rs, t)[p] = After(r, st)[p]
  <2>1. CASE ~ r[p].ok
    <3>1. ~ rs[p].ok
      BY <2>1, AfterAt
    <3> HIDE DEF rs, st
    <3> QED BY <1>1, <2>1, <3>1, AfterAt
  <2>2. CASE r[p].ok
    <3> DEFINE q == r[p].at
    <3>1. q \in Nat /\ r[p].val \in Seq(V)
      <4>1. r[p] \in Outcomes(Seq(V))
        BY DEF Readers
      <4> QED BY <2>2, <4>1, OutcomeForms
    <3>2. CASE ~ s[q].ok
      <4>1. ~ rs[p].ok /\ ~ st[q].ok
        BY <2>2, <3>1, <3>2, AfterAt
      <4> HIDE DEF rs, st
      <4> QED BY <1>1, <2>2, <4>1, AfterAt
    <3>3. CASE s[q].ok
      <4> DEFINE u == s[q].at
      <4>1. u \in Nat /\ s[q].val \in Seq(V)
        <5>1. s[q] \in Outcomes(Seq(V))
          BY <3>1 DEF Readers
        <5> QED BY <3>3, <5>1, OutcomeForms
      <4>2. rs[p] = Got(r[p].val \o s[q].val, u)
        BY <2>2, <3>3, AfterAt
      <4>3. rs[p].ok /\ rs[p].at = u /\ rs[p].val = r[p].val \o s[q].val
        <5>1. PICK w : w = r[p].val \o s[q].val
          OBVIOUS
        <5>2. rs[p] = Got(w, u)
          BY <4>2, <5>1
        <5> HIDE DEF rs, q, u
        <5>3. rs[p].ok /\ rs[p].at = u /\ rs[p].val = w
          BY <5>2, GotIs
        <5> QED BY <5>1, <5>3
      <4>4. CASE ~ t[u].ok
        <5>1. ~ st[q].ok
          BY <3>1, <4>4, AfterAt
        <5> HIDE DEF rs, st, u
        <5> QED BY <1>1, <2>2, <4>3, <4>4, <5>1, AfterAt
      <4>5. CASE t[u].ok
        <5>1. t[u].val \in Seq(V)
          <6>1. t[u] \in Outcomes(Seq(V))
            BY <4>1 DEF Readers
          <6> QED BY <4>5, <6>1, OutcomeForms
        <5>2. st[q] = Got(s[q].val \o t[u].val, t[u].at)
          BY <3>1, <3>3, <4>5, AfterAt
        <5>3. st[q].ok /\ st[q].at = t[u].at /\ st[q].val = s[q].val \o t[u].val
          <6>1. PICK w : w = s[q].val \o t[u].val
            OBVIOUS
          <6>2. st[q] = Got(w, t[u].at)
            BY <5>2, <6>1
          <6> HIDE DEF st, q, u
          <6>3. st[q].ok /\ st[q].at = t[u].at /\ st[q].val = w
            BY <6>2, GotIs
          <6> QED BY <6>1, <6>3
        <5> HIDE DEF rs, st, u
        <5>4. After(rs, t)[p] = Got((r[p].val \o s[q].val) \o t[u].val, t[u].at)
          <6>1. After(rs, t)[p] = Got(rs[p].val \o t[rs[p].at].val, t[rs[p].at].at)
            <7>1. rs[p].ok /\ t[rs[p].at].ok
              BY <4>3, <4>5
            <7> QED BY <1>1, <7>1, AfterAt
          <6> QED BY <4>3, <6>1
        <5>5. After(r, st)[p] = Got(r[p].val \o (s[q].val \o t[u].val), t[u].at)
          <6>1. After(r, st)[p] = Got(r[p].val \o st[q].val, st[q].at)
            BY <1>1, <2>2, <5>3, AfterAt
          <6> QED BY <5>3, <6>1
        <5>6. (r[p].val \o s[q].val) \o t[u].val = r[p].val \o (s[q].val \o t[u].val)
          <6> DEFINE x == r[p].val
                     y == s[q].val
                     z == t[u].val
          <6>1. x \in Seq(V) /\ y \in Seq(V) /\ z \in Seq(V)
            BY <3>1, <4>1, <5>1
          <6> HIDE DEF x, y, z
          <6>2. (x \o y) \o z = x \o (y \o z)
            BY <6>1, ConcatAssociative
          <6> QED BY <6>2 DEF x, y, z
        <5> QED BY <5>4, <5>5, <5>6
      <4> QED BY <4>4, <4>5
    <3> QED BY <3>2, <3>3
  <2> QED BY <2>1, <2>2
<1> HIDE DEF rs, st
<1>3. After(rs, t) \in Readers(Seq(V)) /\ After(r, st) \in Readers(Seq(V))
  BY <1>1, AfterReader
<1>4. After(rs, t) = After(r, st)
  BY <1>2, <1>3, SameReaders
<1> QED BY <1>4 DEF rs, st

\* and the reader of nothing is neutral.
LEMMA NoReaderNeutral ==
  ASSUME NEW V, NEW r \in Readers(Seq(V))
  PROVE  /\ NoReader \in Readers(Seq(V))
         /\ After(NoReader, r) = r /\ After(r, NoReader) = r
<1>1. NoReader \in Readers(Seq(V))
  <2>0. <<>> \in Seq(V)
    OBVIOUS
  <2>1. \A p \in Nat : Got(<<>>, p) \in Outcomes(Seq(V))
    BY <2>0, GotOutcome
  <2> QED BY <2>1 DEF NoReader, Readers
<1>2. \A p \in Nat : NoReader[p].ok /\ NoReader[p].val = <<>> /\ NoReader[p].at = p
  BY GotFields, ZenonT(60) DEF NoReader
<1>3. ASSUME NEW p \in Nat PROVE After(NoReader, r)[p] = r[p] /\ After(r, NoReader)[p] = r[p]
  <2>1. r[p] \in Outcomes(Seq(V))
    BY DEF Readers
  <2>2. CASE ~ r[p].ok
    <3>1. r[p] = Fails
      BY <2>1, <2>2, OutcomeForms
    <3> QED BY <1>1, <1>2, <2>2, <3>1, AfterAt
  <2>3. CASE r[p].ok
    <3>1. r[p] = Got(r[p].val, r[p].at) /\ r[p].val \in Seq(V) /\ r[p].at \in Nat
      BY <2>1, <2>3, OutcomeForms
    <3>2. <<>> \o r[p].val = r[p].val /\ r[p].val \o <<>> = r[p].val
      BY <3>1, ConcatEmptySeq
    <3>3. After(NoReader, r)[p] = Got(<<>> \o r[p].val, r[p].at)
      <4>1. NoReader[p].ok /\ NoReader[p].val = <<>> /\ NoReader[p].at = p
        BY <1>2
      <4>2. After(NoReader, r)[p] = Got(NoReader[p].val \o r[NoReader[p].at].val, r[NoReader[p].at].at)
        <5>1. NoReader[p].ok /\ r[NoReader[p].at].ok
          BY <2>3, <4>1
        <5> QED BY <1>1, <5>1, AfterAt
      <4> QED BY <4>1, <4>2
    <3>4. After(r, NoReader)[p] = Got(r[p].val \o <<>>, r[p].at)
      <4> DEFINE q == r[p].at
      <4>1. NoReader[q].ok /\ NoReader[q].val = <<>> /\ NoReader[q].at = q
        BY <1>2, <3>1
      <4>2. After(r, NoReader)[p] = Got(r[p].val \o NoReader[q].val, NoReader[q].at)
        BY <1>1, <2>3, <4>1, AfterAt
      <4> QED BY <4>1, <4>2
    <3> QED BY <3>1, <3>2, <3>3, <3>4
  <2> QED BY <2>2, <2>3
<1>4. After(NoReader, r) \in Readers(Seq(V)) /\ After(r, NoReader) \in Readers(Seq(V))
  BY <1>1, AfterReader
<1> QED BY <1>1, <1>3, <1>4, SameReaders

\* The reader of one value, as a sequence.
LEMMA OneReaderAt ==
  ASSUME NEW V, NEW r \in Readers(V)
  PROVE  /\ OneReader(r) \in Readers(Seq(V))
         /\ \A p \in Nat : OneReader(r)[p] = IF r[p].ok THEN Got(<<r[p].val>>, r[p].at) ELSE Fails
<1>1. \A p \in Nat : OneReader(r)[p] = IF r[p].ok THEN Got(<<r[p].val>>, r[p].at) ELSE Fails
  BY DEF OneReader, Then
<1>2. ASSUME NEW p \in Nat PROVE OneReader(r)[p] \in Outcomes(Seq(V))
  <2>1. r[p] \in Outcomes(V)
    BY DEF Readers
  <2>2. CASE r[p].ok
    <3>1. r[p].val \in V /\ r[p].at \in Nat
      BY <2>1, <2>2, OutcomeForms
    <3>2. <<r[p].val>> \in Seq(V)
      BY <3>1
    <3>3. Got(<<r[p].val>>, r[p].at) \in Outcomes(Seq(V))
      BY <3>1, <3>2, GotOutcome
    <3>4. OneReader(r)[p] = Got(<<r[p].val>>, r[p].at)
      BY <1>1, <2>2
    <3> QED BY <3>3, <3>4
  <2>3. CASE ~ r[p].ok
    BY <1>1, <2>3, FailsOutcome
  <2> QED BY <2>2, <2>3
<1>3. DOMAIN OneReader(r) = Nat /\ OneReader(r) = [p \in Nat |-> OneReader(r)[p]]
  BY DEF OneReader
<1> QED BY <1>1, <1>2, <1>3 DEF Readers

\* One step of the halving of readers.
TurnHalf(readers, f, lo, hi) ==
  [p \in Nat |->
     IF hi <= lo THEN Got(<<>>, p)
     ELSE IF hi = lo + 1 THEN Then(readers[hi][p], LAMBDA v, q : Got(<<v>>, q))
     ELSE Then(f[<<lo, Mid(lo, hi)>>][p],
               LAMBDA v, q : Then(f[<<Mid(lo, hi), hi>>][q],
                                  LAMBDA w, r : Got(v \o w, r)))]
Turns(readers, f) ==
  f = [x \in Places(Len(readers)) |-> TurnHalf(readers, f, x[1], x[2])]
Singles(readers) == [i \in 1 .. Len(readers) |-> OneReader(readers[i])]

\* After, as a function.
AfterOp(V) == [x \in Readers(Seq(V)) \X Readers(Seq(V)) |-> After(x[1], x[2])]

\* Its values.
LEMMA AfterOpAt ==
  ASSUME NEW V, NEW r \in Readers(Seq(V)), NEW s \in Readers(Seq(V))
  PROVE  AfterOp(V)[<<r, s>>] = After(r, s)
<1> DEFINE R == Readers(Seq(V))
           op == [x \in R \X R |-> After(x[1], x[2])]
<1>1. AfterOp(V) = op
  BY DEF AfterOp
<1> HIDE DEF R
<1>2. r \in R /\ s \in R
  BY DEF R
<1>3. <<r, s>> \in R \X R /\ <<r, s>>[1] = r /\ <<r, s>>[2] = s
  BY <1>2
<1>4. op[<<r, s>>] = After(<<r, s>>[1], <<r, s>>[2])
  BY <1>3
<1> QED BY <1>1, <1>3, <1>4

\* Readers can be grouped at will.
LEMMA AfterMonoid ==
  ASSUME NEW V
  PROVE  Monoid(Readers(Seq(V)), AfterOp(V), NoReader)
<1> DEFINE R == Readers(Seq(V))
           op == AfterOp(V)
<1>1. NoReader \in R
  <2>0. <<>> \in Seq(V)
    OBVIOUS
  <2>1. \A p \in Nat : Got(<<>>, p) \in Outcomes(Seq(V))
    BY <2>0, GotOutcome
  <2> QED BY <2>1 DEF NoReader, Readers
<1>2. ASSUME NEW x \in R, NEW y \in R PROVE op[<<x, y>>] = After(x, y) /\ After(x, y) \in R
  BY AfterOpAt, AfterReader
<1> HIDE DEF op
<1>3. ASSUME NEW x \in R, NEW y \in R, NEW z \in R
      PROVE  op[<<op[<<x, y>>], z>>] = op[<<x, op[<<y, z>>]>>]
  <2>1. op[<<x, y>>] = After(x, y) /\ op[<<y, z>>] = After(y, z) /\ After(x, y) \in R /\ After(y, z) \in R
    BY <1>2
  <2>2. op[<<After(x, y), z>>] = After(After(x, y), z) /\ op[<<x, After(y, z)>>] = After(x, After(y, z))
    BY <1>2, <2>1
  <2>3. After(After(x, y), z) = After(x, After(y, z))
    BY AfterGroups
  <2> QED BY <2>1, <2>2, <2>3
<1>4. ASSUME NEW x \in R PROVE op[<<NoReader, x>>] = x /\ op[<<x, NoReader>>] = x
  <2>1. op[<<NoReader, x>>] = After(NoReader, x) /\ op[<<x, NoReader>>] = After(x, NoReader)
    BY <1>1, <1>2
  <2> QED BY <2>1, NoReaderNeutral
<1>5. ASSUME NEW x \in R, NEW y \in R PROVE op[<<x, y>>] \in R
  BY <1>2
<1> HIDE DEF R
<1>6. Monoid(R, op, NoReader)
  BY <1>1, <1>3, <1>4, <1>5 DEF Monoid
<1> QED BY <1>6 DEF R, op

\* Halving the readers as InTurn does, and combining single ones, is the same.
LEMMA TurnHalfIs ==
  ASSUME NEW V, NEW readers \in Seq(Readers(V)), NEW f,
         NEW lo \in 0 .. Len(readers), NEW hi \in 0 .. Len(readers),
         hi > lo + 1 => /\ f[<<lo, Mid(lo, hi)>>] \in Readers(Seq(V))
                        /\ f[<<Mid(lo, hi), hi>>] \in Readers(Seq(V))
  PROVE  TurnHalf(readers, f, lo, hi)
           = Half(Singles(readers), AfterOp(V), NoReader, f, lo, hi)
<1>0. Len(readers) \in Nat
  OBVIOUS
<1>1. CASE hi <= lo
  BY <1>1 DEF TurnHalf, Half, NoReader
<1>2. CASE ~ (hi <= lo) /\ hi = lo + 1
  <2>1. hi \in 1 .. Len(readers)
    BY <1>0, <1>2
  <2>2. Singles(readers)[hi] = OneReader(readers[hi])
    BY <2>1 DEF Singles
  <2>3. TurnHalf(readers, f, lo, hi) = OneReader(readers[hi])
    BY <1>2 DEF TurnHalf, OneReader
  <2> QED BY <1>2, <2>2, <2>3 DEF Half
<1>3. CASE ~ (hi <= lo) /\ hi # lo + 1
  <2>1. hi > lo + 1
    BY <1>0, <1>3
  <2> DEFINE u == f[<<lo, Mid(lo, hi)>>]
             v == f[<<Mid(lo, hi), hi>>]
  <2>2. TurnHalf(readers, f, lo, hi) = After(u, v)
    BY <1>3 DEF TurnHalf, After
  <2>3. AfterOp(V)[<<u, v>>] = After(u, v)
    BY <2>1, AfterOpAt
  <2> QED BY <1>3, <2>2, <2>3 DEF Half
<1> QED BY <1>1, <1>2, <1>3

\* InTurn combines the readers of single values,
LEMMA InTurnHalves ==
  ASSUME NEW V, NEW readers \in Seq(Readers(V))
  PROVE  \E f : /\ Halves(Singles(readers), AfterOp(V), NoReader, f)
                /\ \A at : InTurn(readers, at) = f[<<0, Len(readers)>>][at]
<1> DEFINE n == Len(readers)
           R == Readers(Seq(V))
           op == AfterOp(V)
           s == Singles(readers)
<1>0. n \in Nat /\ \A i \in 1 .. n : readers[i] \in Readers(V)
  OBVIOUS
<1>1. s \in Seq(R) /\ Len(s) = n
  <2>1. \A i \in 1 .. n : OneReader(readers[i]) \in R
    BY <1>0, OneReaderAt
  <2> HIDE DEF R
  <2> QED BY <1>0, <2>1 DEF Singles
<1> HIDE DEF s, R, op
<1>2. PICK f : Halves(s, op, NoReader, f)
  BY <1>0, <1>1, HalvesExist
<1>3. Monoid(R, op, NoReader)
  BY AfterMonoid DEF R, op
<1>4. \A lo, hi \in 0 .. n : f[<<lo, hi>>] \in R
  <2>1. \A lo, hi \in 0 .. Len(s) : f[<<lo, hi>>] \in R
    BY <1>1, <1>2, <1>3, HalvesSplit
  <2> QED BY <1>1, <2>1
<1>5. ASSUME NEW lo \in 0 .. n, NEW hi \in 0 .. n
      PROVE  f[<<lo, hi>>] = TurnHalf(readers, f, lo, hi)
  <2>1. f[<<lo, hi>>] = Half(s, op, NoReader, f, lo, hi)
    BY <1>0, <1>1, <1>2, HalvesAt
  <2>2. ASSUME hi > lo + 1
        PROVE  f[<<lo, Mid(lo, hi)>>] \in R /\ f[<<Mid(lo, hi), hi>>] \in R
    <3>1. Mid(lo, hi) \in 0 .. n
      BY <1>0, <2>2, MidBetween
    <3> QED BY <1>4, <3>1
  <2>3. TurnHalf(readers, f, lo, hi) = Half(s, op, NoReader, f, lo, hi)
    BY <2>2, TurnHalfIs DEF s, op, R
  <2> QED BY <2>1, <2>3
<1> DEFINE h(x) == TurnHalf(readers, f, x[1], x[2])
<1>6. Turns(readers, f)
  <2>1. \A x \in Places(n) : f[x] = h(x)
    <3> SUFFICES ASSUME NEW lo \in 0 .. n, NEW hi \in 0 .. n
                 PROVE  f[<<lo, hi>>] = h(<<lo, hi>>)
      BY DEF Places
    <3>1. <<lo, hi>>[1] = lo /\ <<lo, hi>>[2] = hi
      OBVIOUS
    <3>2. h(<<lo, hi>>) = TurnHalf(readers, f, lo, hi)
      BY <3>1
    <3> QED BY <1>5, <3>2
  <2> DEFINE k(x) == Half(s, op, NoReader, f, x[1], x[2])
  <2>2. f = [x \in Places(n) |-> k(x)]
    BY <1>1, <1>2 DEF Halves
  <2> HIDE DEF h, k
  <2>3. f = [x \in Places(n) |-> h(x)]
    BY <2>1, <2>2
  <2> QED BY <2>3 DEF Turns, h
<1> DEFINE g == CHOOSE g : Turns(readers, g)
<1>7. Turns(readers, g)
  BY <1>6
<1>8. \A at : InTurn(readers, at) = g[<<0, n>>][at]
  BY Zenon DEF InTurn, Turns, TurnHalf, Places, Mid
<1> HIDE DEF g, h
<1>9. \A lo, hi \in 0 .. n : g[<<lo, hi>>] = TurnHalf(readers, g, lo, hi)
  <2> SUFFICES ASSUME NEW lo \in 0 .. n, NEW hi \in 0 .. n
               PROVE  g[<<lo, hi>>] = TurnHalf(readers, g, lo, hi)
    OBVIOUS
  <2> DEFINE k(x) == TurnHalf(readers, g, x[1], x[2])
  <2>1. g = [x \in Places(n) |-> k(x)]
    BY <1>7 DEF Turns
  <2>2. <<lo, hi>> \in Places(n) /\ <<lo, hi>>[1] = lo /\ <<lo, hi>>[2] = hi
    BY DEF Places
  <2>3. k(<<lo, hi>>) = TurnHalf(readers, g, lo, hi)
    BY <2>2
  <2> HIDE DEF k
  <2>4. g[<<lo, hi>>] = k(<<lo, hi>>)
    BY <2>1, <2>2
  <2> QED BY <2>3, <2>4
<1> DEFINE Same(k) == \A lo, hi \in 0 .. n : hi <= lo + k => g[<<lo, hi>>] = f[<<lo, hi>>]
           Bad == {k \in Nat : ~ Same(k)}
<1>10. ASSUME Bad # {} PROVE FALSE
  <2>1. PICK m \in Bad : \A k \in Bad : m <= k
    BY <1>10, LeastNumber
  <2>2. PICK lo \in 0 .. n, hi \in 0 .. n : hi <= lo + m /\ g[<<lo, hi>>] # f[<<lo, hi>>]
    BY <2>1
  <2>3. m \in Nat /\ lo \in Nat /\ hi \in Nat
    BY <1>0
  <2>4. g[<<lo, hi>>] = TurnHalf(readers, g, lo, hi) /\ f[<<lo, hi>>] = TurnHalf(readers, f, lo, hi)
    BY <1>5, <1>9
  <2>5. CASE ~ (hi > lo + 1)
    <3>1. hi <= lo \/ hi = lo + 1
      BY <2>3, <2>5
    <3>2. TurnHalf(readers, g, lo, hi) = TurnHalf(readers, f, lo, hi)
      BY <3>1 DEF TurnHalf
    <3> QED BY <2>2, <2>4, <3>2
  <2>6. CASE hi > lo + 1
    <3>1. Mid(lo, hi) \in Nat /\ lo < Mid(lo, hi) /\ Mid(lo, hi) < hi
      BY <2>3, <2>6, MidBetween
    <3>2. /\ Mid(lo, hi) \in 0 .. n /\ m - 1 \in Nat /\ m - 1 < m
          /\ Mid(lo, hi) <= lo + (m - 1) /\ hi <= Mid(lo, hi) + (m - 1)
      BY <2>2, <2>3, <2>6, <3>1
    <3>3. Same(m - 1)
      <4> HIDE DEF Same
      <4> QED BY <2>1, <2>3, <3>2
    <3>4. /\ g[<<lo, Mid(lo, hi)>>] = f[<<lo, Mid(lo, hi)>>]
          /\ g[<<Mid(lo, hi), hi>>] = f[<<Mid(lo, hi), hi>>]
      BY <3>2, <3>3
    <3>5. TurnHalf(readers, g, lo, hi) = TurnHalf(readers, f, lo, hi)
      BY <3>4 DEF TurnHalf
    <3> QED BY <2>2, <2>4, <3>5
  <2> QED BY <2>5, <2>6
<1>11. Same(n)
  <2> HIDE DEF Same
  <2> QED BY <1>0, <1>10
<1>12. g[<<0, n>>] = f[<<0, n>>]
  BY <1>0, <1>11
<1> QED BY <1>2, <1>8, <1>12 DEF s, op

\* So: what is read in turn is read one after the other.
TurnParts(V, readers, f) ==
  /\ \A k \in 0 .. Len(readers) : f[k] \in Readers(Seq(V))
  /\ f[0] = NoReader
  /\ \A k \in 1 .. Len(readers) : f[k] = After(f[k - 1], OneReader(readers[k]))
  /\ \A at : InTurn(readers, at) = f[Len(readers)][at]

\* one after the other.
LEMMA InTurnParts ==
  ASSUME NEW V, NEW readers \in Seq(Readers(V))
  PROVE  \E f : TurnParts(V, readers, f)
<1> DEFINE n == Len(readers)
           R == Readers(Seq(V))
           op == AfterOp(V)
           s == Singles(readers)
<1>0. n \in Nat /\ \A i \in 1 .. n : readers[i] \in Readers(V)
  OBVIOUS
<1>1. /\ s \in Seq(R) /\ Len(s) = n
      /\ \A i \in 1 .. n : s[i] = OneReader(readers[i]) /\ OneReader(readers[i]) \in R
  <2>1. \A i \in 1 .. n : OneReader(readers[i]) \in R
    BY <1>0, OneReaderAt
  <2> HIDE DEF R
  <2> QED BY <1>0, <2>1 DEF Singles
<1>2. PICK h : /\ Halves(s, op, NoReader, h)
               /\ \A at : InTurn(readers, at) = h[<<0, n>>][at]
  BY InTurnHalves
<1>3. Monoid(R, op, NoReader)
  BY AfterMonoid
<1> HIDE DEF s, R, op
<1>4. /\ \A lo, hi \in 0 .. n : h[<<lo, hi>>] \in R
      /\ \A lo \in 0 .. n : h[<<lo, lo>>] = NoReader
      /\ \A k \in 1 .. n : h[<<k - 1, k>>] = s[k]
      /\ \A lo, c, hi \in 0 .. n :
           lo <= c /\ c <= hi => h[<<lo, hi>>] = op[<<h[<<lo, c>>], h[<<c, hi>>]>>]
  BY <1>1, <1>2, <1>3, HalvesSplit
<1> DEFINE f == [k \in 0 .. n |-> h[<<0, k>>]]
<1>5. \A k \in 0 .. n : f[k] = h[<<0, k>>] /\ f[k] \in R
  BY <1>0, <1>4
<1>6. ASSUME NEW k \in 1 .. n PROVE f[k] = After(f[k - 1], OneReader(readers[k]))
  <2>1. 0 \in 0 .. n /\ k - 1 \in 0 .. n /\ k \in 0 .. n /\ 0 <= k - 1 /\ k - 1 <= k
    BY <1>0
  <2>2. h[<<0, k>>] = op[<<h[<<0, k - 1>>], h[<<k - 1, k>>]>>]
    BY <1>4, <2>1
  <2>3. h[<<k - 1, k>>] = OneReader(readers[k]) /\ OneReader(readers[k]) \in R
    BY <1>1, <1>4
  <2>4. f[k] = op[<<f[k - 1], OneReader(readers[k])>>] /\ f[k - 1] \in R
    BY <1>5, <2>1, <2>2, <2>3
  <2> HIDE DEF f
  <2>5. op[<<f[k - 1], OneReader(readers[k])>>] = After(f[k - 1], OneReader(readers[k]))
    BY <2>3, <2>4, AfterOpAt DEF op, R
  <2> QED BY <2>4, <2>5
<1>7. f[0] = NoReader /\ \A at : InTurn(readers, at) = f[n][at]
  BY <1>0, <1>2, <1>4, <1>5
<1> HIDE DEF f
<1> QED BY <1>5, <1>6, <1>7 DEF TurnParts, R

-----------------------------------------------------------------------------
(***************************************************************************)
(* Readers each of which begins where the one before it ended              *)
(***************************************************************************)

\* A chain: each reader begins where the one before it ended.
Chain(readers, vals, pos) ==
  /\ pos \in [0 .. Len(readers) -> Nat]
  /\ \A k \in 1 .. Len(readers) : readers[k][pos[k - 1]] = Got(vals[k], pos[k])

\* Reading in turn fails or gets a sequence.
LEMMA TurnOutcome ==
  ASSUME NEW V, NEW readers \in Seq(Readers(V)), NEW at \in Nat
  PROVE  InTurn(readers, at) \in Outcomes(Seq(V))
<1>1. PICK f : TurnParts(V, readers, f)
  BY InTurnParts
<1>2. Len(readers) \in Nat
  OBVIOUS
<1>3. f[Len(readers)] \in Readers(Seq(V)) /\ InTurn(readers, at) = f[Len(readers)][at]
  BY <1>1, <1>2 DEF TurnParts
<1> QED BY <1>3 DEF Readers

\* If each reader gets its value where the one before ended, all values are got.
LEMMA TurnFound ==
  ASSUME NEW V, NEW readers \in Seq(Readers(V)), NEW vals \in Seq(V), Len(vals) = Len(readers),
         NEW pos, Chain(readers, vals, pos)
  PROVE  InTurn(readers, pos[0]) = Got(vals, pos[Len(readers)])
<1> DEFINE n == Len(readers)
           at == pos[0]
           first(k) == [i \in 1 .. k |-> vals[i]]
<1>0. n \in Nat /\ Len(vals) = n /\ (\A i \in 1 .. n : readers[i] \in Readers(V) /\ vals[i] \in V)
  OBVIOUS
<1>1. PICK f : TurnParts(V, readers, f)
  BY InTurnParts
<1>2. pos \in [0 .. n -> Nat] /\ at \in Nat
  BY <1>0 DEF Chain
<1>3. \A k \in 0 .. n : first(k) \in Seq(V)
  BY <1>0
<1> DEFINE Fine(k) == f[k][at] = Got(first(k), pos[k])
           Bad == {k \in Nat : k <= n /\ ~ Fine(k)}
<1>4. Fine(0)
  <2>1. f[0] = NoReader
    BY <1>0, <1>1 DEF TurnParts
  <2>2. f[0][at] = Got(<<>>, at)
    BY <1>2, <2>1 DEF NoReader
  <2>3. first(0) = <<>>
    OBVIOUS
  <2> QED BY <2>2, <2>3
<1>5. ASSUME NEW k \in 1 .. n, Fine(k - 1) PROVE Fine(k)
  <2> DEFINE one == OneReader(readers[k])
             q == pos[k - 1]
  <2>1. k - 1 \in 0 .. n /\ k \in 0 .. n /\ q \in Nat /\ pos[k] \in Nat
    <3>1. k - 1 \in 0 .. n /\ k \in 0 .. n
      BY <1>0
    <3> QED BY <1>2, <3>1
  <2>2. f[k] = After(f[k - 1], one) /\ f[k - 1] \in Readers(Seq(V))
    BY <1>1, <2>1 DEF TurnParts
  <2>3. readers[k][q] = Got(vals[k], pos[k]) /\ readers[k] \in Readers(V)
    BY <1>0 DEF Chain
  <2>4. one \in Readers(Seq(V)) /\ one[q] = Got(<<vals[k]>>, pos[k])
    <3>1. readers[k][q].ok /\ readers[k][q].val = vals[k] /\ readers[k][q].at = pos[k]
      BY <2>3, GotIs
    <3> QED BY <2>1, <2>3, <3>1, OneReaderAt
  <2>5. PICK u : u = first(k - 1)
    OBVIOUS
  <2>6. PICK w : w = <<vals[k]>>
    OBVIOUS
  <2>7. f[k - 1][at].ok /\ f[k - 1][at].val = u /\ f[k - 1][at].at = q
    <3>1. f[k - 1][at] = Got(u, q)
      BY <1>5, <2>5
    <3> QED BY <3>1, GotIs
  <2>8. one[q].ok /\ one[q].val = w /\ one[q].at = pos[k]
    <3> HIDE DEF one, q
    <3>1. one[q] = Got(w, pos[k])
      BY <2>4, <2>6
    <3> QED BY <3>1, GotIs
  <2> HIDE DEF one, at, first
  <2>9. After(f[k - 1], one)[at]
          = Got(f[k - 1][at].val \o one[f[k - 1][at].at].val, one[f[k - 1][at].at].at)
    BY <1>2, <2>2, <2>4, <2>7, <2>8, AfterAt
  <2>10. PICK c : c = u \o w
    OBVIOUS
  <2>11. c = first(k)
    <3>1. u \in Seq(V) /\ w \in Seq(V) /\ Len(w) = 1 /\ Len(u) = k - 1 /\ w[1] = vals[k]
      BY <1>0, <2>1, <2>5, <2>6 DEF first
    <3>0. k \in Nat /\ k - 1 \in Nat
      BY <1>0
    <3>2. /\ c \in Seq(V) /\ Len(c) = k
          /\ \A i \in 1 .. k : c[i] = IF i <= k - 1 THEN u[i] ELSE w[i - (k - 1)]
      <4>1. /\ c \in Seq(V) /\ Len(c) = Len(u) + Len(w)
            /\ \A i \in 1 .. Len(u) + Len(w) : c[i] = IF i <= Len(u) THEN u[i] ELSE w[i - Len(u)]
        <5>0. u \in Seq(V) /\ w \in Seq(V)
          BY <3>1
        <5>2. u \o w \in Seq(V)
          BY <5>0, ConcatProperties
        <5>3. Len(u \o w) = Len(u) + Len(w)
          BY <5>0, ConcatProperties
        <5>4. \A i \in 1 .. Len(u) + Len(w) :
                   (u \o w)[i] = IF i <= Len(u) THEN u[i] ELSE w[i - Len(u)]
          BY <5>0, ConcatProperties
        <5>1. /\ u \o w \in Seq(V) /\ Len(u \o w) = Len(u) + Len(w)
              /\ \A i \in 1 .. Len(u) + Len(w) :
                   (u \o w)[i] = IF i <= Len(u) THEN u[i] ELSE w[i - Len(u)]
          BY <5>2, <5>3, <5>4
        <5> QED BY Zenon, <5>1, <2>10
      <4>2. Len(u) + Len(w) = k
        BY <3>0, <3>1
      <4> QED BY <3>1, <4>1, <4>2
    <3>3. ASSUME NEW i \in 1 .. k PROVE c[i] = vals[i]
      <4>1. CASE i <= k - 1
        BY <2>5, <3>0, <3>2, <4>1 DEF first
      <4>2. CASE i = k
        <5>1. ~ (k <= k - 1) /\ k - (k - 1) = 1
          BY <3>0
        <5> QED BY <3>1, <3>2, <4>2, <5>1
      <4> QED BY <2>1, <4>1, <4>2
    <3>4. first(k) \in Seq(V) /\ Len(first(k)) = k /\ \A i \in 1 .. k : first(k)[i] = vals[i]
      BY <1>0, <2>1 DEF first
    <3> QED BY <3>2, <3>3, <3>4
  <2>12. f[k][at] = Got(c, pos[k])
    BY <2>2, <2>7, <2>8, <2>9, <2>10
  <2> QED BY <2>11, <2>12
<1> HIDE DEF Fine
<1>6. ASSUME Bad # {} PROVE FALSE
  <2>1. PICK m \in Bad : \A k \in Bad : m <= k
    BY <1>6, LeastNumber
  <2>2. m \in Nat /\ m <= n /\ ~ Fine(m)
    OBVIOUS
  <2>3. m # 0
    BY <1>4, <2>2
  <2>4. m - 1 \in Nat /\ m - 1 < m /\ m - 1 <= n /\ m \in 1 .. n
    BY <1>0, <2>2, <2>3
  <2>5. Fine(m - 1)
    BY <2>1, <2>4
  <2> QED BY <1>5, <2>2, <2>4, <2>5
<1>7. Fine(n)
  BY <1>0, <1>6
<1>8. first(n) = vals
  BY <1>0
<1>9. InTurn(readers, at) = f[n][at]
  BY <1>1 DEF TurnParts
<1> QED BY <1>7, <1>8, <1>9 DEF Fine

\* If all values are got, each reader got its own where the one before ended.
LEMMA TurnTaken ==
  ASSUME NEW V, NEW readers \in Seq(Readers(V)), NEW at \in Nat, InTurn(readers, at).ok
  PROVE  \E vals, pos :
           /\ vals \in Seq(V) /\ Len(vals) = Len(readers) /\ pos[0] = at /\ Chain(readers, vals, pos)
           /\ InTurn(readers, at) = Got(vals, pos[Len(readers)])
<1> DEFINE n == Len(readers)
<1>0. n \in Nat /\ (\A i \in 1 .. n : readers[i] \in Readers(V))
  OBVIOUS
<1>1. PICK f : TurnParts(V, readers, f)
  BY InTurnParts
<1>2. f[n][at].ok
  BY <1>1 DEF TurnParts
<1>3. \A k \in 0 .. n : f[k] \in Readers(Seq(V)) /\ f[k][at] \in Outcomes(Seq(V))
  BY <1>0, <1>1 DEF TurnParts, Readers
<1>4. ASSUME NEW k \in 1 .. n, f[k][at].ok
      PROVE  /\ f[k - 1][at].ok /\ f[k - 1][at].at \in Nat
             /\ readers[k][f[k - 1][at].at].ok
             /\ readers[k][f[k - 1][at].at].at = f[k][at].at
  <2> DEFINE one == OneReader(readers[k])
             r == f[k - 1]
             q == r[at].at
  <2>1. k - 1 \in 0 .. n /\ k \in 0 .. n
    BY <1>0
  <2>2. f[k] = After(r, one) /\ r \in Readers(Seq(V)) /\ r[at] \in Outcomes(Seq(V))
    BY <1>1, <1>3, <2>1 DEF TurnParts
  <2>3. /\ one \in Readers(Seq(V))
        /\ \A p \in Nat : one[p] = IF readers[k][p].ok
                                   THEN Got(<<readers[k][p].val>>, readers[k][p].at) ELSE Fails
    BY <1>0, OneReaderAt
  <2> HIDE DEF one, r
  <2>4. r[at].ok /\ one[q].ok
    BY <1>4, <2>2, <2>3, AfterAt
  <2>5. q \in Nat
    BY <2>2, <2>4, OutcomeForms
  <2>6. readers[k][q].ok
    BY <2>3, <2>4, <2>5, FailsOutcome
  <2>7. PICK u, v : u = r[at].val \o one[q].val /\ v = <<readers[k][q].val>>
    OBVIOUS
  <2>8. f[k][at] = Got(u, one[q].at)
    BY <2>2, <2>3, <2>4, <2>7, AfterAt
  <2>9. one[q] = Got(v, readers[k][q].at)
    BY <2>3, <2>5, <2>6, <2>7
  <2>10. f[k][at].at = one[q].at /\ one[q].at = readers[k][q].at
    BY <2>8, <2>9, GotIs
  <2> QED BY <2>4, <2>5, <2>6, <2>10 DEF r
<1> DEFINE Bad == {k \in Nat : k <= n /\ ~ f[n - k][at].ok}
<1>5. ASSUME Bad # {} PROVE FALSE
  <2>1. PICK m \in Bad : \A k \in Bad : m <= k
    BY <1>5, LeastNumber
  <2>2. m \in Nat /\ m <= n /\ ~ f[n - m][at].ok
    OBVIOUS
  <2>3. m # 0
    BY <1>0, <1>2, <2>2
  <2>4. m - 1 \in Nat /\ m - 1 < m /\ m - 1 <= n
    BY <1>0, <2>2, <2>3
  <2>5. f[n - (m - 1)][at].ok
    BY <2>1, <2>4
  <2> DEFINE j == n - (m - 1)
  <2>6. j \in 1 .. n /\ j - 1 = n - m
    BY <1>0, <2>2, <2>3
  <2> HIDE DEF n
  <2>7. f[j - 1][at].ok
    BY <1>4, <2>5, <2>6
  <2> QED BY <2>2, <2>6, <2>7
<1>6. \A k \in 0 .. n : f[k][at].ok
  <2> SUFFICES ASSUME NEW k \in 0 .. n PROVE f[k][at].ok
    OBVIOUS
  <2> DEFINE j == n - k
  <2>1. j \in Nat /\ j <= n /\ k = n - j
    BY <1>0
  <2>2. j \notin Bad
    BY <1>5
  <2>3. f[n - j][at].ok
    BY <2>1, <2>2
  <2> QED BY <2>1, <2>3
<1> DEFINE pos == [k \in 0 .. n |-> f[k][at].at]
           vals == [k \in 1 .. n |-> readers[k][pos[k - 1]].val]
<1>7. pos \in [0 .. n -> Nat]
  <2>1. \A k \in 0 .. n : f[k][at].at \in Nat
    BY <1>3, <1>6, OutcomeForms
  <2> QED BY <2>1
<1>8. ASSUME NEW k \in 1 .. n
      PROVE  readers[k][pos[k - 1]] = Got(vals[k], pos[k]) /\ vals[k] \in V
  <2>1. k - 1 \in 0 .. n /\ k \in 0 .. n
    BY <1>0
  <2>2. f[k][at].ok
    BY <1>6, <2>1
  <2> DEFINE q == f[k - 1][at].at
  <2>3. pos[k - 1] = q /\ pos[k] = f[k][at].at
    BY <2>1
  <2>4. q \in Nat /\ readers[k][q].ok /\ readers[k][q].at = f[k][at].at
    BY <1>4, <2>2
  <2>5. readers[k][q] \in Outcomes(V)
    BY <1>0, <2>4 DEF Readers
  <2>6. readers[k][q] = Got(readers[k][q].val, readers[k][q].at) /\ readers[k][q].val \in V
    BY <2>4, <2>5, OutcomeForms
  <2>7. vals[k] = readers[k][q].val
    BY <2>3
  <2> QED BY <2>3, <2>4, <2>6, <2>7
<1>9. vals \in Seq(V) /\ Len(vals) = n
  <2>1. \A k \in 1 .. n : readers[k][pos[k - 1]].val \in V
    BY <1>8
  <2> HIDE DEF pos
  <2> QED BY <1>0, <2>1
<1>10. pos[0] = at
  <2>1. f[0] = NoReader
    BY <1>0, <1>1 DEF TurnParts
  <2>2. f[0][at] = Got(<<>>, at)
    BY <2>1 DEF NoReader
  <2>3. f[0][at].at = at
    BY <2>2, GotIs
  <2> QED BY <1>0, <2>3
<1> HIDE DEF pos, vals
<1>11. Chain(readers, vals, pos)
  BY <1>7, <1>8 DEF Chain
<1>12. InTurn(readers, at) = Got(vals, pos[n])
  BY <1>9, <1>10, <1>11, TurnFound
<1> QED BY <1>9, <1>10, <1>11, <1>12

-----------------------------------------------------------------------------
(***************************************************************************)
(* Whatever is read is an outcome                                          *)
(***************************************************************************)

\* Nothing is asked of the value.
IsOutcome(r) == r = Fails \/ (r.at \in Nat /\ r = Got(r.val, r.at))

\* n readers of whatever there may be.
AreReaders(readers, n) ==
  /\ n \in Nat
  /\ readers = [i \in 1 .. n |-> readers[i]]
  /\ \A i \in 1 .. n : /\ readers[i] = [p \in Nat |-> readers[i][p]]
                       /\ \A p \in Nat : IsOutcome(readers[i][p])

LEMMA GotIsOutcome ==
  ASSUME NEW v, NEW q \in Nat, NEW r, r = Got(v, q)
  PROVE  IsOutcome(r)
BY GotIs DEF IsOutcome

LEMMA FailsIsOutcome == IsOutcome(Fails) /\ ~ Fails.ok
BY DEF IsOutcome, Fails

\* The two forms, by ok.
LEMMA OutcomeOk ==
  ASSUME NEW r, IsOutcome(r)
  PROVE  /\ r.ok => r.at \in Nat /\ r = Got(r.val, r.at)
         /\ ~ r.ok => r = Fails
<1>1. CASE r = Fails
  BY <1>1, FailsIsOutcome
<1>2. CASE r.at \in Nat /\ r = Got(r.val, r.at)
  <2>1. r.ok
    BY <1>2, GotIs
  <2> QED BY <1>2, <2>1
<1> QED BY <1>1, <1>2 DEF IsOutcome

\* Readers of whatever there may be are readers of some set of values.
LEMMA ReadersOf ==
  ASSUME NEW n, NEW readers, AreReaders(readers, n), NEW W
  PROVE  \E V : W \subseteq V /\ readers \in Seq(Readers(V)) /\ Len(readers) = n
<1> DEFINE V == W \union UNION {{readers[i][p].val : p \in Nat} : i \in 1 .. n}
<1>1. ASSUME NEW i \in 1 .. n, NEW p \in Nat PROVE readers[i][p].val \in V
  <2>1. readers[i][p].val \in {readers[i][q].val : q \in Nat}
    OBVIOUS
  <2> QED BY <2>1
<1>2. W \subseteq V
  OBVIOUS
<1> HIDE DEF V
<1>3. ASSUME NEW i \in 1 .. n, NEW p \in Nat PROVE readers[i][p] \in Outcomes(V)
  <2>1. IsOutcome(readers[i][p])
    BY DEF AreReaders
  <2>2. CASE readers[i][p] = Fails
    BY <2>2, FailsOutcome
  <2>3. CASE readers[i][p] # Fails
    <3> DEFINE r == readers[i][p]
    <3>1. r.at \in Nat /\ r = Got(r.val, r.at) /\ r.val \in V
      BY <1>1, <2>1, <2>3 DEF IsOutcome
    <3> HIDE DEF r
    <3>2. Got(r.val, r.at) \in Outcomes(V)
      BY <3>1, GotOutcome
    <3>3. r \in Outcomes(V)
      BY <3>1, <3>2
    <3> QED BY <3>3 DEF r
  <2> QED BY <2>2, <2>3
<1>4. ASSUME NEW i \in 1 .. n PROVE readers[i] \in Readers(V)
  <2>1. readers[i] = [p \in Nat |-> readers[i][p]]
    BY DEF AreReaders
  <2> QED BY <1>3, <2>1 DEF Readers
<1>5. readers \in Seq(Readers(V)) /\ Len(readers) = n
  <2>1. n \in Nat /\ readers = [i \in 1 .. n |-> readers[i]]
    BY DEF AreReaders
  <2> QED BY <1>4, <2>1
<1> QED BY <1>2, <1>5

\* Reading in turn ends in an outcome,
LEMMA TurnIsOutcome ==
  ASSUME NEW n, NEW readers, AreReaders(readers, n), NEW at \in Nat
  PROVE  IsOutcome(InTurn(readers, at))
<1>1. PICK V : readers \in Seq(Readers(V))
  BY ReadersOf
<1>2. InTurn(readers, at) \in Outcomes(Seq(V))
  BY <1>1, TurnOutcome
<1> QED BY <1>2, OutcomeForms DEF IsOutcome

\* gets the values of a chain,
LEMMA ChainRead ==
  ASSUME NEW n, NEW readers, AreReaders(readers, n), NEW vals, vals = [i \in 1 .. n |-> vals[i]],
         NEW pos, Chain(readers, vals, pos)
  PROVE  InTurn(readers, pos[0]) = Got(vals, pos[n])
<1>1. n \in Nat
  BY DEF AreReaders
<1>2. PICK V : {vals[i] : i \in 1 .. n} \subseteq V /\ readers \in Seq(Readers(V)) /\ Len(readers) = n
  BY ReadersOf
<1>3. \A i \in 1 .. n : vals[i] \in V
  BY <1>2
<1>4. vals \in Seq(V) /\ Len(vals) = n
  BY <1>1, <1>3
<1> QED BY <1>2, <1>4, TurnFound

\* and gets no others.
LEMMA ChainTaken ==
  ASSUME NEW n, NEW readers, AreReaders(readers, n), NEW at \in Nat, InTurn(readers, at).ok
  PROVE  \E vals, pos :
           /\ vals = [i \in 1 .. n |-> vals[i]] /\ pos[0] = at /\ Chain(readers, vals, pos)
           /\ InTurn(readers, at) = Got(vals, pos[n]) /\ Len(vals) = n
<1>1. n \in Nat
  BY DEF AreReaders
<1>2. PICK V : readers \in Seq(Readers(V)) /\ Len(readers) = n
  BY ReadersOf
<1>3. PICK vals, pos :
        /\ vals \in Seq(V) /\ Len(vals) = Len(readers) /\ pos[0] = at /\ Chain(readers, vals, pos)
        /\ InTurn(readers, at) = Got(vals, pos[Len(readers)])
  BY <1>2, TurnTaken
<1>4. Len(vals) = n /\ vals = [i \in 1 .. n |-> vals[i]]
  BY <1>1, <1>2, <1>3
<1> QED BY <1>2, <1>3, <1>4
\* Every reader fails or gets something, and where it ends is a number.

\* Every reader fails, or gets something and ends at a number.
LEMMA BytesOutcome ==
  ASSUME NEW in \in Seq(Byte), NEW at \in Nat, NEW n \in Int
  PROVE  /\ IsOutcome(ReadBytes(in, at, n))
         /\ ReadBytes(in, at, n).ok => ReadBytes(in, at, n).val \in Seq(Byte)
         /\ ReadBytes(in, at, n).ok => /\ ReadBytes(in, at, n).at = at + n /\ n \in Nat
                                       /\ at + n <= Len(in)
<1>1. CASE n >= 0 /\ at + n <= Len(in)
  <2> DEFINE b == SubSeq(in, at + 1, at + n)
  <2>1. b \in Seq(Byte)
    <3>1. at + 1 \in 1 .. Len(in) + 1 /\ at + n \in at .. Len(in)
      BY <1>1
    <3> QED BY <3>1
  <2> HIDE DEF b
  <2>2. ReadBytes(in, at, n) = Got(b, at + n)
    BY <1>1 DEF ReadBytes, b
  <2>3. at + n \in Nat /\ n \in Nat
    BY <1>1
  <2> QED BY <1>1, <2>1, <2>2, <2>3, GotIs, GotIsOutcome
<1>2. CASE ~ (n >= 0 /\ at + n <= Len(in))
  <2>1. ReadBytes(in, at, n) = Fails
    BY <1>2 DEF ReadBytes
  <2> QED BY <2>1, FailsIsOutcome
<1> QED BY <1>1, <1>2

\* A number is read up to its width.
LEMMA NumberOutcome ==
  ASSUME NEW in \in Seq(Byte), NEW at \in Nat, NEW w \in Nat
  PROVE  /\ IsOutcome(ReadNumber(in, at, w))
         /\ ReadNumber(in, at, w).ok => /\ ReadNumber(in, at, w).val \in Nat
                                        /\ ReadNumber(in, at, w).at = at + w /\ at + w <= Len(in)
<1> DEFINE r == ReadBytes(in, at, w)
<1>1. IsOutcome(r) /\ (r.ok => r.val \in Seq(Byte) /\ r.at = at + w /\ at + w <= Len(in))
  BY BytesOutcome
<1>2. ReadNumber(in, at, w) = IF r.ok THEN Got(Number(r.val), r.at) ELSE Fails
  BY DEF ReadNumber, Then
<1> HIDE DEF r
<1>3. CASE r.ok
  <2>1. Number(r.val) \in Nat /\ r.at \in Nat
    BY <1>1, <1>3, NumberNat
  <2> QED BY <1>1, <1>2, <1>3, <2>1, GotIs, GotIsOutcome
<1>4. CASE ~ r.ok
  BY <1>2, <1>4, FailsIsOutcome
<1> QED BY <1>3, <1>4

LEMMA TimeOutcome ==
  ASSUME NEW in \in Seq(Byte), NEW at \in Nat
  PROVE  IsOutcome(ReadTime(in, at))
<1> DEFINE r == ReadBytes(in, at, 6)
<1>1. IsOutcome(r)
  BY BytesOutcome
<1>2. ReadTime(in, at) = IF r.ok THEN Got(IF r.val = NoTime THEN -1 ELSE Number(r.val), r.at) ELSE Fails
  BY DEF ReadTime, Then
<1> HIDE DEF r
<1>3. CASE r.ok
  <2>1. r.at \in Nat
    BY <1>1, <1>3, OutcomeOk
  <2>2. ReadTime(in, at) = Got(IF r.val = NoTime THEN -1 ELSE Number(r.val), r.at)
    BY <1>2, <1>3
  <2> QED BY <2>1, <2>2, GotIsOutcome
<1>4. CASE ~ r.ok
  BY <1>2, <1>4, FailsIsOutcome
<1> QED BY <1>3, <1>4

LEMMA BigIntegerOutcome ==
  ASSUME NEW in, NEW at \in Nat
  PROVE  IsOutcome(ReadBigInteger(in, at))
<1>1. CASE at > Len(in)
  BY <1>1, FailsIsOutcome DEF ReadBigInteger
<1>2. CASE ~ (at > Len(in))
  <2>1. PICK v : ReadBigInteger(in, at) = Got(v, at + 32)
    BY <1>2 DEF ReadBigInteger
  <2> QED BY <2>1, GotIsOutcome
<1> QED BY <1>1, <1>2

\* A byte is read up to the next.
LEMMA ByteOutcome ==
  ASSUME NEW in \in Seq(Byte), NEW at \in Nat
  PROVE  /\ IsOutcome(ReadByte(in, at))
         /\ ReadByte(in, at).ok => /\ ReadByte(in, at).val \in Int
                                   /\ ReadByte(in, at).at = at + 1 /\ at + 1 <= Len(in)
<1>1. CASE at < Len(in)
  <2>1. at + 1 \in 1 .. Len(in) /\ at + 1 \in Nat
    BY <1>1
  <2>2. in[at + 1] \in Byte
    BY <2>1
  <2>3. PICK v : v = Signed(in[at + 1])
    OBVIOUS
  <2>4. v \in Int
    <3>1. PICK b \in Nat : b = in[at + 1]
      BY <2>2, ByteNat
    <3>2. v = Signed(b)
      BY <2>3, <3>1
    <3> QED BY <3>2 DEF Signed
  <2>5. ReadByte(in, at) = Got(v, at + 1)
    BY <1>1, <2>3 DEF ReadByte
  <2> QED BY <2>1, <2>4, <2>5, GotIs, GotIsOutcome
<1>2. CASE ~ (at < Len(in))
  BY <1>2, FailsIsOutcome DEF ReadByte
<1> QED BY <1>1, <1>2

\* A length takes at least a byte.
LEMMA VarIntOutcome ==
  ASSUME NEW in \in Seq(Byte), NEW at \in Nat
  PROVE  /\ IsOutcome(ReadVarInt(in, at))
         /\ ReadVarInt(in, at).ok => /\ ReadVarInt(in, at).val \in Nat
                                     /\ ReadVarInt(in, at).at \in Nat
                                     /\ at + 1 <= ReadVarInt(in, at).at
                                     /\ ReadVarInt(in, at).at <= Len(in)
<1>1. CASE at >= Len(in)
  BY <1>1, FailsIsOutcome DEF ReadVarInt
<1>2. CASE ~ (at >= Len(in))
  <2>1. at + 1 \in 1 .. Len(in) /\ at + 1 \in Nat /\ Len(in) \in Nat
    BY <1>2
  <2>2. in[at + 1] \in Byte
    BY <2>1
  <2>3. PICK b : b = in[at + 1]
    OBVIOUS
  <2>4. b \in Nat /\ b <= 255
    BY <2>2, <2>3, ByteNat
  <2>5. CASE b < 253
    <3>1. ReadVarInt(in, at) = Got(b, at + 1)
      BY <1>2, <2>3, <2>5 DEF ReadVarInt
    <3> QED BY <2>1, <2>4, <3>1, GotIs, GotIsOutcome
  <2>6. CASE ~ (b < 253)
    <3>1. PICK w \in {2, 4, 8} : w = CASE b = 253 -> 2 [] b = 254 -> 4 [] b = 255 -> 8
      BY <2>4, <2>6
    <3>2. ReadVarInt(in, at) = ReadNumber(in, at + 1, w)
      BY <1>2, <2>3, <2>6, <3>1 DEF ReadVarInt
    <3> DEFINE r == ReadNumber(in, at + 1, w)
    <3>3. IsOutcome(r) /\ (r.ok => r.val \in Nat /\ r.at = (at + 1) + w /\ (at + 1) + w <= Len(in))
      <4>1. w \in Nat
        OBVIOUS
      <4> QED BY <2>1, <4>1, NumberOutcome
    <3> HIDE DEF r
    <3>4. r.ok => r.val \in Nat /\ r.at \in Nat /\ at + 1 <= r.at /\ r.at <= Len(in)
      <4>1. w \in Nat
        OBVIOUS
      <4> QED BY <2>1, <3>3, <4>1
    <3> QED BY <3>2, <3>3, <3>4 DEF r
  <2> QED BY <2>5, <2>6
<1> QED BY <1>1, <1>2

\* An array takes at least a byte.
LEMMA ByLengthByteOutcome ==
  ASSUME NEW in \in Seq(Byte), NEW at \in Nat
  PROVE  /\ IsOutcome(ReadByLengthByte(in, at))
         /\ ReadByLengthByte(in, at).ok => /\ ReadByLengthByte(in, at).at \in Nat
                                           /\ at + 1 <= ReadByLengthByte(in, at).at
                                           /\ ReadByLengthByte(in, at).at <= Len(in)
<1> DEFINE r == ReadVarInt(in, at)
<1>1. /\ IsOutcome(r)
      /\ r.ok => r.val \in Nat /\ r.at \in Nat /\ at + 1 <= r.at /\ r.at <= Len(in)
  BY VarIntOutcome
<1>2. ReadByLengthByte(in, at)
        = IF r.ok THEN (IF r.val = 0 THEN Got(Null, r.at) ELSE ReadBytes(in, r.at, r.val)) ELSE Fails
  BY DEF ReadByLengthByte, Then
<1> HIDE DEF r
<1>3. CASE ~ r.ok
  BY <1>2, <1>3, FailsIsOutcome
<1>4. CASE r.ok /\ r.val = 0
  <2>1. ReadByLengthByte(in, at) = Got(Null, r.at)
    BY <1>2, <1>4
  <2> QED BY <1>1, <1>4, <2>1, GotIs, GotIsOutcome
<1>5. CASE r.ok /\ r.val # 0
  <2> DEFINE s == ReadBytes(in, r.at, r.val)
  <2>1. ReadByLengthByte(in, at) = s
    BY <1>2, <1>5
  <2>2. IsOutcome(s) /\ (s.ok => s.at = r.at + r.val /\ r.at + r.val <= Len(in))
    BY <1>1, <1>5, BytesOutcome
  <2> HIDE DEF s
  <2>3. s.ok => s.at \in Nat /\ at + 1 <= s.at /\ s.at <= Len(in)
    BY <1>1, <1>5, <2>2
  <2> QED BY <2>1, <2>2, <2>3
<1> QED BY <1>3, <1>4, <1>5

LEMMA StringOutcome ==
  ASSUME NEW in \in Seq(Byte), NEW at \in Nat
  PROVE  IsOutcome(ReadString(in, at))
<1> DEFINE r == ReadByLengthByte(in, at)
<1>1. IsOutcome(r)
  BY ByLengthByteOutcome
<1>2. ReadString(in, at) = IF r.ok THEN Got(IF r.val = Null THEN <<>> ELSE r.val, r.at) ELSE Fails
  BY DEF ReadString, Then
<1> HIDE DEF r
<1>3. CASE r.ok
  <2>1. r.at \in Nat /\ ReadString(in, at) = Got(IF r.val = Null THEN <<>> ELSE r.val, r.at)
    BY <1>1, <1>2, <1>3, OutcomeOk
  <2> QED BY <2>1, GotIsOutcome
<1>4. CASE ~ r.ok
  BY <1>2, <1>4, FailsIsOutcome
<1> QED BY <1>3, <1>4

LEMMA KeyOutcome ==
  ASSUME NEW in \in Seq(Byte), NEW at \in Nat
  PROVE  /\ IsOutcome(ReadKey(in, at))
         /\ ReadKey(in, at).ok => /\ ReadKey(in, at).at \in Nat
                                  /\ at + 1 <= ReadKey(in, at).at
                                  /\ ReadKey(in, at).at <= Len(in)
<1> DEFINE r == ReadByte(in, at)
<1>1. IsOutcome(r) /\ (r.ok => r.val \in Int /\ r.at = at + 1 /\ at + 1 <= Len(in))
  BY ByteOutcome
<1>2. ReadKey(in, at) = IF r.ok THEN ReadBytes(in, r.at, r.val) ELSE Fails
  BY DEF ReadKey, Then
<1> HIDE DEF r
<1>3. CASE r.ok
  <2> DEFINE s == ReadBytes(in, r.at, r.val)
  <2>1. r.at \in Nat /\ r.at = at + 1 /\ r.val \in Int /\ ReadKey(in, at) = s
    BY <1>1, <1>2, <1>3
  <2>2. IsOutcome(s) /\ (s.ok => s.at = r.at + r.val /\ r.val \in Nat /\ r.at + r.val <= Len(in))
    BY <2>1, BytesOutcome
  <2> HIDE DEF s
  <2>3. s.ok => s.at \in Nat /\ at + 1 <= s.at /\ s.at <= Len(in)
    BY <2>1, <2>2
  <2> QED BY <2>1, <2>2, <2>3
<1>4. CASE ~ r.ok
  BY <1>2, <1>4, FailsIsOutcome
<1> QED BY <1>3, <1>4

-----------------------------------------------------------------------------
(***************************************************************************)
(* Items behind a byte that counts them: up to 127 are read back, more are *)
(* not                                                                     *)
(***************************************************************************)

\* A reader of whatever there may be.
IsReader(reader) ==
  reader = [p \in Nat |-> reader[p]] /\ \A p \in Nat : IsOutcome(reader[p])

LEMMA ManyReaders ==
  ASSUME NEW reader, IsReader(reader), NEW n \in Nat
  PROVE  AreReaders([i \in 1 .. n |-> reader], n)
BY DEF IsReader, AreReaders

\* A count that is not negative says how often to read.
LEMMA CountedCases ==
  ASSUME NEW in \in Seq(Byte), NEW at \in Nat, NEW reader,
         ReadByte(in, at).ok, ReadByte(in, at).val >= 0
  PROVE  ReadCounted(in, at, reader)
           = InTurn([i \in 1 .. ReadByte(in, at).val |-> reader], ReadByte(in, at).at)
BY DEF ReadCounted, Then

LEMMA CountedOutcome ==
  ASSUME NEW in \in Seq(Byte), NEW at \in Nat, NEW reader, IsReader(reader)
  PROVE  IsOutcome(ReadCounted(in, at, reader))
<1> DEFINE r == ReadByte(in, at)
<1>1. IsOutcome(r) /\ (r.ok => r.val \in Int /\ r.at = at + 1)
  BY ByteOutcome
<1>2. ReadCounted(in, at, reader)
        = IF r.ok THEN (IF r.val >= 0 THEN InTurn([i \in 1 .. r.val |-> reader], r.at) ELSE Fails)
          ELSE Fails
  BY DEF ReadCounted, Then
<1> HIDE DEF r
<1>3. CASE r.ok /\ r.val >= 0
  <2>1. r.val \in Nat /\ r.at \in Nat
    BY <1>1, <1>3
  <2>2. AreReaders([i \in 1 .. r.val |-> reader], r.val)
    BY <2>1, ManyReaders
  <2>3. IsOutcome(InTurn([i \in 1 .. r.val |-> reader], r.at))
    BY <2>1, <2>2, TurnIsOutcome
  <2> QED BY <1>2, <1>3, <2>3
<1>4. CASE ~ (r.ok /\ r.val >= 0)
  BY <1>2, <1>4, FailsIsOutcome
<1> QED BY <1>3, <1>4

\* Up to 127 a count is read as it was written.
LEMMA CountByte ==
  ASSUME NEW n \in Nat
  PROVE  /\ n % 256 \in Byte /\ Signed(n % 256) \in Int
         /\ n <= 127 <=> Signed(n % 256) = n
<1>1. n % 256 \in Byte /\ n % 256 \in Nat
  BY DEF Byte
<1>2. PICK m \in Nat : m = n % 256 /\ m < 256
  OBVIOUS
<1>3. n <= 127 => m = n
  BY <1>2
<1>4. n > 127 => Signed(m) # n
  BY <1>2 DEF Signed
<1>5. Signed(m) \in Int /\ (m <= 127 => Signed(m) = m)
  BY DEF Signed
<1> QED BY <1>1, <1>2, <1>3, <1>4, <1>5

\* The count takes a byte.
LEMMA CountedBytes ==
  ASSUME NEW items \in Seq(Seq(Byte)), NEW lens, lens = [i \in 1 .. Len(items) |-> Len(items[i])]
  PROVE  /\ WriteCounted(items) \in Seq(Byte) /\ Len(WriteCounted(items)) \in Nat
         /\ lens \in Seq(Nat) /\ Len(WriteCounted(items)) = 1 + SumOf(lens)
         /\ <<Len(items) % 256>> \in Seq(Byte) /\ Joined(items) \in Seq(Byte)
<1>1. PICK u : u = <<Len(items) % 256>>
  OBVIOUS
<1>2. u \in Seq(Byte) /\ Len(u) = 1
  <2>1. Len(items) % 256 \in Byte
    BY CountByte
  <2> QED BY <1>1, <2>1
<1>3. PICK w : w = Joined(items)
  OBVIOUS
<1>4. w \in Seq(Byte) /\ lens \in Seq(Nat) /\ Len(w) = SumOf(lens)
  BY <1>3, LenJoined
<1>5. WriteCounted(items) = u \o w
  BY <1>1, <1>3 DEF WriteCounted
<1>6. u \o w \in Seq(Byte) /\ Len(u \o w) = Len(u) + Len(w) /\ Len(u \o w) \in Nat
  <2>1. u \o w \in Seq(Byte)
    BY <1>2, <1>4, ConcatProperties
  <2>2. Len(u \o w) = Len(u) + Len(w)
    BY <1>2, <1>4, ConcatProperties
  <2> QED BY <2>1, <2>2
<1> QED BY <1>1, <1>2, <1>3, <1>4, <1>5, <1>6

\* The count and the items, where they stand.
LEMMA CountedLaid ==
  ASSUME NEW items \in Seq(Seq(Byte)), NEW in, NEW at, Occurs(WriteCounted(items), in, at)
  PROVE  /\ in \in Seq(Byte) /\ at \in Nat /\ at + 1 \in Nat
         /\ ReadByte(in, at) = Got(Signed(Len(items) % 256), at + 1)
         /\ \E pos : /\ Laid(items, in, pos) /\ pos[0] = at + 1
                     /\ pos[Len(items)] = at + Len(WriteCounted(items))
<1>0. PICK u, w : u = <<Len(items) % 256>> /\ w = Joined(items)
  OBVIOUS
<1>1. u \in Seq(Byte) /\ w \in Seq(Byte) /\ Len(u) = 1 /\ Len(items) % 256 \in Byte
  <2>1. PICK lens : lens = [i \in 1 .. Len(items) |-> Len(items[i])]
    OBVIOUS
  <2>2. u \in Seq(Byte) /\ w \in Seq(Byte)
    BY <1>0, <2>1, CountedBytes
  <2>3. Len(items) % 256 \in Byte
    BY CountByte
  <2> QED BY <1>0, <2>2, <2>3
<1>2. in \in Seq(Byte) /\ at \in Nat /\ at + 1 \in Nat
  BY DEF Occurs
<1>3. WriteCounted(items) = u \o w
  BY <1>0 DEF WriteCounted
<1>4. Occurs(u, in, at) /\ Occurs(w, in, at + Len(u)) /\ Len(u \o w) = Len(u) + Len(w)
  <2>1. Occurs(u \o w, in, at)
    BY <1>3
  <2> QED BY <1>1, <2>1, OccursParts
<1>5. ReadByte(in, at) = Got(Signed(Len(items) % 256), at + 1)
  BY <1>0, <1>1, <1>4, ByteFound
<1>6. Occurs(Joined(items), in, at + 1)
  BY <1>0, <1>1, <1>4
<1>7. PICK pos : /\ Laid(items, in, pos)
                 /\ pos[0] = at + 1 /\ pos[Len(items)] = (at + 1) + Len(Joined(items))
  BY <1>6, JoinedLaid
<1>8. (at + 1) + Len(Joined(items)) = at + Len(WriteCounted(items))
  <2>1. Len(w) \in Nat
    BY <1>1
  <2>2. Len(WriteCounted(items)) = 1 + Len(w)
    BY <1>1, <1>3, <1>4
  <2> QED BY <1>0, <1>2, <2>1, <2>2
<1> QED BY <1>2, <1>5, <1>7, <1>8

\* The reader gets each value wherever its item occurs.
GetsEach(reader, items, in, vals) ==
  /\ vals = [k \in 1 .. Len(items) |-> vals[k]]
  /\ \A k \in 1 .. Len(items) : \A p : Occurs(items[k], in, p)
                                      => reader[p] = Got(vals[k], p + Len(items[k]))

\* What the reader gets n times.
GotInTurn(reader, vals, n, at) ==
  /\ n \in Nat /\ Len(vals) = n
  /\ \E pos : /\ pos[0] = at /\ pos \in [0 .. n -> Nat]
              /\ \A k \in 1 .. n : reader[pos[k - 1]] = Got(vals[k], pos[k])

\* Up to 127 items are read back.
LEMMA CountedFound ==
  ASSUME NEW items \in Seq(Seq(Byte)), Len(items) <= 127,
         NEW in, NEW at, Occurs(WriteCounted(items), in, at),
         NEW reader, IsReader(reader),
         NEW vals, GetsEach(reader, items, in, vals)
  PROVE  ReadCounted(in, at, reader) = Got(vals, at + Len(WriteCounted(items)))
<1> DEFINE n == Len(items)
<1>0. n \in Nat
  OBVIOUS
<1>1. PICK pos : Laid(items, in, pos) /\ pos[0] = at + 1 /\ pos[n] = at + Len(WriteCounted(items))
  BY CountedLaid
<1>2. ReadByte(in, at) = Got(n, at + 1) /\ in \in Seq(Byte) /\ at \in Nat
  <2>1. Signed(n % 256) = n
    BY <1>0, CountByte
  <2> QED BY <2>1, CountedLaid
<1>3. ReadByte(in, at).ok /\ ReadByte(in, at).val = n /\ ReadByte(in, at).at = at + 1
  BY <1>2, GotIs
<1> DEFINE readers == [i \in 1 .. n |-> reader]
<1>4. ReadCounted(in, at, reader) = InTurn(readers, pos[0])
  <2> DEFINE r == ReadByte(in, at)
  <2>1. r.ok /\ r.val >= 0 /\ r.val = n /\ r.at = pos[0]
    BY <1>0, <1>1, <1>3
  <2>2. ReadCounted(in, at, reader) = InTurn([i \in 1 .. r.val |-> reader], r.at)
    BY <1>2, <2>1, CountedCases
  <2> QED BY <2>1, <2>2
<1>5. AreReaders(readers, n)
  BY <1>0, ManyReaders
<1>6. Chain(readers, vals, pos)
  <2>1. Len(readers) = n
    BY <1>0
  <2>2. pos \in [0 .. n -> Nat]
    BY <1>1 DEF Laid
  <2>3. ASSUME NEW k \in 1 .. n PROVE readers[k][pos[k - 1]] = Got(vals[k], pos[k])
    <3>1. pos[k] = pos[k - 1] + Len(items[k]) /\ Occurs(items[k], in, pos[k - 1])
      BY <1>1 DEF Laid
    <3>2. reader[pos[k - 1]] = Got(vals[k], pos[k - 1] + Len(items[k]))
      BY <3>1 DEF GetsEach
    <3> QED BY <3>1, <3>2
  <2> QED BY <2>1, <2>2, <2>3 DEF Chain
<1> HIDE DEF readers
<1>7. InTurn(readers, pos[0]) = Got(vals, pos[n])
  <2>1. vals = [i \in 1 .. n |-> vals[i]]
    BY DEF GetsEach
  <2> QED BY <1>5, <1>6, <2>1, ChainRead
<1> QED BY <1>1, <1>4, <1>7

\* However many items there are, as many are read as the signed byte says.
LEMMA CountedTaken ==
  ASSUME NEW items \in Seq(Seq(Byte)), NEW in, NEW at, Occurs(WriteCounted(items), in, at),
         NEW reader, IsReader(reader), ReadCounted(in, at, reader).ok
  PROVE  GotInTurn(reader, ReadCounted(in, at, reader).val, Signed(Len(items) % 256), at + 1)
<1> DEFINE n == Signed(Len(items) % 256)
<1>1. n \in Int
  BY CountByte
<1> HIDE DEF n
<1>2. ReadByte(in, at) = Got(n, at + 1) /\ in \in Seq(Byte) /\ at \in Nat /\ at + 1 \in Nat
  BY CountedLaid DEF n
<1>3. ReadByte(in, at).ok /\ ReadByte(in, at).val = n /\ ReadByte(in, at).at = at + 1
  BY <1>2, GotIs
<1>4. n >= 0
  <2>1. ReadCounted(in, at, reader)
          = IF n >= 0 THEN InTurn([i \in 1 .. n |-> reader], at + 1) ELSE Fails
    BY <1>3 DEF ReadCounted, Then
  <2> QED BY <2>1, FailsIsOutcome
<1>5. n \in Nat
  BY <1>1, <1>4
<1> DEFINE readers == [i \in 1 .. n |-> reader]
<1>6. ReadCounted(in, at, reader) = InTurn(readers, at + 1)
  BY <1>2, <1>3, <1>4, CountedCases
<1>7. AreReaders(readers, n) /\ Len(readers) = n /\ \A k \in 1 .. n : readers[k] = reader
  BY <1>5, ManyReaders
<1> HIDE DEF readers
<1>8. PICK vals, pos :
        /\ pos[0] = at + 1 /\ Chain(readers, vals, pos)
        /\ InTurn(readers, at + 1) = Got(vals, pos[n]) /\ Len(vals) = n
  BY <1>2, <1>6, <1>7, ChainTaken
<1>9. ReadCounted(in, at, reader).val = vals
  BY <1>6, <1>8, GotIs
<1>10. pos \in [0 .. n -> Nat] /\ \A k \in 1 .. n : reader[pos[k - 1]] = Got(vals[k], pos[k])
  BY <1>7, <1>8 DEF Chain
<1>11. GotInTurn(reader, vals, n, at + 1)
  BY <1>5, <1>8, <1>10 DEF GotInTurn
<1> QED BY <1>9, <1>11 DEF n

-----------------------------------------------------------------------------
(***************************************************************************)
(* Arguments                                                               *)
(***************************************************************************)

\* One argument, as it is after conversion: a list of texts.
FitArg(arg) ==
  arg \in Seq(Seq(Byte) \union {Null}) /\ \A k \in 1 .. Len(arg) : arg[k] = Null \/ IsArray(arg[k])

\* What is read of a text, and of a list of texts.
ReadText(s) == IF s = Null THEN <<>> ELSE s
ReadTexts(arg) == [k \in 1 .. Len(arg) |-> ReadText(arg[k])]

\* What reads a text, and what reads an argument.
StringReader(in) == [p \in Nat |-> ReadString(in, p)]
ArgReader(in) == [p \in Nat |-> ReadArg(in, p)]

\* They are readers.
LEMMA StringReaderIs ==
  ASSUME NEW in \in Seq(Byte)
  PROVE  IsReader(StringReader(in))
BY StringOutcome DEF IsReader, StringReader

LEMMA ArgReaderIs ==
  ASSUME NEW in \in Seq(Byte)
  PROVE  IsReader(ArgReader(in)) /\ \A p \in Nat : ArgReader(in)[p] = ReadArg(in, p)
<1>1. ASSUME NEW p \in Nat PROVE IsOutcome(ReadArg(in, p))
  BY StringReaderIs, CountedOutcome DEF ReadArg, StringReader
<1> QED BY <1>1 DEF IsReader, ArgReader

LEMMA ArgsOutcome ==
  ASSUME NEW in \in Seq(Byte), NEW at \in Nat
  PROVE  IsOutcome(ReadArgs(in, at)) /\ ReadArgs(in, at) = ReadCounted(in, at, ArgReader(in))
<1>1. ReadArgs(in, at) = ReadCounted(in, at, ArgReader(in))
  BY DEF ReadArgs, ArgReader
<1>2. IsOutcome(ReadCounted(in, at, ArgReader(in)))
  BY ArgReaderIs, CountedOutcome
<1> QED BY <1>1, <1>2

\* The texts as they are written.
ArgItems(arg) == [k \in 1 .. Len(arg) |-> WriteString(arg[k])]

LEMMA ArgWritten ==
  ASSUME NEW arg, FitArg(arg)
  PROVE  /\ WriteArg(arg) = WriteCounted(ArgItems(arg))
         /\ Len(arg) \in Nat
         /\ ArgItems(arg) \in Seq(Seq(Byte)) /\ Len(ArgItems(arg)) = Len(arg)
         /\ \A k \in 1 .. Len(arg) : ArgItems(arg)[k] = WriteString(arg[k])
<1>1. DOMAIN arg = 1 .. Len(arg) /\ Len(arg) \in Nat
  BY DEF FitArg
<1>2. \A k \in 1 .. Len(arg) : WriteString(arg[k]) \in Seq(Byte)
  BY StringBytes DEF FitArg
<1> QED BY <1>1, <1>2 DEF WriteArg, ArgItems

\* The size of an argument is right unless a text of it is blank.
LEMMA ArgBytes ==
  ASSUME NEW arg, FitArg(arg)
  PROVE  /\ WriteArg(arg) \in Seq(Byte) /\ Len(WriteArg(arg)) \in Nat /\ SizeOfArg(arg) \in Nat
         /\ SizeOfArg(arg) >= Len(WriteArg(arg))
         /\ SizeOfArg(arg) = Len(WriteArg(arg)) <=> \A k \in DOMAIN arg : ~ BlankText(arg[k])
<1> DEFINE n == Len(arg)
           items == ArgItems(arg)
           sizes == [k \in 1 .. n |-> SizeOfString(arg[k])]
           lens == [k \in 1 .. n |-> Len(items[k])]
<1>1. /\ WriteArg(arg) = WriteCounted(items) /\ items \in Seq(Seq(Byte)) /\ Len(items) = n
      /\ \A k \in 1 .. n : items[k] = WriteString(arg[k])
  BY ArgWritten
<1>2. DOMAIN arg = 1 .. n /\ n \in Nat /\ \A k \in 1 .. n : arg[k] = Null \/ IsArray(arg[k])
  BY DEF FitArg
<1>3. SizeOfArg(arg) = 1 + SumOf(sizes)
  BY <1>2 DEF SizeOfArg
<1> HIDE DEF items, n
<1>4. /\ WriteArg(arg) \in Seq(Byte) /\ Len(WriteArg(arg)) \in Nat
      /\ lens \in Seq(Nat) /\ Len(WriteArg(arg)) = 1 + SumOf(lens)
  BY <1>1, CountedBytes
<1>5. ASSUME NEW k \in 1 .. n
      PROVE  /\ SizeOfString(arg[k]) \in Nat /\ SizeOfString(arg[k]) >= Len(items[k])
             /\ SizeOfString(arg[k]) = Len(items[k]) <=> ~ BlankText(arg[k])
             /\ Len(items[k]) \in Nat
  BY <1>1, <1>2, StringBytes
<1>6. /\ sizes \in Seq(Nat) /\ Len(sizes) = n /\ Len(lens) = n
      /\ \A k \in 1 .. n : sizes[k] = SizeOfString(arg[k]) /\ lens[k] = Len(items[k])
  BY <1>2, <1>5
<1> HIDE DEF sizes, lens
<1>7. \A k \in 1 .. Len(sizes) : sizes[k] >= lens[k]
  BY <1>5, <1>6
<1>8. /\ SumOf(sizes) \in Nat /\ SumOf(lens) \in Nat /\ SumOf(sizes) >= SumOf(lens)
      /\ (\E k \in 1 .. n : sizes[k] > lens[k]) => SumOf(sizes) > SumOf(lens)
  BY <1>4, <1>6, <1>7, SumCompare
<1>9. CASE \A k \in 1 .. n : ~ BlankText(arg[k])
  <2>1. \A k \in 1 .. n : sizes[k] = lens[k]
    BY <1>5, <1>6, <1>9
  <2>2. sizes = lens
    BY <1>4, <1>6, <2>1
  <2> QED BY <1>2, <1>3, <1>4, <1>8, <1>9, <2>2
<1>10. CASE \E k \in 1 .. n : BlankText(arg[k])
  <2>1. PICK k \in 1 .. n : BlankText(arg[k])
    BY <1>10
  <2>2. sizes[k] > lens[k]
    BY <1>5, <1>6, <2>1
  <2>3. SumOf(sizes) > SumOf(lens)
    BY <1>8, <2>2
  <2> QED BY <1>2, <1>3, <1>4, <1>8, <2>1, <2>3, SMTT(40)
<1> QED BY <1>9, <1>10

\* Up to 127 texts are read back.
LEMMA ArgFound ==
  ASSUME NEW arg, FitArg(arg), Len(arg) <= 127, \A k \in 1 .. Len(arg) : ~ BlankText(arg[k]),
         NEW in, NEW at, Occurs(WriteArg(arg), in, at)
  PROVE  ReadArg(in, at) = Got(ReadTexts(arg), at + Len(WriteArg(arg)))
<1> DEFINE items == ArgItems(arg)
           vals == ReadTexts(arg)
<1>1. /\ WriteArg(arg) = WriteCounted(items) /\ items \in Seq(Seq(Byte)) /\ Len(items) = Len(arg)
      /\ \A k \in 1 .. Len(arg) : items[k] = WriteString(arg[k])
  BY ArgWritten
<1>2. in \in Seq(Byte) /\ at \in Nat
  BY DEF Occurs
<1>3. vals = [k \in 1 .. Len(arg) |-> vals[k]] /\ \A k \in 1 .. Len(arg) : vals[k] = ReadText(arg[k])
  BY DEF ReadTexts
<1> HIDE DEF items, vals
<1>4. ASSUME NEW k \in 1 .. Len(items), NEW p, Occurs(items[k], in, p)
      PROVE  StringReader(in)[p] = Got(vals[k], p + Len(items[k]))
  <2>1. k \in 1 .. Len(arg) /\ p \in Nat /\ Occurs(WriteString(arg[k]), in, p)
    BY <1>1, <1>4 DEF Occurs
  <2>2. (arg[k] = Null \/ IsArray(arg[k])) /\ ~ BlankText(arg[k])
    BY <2>1 DEF FitArg
  <2>3. ReadString(in, p) = Got(ReadText(arg[k]), p + Len(WriteString(arg[k])))
    BY <2>1, <2>2, StringFound DEF ReadText
  <2> QED BY <1>1, <1>3, <2>1, <2>3 DEF StringReader
<1>5. Occurs(WriteCounted(items), in, at) /\ IsReader(StringReader(in))
  BY <1>1, <1>2, StringReaderIs
<1>6. vals = [k \in 1 .. Len(items) |-> vals[k]] /\ Len(items) <= 127
  BY <1>1, <1>3
<1>7. ReadCounted(in, at, StringReader(in)) = Got(vals, at + Len(WriteCounted(items)))
  <2>1. GetsEach(StringReader(in), items, in, vals)
    BY <1>4, <1>6 DEF GetsEach
  <2>2. items \in Seq(Seq(Byte)) /\ Len(items) <= 127
    BY <1>1
  <2> QED BY <1>5, <2>1, <2>2, CountedFound
<1>8. ReadArg(in, at) = ReadCounted(in, at, StringReader(in))
  BY DEF ReadArg, StringReader
<1> QED BY <1>1, <1>7, <1>8 DEF vals

\* However many texts were written, the byte before them says how many are read.
LEMMA ArgTaken ==
  ASSUME NEW arg, FitArg(arg), NEW in, NEW at, Occurs(WriteArg(arg), in, at), ReadArg(in, at).ok
  PROVE  Len(ReadArg(in, at).val) = Signed(Len(arg) % 256)
<1> DEFINE items == ArgItems(arg)
<1>1. WriteArg(arg) = WriteCounted(items) /\ items \in Seq(Seq(Byte)) /\ Len(items) = Len(arg)
  BY ArgWritten
<1>2. in \in Seq(Byte)
  BY DEF Occurs
<1>3. ReadArg(in, at) = ReadCounted(in, at, StringReader(in))
  BY DEF ReadArg, StringReader
<1> HIDE DEF items
<1>4. GotInTurn(StringReader(in), ReadCounted(in, at, StringReader(in)).val,
                Signed(Len(items) % 256), at + 1)
  <2>1. IsReader(StringReader(in)) /\ ReadCounted(in, at, StringReader(in)).ok
    BY <1>2, <1>3, StringReaderIs
  <2>2. items \in Seq(Seq(Byte)) /\ Occurs(WriteCounted(items), in, at)
    BY <1>1
  <2> QED BY <2>1, <2>2, CountedTaken
<1> QED BY <1>1, <1>3, <1>4 DEF GotInTurn

\* Arguments that fit.
FitArgs(args) ==
  args = Null \/ /\ args = [i \in 1 .. Len(args) |-> args[i]] /\ Len(args) \in Nat
                 /\ \A i \in 1 .. Len(args) : FitArg(args[i])

\* null is written like no arguments at all.
Given(args) == IF args = Null THEN <<>> ELSE args
ArgsItems(args) == [i \in 1 .. Len(Given(args)) |-> WriteArg(Given(args)[i])]
ArgsRead(args) == [i \in 1 .. Len(Given(args)) |-> ReadTexts(Given(args)[i])]

\* The same as Fits says.
LEMMA FitsArgs ==
  ASSUME NEW v, Fits("args", v)
  PROVE  FitArgs(v)
<1>1. CASE v = Null
  BY <1>1 DEF FitArgs
<1>2. CASE v # Null
  <2>1. /\ v \in Seq(Seq(Seq(Byte) \union {Null}))
        /\ \A i \in DOMAIN v : \A k \in DOMAIN v[i] : v[i][k] = Null \/ IsArray(v[i][k])
    BY <1>2 DEF Fits
  <2>2. v = [i \in 1 .. Len(v) |-> v[i]] /\ Len(v) \in Nat /\ DOMAIN v = 1 .. Len(v)
    BY <2>1
  <2>3. ASSUME NEW i \in 1 .. Len(v) PROVE FitArg(v[i])
    <3>1. v[i] \in Seq(Seq(Byte) \union {Null})
      BY <2>1
    <3>2. DOMAIN v[i] = 1 .. Len(v[i])
      BY <3>1
    <3> QED BY <2>1, <2>2, <3>1, <3>2 DEF FitArg
  <2> QED BY <2>2, <2>3 DEF FitArgs
<1> QED BY <1>1, <1>2

LEMMA GivenFits ==
  ASSUME NEW args, FitArgs(args)
  PROVE  /\ Len(Given(args)) \in Nat /\ DOMAIN Given(args) = 1 .. Len(Given(args))
         /\ Given(args) = [i \in 1 .. Len(Given(args)) |-> Given(args)[i]]
         /\ \A i \in 1 .. Len(Given(args)) : FitArg(Given(args)[i])
<1>1. CASE args = Null
  BY <1>1 DEF Given
<1>2. CASE args # Null
  <2>1. Given(args) = args
    BY <1>2 DEF Given
  <2>2. /\ args = [i \in 1 .. Len(args) |-> args[i]] /\ Len(args) \in Nat
        /\ \A i \in 1 .. Len(args) : FitArg(args[i])
    BY <1>2 DEF FitArgs
  <2>3. DOMAIN args = 1 .. Len(args)
    BY <2>2
  <2> QED BY <2>1, <2>2, <2>3
<1> QED BY <1>1, <1>2

\* A blank text is one of an argument.
LEMMA BlankArg ==
  ASSUME NEW args, FitArgs(args)
  PROVE  BlankValue(args) <=> \E i \in 1 .. Len(Given(args)) :
                                 \E k \in DOMAIN Given(args)[i] : BlankText(Given(args)[i][k])
<1>1. CASE args = Null
  <2>1. Given(args) = <<>> /\ Len(<<>>) = 0
    BY <1>1 DEF Given
  <2> QED BY <1>1, <2>1 DEF BlankValue
<1>2. CASE args # Null
  <2>1. Given(args) = args /\ DOMAIN args = 1 .. Len(args)
    BY <1>2, GivenFits DEF Given
  <2> QED BY <1>2, <2>1 DEF BlankValue
<1> QED BY <1>1, <1>2

\* Nothing joined is nothing.
LEMMA JoinedNone == Joined(<<>>) = <<>>
<1>1. <<>> \in Seq(Seq(Byte)) /\ Len(<<>>) = 0
  OBVIOUS
<1>2. PICK f : JoinParts(<<>>, f)
  BY <1>1, JoinedParts
<1> QED BY <1>1, <1>2 DEF JoinParts

\* Arguments are written as items behind their count.
LEMMA ArgsWritten ==
  ASSUME NEW args, FitArgs(args)
  PROVE  /\ WriteArgs(args) = WriteCounted(ArgsItems(args))
         /\ ArgsItems(args) \in Seq(Seq(Byte)) /\ Len(ArgsItems(args)) = Len(Given(args))
         /\ \A i \in 1 .. Len(Given(args)) : ArgsItems(args)[i] = WriteArg(Given(args)[i])
<1>1. \A i \in 1 .. Len(Given(args)) : WriteArg(Given(args)[i]) \in Seq(Byte)
  BY GivenFits, ArgBytes
<1>2. Len(Given(args)) \in Nat
  BY GivenFits
<1>3. /\ ArgsItems(args) \in Seq(Seq(Byte)) /\ Len(ArgsItems(args)) = Len(Given(args))
      /\ \A i \in 1 .. Len(Given(args)) : ArgsItems(args)[i] = WriteArg(Given(args)[i])
  BY <1>1, <1>2 DEF ArgsItems
<1>4. CASE args = Null
  <2>1. ArgsItems(args) = <<>>
    BY <1>4 DEF ArgsItems, Given
  <2>2. WriteCounted(<<>>) = <<0>> \o <<>>
    <3>1. Len(<<>>) % 256 = 0
      OBVIOUS
    <3>2. WriteCounted(<<>>) = <<Len(<<>>) % 256>> \o Joined(<<>>)
      BY DEF WriteCounted
    <3> QED BY <3>1, <3>2, JoinedNone, Zenon
  <2>3. WriteArgs(args) = <<0>>
    BY <1>4 DEF WriteArgs
  <2> QED BY <1>3, <2>1, <2>2, <2>3
<1>5. CASE args # Null
  <2>1. Given(args) = args /\ DOMAIN args = 1 .. Len(args)
    BY <1>5, GivenFits DEF Given
  <2>2. ArgsItems(args) = [i \in DOMAIN args |-> WriteArg(args[i])]
    BY <2>1 DEF ArgsItems
  <2>3. WriteArgs(args) = WriteCounted(ArgsItems(args))
    BY <1>5, <2>2 DEF WriteArgs
  <2> QED BY <1>3, <2>3
<1> QED BY <1>4, <1>5

LEMMA SumNone == SumOf(<<>>) = 0
<1>1. <<>> \in Seq(Nat) /\ Len(<<>>) = 0
  OBVIOUS
<1>2. PICK f : SumParts(<<>>, f)
  BY <1>1, SumOfParts
<1> QED BY <1>1, <1>2 DEF SumParts

\* Their size, as a sum.
LEMMA ArgsSized ==
  ASSUME NEW args, FitArgs(args)
  PROVE  SizeOfArgs(args) = 1 + SumOf([i \in 1 .. Len(Given(args)) |-> SizeOfArg(Given(args)[i])])
<1>1. CASE args = Null
  <2>1. [i \in 1 .. Len(Given(args)) |-> SizeOfArg(Given(args)[i])] = <<>>
    BY <1>1 DEF Given
  <2> QED BY <1>1, <2>1, SumNone DEF SizeOfArgs
<1>2. CASE args # Null
  <2>1. Given(args) = args /\ DOMAIN args = 1 .. Len(args)
    BY <1>2, GivenFits DEF Given
  <2> QED BY <1>2, <2>1 DEF SizeOfArgs
<1> QED BY <1>1, <1>2

\* The size of the arguments is right unless a text is blank.
LEMMA ArgsBytes ==
  ASSUME NEW args, FitArgs(args)
  PROVE  /\ WriteArgs(args) \in Seq(Byte) /\ Len(WriteArgs(args)) \in Nat /\ SizeOfArgs(args) \in Nat
         /\ SizeOfArgs(args) >= Len(WriteArgs(args))
         /\ SizeOfArgs(args) = Len(WriteArgs(args)) <=> ~ BlankValue(args)
<1> DEFINE n == Len(Given(args))
           items == ArgsItems(args)
           sizes == [i \in 1 .. n |-> SizeOfArg(Given(args)[i])]
           lens == [i \in 1 .. n |-> Len(items[i])]
           Blank(i) == \E k \in DOMAIN Given(args)[i] : BlankText(Given(args)[i][k])
<1>1. /\ WriteArgs(args) = WriteCounted(items) /\ items \in Seq(Seq(Byte)) /\ Len(items) = n
      /\ \A i \in 1 .. n : items[i] = WriteArg(Given(args)[i])
  BY ArgsWritten
<1>2. n \in Nat /\ \A i \in 1 .. n : FitArg(Given(args)[i])
  BY GivenFits
<1>3. SizeOfArgs(args) = 1 + SumOf(sizes)
  BY ArgsSized
<1>4. BlankValue(args) <=> \E i \in 1 .. n : Blank(i)
  BY BlankArg
<1> HIDE DEF items, n
<1>5. /\ WriteArgs(args) \in Seq(Byte) /\ Len(WriteArgs(args)) \in Nat
      /\ lens \in Seq(Nat) /\ Len(WriteArgs(args)) = 1 + SumOf(lens)
  BY <1>1, CountedBytes
<1>6. ASSUME NEW i \in 1 .. n
      PROVE  /\ SizeOfArg(Given(args)[i]) \in Nat /\ SizeOfArg(Given(args)[i]) >= Len(items[i])
             /\ SizeOfArg(Given(args)[i]) = Len(items[i]) <=> ~ Blank(i)
             /\ Len(items[i]) \in Nat
  <2>1. PICK arg : arg = Given(args)[i]
    OBVIOUS
  <2>2. FitArg(arg) /\ items[i] = WriteArg(arg) /\ (Blank(i) <=> \E k \in DOMAIN arg : BlankText(arg[k]))
    BY <1>1, <1>2, <2>1
  <2> QED BY <2>1, <2>2, ArgBytes
<1> HIDE DEF Blank
<1>7. /\ sizes \in Seq(Nat) /\ Len(sizes) = n /\ Len(lens) = n
      /\ \A i \in 1 .. n : sizes[i] = SizeOfArg(Given(args)[i]) /\ lens[i] = Len(items[i])
  BY <1>2, <1>6
<1> HIDE DEF sizes, lens
<1>8. \A i \in 1 .. Len(sizes) : sizes[i] >= lens[i]
  BY <1>6, <1>7
<1>9. /\ SumOf(sizes) \in Nat /\ SumOf(lens) \in Nat /\ SumOf(sizes) >= SumOf(lens)
      /\ (\E i \in 1 .. n : sizes[i] > lens[i]) => SumOf(sizes) > SumOf(lens)
  BY <1>5, <1>7, <1>8, SumCompare
<1>10. CASE \A i \in 1 .. n : ~ Blank(i)
  <2>1. \A i \in 1 .. n : sizes[i] = lens[i]
    BY <1>6, <1>7, <1>10
  <2>2. sizes = lens
    BY <1>5, <1>7, <2>1
  <2> QED BY <1>3, <1>4, <1>5, <1>9, <1>10, <2>2
<1>11. CASE \E i \in 1 .. n : Blank(i)
  <2>1. PICK i \in 1 .. n : Blank(i)
    BY <1>11
  <2>2. sizes[i] > lens[i]
    BY <1>6, <1>7, <2>1, SMTT(40)
  <2>3. SumOf(sizes) > SumOf(lens)
    BY <1>9, <2>2
  <2> QED BY <1>3, <1>4, <1>5, <1>9, <2>1, <2>3
<1> QED BY <1>10, <1>11

\* What is read is what Normal says.
LEMMA ArgsNormal ==
  ASSUME NEW args, FitArgs(args)
  PROVE  /\ Normal("args", args) = ArgsRead(args)
         /\ Countable(args) <=> /\ Len(Given(args)) <= 127
                                /\ \A i \in 1 .. Len(Given(args)) : Len(Given(args)[i]) <= 127
<1>1. CASE args = Null
  <2>1. Given(args) = <<>> /\ Len(<<>>) = 0
    BY <1>1 DEF Given
  <2>2. ArgsRead(args) = <<>>
    BY <2>1 DEF ArgsRead
  <2>3. Normal("args", args) = <<>>
    BY <1>1 DEF Normal
  <2> QED BY <1>1, <2>1, <2>2, <2>3 DEF Countable
<1>2. CASE args # Null
  <2>1. Given(args) = args /\ DOMAIN args = 1 .. Len(args)
    BY <1>2, GivenFits DEF Given
  <2>2. ASSUME NEW i \in 1 .. Len(args)
        PROVE  [k \in DOMAIN args[i] |-> IF args[i][k] = Null THEN <<>> ELSE args[i][k]]
                 = ReadTexts(args[i])
    <3>1. FitArg(args[i])
      BY <2>1, GivenFits
    <3>2. DOMAIN args[i] = 1 .. Len(args[i])
      BY <3>1 DEF FitArg
    <3> QED BY <3>2 DEF ReadTexts, ReadText
  <2>3. Normal("args", args)
          = [i \in DOMAIN args |-> [k \in DOMAIN args[i] |-> IF args[i][k] = Null THEN <<>> ELSE args[i][k]]]
    BY <1>2 DEF Normal
  <2>4. Normal("args", args) = ArgsRead(args)
    BY <2>1, <2>2, <2>3 DEF ArgsRead
  <2> QED BY <1>2, <2>1, <2>4 DEF Countable
<1> QED BY <1>1, <1>2

\* Up to 127 arguments of up to 127 texts are read back,
LEMMA ArgsFound ==
  ASSUME NEW args, FitArgs(args), Countable(args), ~ BlankValue(args),
         NEW in, NEW at, Occurs(WriteArgs(args), in, at)
  PROVE  ReadArgs(in, at) = Got(Normal("args", args), at + Len(WriteArgs(args)))
<1> DEFINE items == ArgsItems(args)
           vals == ArgsRead(args)
           n == Len(Given(args))
<1>1. /\ WriteArgs(args) = WriteCounted(items) /\ items \in Seq(Seq(Byte)) /\ Len(items) = n
      /\ \A i \in 1 .. n : items[i] = WriteArg(Given(args)[i])
  BY ArgsWritten
<1>2. in \in Seq(Byte) /\ at \in Nat
  BY DEF Occurs
<1>3. vals = [i \in 1 .. n |-> vals[i]] /\ \A i \in 1 .. n : vals[i] = ReadTexts(Given(args)[i])
  BY DEF ArgsRead
<1>4. n <= 127 /\ \A i \in 1 .. n : Len(Given(args)[i]) <= 127
  BY ArgsNormal
<1>5. \A i \in 1 .. n : FitArg(Given(args)[i]) /\ \A k \in DOMAIN Given(args)[i] : ~ BlankText(Given(args)[i][k])
  BY GivenFits, BlankArg
<1> HIDE DEF items, vals, n
<1>6. ASSUME NEW k \in 1 .. Len(items), NEW p, Occurs(items[k], in, p)
      PROVE  ArgReader(in)[p] = Got(vals[k], p + Len(items[k]))
  <2>1. PICK arg : arg = Given(args)[k]
    OBVIOUS
  <2>2. k \in 1 .. n /\ p \in Nat /\ items[k] = WriteArg(arg) /\ vals[k] = ReadTexts(arg)
    BY <1>1, <1>3, <1>6, <2>1 DEF Occurs
  <2>3. FitArg(arg) /\ Len(arg) <= 127 /\ \A j \in DOMAIN arg : ~ BlankText(arg[j])
    BY <1>4, <1>5, <2>1, <2>2
  <2>4. DOMAIN arg = 1 .. Len(arg)
    BY <2>3 DEF FitArg
  <2>5. ReadArg(in, p) = Got(ReadTexts(arg), p + Len(WriteArg(arg)))
    BY <1>6, <2>2, <2>3, <2>4, ArgFound
  <2>6. ArgReader(in)[p] = ReadArg(in, p)
    BY <1>2, <2>2, ArgReaderIs
  <2> QED BY <2>2, <2>5, <2>6
<1>7. ReadCounted(in, at, ArgReader(in)) = Got(vals, at + Len(WriteCounted(items)))
  <2>1. GetsEach(ArgReader(in), items, in, vals)
    BY <1>1, <1>3, <1>6 DEF GetsEach
  <2>2. items \in Seq(Seq(Byte)) /\ Len(items) <= 127
    BY <1>1, <1>4
  <2>3. Occurs(WriteCounted(items), in, at) /\ IsReader(ArgReader(in))
    BY <1>1, <1>2, ArgReaderIs
  <2> QED BY <2>1, <2>2, <2>3, CountedFound
<1>8. ReadArgs(in, at) = ReadCounted(in, at, ArgReader(in))
  BY <1>2, ArgsOutcome
<1> QED BY <1>1, <1>7, <1>8, ArgsNormal DEF vals

\* and no others are.
LEMMA ArgsTaken ==
  ASSUME NEW args, FitArgs(args), ~ BlankValue(args),
         NEW in, NEW at, Occurs(WriteArgs(args), in, at),
         ReadArgs(in, at).ok, ReadArgs(in, at).val = Normal("args", args)
  PROVE  Countable(args)
<1> DEFINE items == ArgsItems(args)
           vals == ArgsRead(args)
           n == Len(Given(args))
<1>1. /\ WriteArgs(args) = WriteCounted(items) /\ items \in Seq(Seq(Byte)) /\ Len(items) = n
      /\ \A i \in 1 .. n : items[i] = WriteArg(Given(args)[i])
  BY ArgsWritten
<1>2. in \in Seq(Byte) /\ at \in Nat /\ n \in Nat
  BY GivenFits DEF Occurs
<1>3. vals = [i \in 1 .. n |-> vals[i]] /\ \A i \in 1 .. n : vals[i] = ReadTexts(Given(args)[i])
  BY DEF ArgsRead
<1>4. Len(vals) = n
  BY <1>2 DEF ArgsRead
<1>5. \A i \in 1 .. n : /\ FitArg(Given(args)[i])
                        /\ \A k \in DOMAIN Given(args)[i] : ~ BlankText(Given(args)[i][k])
  BY GivenFits, BlankArg
<1>6. Countable(args) <=> n <= 127 /\ \A i \in 1 .. n : Len(Given(args)[i]) <= 127
  BY ArgsNormal
<1>7. ReadCounted(in, at, ArgReader(in)).ok /\ ReadCounted(in, at, ArgReader(in)).val = vals
  BY <1>2, ArgsOutcome, ArgsNormal
<1> HIDE DEF items, vals, n
<1>8. GotInTurn(ArgReader(in), vals, Signed(Len(items) % 256), at + 1)
  <2>1. Occurs(WriteCounted(items), in, at) /\ IsReader(ArgReader(in)) /\ items \in Seq(Seq(Byte))
    BY <1>1, <1>2, ArgReaderIs
  <2>2. GotInTurn(ArgReader(in), ReadCounted(in, at, ArgReader(in)).val, Signed(Len(items) % 256), at + 1)
    BY <1>7, <2>1, CountedTaken
  <2> QED BY <1>7, <2>2
<1>9. Signed(Len(items) % 256) = n
  BY <1>4, <1>8 DEF GotInTurn
<1>10. n <= 127
  BY <1>1, <1>2, <1>9, CountByte
<1>11. PICK pos : /\ pos[0] = at + 1 /\ pos \in [0 .. n -> Nat]
                  /\ \A k \in 1 .. n : ArgReader(in)[pos[k - 1]] = Got(vals[k], pos[k])
  BY <1>8, <1>9 DEF GotInTurn
<1>12. PICK laid : Laid(items, in, laid) /\ laid[0] = at + 1
  BY <1>1, CountedLaid
<1>13. /\ laid \in [0 .. n -> Nat]
       /\ \A k \in 1 .. n : /\ laid[k] = laid[k - 1] + Len(items[k])
                            /\ Occurs(items[k], in, laid[k - 1])
  BY <1>1, <1>12 DEF Laid
\* Each argument is read where it was laid, and is short.
<1> DEFINE Bad == {k \in Nat : k \in 1 .. n /\ ~ (pos[k] = laid[k] /\ Len(Given(args)[k]) <= 127)}
<1>14. ASSUME Bad # {} PROVE FALSE
  <2>1. PICK k \in Bad : \A j \in Bad : k <= j
    BY <1>14, LeastNumber
  <2>2. k \in 1 .. n /\ k \in Nat
    OBVIOUS
  <2>3. pos[k - 1] = laid[k - 1] /\ laid[k - 1] \in Nat
    <3>1. CASE k = 1
      BY <1>2, <1>11, <1>12, <1>13, <2>2, <3>1
    <3>2. CASE k # 1
      <4>1. k - 1 \in 1 .. n /\ k - 1 \in Nat /\ ~ (k <= k - 1)
        BY <1>2, <2>2, <3>2
      <4>2. k - 1 \notin Bad
        BY <2>1, <4>1
      <4> QED BY <1>13, <4>1, <4>2
    <3> QED BY <3>1, <3>2
  <2>4. PICK arg : arg = Given(args)[k]
    OBVIOUS
  <2>5. FitArg(arg) /\ (\A j \in DOMAIN arg : ~ BlankText(arg[j])) /\ vals[k] = ReadTexts(arg)
        /\ items[k] = WriteArg(arg)
    BY <1>1, <1>3, <1>5, <2>2, <2>4
  <2>6. Len(arg) \in Nat /\ DOMAIN arg = 1 .. Len(arg)
    BY <2>5 DEF FitArg
  <2>7. Occurs(WriteArg(arg), in, laid[k - 1]) /\ laid[k] = laid[k - 1] + Len(WriteArg(arg))
    BY <1>13, <2>2, <2>5
  <2>8. ReadArg(in, laid[k - 1]) = Got(vals[k], pos[k])
    <3>1. ArgReader(in)[pos[k - 1]] = Got(vals[k], pos[k])
      BY <1>11, <2>2
    <3>2. ArgReader(in)[laid[k - 1]] = ReadArg(in, laid[k - 1])
      BY <1>2, <2>3, ArgReaderIs
    <3> QED BY <2>3, <3>1, <3>2
  <2>9. ReadArg(in, laid[k - 1]).ok /\ ReadArg(in, laid[k - 1]).val = vals[k]
        /\ ReadArg(in, laid[k - 1]).at = pos[k]
    BY <2>8, GotIs
  <2>10. Len(ReadTexts(arg)) = Len(arg)
    BY <2>6 DEF ReadTexts
  <2>11. Signed(Len(arg) % 256) = Len(arg)
    BY <2>5, <2>7, <2>9, <2>10, ArgTaken
  <2>12. Len(arg) <= 127
    BY <2>6, <2>11, CountByte
  <2>13. ReadArg(in, laid[k - 1]) = Got(ReadTexts(arg), laid[k - 1] + Len(WriteArg(arg)))
    BY <2>5, <2>6, <2>7, <2>12, ArgFound
  <2>14. pos[k] = laid[k]
    BY <2>7, <2>9, <2>13, GotIs
  <2> QED BY <2>1, <2>4, <2>12, <2>14
<1>15. \A i \in 1 .. n : Len(Given(args)[i]) <= 127
  BY <1>14
<1> QED BY <1>6, <1>10, <1>15

-----------------------------------------------------------------------------
(***************************************************************************)
(* The cases of the definitions, one by one                                *)
(***************************************************************************)

\* All types, and those of numbers.
Types == {"uint16", "uint32", "uint48", "int64", "BigInteger",
          "byte", "address", "key", "bytes", "string", "args"}
Numbers == {"uint16", "uint32", "uint48", "int64", "BigInteger"}

\* The widths of the numbers.
LEMMA Widths ==
  /\ DOMAIN Width = Numbers
  /\ \A type \in Numbers : Width[type] \in Nat
  /\ Width["uint16"] = 2 /\ Width["uint32"] = 4 /\ Width["uint48"] = 6
  /\ Width["int64"] = 8 /\ Width["BigInteger"] = 32
BY DEF Width, Numbers

\* The cases of the definitions, one by one.
LEMMA WrittenNumber ==
  ASSUME NEW type \in Numbers, NEW v
  PROVE  WriteField(type, v) = LittleEndian(v, Width[type]) /\ SizeOfField(type, v) = Width[type]
<1>1. type \in DOMAIN Width
  BY Widths
<1>2. /\ type # "byte" /\ type # "address" /\ type # "key" /\ type # "bytes"
      /\ type # "string" /\ type # "args"
  BY DEF Numbers
<1>3. WriteField(type, v) = LittleEndian(v, Width[type])
  BY <1>1, <1>2 DEF WriteField
<1>4. SizeOfField(type, v) = Width[type]
  BY <1>1, <1>2 DEF SizeOfField
<1> QED BY <1>3, <1>4

\* How the other types are written.
LEMMA WrittenOther ==
  ASSUME NEW v
  PROVE  /\ WriteField("byte", v) = <<v % 256>> /\ SizeOfField("byte", v) = 1
         /\ WriteField("address", v) = v /\ SizeOfField("address", v) = 23
         /\ WriteField("key", v) = <<Len(v)>> \o v /\ SizeOfField("key", v) = 1 + Len(v)
         /\ WriteField("bytes", v) = WriteBytes(v) /\ SizeOfField("bytes", v) = SizeOfArray(v)
         /\ WriteField("string", v) = WriteString(v) /\ SizeOfField("string", v) = SizeOfString(v)
         /\ WriteField("args", v) = WriteArgs(v) /\ SizeOfField("args", v) = SizeOfArgs(v)
<1>1. \A type \in {"byte", "address", "key", "bytes", "string", "args"} : type \notin DOMAIN Width
  BY Widths DEF Numbers
<1>2. WriteField("byte", v) = <<v % 256>> /\ SizeOfField("byte", v) = 1
  BY <1>1 DEF WriteField, SizeOfField
<1>3. WriteField("address", v) = v /\ SizeOfField("address", v) = 23
  BY <1>1 DEF WriteField, SizeOfField
<1>4. WriteField("key", v) = <<Len(v)>> \o v /\ SizeOfField("key", v) = 1 + Len(v)
  BY <1>1 DEF WriteField, SizeOfField
<1>5. WriteField("bytes", v) = WriteBytes(v) /\ SizeOfField("bytes", v) = SizeOfArray(v)
  BY <1>1 DEF WriteField, SizeOfField
<1>6. WriteField("string", v) = WriteString(v) /\ SizeOfField("string", v) = SizeOfString(v)
  BY <1>1 DEF WriteField, SizeOfField
<1>7. WriteField("args", v) = WriteArgs(v) /\ SizeOfField("args", v) = SizeOfArgs(v)
  BY <1>1 DEF WriteField, SizeOfField
<1> QED BY <1>2, <1>3, <1>4, <1>5, <1>6, <1>7

\* How each type is read.
LEMMA ReadCases ==
  ASSUME NEW in, NEW at
  PROVE  /\ ReadField("BigInteger", in, at) = ReadBigInteger(in, at)
         /\ ReadField("uint48", in, at) = ReadTime(in, at)
         /\ ReadField("uint16", in, at) = ReadNumber(in, at, 2)
         /\ ReadField("uint32", in, at) = ReadNumber(in, at, 4)
         /\ ReadField("int64", in, at) = ReadNumber(in, at, 8)
         /\ ReadField("byte", in, at) = ReadByte(in, at)
         /\ ReadField("address", in, at) = ReadBytes(in, at, 23)
         /\ ReadField("key", in, at) = ReadKey(in, at)
         /\ ReadField("bytes", in, at) = ReadByLengthByte(in, at)
         /\ ReadField("string", in, at) = ReadString(in, at)
         /\ ReadField("args", in, at) = ReadArgs(in, at)
<1>1. ReadField("BigInteger", in, at) = ReadBigInteger(in, at)
  BY DEF ReadField
<1>2. ReadField("uint48", in, at) = ReadTime(in, at)
  BY DEF ReadField
<1>3. /\ ReadField("uint16", in, at) = ReadNumber(in, at, 2)
      /\ ReadField("uint32", in, at) = ReadNumber(in, at, 4)
      /\ ReadField("int64", in, at) = ReadNumber(in, at, 8)
  BY Widths DEF ReadField
<1>4. ReadField("byte", in, at) = ReadByte(in, at)
  BY DEF ReadField
<1>5. ReadField("address", in, at) = ReadBytes(in, at, 23)
  BY DEF ReadField
<1>6. ReadField("key", in, at) = ReadKey(in, at)
  BY DEF ReadField
<1>7. ReadField("bytes", in, at) = ReadByLengthByte(in, at)
  BY DEF ReadField
<1>8. ReadField("string", in, at) = ReadString(in, at)
  BY DEF ReadField
<1>9. ReadField("args", in, at) = ReadArgs(in, at)
  BY DEF ReadField
<1> QED BY <1>1, <1>2, <1>3, <1>4, <1>5, <1>6, <1>7, <1>8, <1>9

\* What fits.
LEMMA FitCases ==
  ASSUME NEW v
  PROVE  /\ Fits("uint16", v) <=> v \in Nat /\ Left(v, 2) = 0
         /\ Fits("uint32", v) <=> v \in Nat /\ Left(v, 4) = 0
         /\ Fits("uint48", v) <=> v \in Nat /\ Left(v, 6) = 0 /\ LittleEndian(v, 6) # NoTime
         /\ Fits("int64", v) <=> v \in Nat /\ Left(v, 7) < 128
         /\ Fits("BigInteger", v) <=> v \in Nat /\ Left(v, 31) < 128
         /\ Fits("byte", v) <=> v \in 0 .. 127
         /\ Fits("address", v) <=> v \in Seq(Byte) /\ Len(v) = 23
         /\ Fits("key", v) <=> v \in Seq(Byte) /\ Len(v) < 128
         /\ Fits("bytes", v) <=> v = Null \/ IsArray(v)
         /\ Fits("string", v) <=> v = Null \/ IsArray(v)
<1>1. Fits("uint16", v) <=> v \in Nat /\ Left(v, 2) = 0
  BY Widths DEF Fits
<1>2. Fits("uint32", v) <=> v \in Nat /\ Left(v, 4) = 0
  BY Widths DEF Fits
<1>3. Fits("uint48", v) <=> v \in Nat /\ Left(v, 6) = 0 /\ LittleEndian(v, 6) # NoTime
  BY DEF Fits
<1>4. Fits("int64", v) <=> v \in Nat /\ Left(v, 7) < 128
  BY Widths DEF Fits
<1>5. Fits("BigInteger", v) <=> v \in Nat /\ Left(v, 31) < 128
  BY Widths DEF Fits
<1>6. Fits("byte", v) <=> v \in 0 .. 127
  BY DEF Fits
<1>7. Fits("address", v) <=> v \in Seq(Byte) /\ Len(v) = 23
  BY DEF Fits
<1>8. Fits("key", v) <=> v \in Seq(Byte) /\ Len(v) < 128
  BY DEF Fits
<1>9. Fits("bytes", v) <=> v = Null \/ IsArray(v)
  BY DEF Fits
<1>10. Fits("string", v) <=> v = Null \/ IsArray(v)
  BY DEF Fits
<1> QED BY <1>1, <1>2, <1>3, <1>4, <1>5, <1>6, <1>7, <1>8, <1>9, <1>10

\* What comes back.
LEMMA NormalCases ==
  ASSUME NEW v
  PROVE  /\ \A type \in Types \ {"string", "args", "bytes"} : Normal(type, v) = v
         /\ Normal("bytes", v) = IF v = <<>> THEN Null ELSE v
         /\ Normal("string", v) = IF v = Null THEN <<>> ELSE v
<1>1. \A type \in Types \ {"string", "args", "bytes"} : Normal(type, v) = v
  BY DEF Normal
<1>2. Normal("bytes", v) = IF v = <<>> THEN Null ELSE v
  BY DEF Normal
<1>3. Normal("string", v) = IF v = Null THEN <<>> ELSE v
  BY DEF Normal
<1> QED BY <1>1, <1>2, <1>3

\* What is above the last byte but one is a byte of less than 128: nothing is left of it.
LEMMA FitNumber ==
  ASSUME NEW type \in Numbers, NEW v, Fits(type, v)
  PROVE  v \in Nat /\ Left(v, Width[type]) = 0
<1>1. CASE type \in {"uint16", "uint32", "uint48"}
  BY <1>1, FitCases, Widths
<1>2. CASE type = "int64"
  <2>1. v \in Nat /\ Left(v, 7) < 128
    BY <1>2, FitCases
  <2>2. Left(v, 7) \in Nat /\ Left(v, 8) = Left(v, 7) \div 256
    BY <2>1, LeftStep, LeftNat
  <2> QED BY <1>2, <2>1, <2>2, Widths
<1>3. CASE type = "BigInteger"
  <2>1. v \in Nat /\ Left(v, 31) < 128
    BY <1>3, FitCases
  <2>2. Left(v, 31) \in Nat /\ Left(v, 32) = Left(v, 31) \div 256
    BY <2>1, LeftStep, LeftNat
  <2> QED BY <1>3, <2>1, <2>2, Widths
<1> QED BY <1>1, <1>2, <1>3 DEF Numbers

-----------------------------------------------------------------------------
(***************************************************************************)
(* A field of any type: its size, its bytes, and what is read of them      *)
(***************************************************************************)

\* A field whose announced size is wrong.
BlankField(type, v) ==
  \/ type = "string" /\ BlankText(v)
  \/ type = "args" /\ BlankValue(v)

\* The size of a field is the length of its bytes, unless a text is blank.
LEMMA FieldBytes ==
  ASSUME NEW type \in Types, NEW v, Fits(type, v)
  PROVE  /\ WriteField(type, v) \in Seq(Byte) /\ Len(WriteField(type, v)) \in Nat
         /\ SizeOfField(type, v) \in Nat /\ SizeOfField(type, v) >= Len(WriteField(type, v))
         /\ SizeOfField(type, v) = Len(WriteField(type, v)) <=> ~ BlankField(type, v)
<1> DEFINE Told(w, size) == /\ w \in Seq(Byte) /\ Len(w) \in Nat /\ size \in Nat /\ size >= Len(w)
                            /\ size = Len(w) <=> ~ BlankField(type, v)
<1> SUFFICES Told(WriteField(type, v), SizeOfField(type, v))
  OBVIOUS
<1>1. CASE type \in Numbers
  <2>1. v \in Nat /\ Width[type] \in Nat
    BY <1>1, FitNumber, Widths
  <2>2. LittleEndian(v, Width[type]) \in Seq(Byte) /\ Len(LittleEndian(v, Width[type])) = Width[type]
    BY <2>1, LittleEndianBytes, ZenonT(60)
  <2>3. ~ BlankField(type, v)
    BY <1>1 DEF BlankField, Numbers
  <2>4. Told(LittleEndian(v, Width[type]), Width[type])
    BY <2>1, <2>2, <2>3
  <2> QED BY <1>1, <2>4, WrittenNumber
<1>2. CASE type = "byte"
  <2>1. v \in 0 .. 127
    BY <1>2, FitCases
  <2>2. v % 256 \in Byte
    BY <2>1 DEF Byte
  <2>3. <<v % 256>> \in Seq(Byte) /\ Len(<<v % 256>>) = 1
    BY <2>2
  <2>4. ~ BlankField(type, v)
    BY <1>2 DEF BlankField
  <2>5. Told(<<v % 256>>, 1)
    BY <2>3, <2>4
  <2> QED BY <1>2, <2>5, WrittenOther
<1>3. CASE type = "address"
  <2>1. v \in Seq(Byte) /\ Len(v) = 23
    BY <1>3, FitCases
  <2>2. ~ BlankField(type, v)
    BY <1>3 DEF BlankField
  <2>3. Told(v, 23)
    BY <2>1, <2>2
  <2> QED BY <1>3, <2>3, WrittenOther
<1>4. CASE type = "key"
  <2>1. v \in Seq(Byte) /\ Len(v) < 128
    BY <1>4, FitCases
  <2>2. PICK w : w = <<Len(v)>> \o v
    OBVIOUS
  <2>3. Len(v) \in Nat /\ w \in Seq(Byte) /\ Len(w) = 1 + Len(v)
    <3>1. Len(v) \in Byte /\ Len(v) \in Nat
      <4>1. ASSUME NEW n \in Nat, n < 128 PROVE n \in Byte
        BY <4>1 DEF Byte
      <4>2. Len(v) \in Nat /\ Len(v) < 128
        BY <2>1
      <4> QED BY <4>1, <4>2, Zenon
    <3>2. <<Len(v)>> \in Seq(Byte) /\ Len(<<Len(v)>>) = 1
      BY <3>1
    <3> QED BY <2>1, <2>2, <3>1, <3>2, ConcatProperties
  <2>4. ~ BlankField(type, v)
    BY <1>4 DEF BlankField
  <2>5. Told(w, 1 + Len(v))
    BY <2>3, <2>4
  <2>6. WriteField(type, v) = w /\ SizeOfField(type, v) = 1 + Len(v)
    BY <1>4, <2>2, WrittenOther
  <2> QED BY <2>5, <2>6
<1>5. CASE type = "bytes"
  <2>1. v = Null \/ IsArray(v)
    BY <1>5, FitCases
  <2>2. ~ BlankField(type, v)
    BY <1>5 DEF BlankField
  <2>3. /\ WriteBytes(v) \in Seq(Byte) /\ Len(WriteBytes(v)) = SizeOfArray(v)
        /\ Len(WriteBytes(v)) \in Nat
    BY <2>1, ArrayBytes
  <2>4. Told(WriteBytes(v), SizeOfArray(v))
    BY <2>2, <2>3
  <2> QED BY <1>5, <2>4, WrittenOther
<1>6. CASE type = "string"
  <2>1. v = Null \/ IsArray(v)
    BY <1>6, FitCases
  <2>2. BlankField(type, v) <=> BlankText(v)
    BY <1>6 DEF BlankField
  <2>3. Told(WriteString(v), SizeOfString(v))
    BY <2>1, <2>2, StringBytes
  <2> QED BY <1>6, <2>3, WrittenOther
<1>7. CASE type = "args"
  <2>1. FitArgs(v)
    BY <1>7, FitsArgs
  <2>2. BlankField(type, v) <=> BlankValue(v)
    BY <1>7 DEF BlankField
  <2>3. Told(WriteArgs(v), SizeOfArgs(v))
    BY <2>1, <2>2, ArgsBytes
  <2> QED BY <1>7, <2>3, WrittenOther
<1>8. type \in Numbers \/ type \in {"byte", "address", "key", "bytes", "string", "args"}
  BY DEF Types, Numbers
<1> QED BY <1>1, <1>2, <1>3, <1>4, <1>5, <1>6, <1>7, <1>8

\* Every field is read to an outcome.
LEMMA FieldOutcome ==
  ASSUME NEW type \in Types, NEW in \in Seq(Byte), NEW at \in Nat
  PROVE  IsOutcome(ReadField(type, in, at))
<1>1. /\ IsOutcome(ReadNumber(in, at, 2)) /\ IsOutcome(ReadNumber(in, at, 4))
      /\ IsOutcome(ReadNumber(in, at, 8))
  BY NumberOutcome
<1>2. IsOutcome(ReadTime(in, at)) /\ IsOutcome(ReadBigInteger(in, at)) /\ IsOutcome(ReadByte(in, at))
  BY TimeOutcome, BigIntegerOutcome, ByteOutcome
<1>3. IsOutcome(ReadBytes(in, at, 23)) /\ IsOutcome(ReadKey(in, at)) /\ IsOutcome(ReadByLengthByte(in, at))
  BY BytesOutcome, KeyOutcome, ByLengthByteOutcome
<1>4. IsOutcome(ReadString(in, at)) /\ IsOutcome(ReadArgs(in, at))
  BY StringOutcome, ArgsOutcome
<1>5. CASE type \in {"uint16", "uint32", "int64"}
  BY <1>1, <1>5, ReadCases
<1>6. CASE type \in {"uint48", "BigInteger", "byte"}
  BY <1>2, <1>6, ReadCases
<1>7. CASE type \in {"address", "key", "bytes"}
  BY <1>3, <1>7, ReadCases
<1>8. CASE type \in {"string", "args"}
  BY <1>4, <1>8, ReadCases
<1> QED BY <1>5, <1>6, <1>7, <1>8 DEF Types

\* A field that is written is read back, if a byte can count its arguments.
LEMMA FieldFound ==
  ASSUME NEW type \in Types, NEW v, Fits(type, v), ~ BlankField(type, v),
         type = "args" => Countable(v),
         NEW in, NEW at, Occurs(WriteField(type, v), in, at)
  PROVE  ReadField(type, in, at) = Got(Normal(type, v), at + Len(WriteField(type, v)))
<1>0. PICK b : b = WriteField(type, v)
  OBVIOUS
<1>1. Occurs(b, in, at) /\ in \in Seq(Byte) /\ at \in Nat /\ b \in Seq(Byte) /\ Len(b) \in Nat
  BY <1>0, FieldBytes DEF Occurs
<1> SUFFICES ReadField(type, in, at) = Got(Normal(type, v), at + Len(b))
  BY <1>0
<1>2. CASE type \in Numbers
  <2>1. v \in Nat /\ Width[type] \in Nat /\ Left(v, Width[type]) = 0
    BY <1>2, FitNumber, Widths
  <2>2. b = LittleEndian(v, Width[type]) /\ Len(b) = Width[type]
    <3>1. b = LittleEndian(v, Width[type])
      BY <1>0, <1>2, WrittenNumber
    <3>2. Len(LittleEndian(v, Width[type])) = Width[type]
      <4>1. PICK w \in Nat : w = Width[type]
        BY <2>1
      <4>2. Len(LittleEndian(v, w)) = w
        BY <2>1, LittleEndianBytes
      <4> QED BY <4>1, <4>2
    <3> QED BY <3>1, <3>2
  <2>3. Normal(type, v) = v
    BY <1>2, NormalCases DEF Types, Numbers
  <2>4. CASE type \in {"uint16", "uint32", "int64"}
    <3>1. ReadNumber(in, at, Width[type]) = Got(v, at + Width[type])
      BY <1>1, <2>1, <2>2, NumberFound
    <3>2. ReadField(type, in, at) = ReadNumber(in, at, Width[type])
      BY <2>4, ReadCases, Widths
    <3> QED BY <2>2, <2>3, <3>1, <3>2
  <2>5. CASE type = "uint48"
    <3>1. Width[type] = 6 /\ LittleEndian(v, 6) # NoTime
      BY <2>5, Widths, FitCases
    <3>2. ReadTime(in, at) = Got(v, at + 6)
      BY <1>1, <2>1, <2>2, <3>1, TimeFound
    <3>3. ReadField(type, in, at) = ReadTime(in, at)
      BY <2>5, ReadCases
    <3> QED BY <2>2, <2>3, <3>1, <3>2, <3>3
  <2>6. CASE type = "BigInteger"
    <3>1. Width[type] = 32
      BY <2>6, Widths
    <3>2. ReadBigInteger(in, at) = Got(v, at + 32)
      BY <1>1, <2>1, <2>2, <3>1, BigIntegerFound
    <3>3. ReadField(type, in, at) = ReadBigInteger(in, at)
      BY <2>6, ReadCases
    <3> QED BY <2>2, <2>3, <3>1, <3>2, <3>3
  <2> QED BY <1>2, <2>4, <2>5, <2>6 DEF Numbers
<1>3. CASE type = "byte"
  <2>1. v \in 0 .. 127
    BY <1>3, FitCases
  <2>2. v % 256 = v /\ v \in Byte /\ Signed(v) = v
    BY <2>1 DEF Byte, Signed
  <2>3. b = <<v>> /\ Len(b) = 1
    <3>1. b = <<v % 256>>
      BY <1>0, <1>3, WrittenOther, ZenonT(60)
    <3> QED BY <2>2, <3>1
  <2>4. ReadByte(in, at) = Got(v, at + 1)
    BY <1>1, <2>2, <2>3, ByteFound
  <2>5. Normal(type, v) = v
    BY <1>3, NormalCases DEF Types
  <2> QED BY <1>3, <2>3, <2>4, <2>5, ReadCases
<1>4. CASE type = "address"
  <2>1. b = v /\ Len(b) = 23
    BY <1>0, <1>4, FitCases, WrittenOther, ZenonT(60)
  <2>2. ReadBytes(in, at, Len(b)) = Got(b, at + Len(b))
    BY <1>1, BytesFound
  <2>3. Normal(type, v) = v
    BY <1>4, NormalCases DEF Types
  <2> QED BY <1>4, <2>1, <2>2, <2>3, ReadCases
<1>5. CASE type = "key"
  <2>1. v \in Seq(Byte) /\ Len(v) < 128
    BY <1>5, FitCases
  <2>2. b = <<Len(v)>> \o v
    BY <1>0, <1>5, WrittenOther
  <2>3. Occurs(<<Len(v)>> \o v, in, at)
    BY <1>1, <2>2, Zenon
  <2>4. ReadKey(in, at) = Got(v, at + (1 + Len(v)))
    BY <2>1, <2>3, KeyFound
  <2>5. Len(b) = 1 + Len(v)
    BY <1>0, <2>1, <2>2, <2>3, KeyFound
  <2>6. Normal(type, v) = v
    BY <1>5, NormalCases DEF Types
  <2> QED BY <1>5, <2>4, <2>5, <2>6, ReadCases
<1>6. CASE type = "bytes"
  <2>1. v = Null \/ IsArray(v)
    BY <1>6, FitCases
  <2>2. b = WriteBytes(v)
    BY <1>0, <1>6, WrittenOther
  <2>3. ReadByLengthByte(in, at) = Got(IF v = <<>> THEN Null ELSE v, at + Len(b))
    BY <1>1, <2>1, <2>2, ArrayFound
  <2>4. Normal(type, v) = IF v = <<>> THEN Null ELSE v
    BY <1>6, NormalCases
  <2> QED BY <1>6, <2>3, <2>4, ReadCases
<1>7. CASE type = "string"
  <2>1. (v = Null \/ IsArray(v)) /\ ~ BlankText(v)
    BY <1>7, FitCases DEF BlankField
  <2>2. b = WriteString(v)
    BY <1>0, <1>7, WrittenOther
  <2>3. ReadString(in, at) = Got(IF v = Null THEN <<>> ELSE v, at + Len(b))
    BY <1>1, <2>1, <2>2, StringFound
  <2>4. Normal(type, v) = IF v = Null THEN <<>> ELSE v
    BY <1>7, NormalCases
  <2> QED BY <1>7, <2>3, <2>4, ReadCases
<1>8. CASE type = "args"
  <2>1. FitArgs(v) /\ ~ BlankValue(v) /\ Countable(v)
    BY <1>8, FitsArgs DEF BlankField
  <2>2. b = WriteArgs(v)
    BY <1>0, <1>8, WrittenOther
  <2>3. ReadArgs(in, at) = Got(Normal("args", v), at + Len(b))
    BY <1>1, <2>1, <2>2, ArgsFound
  <2> QED BY <1>8, <2>3, ReadCases
<1>9. type \in Numbers \/ type \in {"byte", "address", "key", "bytes", "string", "args"}
  BY DEF Types, Numbers
<1> QED BY <1>2, <1>3, <1>4, <1>5, <1>6, <1>7, <1>8, <1>9

-----------------------------------------------------------------------------
(***************************************************************************)
(* A data class, all of whose fields are sized, written and parsed in one  *)
(* order                                                                   *)
(***************************************************************************)

\* A class that reads what it writes: its fields, each once, in one order.
InOrder(class) ==
  /\ Len(class.written) \in Nat
  /\ class.written = [i \in 1 .. Len(class.written) |-> class.written[i]]
  /\ class.sized = class.written /\ class.parsed = class.written
  /\ \A i \in 1 .. Len(class.written) : class.written[i] \in DOMAIN class.type
  /\ \A f \in DOMAIN class.type : \E i \in 1 .. Len(class.written) : class.written[i] = f
  /\ \A i, j \in 1 .. Len(class.written) : class.written[i] = class.written[j] => i = j
  /\ \A f \in DOMAIN class.type : class.type[f] \in Types

\* How many fields there are; the type, value, bytes and size of each.
Fields(class) == Len(class.written)
TypeAt(class, i) == class.type[class.written[i]]
ValueAt(class, d, i) == d[class.written[i]]
ItemAt(class, d, i) == WriteField(TypeAt(class, i), ValueAt(class, d, i))
SizeAt(class, d, i) == SizeOfField(TypeAt(class, i), ValueAt(class, d, i))
Items(class, d) == [i \in 1 .. Fields(class) |-> ItemAt(class, d, i)]
BlankAt(class, d, i) == BlankField(TypeAt(class, i), ValueAt(class, d, i))

\* No text is blank; a byte can count all arguments.
NoBlank(class, d) == \A f \in DOMAIN class.type : ~ BlankField(class.type[f], d[f])
AllCountable(class, d) == \A f \in DOMAIN class.type : class.type[f] = "args" => Countable(d[f])

\* What holds of all fields holds at all places.
LEMMA ClassFields ==
  ASSUME NEW class, InOrder(class), NEW d, FieldsFit(class, d)
  PROVE  /\ Fields(class) \in Nat /\ DOMAIN class.written = 1 .. Fields(class)
         /\ \A i \in 1 .. Fields(class) : /\ TypeAt(class, i) \in Types
                                          /\ Fits(TypeAt(class, i), ValueAt(class, d, i))
         /\ NoBlank(class, d) <=> \A i \in 1 .. Fields(class) : ~ BlankAt(class, d, i)
         /\ AllCountable(class, d) <=> \A i \in 1 .. Fields(class) :
                                         TypeAt(class, i) = "args" => Countable(ValueAt(class, d, i))
<1>1. Fields(class) \in Nat /\ DOMAIN class.written = 1 .. Fields(class)
  BY DEF InOrder, Fields
<1>2. \A i \in 1 .. Fields(class) : class.written[i] \in DOMAIN class.type
  BY DEF InOrder, Fields
<1>3. \A f \in DOMAIN class.type : \E i \in 1 .. Fields(class) : class.written[i] = f
  BY DEF InOrder, Fields
<1>4. \A f \in DOMAIN class.type : class.type[f] \in Types /\ Fits(class.type[f], d[f])
  BY DEF InOrder, FieldsFit
<1>5. \A i \in 1 .. Fields(class) : /\ TypeAt(class, i) \in Types
                                    /\ Fits(TypeAt(class, i), ValueAt(class, d, i))
  BY <1>2, <1>4 DEF TypeAt, ValueAt
<1>6. NoBlank(class, d) <=> \A i \in 1 .. Fields(class) : ~ BlankAt(class, d, i)
  BY <1>2, <1>3 DEF NoBlank, BlankAt, TypeAt, ValueAt
<1>7. AllCountable(class, d) <=> \A i \in 1 .. Fields(class) :
                                   TypeAt(class, i) = "args" => Countable(ValueAt(class, d, i))
  BY <1>2, <1>3 DEF AllCountable, TypeAt, ValueAt
<1> QED BY <1>1, <1>5, <1>6, <1>7

\* The field at each place.
LEMMA ItemFacts ==
  ASSUME NEW class, InOrder(class), NEW d, FieldsFit(class, d), NEW i \in 1 .. Fields(class)
  PROVE  /\ ItemAt(class, d, i) \in Seq(Byte) /\ Len(ItemAt(class, d, i)) \in Nat
         /\ SizeAt(class, d, i) \in Nat /\ SizeAt(class, d, i) >= Len(ItemAt(class, d, i))
         /\ SizeAt(class, d, i) = Len(ItemAt(class, d, i)) <=> ~ BlankAt(class, d, i)
<1>1. TypeAt(class, i) \in Types /\ Fits(TypeAt(class, i), ValueAt(class, d, i))
  BY ClassFields
<1> QED BY <1>1, FieldBytes DEF ItemAt, SizeAt, BlankAt

\* Size and Write, by place.
LEMMA ClassItems ==
  ASSUME NEW class, InOrder(class), NEW d, FieldsFit(class, d)
  PROVE  /\ Write(class, d) = Joined(Items(class, d))
         /\ Items(class, d) \in Seq(Seq(Byte)) /\ Len(Items(class, d)) = Fields(class)
         /\ \A i \in 1 .. Fields(class) : Items(class, d)[i] = ItemAt(class, d, i)
         /\ Size(class, d) = SumOf([i \in 1 .. Fields(class) |-> SizeAt(class, d, i)])
<1>1. Fields(class) \in Nat /\ DOMAIN class.written = 1 .. Fields(class)
  BY ClassFields
<1>2. Write(class, d) = Joined(Items(class, d))
  BY <1>1 DEF Write, Items, ItemAt, TypeAt, ValueAt
<1>3. \A i \in 1 .. Fields(class) : ItemAt(class, d, i) \in Seq(Byte)
  BY ItemFacts
<1>4. /\ Items(class, d) \in Seq(Seq(Byte)) /\ Len(Items(class, d)) = Fields(class)
      /\ \A i \in 1 .. Fields(class) : Items(class, d)[i] = ItemAt(class, d, i)
  BY <1>1, <1>3 DEF Items
<1>5. class.sized = class.written
  BY DEF InOrder
<1>6. Size(class, d) = SumOf([i \in 1 .. Fields(class) |-> SizeAt(class, d, i)])
  BY <1>1, <1>5 DEF Size, SizeAt, TypeAt, ValueAt
<1> QED BY <1>2, <1>4, <1>6

\* The size of a class is the length of its bytes, unless a text is blank.
LEMMA ClassBytes ==
  ASSUME NEW class, InOrder(class), NEW d, FieldsFit(class, d)
  PROVE  /\ Write(class, d) \in Seq(Byte) /\ Len(Write(class, d)) \in Nat
         /\ Size(class, d) \in Nat /\ Size(class, d) >= Len(Write(class, d))
         /\ Size(class, d) = Len(Write(class, d)) <=> NoBlank(class, d)
<1> DEFINE n == Fields(class)
           items == Items(class, d)
           sizes == [i \in 1 .. n |-> SizeAt(class, d, i)]
           lens == [i \in 1 .. n |-> Len(items[i])]
<1>1. /\ Write(class, d) = Joined(items) /\ items \in Seq(Seq(Byte)) /\ Len(items) = n
      /\ \A i \in 1 .. n : items[i] = ItemAt(class, d, i)
  BY ClassItems
<1>2. n \in Nat /\ (NoBlank(class, d) <=> \A i \in 1 .. n : ~ BlankAt(class, d, i))
  BY ClassFields
<1>3. Size(class, d) = SumOf(sizes)
  BY ClassItems
<1>4. ASSUME NEW i \in 1 .. n
      PROVE  /\ SizeAt(class, d, i) \in Nat /\ SizeAt(class, d, i) >= Len(items[i])
             /\ SizeAt(class, d, i) = Len(items[i]) <=> ~ BlankAt(class, d, i)
             /\ Len(items[i]) \in Nat
  BY <1>1, ItemFacts
<1> HIDE DEF items, n
<1>5. /\ Joined(items) \in Seq(Byte) /\ lens \in Seq(Nat) /\ Len(Joined(items)) = SumOf(lens)
  BY <1>1, LenJoined
<1>6. /\ sizes \in Seq(Nat) /\ Len(sizes) = n /\ Len(lens) = n
      /\ \A i \in 1 .. n : sizes[i] = SizeAt(class, d, i) /\ lens[i] = Len(items[i])
  BY <1>2, <1>4
<1> HIDE DEF sizes, lens
<1>7. \A i \in 1 .. Len(sizes) : sizes[i] >= lens[i]
  BY <1>4, <1>6
<1>8. /\ SumOf(sizes) \in Nat /\ SumOf(lens) \in Nat /\ SumOf(sizes) >= SumOf(lens)
      /\ (\E i \in 1 .. n : sizes[i] > lens[i]) => SumOf(sizes) > SumOf(lens)
  BY <1>5, <1>6, <1>7, SumCompare
<1>9. CASE \A i \in 1 .. n : ~ BlankAt(class, d, i)
  <2>1. \A i \in 1 .. n : sizes[i] = lens[i]
    BY <1>4, <1>6, <1>9
  <2>2. sizes = lens
    BY <1>5, <1>6, <2>1
  <2> QED BY <1>1, <1>2, <1>3, <1>5, <1>8, <1>9, <2>2
<1>10. CASE \E i \in 1 .. n : BlankAt(class, d, i)
  <2>1. PICK i \in 1 .. n : BlankAt(class, d, i)
    BY <1>10
  <2>2. sizes[i] > lens[i]
    BY <1>4, <1>6, <2>1
  <2>3. SumOf(sizes) > SumOf(lens)
    BY <1>8, <2>2
  <2> QED BY <1>1, <1>2, <1>3, <1>5, <1>8, <2>1, <2>3
<1> QED BY <1>9, <1>10

\* Where the items are.
LEMMA ClassLaid ==
  ASSUME NEW class, InOrder(class), NEW d, FieldsFit(class, d),
         NEW in, NEW at, Occurs(Write(class, d), in, at)
  PROVE  \E pos :
           /\ pos \in [0 .. Fields(class) -> Nat]
           /\ pos[0] = at /\ pos[Fields(class)] = at + Len(Write(class, d))
           /\ \A i \in 1 .. Fields(class) : /\ pos[i] = pos[i - 1] + Len(ItemAt(class, d, i))
                                            /\ Occurs(ItemAt(class, d, i), in, pos[i - 1])
<1> DEFINE items == Items(class, d)
<1>1. /\ Write(class, d) = Joined(items) /\ items \in Seq(Seq(Byte)) /\ Len(items) = Fields(class)
      /\ \A i \in 1 .. Fields(class) : items[i] = ItemAt(class, d, i)
  BY ClassItems
<1> HIDE DEF items
<1>2. Occurs(Joined(items), in, at)
  BY <1>1
<1>3. PICK pos : /\ Laid(items, in, pos)
                 /\ pos[0] = at /\ pos[Len(items)] = at + Len(Joined(items))
  BY <1>1, <1>2, JoinedLaid
<1> QED BY <1>1, <1>3 DEF Laid

\* What parse reads.
FieldReaders(class, in) ==
  [i \in DOMAIN class.parsed |-> [p \in Nat |-> ReadField(class.type[class.parsed[i]], in, p)]]

\* They are readers.
LEMMA ClassReaders ==
  ASSUME NEW class, InOrder(class), NEW in \in Seq(Byte)
  PROVE  /\ AreReaders(FieldReaders(class, in), Fields(class)) /\ Fields(class) \in Nat
         /\ \A i \in 1 .. Fields(class), p \in Nat :
              FieldReaders(class, in)[i][p] = ReadField(TypeAt(class, i), in, p)
<1> DEFINE readers == FieldReaders(class, in)
<1>1. /\ Fields(class) \in Nat /\ DOMAIN class.parsed = 1 .. Fields(class)
      /\ class.parsed = class.written /\ \A i \in 1 .. Fields(class) : TypeAt(class, i) \in Types
  BY DEF InOrder, Fields, TypeAt
<1>2. readers = [i \in 1 .. Fields(class) |-> [p \in Nat |-> ReadField(TypeAt(class, i), in, p)]]
  BY <1>1 DEF FieldReaders, TypeAt
<1>3. \A i \in 1 .. Fields(class), p \in Nat : readers[i][p] = ReadField(TypeAt(class, i), in, p)
  BY <1>2
<1>4. \A i \in 1 .. Fields(class), p \in Nat : IsOutcome(ReadField(TypeAt(class, i), in, p))
  BY <1>1, FieldOutcome
<1>5. /\ readers = [i \in 1 .. Fields(class) |-> readers[i]]
      /\ \A i \in 1 .. Fields(class) : readers[i] = [p \in Nat |-> readers[i][p]]
  BY <1>2
<1> HIDE DEF readers
<1>6. AreReaders(readers, Fields(class))
  BY <1>1, <1>3, <1>4, <1>5 DEF AreReaders
<1> QED BY <1>1, <1>3, <1>6 DEF readers

\* The field a value is for.
Assigned(class, vals) ==
  [field \in DOMAIN class.type |-> vals[CHOOSE i \in DOMAIN class.parsed : class.parsed[i] = field]]

\* It is the one at whose place the value was read.
LEMMA AssignedAt ==
  ASSUME NEW class, InOrder(class), NEW vals
  PROVE  /\ Assigned(class, vals) = [f \in DOMAIN class.type |-> Assigned(class, vals)[f]]
         /\ \A i \in 1 .. Fields(class) : Assigned(class, vals)[class.written[i]] = vals[i]
<1>1. /\ DOMAIN class.parsed = 1 .. Fields(class) /\ class.parsed = class.written
      /\ \A i \in 1 .. Fields(class) : class.written[i] \in DOMAIN class.type
      /\ \A i, j \in 1 .. Fields(class) : class.written[i] = class.written[j] => i = j
  BY DEF InOrder, Fields
<1>2. ASSUME NEW i \in 1 .. Fields(class)
      PROVE  (CHOOSE j \in DOMAIN class.parsed : class.parsed[j] = class.written[i]) = i
  BY <1>1
<1> QED BY <1>1, <1>2 DEF Assigned

\* What parse makes of what was read.
LEMMA ParseCases ==
  ASSUME NEW class, InOrder(class), NEW in \in Seq(Byte), NEW at \in Nat
  PROVE  LET r == InTurn(FieldReaders(class, in), at)
         IN Parse(class, in, at) = IF r.ok THEN Got(Assigned(class, r.val), r.at) ELSE Fails
BY DEF Parse, Then, FieldReaders, Assigned

\* parse ends in an outcome.
LEMMA ParseOutcome ==
  ASSUME NEW class, InOrder(class), NEW in \in Seq(Byte), NEW at \in Nat
  PROVE  IsOutcome(Parse(class, in, at))
<1> DEFINE r == InTurn(FieldReaders(class, in), at)
<1>1. IsOutcome(r)
  BY ClassReaders, TurnIsOutcome
<1>2. Parse(class, in, at) = IF r.ok THEN Got(Assigned(class, r.val), r.at) ELSE Fails
  BY ParseCases
<1> HIDE DEF r
<1>3. CASE r.ok
  <2>1. r.at \in Nat
    BY <1>1, <1>3, OutcomeOk
  <2> QED BY <1>2, <1>3, <2>1, GotIsOutcome
<1>4. CASE ~ r.ok
  BY <1>2, <1>4, FailsIsOutcome
<1> QED BY <1>3, <1>4

\* A field, where it stands.
LEMMA FieldReadsBack ==
  ASSUME NEW class, InOrder(class), NEW d, FieldsFit(class, d),
         NEW i \in 1 .. Fields(class), ~ BlankAt(class, d, i),
         TypeAt(class, i) = "args" => Countable(ValueAt(class, d, i)),
         NEW in, NEW p, Occurs(ItemAt(class, d, i), in, p)
  PROVE  ReadField(TypeAt(class, i), in, p)
           = Got(Normal(TypeAt(class, i), ValueAt(class, d, i)), p + Len(ItemAt(class, d, i)))
<1>1. PICK type, v : type = TypeAt(class, i) /\ v = ValueAt(class, d, i)
  OBVIOUS
<1>2. type \in Types /\ Fits(type, v) /\ ~ BlankField(type, v) /\ (type = "args" => Countable(v))
  BY <1>1, ClassFields DEF BlankAt
<1>3. Occurs(WriteField(type, v), in, p)
  BY <1>1 DEF ItemAt
<1>4. ReadField(type, in, p) = Got(Normal(type, v), p + Len(WriteField(type, v)))
  BY <1>2, <1>3, FieldFound
<1> QED BY <1>1, <1>4 DEF ItemAt

\* Wherever the bytes of data stand, parse reads the data they were made of, if no
\* text is blank and a byte can count all arguments.  (serializeToStream and parse
\* of every class, BaseNulsData)
THEOREM ClassFound ==
  ASSUME NEW class, InOrder(class), NEW d, FieldsFit(class, d),
         NoBlank(class, d), AllCountable(class, d),
         NEW in, NEW at, Occurs(Write(class, d), in, at)
  PROVE  Parse(class, in, at) = Got(Reproduced(class, d), at + Len(Write(class, d)))
<1> DEFINE n == Fields(class)
           readers == FieldReaders(class, in)
           vals == [i \in 1 .. n |-> Normal(TypeAt(class, i), ValueAt(class, d, i))]
<1>1. in \in Seq(Byte) /\ at \in Nat
  BY DEF Occurs
<1>2. PICK pos :
        /\ pos \in [0 .. n -> Nat] /\ pos[0] = at /\ pos[n] = at + Len(Write(class, d))
        /\ \A i \in 1 .. n : /\ pos[i] = pos[i - 1] + Len(ItemAt(class, d, i))
                             /\ Occurs(ItemAt(class, d, i), in, pos[i - 1])
  BY ClassLaid
<1>3. AreReaders(readers, n) /\ n \in Nat
  BY <1>1, ClassReaders
<1>4. \A i \in 1 .. n : ~ BlankAt(class, d, i) /\ (TypeAt(class, i) = "args" => Countable(ValueAt(class, d, i)))
  BY ClassFields
<1>5. ASSUME NEW i \in 1 .. n PROVE readers[i][pos[i - 1]] = Got(vals[i], pos[i])
  <2>1. pos[i - 1] \in Nat
    <3>1. i - 1 \in 0 .. n
      BY <1>3
    <3> QED BY <1>2, <3>1
  <2>2. readers[i][pos[i - 1]] = ReadField(TypeAt(class, i), in, pos[i - 1])
    BY <1>1, <2>1, ClassReaders
  <2>3. ReadField(TypeAt(class, i), in, pos[i - 1])
          = Got(Normal(TypeAt(class, i), ValueAt(class, d, i)), pos[i - 1] + Len(ItemAt(class, d, i)))
    BY <1>2, <1>4, FieldReadsBack
  <2>4. vals[i] = Normal(TypeAt(class, i), ValueAt(class, d, i))
    OBVIOUS
  <2> QED BY <1>2, <2>2, <2>3, <2>4
<1>6. vals = [i \in 1 .. n |-> vals[i]] /\ \A i \in 1 .. n : vals[i] = Normal(TypeAt(class, i), ValueAt(class, d, i))
  OBVIOUS
<1> HIDE DEF vals, readers
<1>7. InTurn(readers, at) = Got(vals, pos[n])
  <2>1. Len(readers) = n
    BY <1>3 DEF AreReaders
  <2>2. Chain(readers, vals, pos)
    BY <1>2, <1>5, <2>1 DEF Chain
  <2>3. InTurn(readers, pos[0]) = Got(vals, pos[n])
    BY <1>3, <1>6, <2>2, ChainRead
  <2> QED BY <1>2, <2>3
<1>8. InTurn(readers, at).ok /\ InTurn(readers, at).val = vals /\ InTurn(readers, at).at = pos[n]
  BY <1>7, GotIs
<1>9. Parse(class, in, at) = Got(Assigned(class, vals), pos[n])
  BY <1>1, <1>8, ParseCases DEF readers
<1>10. Assigned(class, vals) = Reproduced(class, d)
  <2>1. /\ Assigned(class, vals) = [f \in DOMAIN class.type |-> Assigned(class, vals)[f]]
        /\ \A i \in 1 .. n : Assigned(class, vals)[class.written[i]] = vals[i]
    BY AssignedAt
  <2>2. ASSUME NEW f \in DOMAIN class.type
        PROVE  Assigned(class, vals)[f] = Normal(class.type[f], d[f])
    <3>1. PICK i \in 1 .. n : class.written[i] = f
      BY DEF InOrder, Fields
    <3> QED BY <1>6, <2>1, <3>1 DEF TypeAt, ValueAt
  <2> QED BY <2>1, <2>2 DEF Reproduced
<1> QED BY <1>2, <1>9, <1>10

\* Conversely, if the data come back, a byte could count all arguments.
\* (CreateContractData and CallContractData, whose counts are written as bytes)
THEOREM ClassTaken ==
  ASSUME NEW class, InOrder(class), NEW d, FieldsFit(class, d), NoBlank(class, d),
         NEW in, NEW at, Occurs(Write(class, d), in, at),
         Parse(class, in, at).ok, Parse(class, in, at).val = Reproduced(class, d)
  PROVE  AllCountable(class, d)
<1> DEFINE n == Fields(class)
           readers == FieldReaders(class, in)
           Short(i) == TypeAt(class, i) = "args" => Countable(ValueAt(class, d, i))
<1>1. in \in Seq(Byte) /\ at \in Nat
  BY DEF Occurs
<1>2. PICK laid :
        /\ laid \in [0 .. n -> Nat] /\ laid[0] = at
        /\ \A i \in 1 .. n : /\ laid[i] = laid[i - 1] + Len(ItemAt(class, d, i))
                             /\ Occurs(ItemAt(class, d, i), in, laid[i - 1])
  BY ClassLaid
<1>3. AreReaders(readers, n) /\ n \in Nat
  BY <1>1, ClassReaders
<1>4. /\ \A i \in 1 .. n : ~ BlankAt(class, d, i)
      /\ AllCountable(class, d) <=> \A i \in 1 .. n : Short(i)
  BY ClassFields
<1> HIDE DEF readers
<1>5. InTurn(readers, at).ok /\ Parse(class, in, at).val = Assigned(class, InTurn(readers, at).val)
  <2> DEFINE r == InTurn(readers, at)
  <2>1. Parse(class, in, at) = IF r.ok THEN Got(Assigned(class, r.val), r.at) ELSE Fails
    BY <1>1, ParseCases DEF readers
  <2>2. r.ok
    BY <2>1, FailsIsOutcome
  <2>3. Parse(class, in, at) = Got(Assigned(class, r.val), r.at)
    BY <2>1, <2>2
  <2> QED BY <2>2, <2>3, GotIs
<1>6. PICK vals, pos : /\ vals = [i \in 1 .. n |-> vals[i]] /\ pos[0] = at
                       /\ Chain(readers, vals, pos) /\ InTurn(readers, at) = Got(vals, pos[n])
  BY <1>1, <1>3, <1>5, ChainTaken
<1>7. Len(readers) = n
  BY <1>3 DEF AreReaders
<1>8. pos \in [0 .. n -> Nat] /\ \A i \in 1 .. n : readers[i][pos[i - 1]] = Got(vals[i], pos[i])
  BY <1>6, <1>7 DEF Chain
<1>9. Reproduced(class, d) = Assigned(class, vals)
  BY <1>5, <1>6, GotIs
<1>10. ASSUME NEW i \in 1 .. n
       PROVE  vals[i] = Normal(TypeAt(class, i), ValueAt(class, d, i))
  <2>1. Assigned(class, vals)[class.written[i]] = vals[i]
    BY AssignedAt
  <2>2. class.written[i] \in DOMAIN class.type
    BY DEF InOrder, Fields
  <2>3. Reproduced(class, d)[class.written[i]] = Normal(TypeAt(class, i), ValueAt(class, d, i))
    BY <2>2 DEF Reproduced, TypeAt, ValueAt
  <2> QED BY <1>9, <2>1, <2>3
<1> HIDE DEF n
<1> DEFINE Bad == {k \in Nat : k \in 1 .. n /\ ~ (pos[k] = laid[k] /\ Short(k))}
<1>11. ASSUME Bad # {} PROVE FALSE
  <2>1. PICK k \in Bad : \A j \in Bad : k <= j
    BY <1>11, LeastNumber
  <2>2. k \in 1 .. n /\ k \in Nat
    OBVIOUS
  <2>3. pos[k - 1] = laid[k - 1] /\ laid[k - 1] \in Nat
    <3>1. CASE k = 1
      BY <1>1, <1>2, <1>3, <1>6, <3>1
    <3>2. CASE k # 1
      <4>1. k - 1 \in 1 .. n /\ k - 1 \in Nat /\ ~ (k <= k - 1)
        BY <1>3, <2>2, <3>2
      <4>2. k - 1 \notin Bad
        BY <2>1, <4>1
      <4>3. pos[k - 1] = laid[k - 1]
        BY <4>1, <4>2
      <4> QED BY <1>2, <4>1, <4>3
    <3> QED BY <3>1, <3>2
  <2>4. PICK type, v : type = TypeAt(class, k) /\ v = ValueAt(class, d, k)
    OBVIOUS
  <2>5. /\ type \in Types /\ Fits(type, v) /\ ~ BlankField(type, v) /\ vals[k] = Normal(type, v)
        /\ ItemAt(class, d, k) = WriteField(type, v)
    BY <1>4, <1>10, <2>2, <2>4, ClassFields DEF BlankAt, ItemAt, n
  <2>6. /\ Occurs(WriteField(type, v), in, laid[k - 1])
        /\ laid[k] = laid[k - 1] + Len(WriteField(type, v))
    BY <1>2, <2>2, <2>5
  <2>7. ReadField(type, in, laid[k - 1]) = Got(vals[k], pos[k])
    <3>1. readers[k][pos[k - 1]] = Got(vals[k], pos[k])
      BY <1>8, <2>2
    <3>2. readers[k][laid[k - 1]] = ReadField(type, in, laid[k - 1])
      BY <1>1, <2>2, <2>3, <2>4, ClassReaders DEF readers, n
    <3> QED BY <2>3, <3>1, <3>2
  <2>8. /\ ReadField(type, in, laid[k - 1]).ok /\ ReadField(type, in, laid[k - 1]).val = Normal(type, v)
        /\ ReadField(type, in, laid[k - 1]).at = pos[k]
    BY <2>5, <2>7, GotIs
  <2>9. type = "args" => Countable(v)
    <3> SUFFICES ASSUME type = "args" PROVE Countable(v)
      OBVIOUS
    <3>1. FitArgs(v) /\ ~ BlankValue(v)
      BY <2>5, FitsArgs DEF BlankField
    <3>2. WriteField(type, v) = WriteArgs(v) /\ ReadField(type, in, laid[k - 1]) = ReadArgs(in, laid[k - 1])
      BY WrittenOther, ReadCases
    <3>3. /\ Occurs(WriteArgs(v), in, laid[k - 1]) /\ ReadArgs(in, laid[k - 1]).ok
          /\ ReadArgs(in, laid[k - 1]).val = Normal("args", v)
      BY <2>6, <2>8, <3>2
    <3> QED BY <3>1, <3>3, ArgsTaken
  <2>10. ReadField(type, in, laid[k - 1]) = Got(Normal(type, v), laid[k - 1] + Len(WriteField(type, v)))
    BY <2>5, <2>6, <2>9, FieldFound
  <2>11. pos[k] = laid[k]
    BY <2>6, <2>8, <2>10, GotIs
  <2> QED BY <2>1, <2>4, <2>9, <2>11
<1>12. \A i \in 1 .. n : Short(i)
  BY <1>3, <1>11
<1> QED BY <1>4, <1>12 DEF n

-----------------------------------------------------------------------------
(***************************************************************************)
(* Sums of few sizes                                                       *)
(***************************************************************************)

\* Sums, one after the other.
LEMMA SumSteps ==
  ASSUME NEW sizes \in Seq(Nat)
  PROVE  \E s : /\ s \in [0 .. Len(sizes) -> Nat] /\ s[0] = 0 /\ SumOf(sizes) = s[Len(sizes)]
                /\ \A k \in 1 .. Len(sizes) : s[k] = s[k - 1] + sizes[k]
<1> DEFINE n == Len(sizes)
<1>0. n \in Nat /\ 0 \in 0 .. n /\ n \in 0 .. n
  OBVIOUS
<1>1. PICK f : SumParts(sizes, f)
  BY SumOfParts
<1>2. /\ \A lo, hi \in 0 .. n : f[<<lo, hi>>] \in Nat
      /\ \A lo \in 0 .. n : f[<<lo, lo>>] = 0
      /\ \A k \in 1 .. n : f[<<k - 1, k>>] = sizes[k]
      /\ \A lo, c, hi \in 0 .. n : lo <= c /\ c <= hi => f[<<lo, hi>>] = f[<<lo, c>>] + f[<<c, hi>>]
      /\ SumOf(sizes) = f[<<0, n>>]
  BY <1>1 DEF SumParts
<1> HIDE DEF n
<1> DEFINE s == [k \in 0 .. n |-> f[<<0, k>>]]
<1>3. s \in [0 .. n -> Nat] /\ s[0] = 0 /\ s[n] = SumOf(sizes)
  BY <1>0, <1>2
<1>4. ASSUME NEW k \in 1 .. n PROVE s[k] = s[k - 1] + sizes[k]
  <2>1. k \in 0 .. n /\ k - 1 \in 0 .. n /\ k - 1 <= k /\ 0 <= k - 1
    BY <1>0
  <2>2. f[<<0, k>>] = f[<<0, k - 1>>] + f[<<k - 1, k>>]
    BY <1>0, <1>2, <2>1
  <2> QED BY <1>2, <2>1, <2>2
<1> HIDE DEF s
<1> QED BY <1>3, <1>4 DEF n

\* The terms of a sum are numbers.
LEMMA Terms ==
  ASSUME NEW z \in Seq(Nat), NEW k \in 1 .. Len(z)
  PROVE  z[k] \in Nat
OBVIOUS

\* Two to six sizes.
LEMMA SumOfTwo ==
  ASSUME NEW z \in Seq(Nat), Len(z) = 2
  PROVE  SumOf(z) = z[1] + z[2]
<1>1. PICK s : /\ s \in [0 .. 2 -> Nat] /\ s[0] = 0 /\ SumOf(z) = s[2]
               /\ \A k \in 1 .. 2 : s[k] = s[k - 1] + z[k]
  BY SumSteps
<1>2. s[1] = s[0] + z[1] /\ s[2] = s[1] + z[2]
  BY <1>1
<1>3. z[1] \in Nat /\ z[2] \in Nat
  BY Terms, SMTT(40)
<1> QED BY <1>1, <1>2, <1>3

LEMMA SumOfFive ==
  ASSUME NEW z \in Seq(Nat), Len(z) = 5
  PROVE  SumOf(z) = z[1] + z[2] + z[3] + z[4] + z[5]
<1>1. PICK s : /\ s \in [0 .. 5 -> Nat] /\ s[0] = 0 /\ SumOf(z) = s[5]
               /\ \A k \in 1 .. 5 : s[k] = s[k - 1] + z[k]
  <2>1. PICK s : /\ s \in [0 .. Len(z) -> Nat] /\ s[0] = 0 /\ SumOf(z) = s[Len(z)]
                 /\ \A k \in 1 .. Len(z) : s[k] = s[k - 1] + z[k]
    BY SumSteps
  <2> QED BY <2>1
<1>2. /\ s[1] = s[0] + z[1] /\ s[2] = s[1] + z[2] /\ s[3] = s[2] + z[3]
      /\ s[4] = s[3] + z[4] /\ s[5] = s[4] + z[5]
  BY <1>1
<1>3. \A k \in 1 .. 5 : z[k] \in Nat
  BY Terms
<1>4. z[1] \in Nat /\ z[2] \in Nat /\ z[3] \in Nat /\ z[4] \in Nat /\ z[5] \in Nat
  BY <1>3
<1> QED BY <1>1, <1>2, <1>4

LEMMA SumOfSix ==
  ASSUME NEW z \in Seq(Nat), Len(z) = 6
  PROVE  SumOf(z) = z[1] + z[2] + z[3] + z[4] + z[5] + z[6]
<1>1. PICK s : /\ s \in [0 .. 6 -> Nat] /\ s[0] = 0 /\ SumOf(z) = s[6]
               /\ \A k \in 1 .. 6 : s[k] = s[k - 1] + z[k]
  <2>1. PICK s : /\ s \in [0 .. Len(z) -> Nat] /\ s[0] = 0 /\ SumOf(z) = s[Len(z)]
                 /\ \A k \in 1 .. Len(z) : s[k] = s[k - 1] + z[k]
    BY SumSteps
  <2> QED BY <2>1
<1>2. /\ s[1] = s[0] + z[1] /\ s[2] = s[1] + z[2] /\ s[3] = s[2] + z[3]
      /\ s[4] = s[3] + z[4] /\ s[5] = s[4] + z[5] /\ s[6] = s[5] + z[6]
  BY <1>1
<1>3. \A k \in 1 .. 6 : z[k] \in Nat
  BY Terms
<1>4. z[1] \in Nat /\ z[2] \in Nat /\ z[3] \in Nat /\ z[4] \in Nat /\ z[5] \in Nat /\ z[6] \in Nat
  BY <1>3
<1> QED BY <1>1, <1>2, <1>4

LEMMA SumOfOne ==
  ASSUME NEW z \in Seq(Nat), Len(z) = 1
  PROVE  SumOf(z) = z[1]
<1>1. PICK s : /\ s \in [0 .. 1 -> Nat] /\ s[0] = 0 /\ SumOf(z) = s[1]
               /\ \A k \in 1 .. 1 : s[k] = s[k - 1] + z[k]
  BY SumSteps
<1>2. s[1] = s[0] + z[1] /\ z[1] \in Nat
  BY <1>1
<1> QED BY <1>1, <1>2

-----------------------------------------------------------------------------
(***************************************************************************)
(* serialize: the size announced is the length written                     *)
(***************************************************************************)

\* A length takes a byte at least.
LEMMA SizeNotZero ==
  ASSUME NEW n \in Nat
  PROVE  VarIntSize(n) \in Nat /\ VarIntSize(n) >= 1 /\ SizeOfBytes(n) \in Nat /\ SizeOfBytes(n) >= 1 + n
BY DEF VarIntSize, SizeOfBytes

\* The first field of every class takes a byte at least.
LEMMA FirstItem ==
  ASSUME NEW type \in {"uint16", "address", "bytes", "key"}, NEW v, Fits(type, v)
  PROVE  Len(WriteField(type, v)) >= 1
<1>1. CASE type = "uint16"
  <2>1. v \in Nat /\ type \in Numbers
    BY <1>1, FitCases DEF Numbers
  <2>2. Len(LittleEndian(v, 2)) = 2
    BY <2>1, LittleEndianBytes
  <2>3. WriteField(type, v) = LittleEndian(v, 2)
    BY <1>1, <2>1, WrittenNumber, Widths
  <2> QED BY <2>2, <2>3
<1>2. CASE type = "address"
  <2>1. WriteField("address", v) = v
    BY WrittenOther
  <2>2. Len(v) = 23
    BY <1>2, FitCases
  <2> QED BY <1>2, <2>1, <2>2
<1>3. CASE type = "bytes"
  <2>1. v = Null \/ IsArray(v)
    BY <1>3, FitCases
  <2>2. Len(WriteBytes(v)) = SizeOfArray(v)
    BY <2>1, ArrayBytes
  <2>3. CASE v = Null
    <3>1. SizeOfArray(v) = 1
      BY <2>3 DEF SizeOfArray
    <3>2. WriteField("bytes", v) = WriteBytes(v)
      BY WrittenOther
    <3> QED BY <1>3, <2>2, <3>1, <3>2
  <2>4. CASE v # Null
    <3>1. Len(v) \in Nat
      BY <2>1, <2>4 DEF IsArray
    <3>2. SizeOfArray(v) >= 1
      BY <2>4, <3>1, SizeNotZero DEF SizeOfArray
    <3> QED BY <1>3, <2>2, <3>2, WrittenOther
  <2> QED BY <2>3, <2>4
<1>4. CASE type = "key"
  <2>1. type \in Types
    BY <1>4 DEF Types
  <2>2. /\ ~ BlankField(type, v) /\ Len(WriteField(type, v)) \in Nat
        /\ SizeOfField(type, v) = Len(WriteField(type, v))
    BY <1>4, <2>1, FieldBytes DEF BlankField
  <2>3. SizeOfField(type, v) = 1 + Len(v) /\ Len(v) \in Nat
    <3>1. SizeOfField("key", v) = 1 + Len(v)
      BY WrittenOther
    <3>2. v \in Seq(Byte)
      BY <1>4, FitCases
    <3> QED BY <1>4, <3>1, <3>2
  <2> QED BY <2>2, <2>3
<1> QED BY <1>1, <1>2, <1>3, <1>4

\* The first field of the class is one of these.
Begins(class) == Fields(class) >= 1 /\ TypeAt(class, 1) \in {"uint16", "address", "bytes", "key"}

\* So what is written is never empty.
LEMMA WriteNotEmpty ==
  ASSUME NEW class, InOrder(class), Begins(class), NEW d, FieldsFit(class, d)
  PROVE  Len(Write(class, d)) >= 1
<1>1. Write(class, d) \in Seq(Byte) /\ Len(Write(class, d)) \in Nat
  BY ClassBytes
<1>2. PICK w : w = Write(class, d)
  OBVIOUS
<1>3. Occurs(w, w, 0)
  BY <1>1, <1>2, OccursWhole
<1>4. 1 \in 1 .. Fields(class) /\ Fields(class) \in Nat
  BY ClassFields DEF Begins
<1>5. PICK pos : pos[0] = 0 /\ Occurs(ItemAt(class, d, 1), w, pos[0])
  <2>1. Occurs(Write(class, d), w, 0)
    BY <1>2, <1>3
  <2>2. PICK pos : pos[0] = 0 /\ \A i \in 1 .. Fields(class) : Occurs(ItemAt(class, d, i), w, pos[i - 1])
    BY <2>1, ClassLaid
  <2>3. Occurs(ItemAt(class, d, 1), w, pos[1 - 1])
    BY <1>4, <2>2
  <2> QED BY <2>2, <2>3
<1>6. Len(ItemAt(class, d, 1)) >= 1 /\ Len(ItemAt(class, d, 1)) \in Nat
  <2>1. Fits(TypeAt(class, 1), ValueAt(class, d, 1))
    BY <1>4, ClassFields
  <2>2. Len(ItemAt(class, d, 1)) \in Nat
    BY <1>4, ItemFacts
  <2> QED BY <2>1, <2>2, FirstItem DEF Begins, ItemAt
<1>7. 0 + Len(ItemAt(class, d, 1)) <= Len(w)
  BY <1>5 DEF Occurs
<1> QED BY <1>1, <1>2, <1>6, <1>7

\* serialize gives bytes as long as size() announced unless a text is blank; if
\* one is, it throws.  (BaseNulsData.serialize, "bytes.length != size")
THEOREM Serializes ==
  ASSUME NEW class, InOrder(class), Begins(class), NEW d, FieldsFit(class, d)
  PROVE  /\ NoBlank(class, d) =>
              /\ Serialize(class, d) = Write(class, d)
              /\ Serialize(class, d) \in Seq(Byte) /\ Serialize(class, d) # Null
              /\ Len(Serialize(class, d)) = Size(class, d)
              /\ Size(class, d) \in Nat /\ Size(class, d) >= 1
         /\ ~ NoBlank(class, d) => Serialize(class, d) = Null
<1> DEFINE w == Write(class, d)
           z == Size(class, d)
<1>1. /\ w \in Seq(Byte) /\ Len(w) \in Nat /\ z \in Nat /\ z >= Len(w) /\ Len(w) >= 1
      /\ z = Len(w) <=> NoBlank(class, d)
  BY ClassBytes, WriteNotEmpty
<1>2. Serialize(class, d) = IF Len(IF z = 0 THEN PlaceHolder ELSE w) = z
                            THEN (IF z = 0 THEN PlaceHolder ELSE w) ELSE Null
  BY DEF Serialize, Serialized
<1> HIDE DEF w, z
<1>3. z # 0
  BY <1>1
<1>4. Serialize(class, d) = IF Len(w) = z THEN w ELSE Null
  BY <1>2, <1>3
<1>5. w # Null
  BY <1>1, NullAssumption
<1> QED BY <1>1, <1>4, <1>5 DEF w, z

\* What serialize gives, parse reads back.  (BaseNulsData)
THEOREM ReadsBack ==
  ASSUME NEW class, InOrder(class), Begins(class), NEW d, FieldsFit(class, d),
         NoBlank(class, d), AllCountable(class, d)
  PROVE  Parse(class, Serialize(class, d), 0)
           = Got(Reproduced(class, d), Len(Serialize(class, d)))
<1>1. PICK w : w = Write(class, d)
  OBVIOUS
<1>2. w \in Seq(Byte) /\ Len(w) \in Nat /\ Serialize(class, d) = w
  BY <1>1, ClassBytes, Serializes
<1>3. Occurs(Write(class, d), w, 0)
  BY <1>1, <1>2, OccursWhole
<1>4. Parse(class, w, 0) = Got(Reproduced(class, d), 0 + Len(w))
  BY <1>1, <1>3, ClassFound
<1>5. 0 + Len(w) = Len(w)
  BY <1>2
<1> QED BY <1>2, <1>4, <1>5

\* A class without texts and arguments is always serialized and read back.
Plain(class) == \A f \in DOMAIN class.type : class.type[f] \notin {"string", "args"}

\* Nothing in it is blank, or counted.
LEMMA PlainClass ==
  ASSUME NEW class, Plain(class), NEW d
  PROVE  NoBlank(class, d) /\ AllCountable(class, d)
BY DEF Plain, NoBlank, AllCountable, BlankField

-----------------------------------------------------------------------------
(***************************************************************************)
(* Small numbers, and first bytes that are no place holder                 *)
(***************************************************************************)

\* Where nothing is left, nothing is left further on.
LEMMA LeftStays ==
  ASSUME NEW n \in Nat, NEW k \in Nat, Left(n, k) = 0, NEW m \in Nat, k <= m
  PROVE  Left(n, m) = 0
<1> DEFINE Bad == {j \in Nat : k <= j /\ Left(n, j) # 0}
<1> SUFFICES ASSUME Bad # {} PROVE FALSE
  OBVIOUS
<1>1. PICK j \in Bad : \A i \in Bad : j <= i
  BY LeastNumber
<1>2. j \in Nat /\ k <= j /\ Left(n, j) # 0 /\ j # k
  OBVIOUS
<1>3. j - 1 \in Nat /\ k <= j - 1 /\ ~ (j <= j - 1) /\ (j - 1) + 1 = j
  BY <1>2
<1>4. Left(n, j - 1) = 0
  BY <1>1, <1>3
<1>5. Left(n, j) = 0 \div 256
  BY <1>3, <1>4, LeftStep
<1> QED BY <1>2, <1>5

\* Small numbers fit everywhere.
LEMMA SmallNumber ==
  ASSUME NEW n \in Nat, n <= 65535
  PROVE  Fits("uint16", n) /\ Fits("int64", n) /\ Fits("BigInteger", n) /\ IsInt(n)
<1>1. Left(n, 2) = 0
  BY Small
<1>2. Left(n, 3) = 0 /\ Left(n, 7) = 0 /\ Left(n, 31) = 0
  BY <1>1, LeftStays
<1> QED BY <1>1, <1>2, FitCases DEF IsInt

\* The three forms of a length.
LEMMA VarIntCases ==
  ASSUME NEW n
  PROVE  /\ n < 253 => VarInt(n) = <<n>>
         /\ ~ (n < 253) /\ n <= 65535 => VarInt(n) = <<253>> \o LittleEndian(n, 2)
         /\ ~ (n < 253) /\ ~ (n <= 65535) => VarInt(n) = <<254>> \o LittleEndian(n, 4)
<1>1. n < 253 => VarInt(n) = <<n>>
  BY DEF VarInt
<1>2. ~ (n < 253) /\ n <= 65535 => VarInt(n) = <<253>> \o LittleEndian(n, 2)
  BY DEF VarInt
<1>3. ~ (n < 253) /\ ~ (n <= 65535) => VarInt(n) = <<254>> \o LittleEndian(n, 4)
  BY DEF VarInt
<1> QED BY <1>1, <1>2, <1>3

\* The first byte that is written is none of a place holder's.
LEMMA NoPlaceHolder ==
  ASSUME NEW type \in {"bytes", "key"}, NEW v, Fits(type, v)
  PROVE  Len(WriteField(type, v)) >= 1 /\ WriteField(type, v)[1] # 255
<1>1. Len(WriteField(type, v)) >= 1
  BY FirstItem
<1>2. CASE type = "bytes"
  <2>1. v = Null \/ IsArray(v)
    BY <1>2, FitCases
  <2>2. WriteField(type, v) = WriteBytes(v)
    BY <1>2, WrittenOther
  <2>3. CASE v = Null \/ v = <<>>
    <3>1. WriteBytes(v) = <<0>>
      BY <2>3, ZeroVarInt DEF WriteBytes
    <3> QED BY <1>1, <2>2, <3>1
  <2>4. CASE ~ (v = Null \/ v = <<>>)
    <3>1. v \in Seq(Byte) /\ IsInt(Len(v))
      BY <2>1, <2>4 DEF IsArray
    <3>2. PICK b : b = VarInt(Len(v))
      OBVIOUS
    <3>3. WriteBytes(v) = b \o v
      BY <2>4, <3>2 DEF WriteBytes
    <3>4. b \in Seq(Byte) /\ Len(b) >= 1 /\ Len(b) \in Nat /\ Len(v) \in Nat
      BY <3>1, <3>2, VarIntBytes, SizeNotZero
    <3>5. b[1] # 255
      <4>1. CASE Len(v) < 253
        <5>1. b = <<Len(v)>>
          BY <3>2, <4>1 DEF VarInt
        <5>2. b[1] = Len(v)
          BY <5>1
        <5>3. ASSUME NEW n \in Nat, n < 253 PROVE n # 255
          BY <5>3
        <5> QED BY <3>4, <4>1, <5>2, <5>3, Zenon
      <4>2. CASE ~ (Len(v) < 253)
        <5>1. \E t \in {253, 254}, w \in {2, 4} : b = <<t>> \o LittleEndian(Len(v), w)
          <6>2. b = <<253>> \o LittleEndian(Len(v), 2) \/ b = <<254>> \o LittleEndian(Len(v), 4)
            <7>1. CASE Len(v) <= 65535
              BY <3>2, <4>2, <7>1, VarIntCases
            <7>2. CASE ~ (Len(v) <= 65535)
              BY <3>2, <4>2, <7>2, VarIntCases
            <7> QED BY <7>1, <7>2
          <6>3. 253 \in {253, 254} /\ 254 \in {253, 254} /\ 2 \in {2, 4} /\ 4 \in {2, 4}
            OBVIOUS
          <6> QED BY <6>2, <6>3, Zenon
        <5>2. PICK t \in {253, 254}, w \in {2, 4} : b = <<t>> \o LittleEndian(Len(v), w)
          BY <5>1
        <5>3. PICK le : le = LittleEndian(Len(v), w)
          OBVIOUS
        <5>4. le \in Seq(Byte) /\ <<t>> \in Seq(Nat) /\ Len(<<t>>) = 1 /\ b = <<t>> \o le
          BY <3>4, <5>2, <5>3, LittleEndianBytes
        <5>5. b[1] = t
          BY <3>4, <5>4
        <5> QED BY <5>5
      <4> QED BY <4>1, <4>2
    <3>6. (b \o v)[1] = b[1]
      BY <3>1, <3>4, ConcatProperties
    <3> QED BY <1>1, <2>2, <3>3, <3>5, <3>6
  <2> QED BY <2>3, <2>4
<1>3. CASE type = "key"
  <2>1. v \in Seq(Byte) /\ Len(v) < 128 /\ Len(v) \in Nat
    BY <1>3, FitCases
  <2>2. WriteField(type, v) = <<Len(v)>> \o v
    BY <1>3, WrittenOther
  <2>3. (<<Len(v)>> \o v)[1] = Len(v)
    BY <2>1
  <2>4. ASSUME NEW n \in Nat, n < 128 PROVE n # 255
    BY <2>4
  <2>5. Len(v) # 255
    BY <2>1, <2>4, Zenon
  <2> QED BY <1>1, <2>2, <2>3, <2>5
<1> QED BY <1>1, <1>2, <1>3

-----------------------------------------------------------------------------
(***************************************************************************)
(* Several of a class, one after the other                                 *)
(***************************************************************************)

\* A class of which several are written one after the other.
Listed(class) ==
  InOrder(class) /\ Begins(class) /\ Plain(class) /\ TypeAt(class, 1) \in {"bytes", "key"}

\* readNulsData reads the next of them, and takes none for a place holder.
LEMMA OneFound ==
  ASSUME NEW class, Listed(class), NEW d, FieldsFit(class, d),
         NEW in, NEW at, Occurs(Serialize(class, d), in, at)
  PROVE  /\ ReadNulsData(class, in, at) = Got(Reproduced(class, d), at + Len(Serialize(class, d)))
         /\ at < Len(in)
<1>1. InOrder(class) /\ Begins(class) /\ NoBlank(class, d) /\ AllCountable(class, d)
  BY PlainClass DEF Listed
<1>2. Serialize(class, d) = Write(class, d)
  BY <1>1, Serializes
<1>3. Occurs(Write(class, d), in, at)
  BY <1>2
<1>4. in \in Seq(Byte) /\ Len(in) \in Nat /\ at \in Nat
  BY <1>3 DEF Occurs
<1>5. 1 \in 1 .. Fields(class) /\ Fields(class) \in Nat
  BY <1>1, ClassFields DEF Begins
<1>6. PICK w : w = ItemAt(class, d, 1)
  OBVIOUS
<1>7. Occurs(w, in, at)
  <2>1. PICK pos : pos[0] = at /\ \A i \in 1 .. Fields(class) : Occurs(ItemAt(class, d, i), in, pos[i - 1])
    BY <1>1, <1>3, ClassLaid
  <2>2. Occurs(ItemAt(class, d, 1), in, pos[1 - 1])
    BY <1>5, <2>1
  <2> QED BY <1>6, <2>1, <2>2
<1>8. Len(w) >= 1 /\ w[1] # 255
  <2>1. Fits(TypeAt(class, 1), ValueAt(class, d, 1))
    BY <1>1, <1>5, ClassFields
  <2> QED BY <1>6, <2>1, NoPlaceHolder DEF Listed, ItemAt
<1>9. at + Len(w) <= Len(in) /\ Len(w) \in Nat /\ in[at + 1] = w[1]
  <2>1. w \in Seq(Byte) /\ at + Len(w) <= Len(in) /\ \A i \in 1 .. Len(w) : in[at + i] = w[i]
    BY <1>7 DEF Occurs
  <2>2. Len(w) \in Nat /\ 1 \in 1 .. Len(w)
    BY <1>8, <2>1
  <2> QED BY <2>1, <2>2
<1>10. at < Len(in)
  BY <1>4, <1>8, <1>9
<1>11. ~ (at + 4 <= Len(in) /\ SubSeq(in, at + 1, at + 4) = PlaceHolder)
  <2> SUFFICES ASSUME at + 4 <= Len(in), SubSeq(in, at + 1, at + 4) = PlaceHolder PROVE FALSE
    OBVIOUS
  <2>1. PICK s : s = SubSeq(in, at + 1, at + 4)
    OBVIOUS
  <2>2. s[1] = in[at + 1]
    BY <1>4, <2>1
  <2>3. s[1] = 255
    <3>1. s = PlaceHolder
      BY <2>1, Zenon
    <3>2. PlaceHolder[1] = 255
      BY DEF PlaceHolder
    <3> QED BY <3>1, <3>2
  <2> QED BY <1>8, <1>9, <2>2, <2>3
<1>12. ReadNulsData(class, in, at) = Parse(class, in, at)
  BY <1>4, <1>10, <1>11 DEF ReadNulsData
<1>13. Parse(class, in, at) = Got(Reproduced(class, d), at + Len(Write(class, d)))
  BY <1>1, <1>3, ClassFound
<1> QED BY <1>2, <1>10, <1>12, <1>13

\* readNulsData ends in an outcome.
LEMMA OneOutcome ==
  ASSUME NEW class, InOrder(class), NEW in \in Seq(Byte), NEW at \in Nat
  PROVE  IsOutcome(ReadNulsData(class, in, at))
<1>1. IsOutcome(Got(Null, at)) /\ IsOutcome(Got(Null, at + 4))
  BY GotIsOutcome
<1>2. IsOutcome(Parse(class, in, at))
  BY ParseOutcome
<1> QED BY <1>1, <1>2 DEF ReadNulsData

\* A list of data that fit; the bytes and the sizes of each.
AllFit(class, list) ==
  /\ Len(list) \in Nat /\ list = [i \in 1 .. Len(list) |-> list[i]]
  /\ \A i \in 1 .. Len(list) : FieldsFit(class, list[i])
Pieces(class, list) == [i \in DOMAIN list |-> Serialize(class, list[i])]
Sizes(class, list) == [i \in DOMAIN list |-> Size(class, list[i])]

\* Together they are as long as their sizes add up to.
LEMMA ListBytes ==
  ASSUME NEW class, Listed(class), NEW list, AllFit(class, list)
  PROVE  /\ Pieces(class, list) \in Seq(Seq(Byte)) /\ Len(Pieces(class, list)) = Len(list)
         /\ \A i \in 1 .. Len(list) : Pieces(class, list)[i] = Serialize(class, list[i])
         /\ Sizes(class, list) \in Seq(Nat) /\ Len(Sizes(class, list)) = Len(list)
         /\ \A i \in 1 .. Len(list) : Sizes(class, list)[i] = Size(class, list[i])
         /\ Joined(Pieces(class, list)) \in Seq(Byte)
         /\ Len(Joined(Pieces(class, list))) = SumOf(Sizes(class, list))
<1> DEFINE n == Len(list)
<1>1. n \in Nat /\ DOMAIN list = 1 .. n
  BY DEF AllFit
<1>2. ASSUME NEW i \in 1 .. n
      PROVE  /\ Serialize(class, list[i]) \in Seq(Byte)
             /\ Size(class, list[i]) \in Nat /\ Len(Serialize(class, list[i])) = Size(class, list[i])
  <2>1. FieldsFit(class, list[i])
    BY DEF AllFit
  <2>2. NoBlank(class, list[i])
    BY PlainClass DEF Listed
  <2> QED BY <2>1, <2>2, Serializes DEF Listed
<1> HIDE DEF n
<1>3. PICK items, sizes : items = Pieces(class, list) /\ sizes = Sizes(class, list)
  OBVIOUS
<1>4. items = [i \in 1 .. n |-> Serialize(class, list[i])] /\ sizes = [i \in 1 .. n |-> Size(class, list[i])]
  BY <1>1, <1>3 DEF Pieces, Sizes
<1>5. /\ items \in Seq(Seq(Byte)) /\ Len(items) = n
      /\ \A i \in 1 .. n : items[i] = Serialize(class, list[i])
  BY <1>1, <1>2, <1>4
<1>6. /\ sizes \in Seq(Nat) /\ Len(sizes) = n
      /\ \A i \in 1 .. n : sizes[i] = Size(class, list[i])
  BY <1>1, <1>2, <1>4
<1>7. sizes = [i \in 1 .. Len(items) |-> Len(items[i])]
  BY <1>2, <1>4, <1>5
<1>8. Joined(items) \in Seq(Byte) /\ Len(Joined(items)) = SumOf(sizes)
  BY <1>5, <1>7, LenJoined
<1> QED BY <1>3, <1>5, <1>6, <1>8 DEF n

\* As many as were written are read back.
LEMMA ListFound ==
  ASSUME NEW class, Listed(class), NEW list, AllFit(class, list),
         \A i \in 1 .. Len(list) : Reproduced(class, list[i]) = list[i],
         NEW in, NEW at, Occurs(Joined(Pieces(class, list)), in, at),
         NEW readers, readers = [i \in 1 .. Len(list) |-> [q \in Nat |-> ReadNulsData(class, in, q)]]
  PROVE  InTurn(readers, at) = Got(list, at + Len(Joined(Pieces(class, list))))
<1>0. PICK n : n = Len(list)
  OBVIOUS
<1>1. PICK items : items = Pieces(class, list)
  OBVIOUS
<1>2. /\ n \in Nat /\ list = [i \in 1 .. n |-> list[i]] /\ items \in Seq(Seq(Byte)) /\ Len(items) = n
      /\ \A i \in 1 .. n : items[i] = Serialize(class, list[i])
  BY <1>0, <1>1, ListBytes DEF AllFit
<1>3. Occurs(Joined(items), in, at) /\ in \in Seq(Byte) /\ at \in Nat
  BY <1>1 DEF Occurs
<1>4. PICK pos : /\ Laid(items, in, pos)
                 /\ pos[0] = at /\ pos[n] = at + Len(Joined(items))
  <2>1. PICK pos : /\ Laid(items, in, pos)
                   /\ pos[0] = at /\ pos[Len(items)] = at + Len(Joined(items))
    <3>1. items \in Seq(Seq(Byte))
      BY <1>2
    <3> QED BY <1>3, <3>1, JoinedLaid
  <2> QED BY <1>2, <2>1
<1>5. /\ pos \in [0 .. n -> Nat]
      /\ \A i \in 1 .. n : pos[i] = pos[i - 1] + Len(items[i]) /\ Occurs(items[i], in, pos[i - 1])
  BY <1>2, <1>4 DEF Laid
<1>6. AreReaders(readers, n)
  <2>1. ASSUME NEW q \in Nat PROVE IsOutcome(ReadNulsData(class, in, q))
    BY <1>3, OneOutcome DEF Listed
  <2> QED BY <1>0, <1>2, <2>1 DEF AreReaders
<1>7. ASSUME NEW i \in 1 .. n PROVE readers[i][pos[i - 1]] = Got(list[i], pos[i])
  <2>1. i - 1 \in 0 .. n
    BY <1>2
  <2>2. pos[i - 1] \in Nat
    BY <1>5, <2>1
  <2>3. readers[i][pos[i - 1]] = ReadNulsData(class, in, pos[i - 1])
    BY <1>0, <2>2
  <2>4. Occurs(Serialize(class, list[i]), in, pos[i - 1]) /\ pos[i] = pos[i - 1] + Len(Serialize(class, list[i]))
    BY <1>2, <1>5
  <2>5. FieldsFit(class, list[i]) /\ Reproduced(class, list[i]) = list[i]
    BY <1>0 DEF AllFit
  <2>6. ReadNulsData(class, in, pos[i - 1])
          = Got(Reproduced(class, list[i]), pos[i - 1] + Len(Serialize(class, list[i])))
    BY <2>4, <2>5, OneFound
  <2> QED BY <2>3, <2>4, <2>5, <2>6
<1>8. Len(readers) = n
  BY <1>0, <1>2
<1>9. Chain(readers, list, pos)
  BY <1>5, <1>7, <1>8 DEF Chain
<1>10. InTurn(readers, pos[0]) = Got(list, pos[n])
  BY <1>2, <1>6, <1>9, ChainRead, SMTT(40)
<1> QED BY <1>1, <1>4, <1>10

\* A list of one, and of none.
LEMMA ListOfOne ==
  ASSUME NEW class, Listed(class), NEW d, FieldsFit(class, d), NEW list, list = <<d>>
  PROVE  AllFit(class, list) /\ Len(list) = 1 /\ list[1] = d /\ SumOf(Sizes(class, list)) = Size(class, d)
<1>1. Len(list) = 1 /\ list[1] = d /\ DOMAIN list = 1 .. 1 /\ list = [i \in 1 .. 1 |-> list[i]]
  OBVIOUS
<1>2. AllFit(class, list)
  BY <1>1 DEF AllFit
<1>3. PICK z : z = Sizes(class, list)
  OBVIOUS
<1>4. z \in Seq(Nat) /\ Len(z) = 1 /\ z[1] = Size(class, d)
  <2>1. Sizes(class, list) \in Seq(Nat) /\ Len(Sizes(class, list)) = Len(list)
    BY <1>2, ListBytes
  <2>2. Sizes(class, list)[1] = Size(class, d)
    BY <1>1 DEF Sizes
  <2> QED BY <1>1, <1>3, <2>1, <2>2
<1>5. SumOf(z) = z[1]
  BY <1>4, SumOfOne
<1> QED BY <1>1, <1>2, <1>3, <1>4, <1>5

LEMMA ListOfNone ==
  ASSUME NEW class, NEW list, list = <<>>
  PROVE  AllFit(class, list) /\ Len(list) = 0 /\ SumOf(Sizes(class, list)) = 0
<1>1. Len(list) = 0 /\ DOMAIN list = 1 .. 0 /\ list = [i \in 1 .. 0 |-> list[i]]
  OBVIOUS
<1>2. AllFit(class, list)
  BY <1>1 DEF AllFit
<1>3. Sizes(class, list) = <<>>
  BY <1>1 DEF Sizes
<1> QED BY <1>1, <1>2, <1>3, SumNone

\* A short array has one more byte than its length.
LEMMA ShortArray ==
  ASSUME NEW v \in Seq(Byte), Len(v) < 253
  PROVE  /\ SizeOfArray(v) = 1 + Len(v) /\ IsArray(v) /\ Fits("bytes", v) /\ Len(v) \in Nat
         /\ Len(v) # 0 => Normal("bytes", v) = v
<1>1. PICK n \in Nat : n = Len(v)
  OBVIOUS
<1>2. n < 253
  BY <1>1
<1>3. IsInt(n) /\ SizeOfBytes(n) = 1 + n
  BY <1>2, SmallNumber DEF SizeOfBytes, VarIntSize
<1>4. v # Null
  BY NullAssumption
<1>5. SizeOfArray(v) = 1 + Len(v)
  BY <1>1, <1>3, <1>4 DEF SizeOfArray
<1>6. IsArray(v)
  BY <1>1, <1>3 DEF IsArray
<1>7. Len(v) # 0 => v # <<>>
  OBVIOUS
<1> QED BY <1>1, <1>5, <1>6, <1>7, FitCases, NormalCases

\* No lock and no amount fit.
LEMMA ZeroFits == Fits("byte", 0) /\ Fits("int64", 0) /\ Fits("BigInteger", 0)
BY SmallNumber, FitCases

\* Numbers, addresses and keys come back as they are.
LEMMA NormalNumber ==
  ASSUME NEW type \in {"uint16", "uint32", "int64", "BigInteger", "byte", "key", "address"}, NEW v
  PROVE  Normal(type, v) = v
BY NormalCases DEF Types
=============================================================================
