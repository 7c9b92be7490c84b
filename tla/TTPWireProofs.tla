--------------------------- MODULE TTPWireProofs ---------------------------
(***************************************************************************)
(* Of the bytes of TTPWire: a segment is found again in its bytes, and the *)
(* one's-complement sum is the plain sum of the words modulo 65535, so     *)
(* that one altered bit changes it.                                        *)
(***************************************************************************)
EXTENDS TTPRawSocket, TLAPS, WellFoundedInduction

-----------------------------------------------------------------------------
(* Induction over a set of naturals *)

LEMMA SetInduction ==
    ASSUME NEW T, 0 \in T, \A n \in Nat : n \in T => n + 1 \in T
    PROVE  \A n \in Nat : n \in T
<1> DEFINE Out == {n \in Nat : n \notin T}
<1>1. SUFFICES ASSUME Out # {} PROVE FALSE
  OBVIOUS
<1>2. PICK n \in Out : \A y \in Out : ~(<<y, n>> \in OpToRel(<, Nat))
  BY <1>1, NatLessThanWellFounded, WFMin, Zenon
<1>3. n \in Nat /\ n \notin T /\ n # 0
  BY <1>2
<1>4. n - 1 \in Nat /\ n - 1 < n /\ (n - 1) + 1 = n
  BY <1>3
<1>5. n - 1 \in Out
  BY <1>3, <1>4
<1>6. <<n - 1, n>> \in OpToRel(<, Nat)
  BY <1>3, <1>4, Zenon DEF OpToRel
<1> QED BY <1>2, <1>5, <1>6

-----------------------------------------------------------------------------
(* Numbers as bytes *)

LEMMA Ranges ==
    /\ \A n : n \in Byte <=> n \in Nat /\ n <= 255
    /\ \A n : n \in Short <=> n \in Nat /\ n <= 65535
<1>1. MaxByte = 255 /\ MaxShort = 65535
  BY DEF MaxByte, MaxShort
<1>2. MaxByte \in Nat /\ MaxShort \in Nat
  BY <1>1
<1>3. \A n : n \in Byte <=> n \in Nat /\ n <= MaxByte
  BY <1>2 DEF Byte
<1>4. \A n : n \in Short <=> n \in Nat /\ n <= MaxShort
  BY <1>2 DEF Short
<1> QED BY <1>1, <1>3, <1>4

LEMMA Halves ==
    ASSUME NEW n \in Short
    PROVE  n \div 256 \in Byte /\ n % 256 \in Byte /\ 256 * (n \div 256) + (n % 256) = n
<1> DEFINE high == n \div 256
           low == n % 256
<1>1. n \in Nat /\ n <= 65535
  BY Ranges
<1>2. high \in Nat
  BY <1>1
<1>3. high <= 255
  BY <1>1
<1>4. low \in Nat
  BY <1>1
<1>5. low <= 255
  BY <1>1
<1>6. 256 * high + low = n
  BY <1>1
<1> HIDE DEF high, low
<1>7. high \in Byte /\ low \in Byte
  BY <1>2, <1>3, <1>4, <1>5, Ranges
<1> QED BY <1>6, <1>7 DEF high, low

LEMMA HalvesAgain ==
    ASSUME NEW a \in Byte, NEW b \in Byte
    PROVE  /\ 256 * a + b \in Short
           /\ (256 * a + b) \div 256 = a
           /\ (256 * a + b) % 256 = b
<1>1. a \in Nat /\ a <= 255 /\ b \in Nat /\ b <= 255
  BY Ranges
<1>2. 256 * a + b \in Nat /\ 256 * a + b <= 65535
  BY <1>1
<1>3. (256 * a + b) \div 256 = a
  BY <1>1
<1>4. (256 * a + b) % 256 = b
  BY <1>1
<1>5. 256 * a + b \in Short
  BY <1>2, Ranges
<1> QED BY <1>3, <1>4, <1>5

\* s \o t, position by position.
LEMMA Joined ==
    ASSUME NEW s \in Seq(Byte), NEW t \in Seq(Byte)
    PROVE  /\ s \o t \in Seq(Byte) /\ Len(s \o t) = Len(s) + Len(t)
           /\ \A i \in 1..Len(s) : (s \o t)[i] = s[i]
           /\ \A i \in 1..Len(t) : (s \o t)[Len(s) + i] = t[i]
OBVIOUS

LEMMA PackShortBytes ==
    ASSUME NEW n \in Short
    PROVE  /\ PackShort(n) \in Seq(Byte) /\ Len(PackShort(n)) = 2
           /\ PackShort(n)[1] = n \div 256 /\ PackShort(n)[2] = n % 256
BY Halves DEF PackShort

LEMMA PackLongBytes ==
    ASSUME NEW n \in Long
    PROVE  /\ PackLong(n) \in Seq(Byte) /\ Len(PackLong(n)) = 4
           /\ PackLong(n)[1] = n[1] \div 256 /\ PackLong(n)[2] = n[1] % 256
           /\ PackLong(n)[3] = n[2] \div 256 /\ PackLong(n)[4] = n[2] % 256
<1> DEFINE a == PackShort(n[1])
           b == PackShort(n[2])
<1>1. n[1] \in Short /\ n[2] \in Short
  BY DEF Long
<1>2. /\ a \in Seq(Byte) /\ Len(a) = 2 /\ a[1] = n[1] \div 256 /\ a[2] = n[1] % 256
      /\ b \in Seq(Byte) /\ Len(b) = 2 /\ b[1] = n[2] \div 256 /\ b[2] = n[2] % 256
  BY <1>1, PackShortBytes
<1>3. PackLong(n) = a \o b
  BY DEF PackLong
<1> HIDE DEF a, b
<1>4. a \in Seq(Byte) /\ b \in Seq(Byte) /\ Len(a) = 2 /\ Len(b) = 2
  BY <1>2
<1> DEFINE c == a \o b
<1>5. /\ c \in Seq(Byte) /\ Len(c) = Len(a) + Len(b)
      /\ \A i \in 1..Len(a) : c[i] = a[i]
      /\ \A i \in 1..Len(b) : c[Len(a) + i] = b[i]
  BY <1>4, Joined
<1> HIDE DEF c
<1>6. \A i \in 1..2 : c[i] = a[i] /\ c[2 + i] = b[i]
  BY <1>4, <1>5
<1>7. c[1] = a[1] /\ c[2] = a[2] /\ c[2 + 1] = b[1] /\ c[2 + 2] = b[2]
  BY <1>6
<1>8. /\ c \in Seq(Byte) /\ Len(c) = 4
      /\ c[1] = a[1] /\ c[2] = a[2] /\ c[3] = b[1] /\ c[4] = b[2]
  BY <1>4, <1>5, <1>7
<1> QED BY <1>2, <1>3, <1>8, Zenon DEF c

LEMMA Powers ==
    ASSUME NEW b \in 0..7
    PROVE  2^b \in {1, 2, 4, 8, 16, 32, 64, 128}
<1>1. b = 0 \/ b = 1 \/ b = 2 \/ b = 3 \/ b = 4 \/ b = 5 \/ b = 6 \/ b = 7
  OBVIOUS
<1>2. CASE b = 0
  <2>1. 2^0 = 1
    OBVIOUS
  <2> QED BY <1>2, <2>1, Zenon
<1>3. CASE b = 1
  <2>1. 2^1 = 2
    OBVIOUS
  <2> QED BY <1>3, <2>1, Zenon
<1>4. CASE b = 2
  <2>1. 2^2 = 4
    OBVIOUS
  <2> QED BY <1>4, <2>1, Zenon
<1>5. CASE b = 3
  <2>1. 2^3 = 8
    OBVIOUS
  <2> QED BY <1>5, <2>1, Zenon
<1>6. CASE b = 4
  <2>1. 2^4 = 16
    OBVIOUS
  <2> QED BY <1>6, <2>1, Zenon
<1>7. CASE b = 5
  <2>1. 2^5 = 32
    OBVIOUS
  <2> QED BY <1>7, <2>1, Zenon
<1>8. CASE b = 6
  <2>1. 2^6 = 64
    OBVIOUS
  <2> QED BY <1>8, <2>1, Zenon
<1>9. CASE b = 7
  <2>1. 2^7 = 128
    OBVIOUS
  <2> QED BY <1>9, <2>1, Zenon
<1> QED BY <1>1, <1>2, <1>3, <1>4, <1>5, <1>6, <1>7, <1>8, <1>9, Zenon

LEMMA FlippedByte ==
    ASSUME NEW byte \in Byte, NEW bit \in 0..7
    PROVE  FlipBit(byte, bit) \in Byte /\ FlipBit(byte, bit) # byte
<1> DEFINE w == 2^bit
<1>1. w = 1 \/ w = 2 \/ w = 4 \/ w = 8 \/ w = 16 \/ w = 32 \/ w = 64 \/ w = 128
  BY Powers
<1>2. FlipBit(byte, bit) = IF (byte \div w) % 2 = 0 THEN byte + w ELSE byte - w
  BY DEF FlipBit
<1>3. byte \in Nat /\ byte <= 255
  BY Ranges
<1> HIDE DEF w
<1>4. ASSUME (byte \div w) % 2 = 0 PROVE byte + w <= 255
  <2>1. CASE w = 1
    BY <1>3, <1>4, <2>1
  <2>2. CASE w = 2
    BY <1>3, <1>4, <2>2
  <2>3. CASE w = 4
    BY <1>3, <1>4, <2>3
  <2>4. CASE w = 8
    BY <1>3, <1>4, <2>4
  <2>5. CASE w = 16
    BY <1>3, <1>4, <2>5
  <2>6. CASE w = 32
    BY <1>3, <1>4, <2>6
  <2>7. CASE w = 64
    BY <1>3, <1>4, <2>7
  <2>8. CASE w = 128
    BY <1>3, <1>4, <2>8
  <2> QED BY <1>1, <2>1, <2>2, <2>3, <2>4, <2>5, <2>6, <2>7, <2>8
<1>5. (byte \div w) % 2 # 0 => byte >= w
  BY <1>1, <1>3
<1>6. w \in 1..128
  BY <1>1
<1> QED BY <1>2, <1>3, <1>4, <1>5, <1>6, Ranges
-----------------------------------------------------------------------------
(* The one's-complement sum.  OnesSum and WordsTotal are recursive functions, *)
(* and what they compute is proved by SetInduction                            *)

IsFolding(f, words, k) ==
    f = [n \in 0..k |-> IF n = 0 THEN 0 ELSE Folded(f[n - 1] + ShortAt(words, 2 * n - 1))]

IsAdding(f, words, k) ==
    f = [n \in 0..k |-> IF n = 0 THEN 0 ELSE f[n - 1] + ShortAt(words, 2 * n - 1)]

\* One folding of the sum of two words gives a word again, of the same residue.
LEMMA FoldedSum ==
    ASSUME NEW a \in Short, NEW b \in Short
    PROVE  /\ Folded(a + b) \in Short
           /\ \E q \in Nat : a + b = Folded(a + b) + 65535 * q
<1> DEFINE t == a + b
<1>1. t \in Nat /\ t <= 131070
  BY Ranges
<1> HIDE DEF t
<1>2. t \div 65536 = IF t < 65536 THEN 0 ELSE 1
  BY <1>1
<1>3. t % 65536 = t - 65536 * (t \div 65536)
  BY <1>1
<1> DEFINE r == Folded(t)
           q == IF t < 65536 THEN 0 ELSE 1
<1>4. r = t - 65535 * q
  BY <1>1, <1>2, <1>3 DEF Folded
<1>5. q \in Nat /\ (q = 0 => t < 65536) /\ (q # 0 => q = 1 /\ t >= 65536)
  BY <1>1
<1> HIDE DEF r, q
<1>6. r \in Nat /\ r <= 65535 /\ t = r + 65535 * q
  BY <1>1, <1>4, <1>5
<1>7. r \in Short
  BY <1>6, Ranges
<1> QED BY <1>5, <1>6, <1>7 DEF r, t

LEMMA WordIsShort ==
    ASSUME NEW words \in Seq(Byte), NEW n \in Nat, n # 0, 2 * n <= Len(words)
    PROVE  ShortAt(words, 2 * n - 1) \in Short
<1> DEFINE i == 2 * n - 1
<1>1. i \in 1..Len(words) /\ i + 1 \in 1..Len(words)
  OBVIOUS
<1> HIDE DEF i
<1>2. words[i] \in Byte /\ words[i + 1] \in Byte
  BY <1>1
<1> QED BY <1>2, HalvesAgain DEF ShortAt, i

LEMMA FoldingExists ==
    ASSUME NEW words \in Seq(Byte), NEW k \in Nat, 2 * k <= Len(words)
    PROVE  \E f \in [0..k -> Short] : IsFolding(f, words, k)
<1> DEFINE T == {m \in Nat : 2 * m <= Len(words) =>
                    \E f \in [0..m -> Short] : IsFolding(f, words, m)}
<1>1. 0 \in T
  <2> DEFINE f == [n \in 0..0 |-> 0]
  <2>1. f \in [0..0 -> Short]
    BY Ranges
  <2>2. f = [n \in 0..0 |-> IF n = 0 THEN 0 ELSE Folded(f[n - 1] + ShortAt(words, 2 * n - 1))]
    OBVIOUS
  <2> HIDE DEF f
  <2> QED BY <2>1, <2>2 DEF IsFolding
<1>2. ASSUME NEW m \in Nat, m \in T PROVE m + 1 \in T
  <2>1. SUFFICES ASSUME 2 * (m + 1) <= Len(words)
                 PROVE  \E f \in [0..(m + 1) -> Short] : IsFolding(f, words, m + 1)
    OBVIOUS
  <2>2. Len(words) \in Nat
    OBVIOUS
  <2>3. PICK f \in [0..m -> Short] : IsFolding(f, words, m)
    BY <1>2, <2>1, <2>2
  <2> DEFINE last == Folded(f[m] + ShortAt(words, 2 * (m + 1) - 1))
             g == [n \in 0..(m + 1) |-> IF n = m + 1 THEN last ELSE f[n]]
  <2>4. last \in Short
    BY <2>1, <2>2, <2>3, WordIsShort, FoldedSum
  <2>5. \A n \in 0..m : f[n] =
          IF n = 0 THEN 0 ELSE Folded(f[n - 1] + ShortAt(words, 2 * n - 1))
    BY <2>3 DEF IsFolding
  <2> HIDE DEF last
  <2>6. g \in [0..(m + 1) -> Short]
    BY <2>3, <2>4
  <2>7. ASSUME NEW n \in 0..(m + 1)
        PROVE  g[n] = IF n = 0 THEN 0 ELSE Folded(g[n - 1] + ShortAt(words, 2 * n - 1))
    <3>1. CASE n = m + 1
      <4>1. g[n] = last /\ n # 0 /\ g[n - 1] = f[m]
        BY <3>1
      <4> HIDE DEF g
      <4> QED BY <3>1, <4>1 DEF last
    <3>2. CASE n # m + 1
      <4>1. n \in 0..m /\ g[n] = f[n] /\ (n # 0 => g[n - 1] = f[n - 1])
        BY <3>2
      <4> HIDE DEF g
      <4> QED BY <4>1, <2>5
    <3> QED BY <3>1, <3>2
  <2> HIDE DEF g
  <2>8. g = [n \in 0..(m + 1) |->
               IF n = 0 THEN 0 ELSE Folded(g[n - 1] + ShortAt(words, 2 * n - 1))]
    BY <2>6, <2>7
  <2> QED BY <2>6, <2>8 DEF IsFolding
<1> HIDE DEF T
<1>3. k \in T
  BY <1>1, <1>2, SetInduction
<1> QED BY <1>3 DEF T

LEMMA AddingExists ==
    ASSUME NEW words \in Seq(Byte), NEW k \in Nat, 2 * k <= Len(words)
    PROVE  \E f \in [0..k -> Nat] : IsAdding(f, words, k)
<1> DEFINE T == {m \in Nat : 2 * m <= Len(words) =>
                    \E f \in [0..m -> Nat] : IsAdding(f, words, m)}
<1>1. 0 \in T
  <2> DEFINE f == [n \in 0..0 |-> 0]
  <2>1. f \in [0..0 -> Nat]
    OBVIOUS
  <2>2. f = [n \in 0..0 |-> IF n = 0 THEN 0 ELSE f[n - 1] + ShortAt(words, 2 * n - 1)]
    OBVIOUS
  <2> HIDE DEF f
  <2> QED BY <2>1, <2>2 DEF IsAdding
<1>2. ASSUME NEW m \in Nat, m \in T PROVE m + 1 \in T
  <2>1. SUFFICES ASSUME 2 * (m + 1) <= Len(words)
                 PROVE  \E f \in [0..(m + 1) -> Nat] : IsAdding(f, words, m + 1)
    OBVIOUS
  <2>2. Len(words) \in Nat
    OBVIOUS
  <2>3. PICK f \in [0..m -> Nat] : IsAdding(f, words, m)
    BY <1>2, <2>1, <2>2
  <2> DEFINE last == f[m] + ShortAt(words, 2 * (m + 1) - 1)
             g == [n \in 0..(m + 1) |-> IF n = m + 1 THEN last ELSE f[n]]
  <2>4. last \in Nat
    <3>1. ShortAt(words, 2 * (m + 1) - 1) \in Nat
      <4>1. m + 1 \in Nat /\ m + 1 # 0 /\ 2 * (m + 1) <= Len(words)
        BY <2>1
      <4>2. ShortAt(words, 2 * (m + 1) - 1) \in Short
        BY <4>1, WordIsShort
      <4> QED BY <4>2, Ranges
    <3>2. f[m] \in Nat
      BY <2>3
    <3> QED BY <3>1, <3>2
  <2>5. \A n \in 0..m : f[n] =
          IF n = 0 THEN 0 ELSE f[n - 1] + ShortAt(words, 2 * n - 1)
    BY <2>3 DEF IsAdding
  <2> HIDE DEF last
  <2>6. g \in [0..(m + 1) -> Nat]
    BY <2>3, <2>4
  <2>7. ASSUME NEW n \in 0..(m + 1)
        PROVE  g[n] = IF n = 0 THEN 0 ELSE g[n - 1] + ShortAt(words, 2 * n - 1)
    <3>1. CASE n = m + 1
      <4>1. g[n] = last /\ n # 0 /\ g[n - 1] = f[m]
        BY <3>1
      <4> HIDE DEF g
      <4> QED BY <3>1, <4>1 DEF last
    <3>2. CASE n # m + 1
      <4>1. n \in 0..m /\ g[n] = f[n] /\ (n # 0 => g[n - 1] = f[n - 1])
        BY <3>2
      <4> HIDE DEF g
      <4> QED BY <4>1, <2>5
    <3> QED BY <3>1, <3>2
  <2> HIDE DEF g
  <2>8. g = [n \in 0..(m + 1) |->
               IF n = 0 THEN 0 ELSE g[n - 1] + ShortAt(words, 2 * n - 1)]
    BY <2>6, <2>7
  <2> QED BY <2>6, <2>8 DEF IsAdding
<1> HIDE DEF T
<1>3. k \in T
  BY <1>1, <1>2, SetInduction
<1> QED BY <1>3 DEF T

\* Folding or not, the sum has the same residue modulo 65535.
LEMMA FoldingIsAdding ==
    ASSUME NEW words \in Seq(Byte), NEW k \in Nat, 2 * k <= Len(words),
           NEW f, IsFolding(f, words, k), NEW g, IsAdding(g, words, k)
    PROVE  f[k] \in Short /\ g[k] \in Nat /\ \E q \in Nat : g[k] = f[k] + 65535 * q
<1> DEFINE T == {m \in Nat : m <= k =>
                    f[m] \in Short /\ g[m] \in Nat /\ \E q \in Nat : g[m] = f[m] + 65535 * q}
<1>1. \A n \in 0..k :
        /\ f[n] = IF n = 0 THEN 0 ELSE Folded(f[n - 1] + ShortAt(words, 2 * n - 1))
        /\ g[n] = IF n = 0 THEN 0 ELSE g[n - 1] + ShortAt(words, 2 * n - 1)
  BY DEF IsFolding, IsAdding
<1>2. 0 \in T
  <2>1. f[0] = 0 /\ g[0] = 0
    BY <1>1
  <2>2. 0 \in Short
    BY Ranges
  <2>3. \E q \in Nat : g[0] = f[0] + 65535 * q
    <3>1. g[0] = f[0] + 65535 * 0
      BY <2>1
    <3> QED BY <3>1
  <2> QED BY <2>1, <2>2, <2>3
<1>3. ASSUME NEW m \in Nat, m \in T PROVE m + 1 \in T
  <2>1. SUFFICES ASSUME m + 1 <= k
                 PROVE  /\ f[m + 1] \in Short /\ g[m + 1] \in Nat
                        /\ \E q \in Nat : g[m + 1] = f[m + 1] + 65535 * q
    OBVIOUS
  <2> DEFINE w == ShortAt(words, 2 * (m + 1) - 1)
  <2>2. w \in Short
    <3>1. m + 1 \in Nat /\ m + 1 # 0 /\ 2 * (m + 1) <= Len(words)
      BY <2>1
    <3> QED BY <3>1, WordIsShort
  <2>3. PICK p \in Nat : f[m] \in Short /\ g[m] \in Nat /\ g[m] = f[m] + 65535 * p
    BY <1>3, <2>1
  <2>4. f[m + 1] = Folded(f[m] + w) /\ g[m + 1] = g[m] + w
    <3>1. m + 1 \in 0..k /\ m + 1 # 0 /\ (m + 1) - 1 = m
      BY <2>1
    <3> QED BY <1>1, <3>1
  <2> HIDE DEF w
  <2>5. PICK q \in Nat : f[m] + w = Folded(f[m] + w) + 65535 * q
    BY <2>2, <2>3, FoldedSum
  <2>6. f[m + 1] \in Short
    BY <2>2, <2>3, <2>4, FoldedSum
  <2>7. f[m] \in Nat /\ w \in Nat /\ f[m + 1] \in Nat
    BY <2>2, <2>3, <2>6, Ranges
  <2> DEFINE s == p + q
  <2>8. g[m + 1] = f[m + 1] + 65535 * s /\ s \in Nat /\ g[m + 1] \in Nat
    <3> DEFINE x == f[m]
               y == f[m + 1]
    <3>1. x \in Nat /\ y \in Nat /\ w \in Nat /\ p \in Nat /\ q \in Nat
      BY <2>3, <2>5, <2>7
    <3>2. x + w = y + 65535 * q
      BY <2>4, <2>5
    <3>3. g[m + 1] = (x + 65535 * p) + w
      BY <2>3, <2>4
    <3> HIDE DEF x, y
    <3>4. (x + 65535 * p) + w = y + 65535 * (p + q)
      BY <3>1, <3>2
    <3>5. p + q \in Nat /\ y + 65535 * (p + q) \in Nat
      BY <3>1
    <3> QED BY <3>3, <3>4, <3>5 DEF y
  <2> HIDE DEF s
  <2> QED BY <2>6, <2>8
<1> HIDE DEF T
<1>4. k \in T
  BY <1>2, <1>3, SetInduction
<1> QED BY <1>4 DEF T

LEMMA PaddedBytes ==
    ASSUME NEW data \in Seq(Byte)
    PROVE  /\ Padded(data) \in Seq(Byte)
           /\ Len(Padded(data)) \div 2 \in Nat
           /\ 2 * (Len(Padded(data)) \div 2) = Len(Padded(data))
<1>1. 0 \in Byte
  BY Ranges
<1>2. CASE Len(data) % 2 = 0
  <2>1. Padded(data) = data /\ Len(data) \in Nat
    BY <1>2 DEF Padded
  <2> DEFINE n == Len(data)
  <2> HIDE DEF n
  <2>2. n \in Nat /\ n % 2 = 0
    BY <1>2, <2>1 DEF n
  <2>3. n \div 2 \in Nat /\ 2 * (n \div 2) = n
    BY <2>2
  <2> QED BY <2>1, <2>3 DEF n
<1>3. CASE Len(data) % 2 # 0
  <2>1. /\ Padded(data) = Append(data, 0) /\ Len(data) \in Nat
        /\ Append(data, 0) \in Seq(Byte) /\ Len(Append(data, 0)) = Len(data) + 1
    BY <1>1, <1>3 DEF Padded
  <2> DEFINE n == Len(data)
  <2> HIDE DEF n
  <2>2. n \in Nat /\ n % 2 # 0
    BY <1>3, <2>1 DEF n
  <2>3. (n + 1) \div 2 \in Nat /\ 2 * ((n + 1) \div 2) = n + 1
    BY <2>2
  <2> QED BY <2>1, <2>3 DEF n
<1> QED BY <1>2, <1>3

\* What OnesSum computes.
LEMMA OnesSumFolds ==
    ASSUME NEW data \in Seq(Byte)
    PROVE  \E f : /\ IsFolding(f, Padded(data), Len(Padded(data)) \div 2)
                  /\ OnesSum(data) = f[Len(Padded(data)) \div 2]
<1> DEFINE words == Padded(data)
           k == Len(words) \div 2
           f == CHOOSE g : IsFolding(g, words, k)
<1>1. OnesSum(data) = f[k]
  BY Zenon DEF OnesSum, IsFolding
<1>2. IsFolding(f, words, k)
  <2>1. words \in Seq(Byte) /\ k \in Nat /\ 2 * k <= Len(words)
    BY PaddedBytes
  <2> HIDE DEF words, k
  <2>2. \E g : IsFolding(g, words, k)
    BY <2>1, FoldingExists
  <2> QED BY <2>2
<1> QED BY <1>1, <1>2, Zenon

LEMMA OnesSumIsShort ==
    ASSUME NEW data \in Seq(Byte)
    PROVE  OnesSum(data) \in Short /\ checksum(data) \in Short
<1> DEFINE words == Padded(data)
           k == Len(words) \div 2
<1>1. words \in Seq(Byte) /\ k \in Nat /\ 2 * k <= Len(words)
  BY PaddedBytes
<1>2. PICK f : IsFolding(f, words, k) /\ OnesSum(data) = f[k]
  BY OnesSumFolds
<1> HIDE DEF words, k
<1>3. PICK g \in [0..k -> Nat] : IsAdding(g, words, k)
  BY <1>1, AddingExists
<1>4. OnesSum(data) \in Short
  BY <1>1, <1>2, <1>3, FoldingIsAdding
<1>5. checksum(data) \in Short
  BY <1>4, Ranges DEF checksum
<1> QED BY <1>4, <1>5

\* other is words, but for the byte at position j.
DiffersAt(words, other, j) ==
    /\ Len(other) = Len(words)
    /\ j \in 1..Len(words)
    /\ other[j] # words[j]
    /\ \A i \in 1..Len(words) : i # j => other[i] = words[i]

\* What the byte at position j, in word m, adds to a plain sum more than before.
Shift(words, other, m, j) ==
    IF j = 2 * m THEN other[j] - words[j] ELSE 256 * (other[j] - words[j])

LEMMA AddingShifts ==
    ASSUME NEW words \in Seq(Byte), NEW other \in Seq(Byte),
           NEW k \in Nat, 2 * k <= Len(words),
           NEW m \in 1..k, NEW j, j = 2 * m - 1 \/ j = 2 * m,
           DiffersAt(words, other, j),
           NEW g, IsAdding(g, words, k), NEW h, IsAdding(h, other, k)
    PROVE  g[k] \in Nat /\ h[k] = g[k] + Shift(words, other, m, j)
<1> DEFINE d == Shift(words, other, m, j)
           T == {n \in Nat : n <= k => g[n] \in Nat /\ h[n] = g[n] + (IF n >= m THEN d ELSE 0)}
           length == Len(words)
<1>1. \A n \in 0..k :
        /\ g[n] = IF n = 0 THEN 0 ELSE g[n - 1] + ShortAt(words, 2 * n - 1)
        /\ h[n] = IF n = 0 THEN 0 ELSE h[n - 1] + ShortAt(other, 2 * n - 1)
  BY DEF IsAdding
<1>2. \A i \in 1..length : words[i] \in Nat /\ other[i] \in Nat
  <2>1. \A i \in 1..length : words[i] \in Byte /\ other[i] \in Byte
    BY DEF DiffersAt
  <2> QED BY <2>1, Ranges
<1>3. length \in Nat /\ 2 * k <= length /\ m \in Nat /\ m >= 1 /\ m <= k
  OBVIOUS
<1>4. \A i \in 1..length : i # j => other[i] = words[i]
  BY DEF DiffersAt
<1>5. j = 2 * m \/ j = 2 * m - 1
  OBVIOUS
<1> HIDE DEF length
<1>6. d \in Int
  <2>1. j \in 1..length
    BY <1>3, <1>5
  <2>2. other[j] \in Nat /\ words[j] \in Nat
    BY <1>2, <2>1
  <2> QED BY <2>2 DEF Shift
<1>7. ASSUME NEW n \in Nat, n # 0, n <= k
      PROVE  /\ ShortAt(words, 2 * n - 1) \in Nat
             /\ ShortAt(other, 2 * n - 1) =
                  ShortAt(words, 2 * n - 1) + (IF n = m THEN d ELSE 0)
  <2> DEFINE i == 2 * n - 1
  <2>1. i \in 1..length /\ i + 1 \in 1..length
    BY <1>3, <1>7
  <2>2. /\ words[i] \in Nat /\ words[i + 1] \in Nat /\ other[i] \in Nat /\ other[i + 1] \in Nat
        /\ i # j => other[i] = words[i]
        /\ i + 1 # j => other[i + 1] = words[i + 1]
    BY <1>2, <1>4, <2>1
  <2>3. CASE n # m
    <3>1. i # j /\ i + 1 # j
      BY <1>3, <1>5, <2>3
    <3> QED BY <2>2, <2>3, <3>1 DEF ShortAt
  <2>4. CASE n = m /\ j = 2 * m
    <3>1. i + 1 = j /\ i # j
      BY <1>3, <2>4
    <3>2. d = other[i + 1] - words[i + 1]
      BY <2>4, <3>1 DEF Shift
    <3>3. other[i] = words[i]
      BY <2>2, <3>1
    <3> DEFINE x == words[i + 1]
               y == other[i + 1]
               z == words[i]
    <3>4. x \in Nat /\ y \in Nat /\ z \in Nat
      BY <2>2
    <3>5. ShortAt(words, i) = 256 * z + x /\ ShortAt(other, i) = 256 * z + y /\ d = y - x
      BY <3>2, <3>3, Zenon DEF ShortAt
    <3> HIDE DEF d, i, x, y, z
    <3>6. ShortAt(other, i) = ShortAt(words, i) + d /\ ShortAt(words, i) \in Nat
      BY <3>4, <3>5
    <3> QED BY <2>4, <3>6 DEF i
  <2>5. CASE n = m /\ j # 2 * m
    <3>1. i = j /\ i + 1 # j
      BY <1>3, <1>5, <2>5
    <3>2. d = 256 * (other[i] - words[i])
      BY <2>5, <3>1 DEF Shift
    <3>3. other[i + 1] = words[i + 1]
      BY <2>2, <3>1
    <3> DEFINE x == words[i]
               y == other[i]
               z == words[i + 1]
    <3>4. x \in Nat /\ y \in Nat /\ z \in Nat
      BY <2>2
    <3>5. ShortAt(words, i) = 256 * x + z /\ ShortAt(other, i) = 256 * y + z /\ d = 256 * (y - x)
      BY <3>2, <3>3, Zenon DEF ShortAt
    <3> HIDE DEF d, i, x, y, z
    <3>6. ShortAt(other, i) = ShortAt(words, i) + d /\ ShortAt(words, i) \in Nat
      BY <3>4, <3>5
    <3> QED BY <2>5, <3>6 DEF i
  <2> QED BY <2>3, <2>4, <2>5
<1> HIDE DEF d
<1>8. 0 \in T
  <2>1. g[0] = 0 /\ h[0] = 0
    BY <1>1
  <2>2. ~(0 >= m)
    BY <1>3
  <2>3. h[0] = g[0] + (IF 0 >= m THEN d ELSE 0)
    BY <2>1, <2>2
  <2> QED BY <2>1, <2>3
<1>9. ASSUME NEW n \in Nat, n \in T PROVE n + 1 \in T
  <2>1. SUFFICES ASSUME n + 1 <= k
                 PROVE  /\ g[n + 1] \in Nat
                        /\ h[n + 1] = g[n + 1] + (IF n + 1 >= m THEN d ELSE 0)
    OBVIOUS
  <2> DEFINE v == ShortAt(words, 2 * (n + 1) - 1)
             w == ShortAt(other, 2 * (n + 1) - 1)
  <2>2. n + 1 \in 0..k /\ n + 1 # 0 /\ (n + 1) - 1 = n /\ n <= k
    BY <2>1
  <2>3. g[n + 1] = g[n] + v /\ h[n + 1] = h[n] + w
    BY <1>1, <2>2
  <2>4. v \in Nat /\ w = v + (IF n + 1 = m THEN d ELSE 0)
    <3>1. n + 1 \in Nat /\ n + 1 # 0 /\ n + 1 <= k
      BY <2>1
    <3> QED BY <1>7, <3>1
  <2> HIDE DEF v, w
  <2>5. g[n] \in Nat /\ h[n] = g[n] + (IF n >= m THEN d ELSE 0)
    BY <1>9, <2>2
  <2>6. CASE n + 1 = m
    BY <1>3, <1>6, <2>3, <2>4, <2>5, <2>6
  <2>7. CASE n + 1 # m /\ n >= m
    BY <1>3, <1>6, <2>3, <2>4, <2>5, <2>7
  <2>8. CASE n + 1 # m /\ n < m
    BY <1>3, <1>6, <2>3, <2>4, <2>5, <2>8
  <2> QED BY <1>3, <2>6, <2>7, <2>8
<1> HIDE DEF T
<1>10. k \in T
  BY <1>8, <1>9, SetInduction
<1> QED BY <1>3, <1>10 DEF T, d

LEMMA PaddedDiffers ==
    ASSUME NEW data \in Seq(Byte), NEW other \in Seq(Byte), NEW j, DiffersAt(data, other, j)
    PROVE  DiffersAt(Padded(data), Padded(other), j)
<1>1. CASE Len(data) % 2 = 0
  <2>1. Padded(data) = data /\ Padded(other) = other
    BY <1>1 DEF Padded, DiffersAt
  <2> QED BY <2>1
<1>2. CASE Len(data) % 2 # 0
  <2>1. Padded(data) = Append(data, 0) /\ Padded(other) = Append(other, 0)
    BY <1>2 DEF Padded, DiffersAt
  <2>2. 0 \in Byte
    BY Ranges
  <2> DEFINE a == Append(data, 0)
             b == Append(other, 0)
             n == Len(data)
  <2>3. /\ n \in Nat /\ j \in 1..n /\ other[j] # data[j]
        /\ Len(a) = n + 1 /\ a[n + 1] = 0 /\ \A i \in 1..n : a[i] = data[i]
        /\ Len(b) = n + 1 /\ b[n + 1] = 0 /\ \A i \in 1..n : b[i] = other[i]
        /\ \A i \in 1..n : i # j => other[i] = data[i]
    BY <2>2 DEF DiffersAt
  <2> HIDE DEF a, b, n
  <2>4. DiffersAt(a, b, j)
    BY <2>3 DEF DiffersAt
  <2> QED BY <2>1, <2>4 DEF a, b
<1> QED BY <1>1, <1>2

\* The folded sums of words that differ in one byte.
LEMMA FoldingsDiffer ==
    ASSUME NEW a \in Seq(Byte), NEW b \in Seq(Byte), NEW j, DiffersAt(a, b, j),
           NEW k \in Nat, 2 * k = Len(a),
           NEW f, IsFolding(f, a, k), NEW e, IsFolding(e, b, k)
    PROVE  f[k] \in Nat /\ e[k] \in Nat /\ e[k] # f[k]
<1>1. 2 * k <= Len(a) /\ 2 * k <= Len(b)
  BY DEF DiffersAt
<1>2. PICK g : IsAdding(g, a, k)
  BY <1>1, AddingExists
<1>3. PICK h : IsAdding(h, b, k)
  BY <1>1, AddingExists
<1>4. j \in Nat /\ j >= 1 /\ j <= 2 * k /\ a[j] \in Byte /\ b[j] \in Byte /\ a[j] # b[j]
  BY DEF DiffersAt
<1>5. PICK m \in 1..k : j = 2 * m - 1 \/ j = 2 * m
  <2> DEFINE m == (j + 1) \div 2
  <2>1. m \in Nat /\ (j + 1 = 2 * m \/ j + 1 = 2 * m + 1)
    BY <1>4
  <2> HIDE DEF m
  <2>2. m \in 1..k /\ (j = 2 * m - 1 \/ j = 2 * m)
    BY <1>4, <2>1
  <2> QED BY <2>2
<1> DEFINE d == Shift(a, b, m, j)
<1>6. g[k] \in Nat /\ h[k] = g[k] + d
  BY <1>1, <1>2, <1>3, <1>5, AddingShifts
<1>7. d \in Int /\ d # 0 /\ d < 65535 /\ d > -65535
  <2>1. a[j] \in Nat /\ a[j] <= 255 /\ b[j] \in Nat /\ b[j] <= 255
    BY <1>4, Ranges
  <2> DEFINE x == a[j]
             y == b[j]
  <2>2. d = y - x \/ d = 256 * (y - x)
    BY DEF Shift
  <2>3. x # y
    BY <1>4
  <2> HIDE DEF d, x, y
  <2>4. x \in Nat /\ x <= 255 /\ y \in Nat /\ y <= 255
    BY <2>1 DEF x, y
  <2> QED BY <2>2, <2>3, <2>4
<1>8. PICK p \in Nat : f[k] \in Short /\ g[k] = f[k] + 65535 * p
  BY <1>1, <1>2, FoldingIsAdding
<1>9. PICK q \in Nat : e[k] \in Short /\ h[k] = e[k] + 65535 * q
  BY <1>1, <1>3, FoldingIsAdding
<1>10. f[k] \in Nat /\ e[k] \in Nat
  BY <1>8, <1>9, Ranges
<1> HIDE DEF d
<1>11. ASSUME e[k] = f[k] PROVE FALSE
  <2>1. d = 65535 * (q - p)
    BY <1>6, <1>7, <1>8, <1>9, <1>10, <1>11
  <2> DEFINE c == q - p
  <2>2. c \in Int /\ d = 65535 * c
    BY <2>1
  <2> HIDE DEF c
  <2> QED BY <1>7, <2>2
<1> QED BY <1>10, <1>11

\* checksums.py:7-9 for one byte: no other value of it has the same checksum, whatever
\* the bytes around it and however many they are.
THEOREM OneByteIsDetected ==
    ASSUME NEW data \in Seq(Byte), NEW other \in Seq(Byte), NEW j, DiffersAt(data, other, j)
    PROVE  checksum(other) # checksum(data)
<1> DEFINE a == Padded(data)
           b == Padded(other)
           k == Len(a) \div 2
<1>1. a \in Seq(Byte) /\ b \in Seq(Byte) /\ k \in Nat /\ 2 * k = Len(a)
  BY PaddedBytes
<1>2. DiffersAt(a, b, j) /\ Len(b) \div 2 = k
  <2>1. DiffersAt(a, b, j)
    BY PaddedDiffers
  <2>2. Len(b) = Len(a)
    BY <2>1 DEF DiffersAt
  <2> QED BY <2>1, <2>2
<1>3. PICK f : IsFolding(f, a, k) /\ OnesSum(data) = f[k]
  BY OnesSumFolds
<1>4. PICK e : IsFolding(e, b, k) /\ OnesSum(other) = e[k]
  BY <1>2, OnesSumFolds
<1> HIDE DEF a, b, k
<1>5. f[k] \in Nat /\ e[k] \in Nat /\ e[k] # f[k]
  BY <1>1, <1>2, <1>3, <1>4, FoldingsDiffer
<1> QED BY <1>3, <1>4, <1>5 DEF checksum

-----------------------------------------------------------------------------
(* A segment in its bytes *)

\* struct.pack of HEADER_FORMAT, byte by byte.
LEMMA PackBytes ==
    ASSUME NEW pk \in Packet, Len(pk.payload) \in Short
    PROVE  /\ Pack(pk) \in Seq(Byte)
           /\ Len(Pack(pk)) = 24 + Len(pk.payload)
           /\ Pack(pk)[1] = pk.source_port \div 256 /\ Pack(pk)[2] = pk.source_port % 256
           /\ Pack(pk)[3] = pk.destination_port \div 256 /\ Pack(pk)[4] = pk.destination_port % 256
           /\ \A i \in 1..4 : Pack(pk)[4 + i] = PackLong(pk.sequence_number)[i]
           /\ \A i \in 1..4 : Pack(pk)[8 + i] = PackLong(pk.acknowledgment_number)[i]
           /\ Pack(pk)[13] = pk.flags /\ Pack(pk)[14] = pk.header_length
           /\ Pack(pk)[15] = pk.reserved \div 256 /\ Pack(pk)[16] = pk.reserved % 256
           /\ Pack(pk)[17] = pk.window \div 256 /\ Pack(pk)[18] = pk.window % 256
           /\ Pack(pk)[19] = Len(pk.payload) \div 256 /\ Pack(pk)[20] = Len(pk.payload) % 256
           /\ \A i \in 1..4 : Pack(pk)[20 + i] = PackLong(pk.checksum)[i]
           /\ \A i \in 1..Len(pk.payload) : Pack(pk)[24 + i] = pk.payload[i]
<1> DEFINE a == PackShort(pk.source_port)
           b == PackShort(pk.destination_port)
           c == PackLong(pk.sequence_number)
           d == PackLong(pk.acknowledgment_number)
           e == <<pk.flags, pk.header_length>>
           f == PackShort(pk.reserved)
           g == PackShort(pk.window)
           h == PackShort(Len(pk.payload))
           k == PackLong(pk.checksum)
           p2 == a \o b
           p3 == p2 \o c
           p4 == p3 \o d
           p5 == p4 \o e
           p6 == p5 \o f
           p7 == p6 \o g
           p8 == p7 \o h
           p9 == p8 \o k
<1>1. Pack(pk) = p9 \o pk.payload
  BY DEF Pack
<1>2. /\ pk.source_port \in Short /\ pk.destination_port \in Short
      /\ pk.sequence_number \in Long /\ pk.acknowledgment_number \in Long
      /\ pk.flags \in Byte /\ pk.header_length \in Byte
      /\ pk.reserved \in Short /\ pk.window \in Short
      /\ pk.payload \in Seq(Byte) /\ pk.checksum \in Long
  BY DEF Packet
<1>3. /\ a \in Seq(Byte) /\ Len(a) = 2 /\ b \in Seq(Byte) /\ Len(b) = 2
      /\ f \in Seq(Byte) /\ Len(f) = 2 /\ g \in Seq(Byte) /\ Len(g) = 2
      /\ h \in Seq(Byte) /\ Len(h) = 2
  BY <1>2, PackShortBytes
<1>4. /\ c \in Seq(Byte) /\ Len(c) = 4 /\ d \in Seq(Byte) /\ Len(d) = 4
      /\ k \in Seq(Byte) /\ Len(k) = 4
  BY <1>2, PackLongBytes
<1>5. /\ e \in Seq(Byte) /\ Len(e) = 2 /\ e[1] = pk.flags /\ e[2] = pk.header_length
  BY <1>2
<1>6. /\ a[1] = pk.source_port \div 256 /\ a[2] = pk.source_port % 256
      /\ b[1] = pk.destination_port \div 256 /\ b[2] = pk.destination_port % 256
  BY <1>2, PackShortBytes
<1>7. /\ f[1] = pk.reserved \div 256 /\ f[2] = pk.reserved % 256
      /\ g[1] = pk.window \div 256 /\ g[2] = pk.window % 256
  BY <1>2, PackShortBytes
<1>8. h[1] = Len(pk.payload) \div 256 /\ h[2] = Len(pk.payload) % 256
  BY <1>2, PackShortBytes
<1> HIDE DEF a, b, c, d, e, f, g, h, k
<1>9. p2 \in Seq(Byte) /\ Len(p2) = Len(a) + Len(b)
  BY <1>3, Joined
<1>10. \A i \in 1..Len(a) : p2[i] = a[i]
  BY <1>3, Joined
<1>11. \A i \in 1..Len(b) : p2[Len(a) + i] = b[i]
  BY <1>3, Joined
<1> HIDE DEF p2
<1>12. Len(a) = 2 /\ Len(b) = 2
  BY <1>3
<1>13. p2 \in Seq(Byte) /\ Len(p2) = 4
  BY <1>9, <1>12
<1>14. \A i \in 1..2 : p2[i] = a[i]
  BY <1>10, <1>12
<1>15. \A i \in 1..2 : p2[2 + i] = b[i]
  BY <1>11, <1>12
<1>16. p3 \in Seq(Byte) /\ Len(p3) = Len(p2) + Len(c)
  BY <1>13, <1>4, Joined
<1>17. \A i \in 1..Len(p2) : p3[i] = p2[i]
  BY <1>13, <1>4, Joined
<1>18. \A i \in 1..Len(c) : p3[Len(p2) + i] = c[i]
  BY <1>13, <1>4, Joined
<1> HIDE DEF p3
<1>19. Len(p2) = 4 /\ Len(c) = 4
  BY <1>13, <1>4
<1>20. p3 \in Seq(Byte) /\ Len(p3) = 8
  BY <1>16, <1>19
<1>21. \A i \in 1..4 : p3[i] = p2[i]
  BY <1>17, <1>19
<1>22. \A i \in 1..4 : p3[4 + i] = c[i]
  BY <1>18, <1>19
<1>23. p4 \in Seq(Byte) /\ Len(p4) = Len(p3) + Len(d)
  BY <1>20, <1>4, Joined
<1>24. \A i \in 1..Len(p3) : p4[i] = p3[i]
  BY <1>20, <1>4, Joined
<1>25. \A i \in 1..Len(d) : p4[Len(p3) + i] = d[i]
  BY <1>20, <1>4, Joined
<1> HIDE DEF p4
<1>26. Len(p3) = 8 /\ Len(d) = 4
  BY <1>20, <1>4
<1>27. p4 \in Seq(Byte) /\ Len(p4) = 12
  BY <1>23, <1>26
<1>28. \A i \in 1..8 : p4[i] = p3[i]
  BY <1>24, <1>26
<1>29. \A i \in 1..4 : p4[8 + i] = d[i]
  BY <1>25, <1>26
<1>30. p5 \in Seq(Byte) /\ Len(p5) = Len(p4) + Len(e)
  BY <1>27, <1>5, Joined
<1>31. \A i \in 1..Len(p4) : p5[i] = p4[i]
  BY <1>27, <1>5, Joined
<1>32. \A i \in 1..Len(e) : p5[Len(p4) + i] = e[i]
  BY <1>27, <1>5, Joined
<1> HIDE DEF p5
<1>33. Len(p4) = 12 /\ Len(e) = 2
  BY <1>27, <1>5
<1>34. p5 \in Seq(Byte) /\ Len(p5) = 14
  BY <1>30, <1>33
<1>35. \A i \in 1..12 : p5[i] = p4[i]
  BY <1>31, <1>33
<1>36. \A i \in 1..2 : p5[12 + i] = e[i]
  BY <1>32, <1>33
<1>37. p6 \in Seq(Byte) /\ Len(p6) = Len(p5) + Len(f)
  BY <1>34, <1>3, Joined
<1>38. \A i \in 1..Len(p5) : p6[i] = p5[i]
  BY <1>34, <1>3, Joined
<1>39. \A i \in 1..Len(f) : p6[Len(p5) + i] = f[i]
  BY <1>34, <1>3, Joined
<1> HIDE DEF p6
<1>40. Len(p5) = 14 /\ Len(f) = 2
  BY <1>34, <1>3
<1>41. p6 \in Seq(Byte) /\ Len(p6) = 16
  BY <1>37, <1>40
<1>42. \A i \in 1..14 : p6[i] = p5[i]
  BY <1>38, <1>40
<1>43. \A i \in 1..2 : p6[14 + i] = f[i]
  BY <1>39, <1>40
<1>44. p7 \in Seq(Byte) /\ Len(p7) = Len(p6) + Len(g)
  BY <1>41, <1>3, Joined
<1>45. \A i \in 1..Len(p6) : p7[i] = p6[i]
  BY <1>41, <1>3, Joined
<1>46. \A i \in 1..Len(g) : p7[Len(p6) + i] = g[i]
  BY <1>41, <1>3, Joined
<1> HIDE DEF p7
<1>47. Len(p6) = 16 /\ Len(g) = 2
  BY <1>41, <1>3
<1>48. p7 \in Seq(Byte) /\ Len(p7) = 18
  BY <1>44, <1>47
<1>49. \A i \in 1..16 : p7[i] = p6[i]
  BY <1>45, <1>47
<1>50. \A i \in 1..2 : p7[16 + i] = g[i]
  BY <1>46, <1>47
<1>51. p8 \in Seq(Byte) /\ Len(p8) = Len(p7) + Len(h)
  BY <1>48, <1>3, Joined
<1>52. \A i \in 1..Len(p7) : p8[i] = p7[i]
  BY <1>48, <1>3, Joined
<1>53. \A i \in 1..Len(h) : p8[Len(p7) + i] = h[i]
  BY <1>48, <1>3, Joined
<1> HIDE DEF p8
<1>54. Len(p7) = 18 /\ Len(h) = 2
  BY <1>48, <1>3
<1>55. p8 \in Seq(Byte) /\ Len(p8) = 20
  BY <1>51, <1>54
<1>56. \A i \in 1..18 : p8[i] = p7[i]
  BY <1>52, <1>54
<1>57. \A i \in 1..2 : p8[18 + i] = h[i]
  BY <1>53, <1>54
<1>58. p9 \in Seq(Byte) /\ Len(p9) = Len(p8) + Len(k)
  BY <1>55, <1>4, Joined
<1>59. \A i \in 1..Len(p8) : p9[i] = p8[i]
  BY <1>55, <1>4, Joined
<1>60. \A i \in 1..Len(k) : p9[Len(p8) + i] = k[i]
  BY <1>55, <1>4, Joined
<1> HIDE DEF p9
<1>61. Len(p8) = 20 /\ Len(k) = 4
  BY <1>55, <1>4
<1>62. p9 \in Seq(Byte) /\ Len(p9) = 24
  BY <1>58, <1>61
<1>63. \A i \in 1..20 : p9[i] = p8[i]
  BY <1>59, <1>61
<1>64. \A i \in 1..4 : p9[20 + i] = k[i]
  BY <1>60, <1>61
<1>65. /\ p9 \o pk.payload \in Seq(Byte) /\ Len(p9 \o pk.payload) = Len(p9) + Len(pk.payload)
       /\ \A i \in 1..Len(p9) : (p9 \o pk.payload)[i] = p9[i]
       /\ \A i \in 1..Len(pk.payload) : (p9 \o pk.payload)[Len(p9) + i] = pk.payload[i]
  BY <1>2, <1>62, Joined
<1> DEFINE s == Pack(pk)
<1>66. /\ s \in Seq(Byte) /\ Len(s) = Len(p9) + Len(pk.payload)
       /\ \A i \in 1..Len(p9) : s[i] = p9[i]
       /\ \A i \in 1..Len(pk.payload) : s[Len(p9) + i] = pk.payload[i]
  BY <1>1, <1>65, Zenon
<1> HIDE DEF s
<1>67. /\ s \in Seq(Byte) /\ Len(s) = 24 + Len(pk.payload)
       /\ \A i \in 1..Len(pk.payload) : s[24 + i] = pk.payload[i]
  BY <1>66, <1>62
<1>68. \A i \in 1..24 : s[i] = p9[i]
  BY <1>66, <1>62
<1>69. s[1] = a[1] /\ s[2] = a[2]
  BY <1>14, <1>21, <1>28, <1>35, <1>42, <1>49, <1>56, <1>63, <1>68
<1>70. \A i \in 1..2 : s[2 + i] = b[i]
  <2>1. \A i \in 1..2 : s[2 + i] = p2[2 + i]
    BY <1>21, <1>28, <1>35, <1>42, <1>49, <1>56, <1>63, <1>68
  <2> QED BY <2>1, <1>15
<1>71. s[3] = b[1] /\ s[4] = b[2]
  <2>1. s[2 + 1] = b[1] /\ s[2 + 2] = b[2]
    BY <1>70
  <2> QED BY <2>1
<1>72. \A i \in 1..4 : s[4 + i] = c[i]
  <2>1. \A i \in 1..4 : s[4 + i] = p3[4 + i]
    BY <1>28, <1>35, <1>42, <1>49, <1>56, <1>63, <1>68
  <2> QED BY <2>1, <1>22
<1>73. \A i \in 1..4 : s[8 + i] = d[i]
  <2>1. \A i \in 1..4 : s[8 + i] = p4[8 + i]
    BY <1>35, <1>42, <1>49, <1>56, <1>63, <1>68
  <2> QED BY <2>1, <1>29
<1>74. \A i \in 1..2 : s[12 + i] = e[i]
  <2>1. \A i \in 1..2 : s[12 + i] = p5[12 + i]
    BY <1>42, <1>49, <1>56, <1>63, <1>68
  <2> QED BY <2>1, <1>36
<1>75. s[13] = e[1] /\ s[14] = e[2]
  <2>1. s[12 + 1] = e[1] /\ s[12 + 2] = e[2]
    BY <1>74
  <2> QED BY <2>1
<1>76. \A i \in 1..2 : s[14 + i] = f[i]
  <2>1. \A i \in 1..2 : s[14 + i] = p6[14 + i]
    BY <1>49, <1>56, <1>63, <1>68
  <2> QED BY <2>1, <1>43
<1>77. s[15] = f[1] /\ s[16] = f[2]
  <2>1. s[14 + 1] = f[1] /\ s[14 + 2] = f[2]
    BY <1>76
  <2> QED BY <2>1
<1>78. \A i \in 1..2 : s[16 + i] = g[i]
  <2>1. \A i \in 1..2 : s[16 + i] = p7[16 + i]
    BY <1>56, <1>63, <1>68
  <2> QED BY <2>1, <1>50
<1>79. s[17] = g[1] /\ s[18] = g[2]
  <2>1. s[16 + 1] = g[1] /\ s[16 + 2] = g[2]
    BY <1>78
  <2> QED BY <2>1
<1>80. \A i \in 1..2 : s[18 + i] = h[i]
  <2>1. \A i \in 1..2 : s[18 + i] = p8[18 + i]
    BY <1>63, <1>68
  <2> QED BY <2>1, <1>57
<1>81. s[19] = h[1] /\ s[20] = h[2]
  <2>1. s[18 + 1] = h[1] /\ s[18 + 2] = h[2]
    BY <1>80
  <2> QED BY <2>1
<1>82. \A i \in 1..4 : s[20 + i] = k[i]
  <2>1. \A i \in 1..4 : s[20 + i] = p9[20 + i]
    BY <1>68
  <2> QED BY <2>1, <1>64
<1> QED BY <1>5, <1>6, <1>7, <1>8, <1>67, <1>69, <1>71, <1>72, <1>73, <1>75, <1>77, <1>79, <1>81, <1>82
       DEF s, c, d, k

\* s has n at i, high byte first.
HoldsShort(s, i, n) == s[i] = n \div 256 /\ s[i + 1] = n % 256

LEMMA ReadShort ==
    ASSUME NEW s, NEW n \in Short, NEW i, HoldsShort(s, i, n)
    PROVE  ShortAt(s, i) = n
<1> DEFINE h == n \div 256
           l == n % 256
<1>1. 256 * h + l = n
  BY Halves
<1>2. ShortAt(s, i) = 256 * s[i] + s[i + 1]
  BY DEF ShortAt
<1>3. s[i] = h /\ s[i + 1] = l
  BY DEF HoldsShort
<1> HIDE DEF h, l
<1> QED BY <1>1, <1>2, <1>3

LEMMA ReadLong ==
    ASSUME NEW s, NEW n \in Long, NEW i \in Nat, \A j \in 1..4 : s[i + j] = PackLong(n)[j]
    PROVE  LongAt(s, i + 1) = n
<1>1. n[1] \in Short /\ n[2] \in Short /\ n = <<n[1], n[2]>>
  BY DEF Long
<1>2. /\ s[i + 1] = n[1] \div 256 /\ s[i + 2] = n[1] % 256
      /\ s[i + 3] = n[2] \div 256 /\ s[i + 4] = n[2] % 256
  BY PackLongBytes
<1>4. (i + 1) + 2 = i + 3
  OBVIOUS
<1>5. ShortAt(s, i + 1) = n[1] /\ ShortAt(s, i + 3) = n[2]
  <2>1. HoldsShort(s, i + 1, n[1])
    BY <1>2 DEF HoldsShort
  <2>2. HoldsShort(s, i + 3, n[2])
    BY <1>2 DEF HoldsShort
  <2> QED BY <1>1, <2>1, <2>2, ReadShort, Zenon
<1> QED BY <1>1, <1>4, <1>5, Zenon DEF LongAt

\* The fields that struct.unpack and Scapy find at their places.
LEMMA FieldsOfPack ==
    ASSUME NEW pk \in Packet, Len(pk.payload) \in Short
    PROVE  /\ ShortAt(Pack(pk), 1) = pk.source_port
           /\ ShortAt(Pack(pk), 3) = pk.destination_port
           /\ LongAt(Pack(pk), 5) = pk.sequence_number
           /\ LongAt(Pack(pk), 9) = pk.acknowledgment_number
           /\ Pack(pk)[13] = pk.flags /\ Pack(pk)[14] = pk.header_length
           /\ ShortAt(Pack(pk), 15) = pk.reserved
           /\ ShortAt(Pack(pk), 17) = pk.window
           /\ ShortAt(Pack(pk), 19) = Len(pk.payload)
           /\ LongAt(Pack(pk), 21) = pk.checksum
           /\ SubSeq(Pack(pk), 25, 24 + Len(pk.payload)) = pk.payload
<1> DEFINE s == Pack(pk)
           length == Len(pk.payload)
<1>1. /\ pk.source_port \in Short /\ pk.destination_port \in Short
      /\ pk.sequence_number \in Long /\ pk.acknowledgment_number \in Long
      /\ pk.reserved \in Short /\ pk.window \in Short
      /\ pk.payload \in Seq(Byte) /\ pk.checksum \in Long
  BY DEF Packet
<1>2. s[1] = pk.source_port \div 256 /\ s[2] = pk.source_port % 256
  BY PackBytes, ZenonT(60)
<1>3. s[3] = pk.destination_port \div 256 /\ s[4] = pk.destination_port % 256
  BY PackBytes, ZenonT(60)
<1>4. \A i \in 1..4 : s[4 + i] = PackLong(pk.sequence_number)[i]
  BY PackBytes, ZenonT(60)
<1>5. \A i \in 1..4 : s[8 + i] = PackLong(pk.acknowledgment_number)[i]
  BY PackBytes, ZenonT(60)
<1>6. s[13] = pk.flags /\ s[14] = pk.header_length
  BY PackBytes, ZenonT(60)
<1>7. s[15] = pk.reserved \div 256 /\ s[16] = pk.reserved % 256
  BY PackBytes, ZenonT(60)
<1>8. s[17] = pk.window \div 256 /\ s[18] = pk.window % 256
  BY PackBytes, ZenonT(60)
<1>9. s[19] = length \div 256 /\ s[20] = length % 256
  BY PackBytes, ZenonT(60)
<1>10. \A i \in 1..4 : s[20 + i] = PackLong(pk.checksum)[i]
  BY PackBytes, ZenonT(60)
<1>11. /\ s \in Seq(Byte) /\ Len(s) = 24 + length /\ length \in Nat
       /\ \A i \in 1..length : s[24 + i] = pk.payload[i]
  <2>1. s \in Seq(Byte) /\ Len(s) = 24 + length
    BY PackBytes, ZenonT(60)
  <2>2. \A i \in 1..length : s[24 + i] = pk.payload[i]
    BY PackBytes, ZenonT(60)
  <2>3. length \in Nat
    BY <1>1
  <2> HIDE DEF s, length
  <2> QED BY <2>1, <2>2, <2>3
<1>12. length \in Short
  OBVIOUS
<1> HIDE DEF s
<1>13. SubSeq(s, 25, 24 + length) = pk.payload
  <2> DEFINE q == pk.payload
             t == SubSeq(s, 25, 24 + length)
  <2>1. q \in Seq(Byte) /\ Len(q) = length
    BY <1>1
  <2> HIDE DEF length, q
  <2>2. /\ t \in Seq(Byte) /\ Len(t) = length
        /\ \A i \in 1..length : t[i] = s[24 + i]
    BY <1>11
  <2> HIDE DEF t
  <2>3. \A i \in 1..length : t[i] = q[i]
    BY <1>11, <2>2 DEF q
  <2>4. t = q
    BY <2>1, <2>2, <2>3
  <2> QED BY <2>4 DEF t, q
<1> HIDE DEF length
<1>14. HoldsShort(s, 1, pk.source_port) /\ HoldsShort(s, 3, pk.destination_port)
  BY <1>2, <1>3 DEF HoldsShort
<1>15. HoldsShort(s, 15, pk.reserved) /\ HoldsShort(s, 17, pk.window)
  BY <1>7, <1>8 DEF HoldsShort
<1>16. HoldsShort(s, 19, length)
  BY <1>9 DEF HoldsShort
<1>17. /\ ShortAt(s, 1) = pk.source_port /\ ShortAt(s, 3) = pk.destination_port
       /\ ShortAt(s, 15) = pk.reserved /\ ShortAt(s, 17) = pk.window
       /\ ShortAt(s, 19) = length
  BY <1>1, <1>12, <1>14, <1>15, <1>16, ReadShort, Zenon
<1>18. LongAt(s, 5) = pk.sequence_number
  <2>1. LongAt(s, 4 + 1) = pk.sequence_number
    BY <1>1, <1>4, ReadLong
  <2> QED BY <2>1
<1>19. LongAt(s, 9) = pk.acknowledgment_number
  <2>1. LongAt(s, 8 + 1) = pk.acknowledgment_number
    BY <1>1, <1>5, ReadLong
  <2> QED BY <2>1
<1>20. LongAt(s, 21) = pk.checksum
  <2>1. LongAt(s, 20 + 1) = pk.checksum
    BY <1>1, <1>10, ReadLong
  <2> QED BY <2>1
<1> QED BY <1>6, <1>13, <1>17, <1>18, <1>19, <1>20 DEF s, length

\* A packet is found again in its bytes, if header_length is what pack() takes for granted.
LEMMA UnpackPack ==
    ASSUME NEW pk \in Packet, Len(pk.payload) \in Short, pk.header_length = TTP_HEADER_SIZE
    PROVE  Complete(Pack(pk)) /\ Unpack(Pack(pk)) = pk
<1> DEFINE s == Pack(pk)
           length == Len(pk.payload)
<1>1. /\ ShortAt(s, 1) = pk.source_port /\ ShortAt(s, 3) = pk.destination_port
      /\ LongAt(s, 5) = pk.sequence_number /\ LongAt(s, 9) = pk.acknowledgment_number
      /\ s[13] = pk.flags /\ s[14] = pk.header_length
      /\ ShortAt(s, 15) = pk.reserved /\ ShortAt(s, 17) = pk.window
      /\ ShortAt(s, 19) = length /\ LongAt(s, 21) = pk.checksum
  BY FieldsOfPack, Zenon
<1>2. SubSeq(s, 25, 24 + length) = pk.payload
  BY FieldsOfPack, Zenon
<1>3. Len(s) = 24 + length
  BY PackBytes, ZenonT(60)
<1>4. length \in Nat
  BY DEF Packet
<1> HIDE DEF s, length
<1>5. Complete(s)
  BY <1>1, <1>3, <1>4 DEF Complete, TTP_HEADER_SIZE
<1>6. SubSeq(s, s[14] + 1, s[14] + ShortAt(s, 19)) = pk.payload
  <2>1. s[14] + 1 = 25 /\ s[14] + ShortAt(s, 19) = 24 + length
    BY <1>1, <1>4 DEF TTP_HEADER_SIZE
  <2> QED BY <1>2, <2>1
<1>7. Unpack(s) = pk
  <2>1. pk = [source_port |-> pk.source_port, destination_port |-> pk.destination_port,
              sequence_number |-> pk.sequence_number,
              acknowledgment_number |-> pk.acknowledgment_number,
              flags |-> pk.flags, header_length |-> pk.header_length,
              reserved |-> pk.reserved, window |-> pk.window,
              payload |-> pk.payload, checksum |-> pk.checksum]
    BY DEF Packet
  <2> QED BY <1>1, <1>6, <2>1, Zenon DEF Unpack
<1> QED BY <1>5, <1>7 DEF s

-----------------------------------------------------------------------------
(* A segment in its datagram *)

LEMMA AddressBytes ==
    ASSUME NEW a \in Address
    PROVE  a \in Seq(Byte) /\ Len(a) = 4
<1> DEFINE n == 4
<1>1. a \in [1..n -> Byte] /\ n \in Nat
  BY DEF Address
<1> HIDE DEF n
<1>2. a \in Seq(Byte) /\ Len(a) = n
  BY <1>1
<1> QED BY <1>2 DEF n

\* s is that header, byte by byte.
IsHeader(s, source, destination, length, sum) ==
    /\ s \in Seq(Byte) /\ Len(s) = 20
    /\ s[1] = 69 /\ s[2] = 0
    /\ HoldsShort(s, 3, length) /\ HoldsShort(s, 5, 54321) /\ HoldsShort(s, 7, 0)
    /\ s[9] = 64 /\ s[10] = TTP_PROTOCOL
    /\ HoldsShort(s, 11, sum)
    /\ \A i \in 1..4 : s[12 + i] = source[i]
    /\ \A i \in 1..4 : s[16 + i] = destination[i]

LEMMA HeaderBytes ==
    ASSUME NEW source \in Address, NEW destination \in Address,
           NEW length \in Short, NEW sum \in Short
    PROVE  IsHeader(IPv4Header(source, destination, length, sum),
                    source, destination, length, sum)
<1> DEFINE s == IPv4Header(source, destination, length, sum)
           a == <<69, 0>>
           b == PackShort(length)
           c == PackShort(54321)
           d == PackShort(0)
           e == <<64, TTP_PROTOCOL>>
           f == PackShort(sum)
           p2 == a \o b
           p3 == p2 \o c
           p4 == p3 \o d
           p5 == p4 \o e
           p6 == p5 \o f
           p7 == p6 \o source
           p8 == p7 \o destination
<1>1. s = p8
  BY DEF IPv4Header
<1>2. 54321 \in Short /\ 0 \in Short /\ 69 \in Byte /\ 0 \in Byte /\ 64 \in Byte /\ 253 \in Byte
  BY Ranges
<1>3. /\ b \in Seq(Byte) /\ Len(b) = 2 /\ c \in Seq(Byte) /\ Len(c) = 2
      /\ d \in Seq(Byte) /\ Len(d) = 2 /\ f \in Seq(Byte) /\ Len(f) = 2
  BY <1>2, PackShortBytes
<1>4. /\ source \in Seq(Byte) /\ Len(source) = 4
      /\ destination \in Seq(Byte) /\ Len(destination) = 4
  BY AddressBytes
<1>5. a \in Seq(Byte) /\ Len(a) = 2 /\ e \in Seq(Byte) /\ Len(e) = 2
  BY <1>2 DEF TTP_PROTOCOL
<1>0. a[1] = 69 /\ a[2] = 0 /\ e[1] = 64 /\ e[2] = TTP_PROTOCOL
  OBVIOUS
<1>6. b[1] = length \div 256 /\ b[2] = length % 256
  BY PackShortBytes
<1>7. c[1] = 54321 \div 256 /\ c[2] = 54321 % 256
  BY <1>2, PackShortBytes
<1>8. d[1] = 0 \div 256 /\ d[2] = 0 % 256 /\ f[1] = sum \div 256 /\ f[2] = sum % 256
  BY <1>2, PackShortBytes
<1> HIDE DEF a, b, c, d, e, f, s
<1>9. p2 \in Seq(Byte) /\ Len(p2) = Len(a) + Len(b)
  BY <1>5, <1>3, Joined
<1>10. \A i \in 1..Len(a) : p2[i] = a[i]
  BY <1>5, <1>3, Joined
<1>11. \A i \in 1..Len(b) : p2[Len(a) + i] = b[i]
  BY <1>5, <1>3, Joined
<1> HIDE DEF p2
<1>12. Len(a) = 2 /\ Len(b) = 2
  BY <1>5, <1>3
<1>13. p2 \in Seq(Byte) /\ Len(p2) = 4
  BY <1>9, <1>12
<1>14. \A i \in 1..2 : p2[i] = a[i]
  BY <1>10, <1>12
<1>15. \A i \in 1..2 : p2[2 + i] = b[i]
  BY <1>11, <1>12
<1>16. p3 \in Seq(Byte) /\ Len(p3) = Len(p2) + Len(c)
  BY <1>13, <1>3, Joined
<1>17. \A i \in 1..Len(p2) : p3[i] = p2[i]
  BY <1>13, <1>3, Joined
<1>18. \A i \in 1..Len(c) : p3[Len(p2) + i] = c[i]
  BY <1>13, <1>3, Joined
<1> HIDE DEF p3
<1>19. Len(p2) = 4 /\ Len(c) = 2
  BY <1>13, <1>3
<1>20. p3 \in Seq(Byte) /\ Len(p3) = 6
  BY <1>16, <1>19
<1>21. \A i \in 1..4 : p3[i] = p2[i]
  BY <1>17, <1>19
<1>22. \A i \in 1..2 : p3[4 + i] = c[i]
  BY <1>18, <1>19
<1>23. p4 \in Seq(Byte) /\ Len(p4) = Len(p3) + Len(d)
  BY <1>20, <1>3, Joined
<1>24. \A i \in 1..Len(p3) : p4[i] = p3[i]
  BY <1>20, <1>3, Joined
<1>25. \A i \in 1..Len(d) : p4[Len(p3) + i] = d[i]
  BY <1>20, <1>3, Joined
<1> HIDE DEF p4
<1>26. Len(p3) = 6 /\ Len(d) = 2
  BY <1>20, <1>3
<1>27. p4 \in Seq(Byte) /\ Len(p4) = 8
  BY <1>23, <1>26
<1>28. \A i \in 1..6 : p4[i] = p3[i]
  BY <1>24, <1>26
<1>29. \A i \in 1..2 : p4[6 + i] = d[i]
  BY <1>25, <1>26
<1>30. p5 \in Seq(Byte) /\ Len(p5) = Len(p4) + Len(e)
  BY <1>27, <1>5, Joined
<1>31. \A i \in 1..Len(p4) : p5[i] = p4[i]
  BY <1>27, <1>5, Joined
<1>32. \A i \in 1..Len(e) : p5[Len(p4) + i] = e[i]
  BY <1>27, <1>5, Joined
<1> HIDE DEF p5
<1>33. Len(p4) = 8 /\ Len(e) = 2
  BY <1>27, <1>5
<1>34. p5 \in Seq(Byte) /\ Len(p5) = 10
  BY <1>30, <1>33
<1>35. \A i \in 1..8 : p5[i] = p4[i]
  BY <1>31, <1>33
<1>36. \A i \in 1..2 : p5[8 + i] = e[i]
  BY <1>32, <1>33
<1>37. p6 \in Seq(Byte) /\ Len(p6) = Len(p5) + Len(f)
  BY <1>34, <1>3, Joined
<1>38. \A i \in 1..Len(p5) : p6[i] = p5[i]
  BY <1>34, <1>3, Joined
<1>39. \A i \in 1..Len(f) : p6[Len(p5) + i] = f[i]
  BY <1>34, <1>3, Joined
<1> HIDE DEF p6
<1>40. Len(p5) = 10 /\ Len(f) = 2
  BY <1>34, <1>3
<1>41. p6 \in Seq(Byte) /\ Len(p6) = 12
  BY <1>37, <1>40
<1>42. \A i \in 1..10 : p6[i] = p5[i]
  BY <1>38, <1>40
<1>43. \A i \in 1..2 : p6[10 + i] = f[i]
  BY <1>39, <1>40
<1>44. p7 \in Seq(Byte) /\ Len(p7) = Len(p6) + Len(source)
  BY <1>41, <1>4, Joined
<1>45. \A i \in 1..Len(p6) : p7[i] = p6[i]
  BY <1>41, <1>4, Joined
<1>46. \A i \in 1..Len(source) : p7[Len(p6) + i] = source[i]
  BY <1>41, <1>4, Joined
<1> HIDE DEF p7
<1>47. Len(p6) = 12 /\ Len(source) = 4
  BY <1>41, <1>4
<1>48. p7 \in Seq(Byte) /\ Len(p7) = 16
  BY <1>44, <1>47
<1>49. \A i \in 1..12 : p7[i] = p6[i]
  BY <1>45, <1>47
<1>50. \A i \in 1..4 : p7[12 + i] = source[i]
  BY <1>46, <1>47
<1>51. p8 \in Seq(Byte) /\ Len(p8) = Len(p7) + Len(destination)
  BY <1>48, <1>4, Joined
<1>52. \A i \in 1..Len(p7) : p8[i] = p7[i]
  BY <1>48, <1>4, Joined
<1>53. \A i \in 1..Len(destination) : p8[Len(p7) + i] = destination[i]
  BY <1>48, <1>4, Joined
<1> HIDE DEF p8
<1>54. Len(p7) = 16 /\ Len(destination) = 4
  BY <1>48, <1>4
<1>55. p8 \in Seq(Byte) /\ Len(p8) = 20
  BY <1>51, <1>54
<1>56. \A i \in 1..16 : p8[i] = p7[i]
  BY <1>52, <1>54
<1>57. \A i \in 1..4 : p8[16 + i] = destination[i]
  BY <1>53, <1>54
<1>58. s[1] = a[1] /\ s[2] = a[2]
  BY <1>1, <1>14, <1>21, <1>28, <1>35, <1>42, <1>49, <1>56
<1>59. \A i \in 1..2 : s[2 + i] = b[i]
  <2>1. \A i \in 1..2 : s[2 + i] = p2[2 + i]
    BY <1>1, <1>21, <1>28, <1>35, <1>42, <1>49, <1>56
  <2> QED BY <2>1, <1>15
<1>60. \A i \in 1..2 : s[4 + i] = c[i]
  <2>1. \A i \in 1..2 : s[4 + i] = p3[4 + i]
    BY <1>1, <1>28, <1>35, <1>42, <1>49, <1>56
  <2> QED BY <2>1, <1>22
<1>61. \A i \in 1..2 : s[6 + i] = d[i]
  <2>1. \A i \in 1..2 : s[6 + i] = p4[6 + i]
    BY <1>1, <1>35, <1>42, <1>49, <1>56
  <2> QED BY <2>1, <1>29
<1>62. \A i \in 1..2 : s[8 + i] = e[i]
  <2>1. \A i \in 1..2 : s[8 + i] = p5[8 + i]
    BY <1>1, <1>42, <1>49, <1>56
  <2> QED BY <2>1, <1>36
<1>63. \A i \in 1..2 : s[10 + i] = f[i]
  <2>1. \A i \in 1..2 : s[10 + i] = p6[10 + i]
    BY <1>1, <1>49, <1>56
  <2> QED BY <2>1, <1>43
<1>64. \A i \in 1..4 : s[12 + i] = source[i]
  <2>1. \A i \in 1..4 : s[12 + i] = p7[12 + i]
    BY <1>1, <1>56
  <2> QED BY <2>1, <1>50
<1>65. \A i \in 1..4 : s[16 + i] = destination[i]
  BY <1>1, <1>57
<1>66. HoldsShort(s, 3, length) /\ HoldsShort(s, 5, 54321)
  <2>1. s[2 + 1] = b[1] /\ s[2 + 2] = b[2]
    BY <1>59
  <2>2. s[4 + 1] = c[1] /\ s[4 + 2] = c[2]
    BY <1>60
  <2> QED BY <1>6, <1>7, <2>1, <2>2 DEF HoldsShort
<1>67. HoldsShort(s, 7, 0) /\ HoldsShort(s, 11, sum)
  <2>1. s[6 + 1] = d[1] /\ s[6 + 2] = d[2]
    BY <1>61
  <2>2. s[10 + 1] = f[1] /\ s[10 + 2] = f[2]
    BY <1>63
  <2> QED BY <1>8, <2>1, <2>2 DEF HoldsShort
<1>68. s[9] = 64 /\ s[10] = TTP_PROTOCOL
  <2>1. s[8 + 1] = e[1] /\ s[8 + 2] = e[2]
    BY <1>62
  <2> QED BY <1>0, <2>1
<1>69. s \in Seq(Byte) /\ Len(s) = 20
  BY <1>1, <1>55
<1> QED BY <1>0, <1>58, <1>64, <1>65, <1>66, <1>67, <1>68, <1>69 DEF IsHeader, s

\* part lies in raw after n bytes.
IsAt(raw, part, n) ==
    n + Len(part) <= Len(raw) /\ \A i \in 1..Len(part) : raw[n + i] = part[i]

LEMMA Slice ==
    ASSUME NEW raw \in Seq(Byte), NEW part \in Seq(Byte), NEW n \in Nat, IsAt(raw, part, n)
    PROVE  SubSeq(raw, n + 1, n + Len(part)) = part
<1> DEFINE t == SubSeq(raw, n + 1, n + Len(part))
<1>1. n + Len(part) <= Len(raw) /\ \A i \in 1..Len(part) : raw[n + i] = part[i]
  BY DEF IsAt
<1>2. /\ t \in Seq(Byte) /\ Len(t) = Len(part)
      /\ \A i \in 1..Len(part) : t[i] = raw[n + i]
  BY <1>1
<1> HIDE DEF t
<1>3. t = part
  BY <1>1, <1>2
<1> QED BY <1>3 DEF t

\* raw is a datagram around segment, from source to destination.
Carries(raw, source, destination, segment) ==
    /\ raw \in Seq(Byte) /\ segment \in Seq(Byte)
    /\ Len(raw) = 20 + Len(segment)
    /\ raw[1] = 69 /\ raw[10] = TTP_PROTOCOL /\ ShortAt(raw, 3) = Len(raw)
    /\ \A i \in 1..4 : raw[12 + i] = source[i]
    /\ \A i \in 1..4 : raw[16 + i] = destination[i]
    /\ \A i \in 1..Len(segment) : raw[20 + i] = segment[i]

LEMMA IPv4Carries ==
    ASSUME NEW source \in Address, NEW destination \in Address,
           NEW payload \in Seq(Byte), 20 + Len(payload) \in Short
    PROVE  /\ Carries(IPv4Pack(source, destination, payload), source, destination, payload)
           /\ \E sum \in Short :
                /\ sum = checksum(IPv4Header(source, destination, 20 + Len(payload), 0))
                /\ SubSeq(IPv4Pack(source, destination, payload), 1, 20) =
                     IPv4Header(source, destination, 20 + Len(payload), sum)
<1> DEFINE length == 20 + Len(payload)
           unsummed == IPv4Header(source, destination, length, 0)
           sum == checksum(unsummed)
           header == IPv4Header(source, destination, length, sum)
           raw == header \o payload
<1>1. IPv4Pack(source, destination, payload) = raw
  BY DEF IPv4Pack, IPV4_SIZE
<1>2. length \in Short /\ 0 \in Short
  BY Ranges
<1>3. Len(payload) \in Nat /\ length = 20 + Len(payload)
  OBVIOUS
<1> HIDE DEF length
<1>4. unsummed \in Seq(Byte)
  <2>1. IsHeader(unsummed, source, destination, length, 0)
    BY <1>2, HeaderBytes, Zenon
  <2> QED BY <2>1 DEF IsHeader
<1> HIDE DEF unsummed
<1>5. sum \in Short
  BY <1>4, OnesSumIsShort, Zenon
<1> HIDE DEF sum
<1>6. IsHeader(header, source, destination, length, sum)
  BY <1>2, <1>5, HeaderBytes, Zenon
<1> HIDE DEF header
<1>7. header \in Seq(Byte) /\ Len(header) = 20
  BY <1>6 DEF IsHeader
<1>8. /\ raw \in Seq(Byte) /\ Len(raw) = length
      /\ \A i \in 1..20 : raw[i] = header[i]
      /\ \A i \in 1..Len(payload) : raw[20 + i] = payload[i]
  <2>1. raw \in Seq(Byte) /\ Len(raw) = Len(header) + Len(payload)
    BY <1>7, Joined
  <2>2. \A i \in 1..Len(header) : raw[i] = header[i]
    BY <1>7, Joined
  <2>3. \A i \in 1..Len(payload) : raw[Len(header) + i] = payload[i]
    BY <1>7, Joined
  <2>4. Len(header) = 20
    BY <1>7
  <2> HIDE DEF raw, header
  <2>5. \A i \in 1..20 : raw[i] = header[i]
    BY <2>2, <2>4
  <2>6. \A i \in 1..Len(payload) : raw[20 + i] = payload[i]
    BY <2>3, <2>4
  <2>7. Len(raw) = length
    BY <1>3, <2>1, <2>4
  <2> QED BY <2>1, <2>5, <2>6, <2>7
<1> HIDE DEF raw
<1>9. raw[1] = 69 /\ raw[10] = TTP_PROTOCOL
  <2>1. header[1] = 69 /\ header[10] = TTP_PROTOCOL
    BY <1>6 DEF IsHeader
  <2>2. raw[1] = header[1] /\ raw[10] = header[10]
    BY <1>8
  <2> QED BY <2>1, <2>2
<1>10. /\ \A i \in 1..4 : raw[12 + i] = source[i]
       /\ \A i \in 1..4 : raw[16 + i] = destination[i]
  <2>1. /\ \A i \in 1..4 : header[12 + i] = source[i]
        /\ \A i \in 1..4 : header[16 + i] = destination[i]
    BY <1>6 DEF IsHeader
  <2> QED BY <1>8, <2>1
<1>11. ShortAt(raw, 3) = length
  <2>1. HoldsShort(header, 3, length)
    BY <1>6 DEF IsHeader
  <2>2. raw[3] = header[3] /\ raw[4] = header[4]
    BY <1>8
  <2>3. HoldsShort(raw, 3, length)
    BY <2>1, <2>2 DEF HoldsShort
  <2> QED BY <1>2, <2>3, ReadShort, Zenon
<1>12. Carries(raw, source, destination, payload)
  BY <1>3, <1>8, <1>9, <1>10, <1>11 DEF Carries
<1>13. SubSeq(raw, 1, 20) = header
  <2> DEFINE n == 0
  <2>1. n \in Nat /\ n + 1 = 1 /\ n + Len(header) = 20 /\ 20 <= Len(raw)
    BY <1>3, <1>7, <1>8
  <2>2. \A i \in 1..Len(header) : n + i = i /\ i \in 1..20
    BY <1>7
  <2> HIDE DEF n
  <2>3. \A i \in 1..Len(header) : raw[n + i] = header[i]
    BY <1>8, <2>2
  <2>4. IsAt(raw, header, n)
    BY <2>1, <2>3 DEF IsAt
  <2>5. SubSeq(raw, n + 1, n + Len(header)) = header
    BY <1>7, <1>8, <2>1, <2>4, Slice
  <2> QED BY <2>1, <2>5
<1> QED BY <1>1, <1>5, <1>12, <1>13, Zenon DEF length, unsummed, sum, header, raw

\* What a receiver finds in it.
LEMMA CarriedIsFound ==
    ASSUME NEW raw, NEW source \in Address, NEW destination \in Address, NEW segment,
           Carries(raw, source, destination, segment)
    PROVE  /\ IsTTPDatagram(raw)
           /\ SourceOf(raw) = source /\ DestinationOf(raw) = destination
           /\ PayloadOf(raw) = segment
<1>1. /\ raw \in Seq(Byte) /\ segment \in Seq(Byte) /\ Len(segment) \in Nat
      /\ Len(raw) = 20 + Len(segment)
      /\ raw[1] = 69 /\ raw[10] = TTP_PROTOCOL /\ ShortAt(raw, 3) = Len(raw)
  BY DEF Carries
<1>2. /\ \A i \in 1..4 : raw[12 + i] = source[i]
      /\ \A i \in 1..4 : raw[16 + i] = destination[i]
      /\ \A i \in 1..Len(segment) : raw[20 + i] = segment[i]
  BY DEF Carries
<1>3. raw[1] \div 16 = 4 /\ raw[1] % 16 = 5
  BY <1>1
<1>4. IsTTPDatagram(raw)
  BY <1>1, <1>3 DEF IsTTPDatagram, IPV4_SIZE
<1>5. /\ source \in Seq(Byte) /\ Len(source) = 4
      /\ destination \in Seq(Byte) /\ Len(destination) = 4
  BY AddressBytes
<1>6. SourceOf(raw) = source
  <2>1. IsAt(raw, source, 12)
    <3>1. \A i \in 1..Len(source) : raw[12 + i] = source[i]
      BY <1>2, <1>5
    <3>2. 12 + Len(source) <= Len(raw)
      BY <1>1, <1>5
    <3> QED BY <3>1, <3>2 DEF IsAt
  <2>2. raw \in Seq(Byte) /\ source \in Seq(Byte)
    BY <1>1, <1>5
  <2>3. SubSeq(raw, 12 + 1, 12 + Len(source)) = source
    BY <2>1, <2>2, Slice
  <2> QED BY <1>5, <2>3 DEF SourceOf
<1>7. DestinationOf(raw) = destination
  <2>1. IsAt(raw, destination, 16)
    <3>1. \A i \in 1..Len(destination) : raw[16 + i] = destination[i]
      BY <1>2, <1>5
    <3>2. 16 + Len(destination) <= Len(raw)
      BY <1>1, <1>5
    <3> QED BY <3>1, <3>2 DEF IsAt
  <2>2. raw \in Seq(Byte) /\ destination \in Seq(Byte)
    BY <1>1, <1>5
  <2>3. SubSeq(raw, 16 + 1, 16 + Len(destination)) = destination
    BY <2>1, <2>2, Slice
  <2> QED BY <1>5, <2>3 DEF DestinationOf
<1>8. PayloadOf(raw) = segment
  <2>1. IsAt(raw, segment, 20)
    BY <1>1, <1>2 DEF IsAt
  <2>2. SubSeq(raw, 20 + 1, 20 + Len(segment)) = segment
    BY <1>1, <2>1, Slice
  <2> QED BY <1>1, <1>3, <2>2 DEF PayloadOf
<1> QED BY <1>4, <1>6, <1>7, <1>8

\* One byte of the segment altered is that byte of what is found altered.
LEMMA CarriedAltered ==
    ASSUME NEW raw, NEW source, NEW destination, NEW segment,
           Carries(raw, source, destination, segment),
           NEW i \in 1..Len(segment), NEW byte \in Byte
    PROVE  Carries([raw EXCEPT ![IPV4_SIZE + i] = byte], source, destination,
                   [segment EXCEPT ![i] = byte])
<1> DEFINE r == [raw EXCEPT ![IPV4_SIZE + i] = byte]
           s == [segment EXCEPT ![i] = byte]
<1>1. /\ raw \in Seq(Byte) /\ segment \in Seq(Byte) /\ Len(segment) \in Nat
      /\ Len(raw) = 20 + Len(segment)
      /\ raw[1] = 69 /\ raw[10] = TTP_PROTOCOL /\ ShortAt(raw, 3) = Len(raw)
  BY DEF Carries
<1>2. /\ \A j \in 1..4 : raw[12 + j] = source[j]
      /\ \A j \in 1..4 : raw[16 + j] = destination[j]
      /\ \A j \in 1..Len(segment) : raw[20 + j] = segment[j]
  BY DEF Carries
<1>3. /\ r \in Seq(Byte) /\ Len(r) = Len(raw)
      /\ \A j \in 1..Len(raw) : r[j] = IF j = 20 + i THEN byte ELSE raw[j]
  BY <1>1 DEF IPV4_SIZE
<1>4. /\ s \in Seq(Byte) /\ Len(s) = Len(segment)
      /\ \A j \in 1..Len(segment) : s[j] = IF j = i THEN byte ELSE segment[j]
  BY <1>1
<1> HIDE DEF r, s
<1>5. \A j \in 1..20 : r[j] = raw[j]
  BY <1>1, <1>3
<1>6. r[1] = 69 /\ r[10] = TTP_PROTOCOL /\ r[3] = raw[3] /\ r[4] = raw[4]
  <2>1. r[1] = raw[1] /\ r[10] = raw[10] /\ r[3] = raw[3] /\ r[4] = raw[4]
    BY <1>5
  <2> QED BY <1>1, <2>1, Zenon
<1>7. ShortAt(r, 3) = ShortAt(raw, 3)
  BY <1>6 DEF ShortAt
<1>8. /\ \A j \in 1..4 : r[12 + j] = source[j]
      /\ \A j \in 1..4 : r[16 + j] = destination[j]
  BY <1>2, <1>5
<1>9. \A j \in 1..Len(segment) : r[20 + j] = s[j]
  <2>1. TAKE j \in 1..Len(segment)
  <2>2. 20 + j \in 1..Len(raw) /\ (20 + j = 20 + i <=> j = i)
    BY <1>1
  <2> QED BY <1>2, <1>3, <1>4, <2>2
<1>10. Carries(r, source, destination, s)
  BY <1>1, <1>3, <1>4, <1>6, <1>7, <1>8, <1>9 DEF Carries
<1> QED BY <1>10 DEF r, s

-----------------------------------------------------------------------------
(* The checksum of a segment *)

LEMMA PseudoHeaderBytes ==
    ASSUME NEW source \in Address, NEW destination \in Address, NEW length \in Short
    PROVE  /\ PseudoHeader(source, destination, length) \in Seq(Byte)
           /\ Len(PseudoHeader(source, destination, length)) = 12
<1> DEFINE a == source \o destination
           b == <<0, TTP_PROTOCOL>>
           c == PackShort(length)
           d == a \o b
           e == d \o c
<1>1. /\ source \in Seq(Byte) /\ Len(source) = 4
      /\ destination \in Seq(Byte) /\ Len(destination) = 4
  BY AddressBytes
<1>2. b \in Seq(Byte) /\ Len(b) = 2
  <2>1. 0 \in Byte /\ 253 \in Byte
    BY Ranges
  <2> QED BY <2>1 DEF TTP_PROTOCOL
<1>3. c \in Seq(Byte) /\ Len(c) = 2
  BY PackShortBytes
<1>4. PseudoHeader(source, destination, length) = e
  BY DEF PseudoHeader
<1>5. a \in Seq(Byte) /\ Len(a) = Len(source) + Len(destination)
  BY <1>1, Joined
<1> HIDE DEF a, b, c
<1>6. d \in Seq(Byte) /\ Len(d) = Len(a) + Len(b)
  BY <1>2, <1>5, Joined
<1> HIDE DEF d
<1>7. e \in Seq(Byte) /\ Len(e) = Len(d) + Len(c)
  BY <1>3, <1>6, Joined
<1> HIDE DEF e
<1>8. Len(e) = 12
  BY <1>1, <1>2, <1>3, <1>5, <1>6, <1>7
<1> QED BY <1>4, <1>7, <1>8

LEMMA SumIsLong ==
    ASSUME NEW source \in Address, NEW destination \in Address,
           NEW data \in Seq(Byte), Len(data) \in Short
    PROVE  TTPChecksum(source, destination, data) \in Long
<1> DEFINE p == PseudoHeader(source, destination, Len(data))
           sum == checksum(p \o data)
<1>1. p \in Seq(Byte)
  BY PseudoHeaderBytes
<1> HIDE DEF p
<1>2. p \o data \in Seq(Byte)
  BY <1>1
<1>3. sum \in Short
  BY <1>2, OnesSumIsShort
<1> HIDE DEF sum
<1>4. 0 \in Short
  BY Ranges
<1>5. <<0, sum>> \in Long
  BY <1>3, <1>4 DEF Long
<1> QED BY <1>5 DEF TTPChecksum, sum, p

\* socket.py:64-72, for one byte of the segment.
LEMMA SegmentSumsDiffer ==
    ASSUME NEW source \in Address, NEW destination \in Address,
           NEW data \in Seq(Byte), Len(data) \in Short, NEW other \in Seq(Byte),
           NEW j, DiffersAt(data, other, j)
    PROVE  TTPChecksum(source, destination, other) # TTPChecksum(source, destination, data)
<1> DEFINE p == PseudoHeader(source, destination, Len(data))
           a == p \o data
           b == p \o other
<1>1. p \in Seq(Byte) /\ Len(p) = 12
  BY PseudoHeaderBytes
<1>2. /\ Len(other) = Len(data) /\ j \in 1..Len(data) /\ other[j] # data[j]
      /\ \A i \in 1..Len(data) : i # j => other[i] = data[i]
  BY DEF DiffersAt
<1>3. /\ TTPChecksum(source, destination, data) = <<0, checksum(a)>>
      /\ TTPChecksum(source, destination, other) = <<0, checksum(b)>>
  BY <1>2 DEF TTPChecksum
<1> HIDE DEF p
<1>4. /\ a \in Seq(Byte) /\ Len(a) = Len(p) + Len(data)
      /\ \A i \in 1..Len(p) : a[i] = p[i]
      /\ \A i \in 1..Len(data) : a[Len(p) + i] = data[i]
  BY <1>1, Joined
<1>5. /\ b \in Seq(Byte) /\ Len(b) = Len(p) + Len(other)
      /\ \A i \in 1..Len(p) : b[i] = p[i]
      /\ \A i \in 1..Len(other) : b[Len(p) + i] = other[i]
  BY <1>1, Joined
<1> HIDE DEF a, b
<1> DEFINE n == Len(data)
           m == Len(p) + j
<1>6. n \in Nat /\ Len(p) \in Nat
  BY <1>1
<1>7. m \in 1..Len(a) /\ b[m] # a[m] /\ Len(b) = Len(a)
  <2>1. Len(b) = Len(a) /\ Len(a) = Len(p) + n
    BY <1>2, <1>4, <1>5
  <2>2. j \in 1..n /\ j \in 1..Len(other)
    BY <1>2
  <2>3. m \in 1..Len(a)
    BY <1>6, <2>1, <2>2
  <2>4. a[m] = data[j] /\ b[m] = other[j]
    BY <1>4, <1>5, <2>2
  <2> QED BY <1>2, <2>1, <2>3, <2>4
<1>8. ASSUME NEW i \in 1..Len(a), i # m PROVE b[i] = a[i]
  <2>1. CASE i <= Len(p)
    BY <1>4, <1>5, <1>6, <2>1
  <2>2. CASE i > Len(p)
    <3> DEFINE k == i - Len(p)
    <3>1. k \in 1..Len(data) /\ i = Len(p) + k /\ k # j
      BY <1>2, <1>4, <1>6, <1>8, <2>2
    <3> HIDE DEF k
    <3> QED BY <1>2, <1>4, <1>5, <3>1
  <2> QED BY <1>6, <2>1, <2>2
<1>9. DiffersAt(a, b, m)
  BY <1>7, <1>8 DEF DiffersAt
<1>10. checksum(b) # checksum(a)
  BY <1>4, <1>5, <1>9, OneByteIsDetected, Zenon
<1> QED BY <1>3, <1>10

LEMMA WordBytes ==
    ASSUME NEW data \in Seq(Byte), NEW i \in Nat, i # 0, i + 1 <= Len(data)
    PROVE  ShortAt(data, i) \in Short /\ HoldsShort(data, i, ShortAt(data, i))
<1>1. data[i] \in Byte /\ data[i + 1] \in Byte
  OBVIOUS
<1> QED BY <1>1, HalvesAgain DEF ShortAt, HoldsShort

LEMMA LongBytes ==
    ASSUME NEW data \in Seq(Byte), NEW k \in Nat, k # 0, k + 3 <= Len(data)
    PROVE  /\ LongAt(data, k) \in Long
           /\ \A j \in 1..4 : PackLong(LongAt(data, k))[j] = data[k - 1 + j]
<1> DEFINE n == LongAt(data, k)
           v == ShortAt(data, k)
           w == ShortAt(data, k + 2)
<1>1. n = <<v, w>>
  BY DEF LongAt
<1>2. v \in Short /\ HoldsShort(data, k, v)
  BY WordBytes
<1>3. w \in Short /\ HoldsShort(data, k + 2, w)
  BY WordBytes
<1>4. /\ data[k] = v \div 256 /\ data[k + 1] = v % 256
      /\ data[k + 2] = w \div 256 /\ data[k + 3] = w % 256
  BY <1>2, <1>3 DEF HoldsShort
<1> HIDE DEF v, w
<1>5. <<v, w>> \in Long /\ <<v, w>>[1] = v /\ <<v, w>>[2] = w
  BY <1>2, <1>3 DEF Long
<1> HIDE DEF n
<1>6. n \in Long /\ n[1] = v /\ n[2] = w
  BY <1>1, <1>5
<1>7. /\ PackLong(n)[1] = v \div 256 /\ PackLong(n)[2] = v % 256
      /\ PackLong(n)[3] = w \div 256 /\ PackLong(n)[4] = w % 256
  BY <1>6, PackLongBytes
<1>8. \A j \in 1..4 : PackLong(n)[j] = data[k - 1 + j]
  BY <1>4, <1>7
<1> QED BY <1>6, <1>8 DEF n

\* A segment whose lengths say what its bytes are.
WellFormed(data) ==
    /\ data \in Seq(Byte) /\ Len(data) >= 24 /\ Len(data) - 24 \in Short
    /\ data[14] = 24 /\ ShortAt(data, 19) = Len(data) - 24

LEMMA PackIsWellFormed ==
    ASSUME NEW pk \in Packet, Len(pk.payload) \in Short, pk.header_length = TTP_HEADER_SIZE
    PROVE  WellFormed(Pack(pk))
<1> DEFINE s == Pack(pk)
           length == Len(pk.payload)
<1>1. s \in Seq(Byte) /\ Len(s) = 24 + length
  BY PackBytes, ZenonT(60)
<1>2. s[14] = pk.header_length /\ ShortAt(s, 19) = length
  BY FieldsOfPack, Zenon
<1>3. length \in Nat /\ length \in Short
  BY DEF Packet
<1> HIDE DEF s, length
<1>4. Len(s) - 24 = length
  BY <1>1, <1>3
<1>5. WellFormed(s)
  BY <1>1, <1>2, <1>3, <1>4 DEF WellFormed, TTP_HEADER_SIZE
<1> QED BY <1>5 DEF s

LEMMA UnpackedFields ==
    ASSUME NEW data, WellFormed(data)
    PROVE  /\ Unpack(data) \in Packet
           /\ Len(Unpack(data).payload) = Len(data) - 24
           /\ \A j \in 1..Len(data) - 24 : Unpack(data).payload[j] = data[24 + j]
           /\ Unpack(data).header_length = TTP_HEADER_SIZE
<1> DEFINE t == SubSeq(data, data[14] + 1, data[14] + ShortAt(data, 19))
           n == Len(data) - 24
<1>1. data \in Seq(Byte) /\ Len(data) = 24 + n /\ n \in Nat /\ n \in Short
  BY DEF WellFormed
<1>2. t = SubSeq(data, 25, 24 + n)
  BY DEF WellFormed
<1> HIDE DEF n
<1>3. SubSeq(data, 25, 24 + n) \in Seq(Byte) /\ Len(SubSeq(data, 25, 24 + n)) = n
  BY <1>1
<1>4. \A j \in 1..n : SubSeq(data, 25, 24 + n)[j] = data[24 + j]
  BY <1>1
<1> HIDE DEF t
<1>5. t \in Seq(Byte) /\ Len(t) = n /\ \A j \in 1..n : t[j] = data[24 + j]
  BY <1>2, <1>3, <1>4
<1>6. /\ ShortAt(data, 1) \in Short /\ ShortAt(data, 3) \in Short
      /\ ShortAt(data, 15) \in Short /\ ShortAt(data, 17) \in Short
  BY <1>1, WordBytes
<1>7. LongAt(data, 5) \in Long /\ LongAt(data, 9) \in Long /\ LongAt(data, 21) \in Long
  BY <1>1, LongBytes
<1>8. data[13] \in Byte /\ data[14] \in Byte
  BY <1>1
<1> DEFINE pk == Unpack(data)
<1>9. pk = [source_port |-> ShortAt(data, 1), destination_port |-> ShortAt(data, 3),
            sequence_number |-> LongAt(data, 5), acknowledgment_number |-> LongAt(data, 9),
            flags |-> data[13], header_length |-> data[14], reserved |-> ShortAt(data, 15),
            window |-> ShortAt(data, 17), payload |-> t, checksum |-> LongAt(data, 21)]
  BY DEF Unpack, t
<1> HIDE DEF pk
<1>10. pk \in Packet
  BY <1>5, <1>6, <1>7, <1>8, <1>9, Zenon DEF Packet
<1>11. pk.payload = t /\ pk.header_length = data[14]
  BY <1>9
<1>12. data[14] = 24
  BY DEF WellFormed
<1> QED BY <1>5, <1>10, <1>11, <1>12 DEF pk, n, TTP_HEADER_SIZE

\* data, but for the checksum.
Resummed(s, data, sum) ==
    /\ s \in Seq(Byte) /\ Len(s) = Len(data)
    /\ \A j \in 1..Len(data) : j \notin 21..24 => s[j] = data[j]
    /\ \A j \in 1..4 : s[20 + j] = PackLong(sum)[j]

\* _validate_ttp_checksum() unpacks and packs again: nothing else changes.
LEMMA PackUnpack ==
    ASSUME NEW data, WellFormed(data), NEW sum \in Long
    PROVE  /\ Resummed(Pack([Unpack(data) EXCEPT !.checksum = sum]), data, sum)
           /\ [Unpack(data) EXCEPT !.checksum = sum] \in Packet
<1> DEFINE u == Unpack(data)
           q == [u EXCEPT !.checksum = sum]
           s == Pack(q)
           n == Len(data) - 24
<1>1. data \in Seq(Byte) /\ Len(data) = 24 + n /\ n \in Nat /\ n \in Short
  BY DEF WellFormed
<1>2. data[14] = 24 /\ ShortAt(data, 19) = n
  BY DEF WellFormed
<1>3. u \in Packet /\ Len(u.payload) = n /\ \A j \in 1..n : u.payload[j] = data[24 + j]
  BY UnpackedFields
<1>4. /\ u.source_port = ShortAt(data, 1) /\ u.destination_port = ShortAt(data, 3)
      /\ u.sequence_number = LongAt(data, 5) /\ u.acknowledgment_number = LongAt(data, 9)
      /\ u.flags = data[13] /\ u.header_length = data[14]
      /\ u.reserved = ShortAt(data, 15) /\ u.window = ShortAt(data, 17)
  BY DEF Unpack
<1> HIDE DEF u, n
<1>5. /\ q.source_port = u.source_port /\ q.destination_port = u.destination_port
      /\ q.sequence_number = u.sequence_number
      /\ q.acknowledgment_number = u.acknowledgment_number
      /\ q.flags = u.flags /\ q.header_length = u.header_length
      /\ q.reserved = u.reserved /\ q.window = u.window /\ q.payload = u.payload
      /\ q.checksum = sum
  BY <1>3 DEF Packet
<1>6. q \in Packet
  BY <1>3 DEF Packet
<1> HIDE DEF q
<1>7. Len(q.payload) \in Short
  BY <1>1, <1>3, <1>5
<1>8. s \in Seq(Byte) /\ Len(s) = 24 + Len(q.payload)
  BY <1>6, <1>7, PackBytes, ZenonT(60)
<1>9. s[1] = q.source_port \div 256 /\ s[2] = q.source_port % 256
  BY <1>6, <1>7, PackBytes, ZenonT(60)
<1>10. s[3] = q.destination_port \div 256 /\ s[4] = q.destination_port % 256
  BY <1>6, <1>7, PackBytes, ZenonT(60)
<1>11. \A i \in 1..4 : s[4 + i] = PackLong(q.sequence_number)[i]
  BY <1>6, <1>7, PackBytes, ZenonT(60)
<1>12. \A i \in 1..4 : s[8 + i] = PackLong(q.acknowledgment_number)[i]
  BY <1>6, <1>7, PackBytes, ZenonT(60)
<1>13. s[13] = q.flags /\ s[14] = q.header_length
  BY <1>6, <1>7, PackBytes, ZenonT(60)
<1>14. s[15] = q.reserved \div 256 /\ s[16] = q.reserved % 256
  BY <1>6, <1>7, PackBytes, ZenonT(60)
<1>15. s[17] = q.window \div 256 /\ s[18] = q.window % 256
  BY <1>6, <1>7, PackBytes, ZenonT(60)
<1>16. s[19] = Len(q.payload) \div 256 /\ s[20] = Len(q.payload) % 256
  BY <1>6, <1>7, PackBytes, ZenonT(60)
<1>17. \A i \in 1..4 : s[20 + i] = PackLong(sum)[i]
  BY <1>5, <1>6, <1>7, PackBytes, ZenonT(60)
<1>18. \A i \in 1..Len(q.payload) : s[24 + i] = q.payload[i]
  BY <1>6, <1>7, PackBytes, ZenonT(60)
<1> HIDE DEF s
<1> DEFINE Same(i) == s[i] = data[i]
<1>19. ASSUME NEW i \in Nat, i # 0, i + 1 <= Len(data), HoldsShort(s, i, ShortAt(data, i))
       PROVE  Same(i) /\ Same(i + 1)
  <2>1. HoldsShort(data, i, ShortAt(data, i))
    BY <1>1, <1>19, WordBytes
  <2> QED BY <1>19, <2>1 DEF HoldsShort
<1>20. Same(1) /\ Same(2)
  <2>1. HoldsShort(s, 1, ShortAt(data, 1))
    BY <1>4, <1>5, <1>9 DEF HoldsShort
  <2>2. Same(1) /\ Same(1 + 1)
    BY <1>1, <1>19, <2>1
  <2> QED BY <2>2
<1>21. Same(3) /\ Same(4)
  <2>1. HoldsShort(s, 3, ShortAt(data, 3))
    BY <1>4, <1>5, <1>10 DEF HoldsShort
  <2>2. Same(3) /\ Same(3 + 1)
    BY <1>1, <1>19, <2>1
  <2> QED BY <2>2
<1>22. Same(15) /\ Same(16)
  <2>1. HoldsShort(s, 15, ShortAt(data, 15))
    BY <1>4, <1>5, <1>14 DEF HoldsShort
  <2>2. Same(15) /\ Same(15 + 1)
    BY <1>1, <1>19, <2>1
  <2> QED BY <2>2
<1>23. Same(17) /\ Same(18)
  <2>1. HoldsShort(s, 17, ShortAt(data, 17))
    BY <1>4, <1>5, <1>15 DEF HoldsShort
  <2>2. Same(17) /\ Same(17 + 1)
    BY <1>1, <1>19, <2>1
  <2> QED BY <2>2
<1>24. Same(19) /\ Same(20)
  <2>1. Len(q.payload) = ShortAt(data, 19)
    BY <1>2, <1>3, <1>5
  <2>2. HoldsShort(s, 19, ShortAt(data, 19))
    BY <1>16, <2>1 DEF HoldsShort
  <2>3. Same(19) /\ Same(19 + 1)
    BY <1>1, <1>19, <2>2
  <2> QED BY <2>3
<1>25. Same(5) /\ Same(6) /\ Same(7) /\ Same(8)
  <2>1. \A j \in 1..4 : PackLong(LongAt(data, 5))[j] = data[5 - 1 + j]
    BY <1>1, LongBytes
  <2>2. q.sequence_number = LongAt(data, 5)
    BY <1>4, <1>5
  <2>3. \A j \in 1..4 : s[4 + j] = data[4 + j]
    BY <1>11, <2>1, <2>2
  <2> QED BY <2>3
<1>26. Same(9) /\ Same(10) /\ Same(11) /\ Same(12)
  <2>1. \A j \in 1..4 : PackLong(LongAt(data, 9))[j] = data[9 - 1 + j]
    BY <1>1, LongBytes
  <2>2. q.acknowledgment_number = LongAt(data, 9)
    BY <1>4, <1>5
  <2>3. \A j \in 1..4 : s[8 + j] = data[8 + j]
    BY <1>12, <2>1, <2>2
  <2> QED BY <2>3
<1>27. Same(13) /\ Same(14)
  BY <1>4, <1>5, <1>13
<1>28. \A j \in 1..20 : Same(j)
  BY <1>20, <1>21, <1>22, <1>23, <1>24, <1>25, <1>26, <1>27
<1>29. \A j \in 25..Len(data) : s[j] = data[j]
  <2>1. TAKE j \in 25..Len(data)
  <2> DEFINE i == j - 24
  <2>2. i \in 1..n /\ j = 24 + i
    BY <1>1
  <2> HIDE DEF i
  <2>3. s[24 + i] = q.payload[i] /\ q.payload[i] = u.payload[i] /\ u.payload[i] = data[24 + i]
    BY <1>3, <1>5, <1>18, <2>2
  <2> QED BY <2>2, <2>3
<1>30. \A j \in 1..Len(data) : j \notin 21..24 => s[j] = data[j]
  <2>1. \A j \in 1..Len(data) : j \notin 21..24 => j \in 1..20 \/ j \in 25..Len(data)
    BY <1>1
  <2> QED BY <1>28, <1>29, <2>1
<1>31. Resummed(s, data, sum)
  <2>1. Len(s) = Len(data)
    BY <1>1, <1>3, <1>5, <1>8
  <2> QED BY <1>8, <1>17, <1>30, <2>1 DEF Resummed
<1> QED BY <1>6, <1>31 DEF s, q, u

-----------------------------------------------------------------------------
(* What _build_raw_packet() builds and what _parse_raw_packet() makes of it *)

NoSum == <<0, 0>>

SumOf(source, destination, pk) ==
    TTPChecksum(source, destination, Pack([pk EXCEPT !.checksum = NoSum]))

Segment(source, destination, pk) ==
    Pack([pk EXCEPT !.checksum = SumOf(source, destination, pk)])

LEMMA NoSumIsLong == NoSum \in Long
<1>1. 0 \in Short
  BY Ranges
<1> QED BY <1>1 DEF NoSum, Long

LEMMA SummedIsPacket ==
    ASSUME NEW pk \in Packet, NEW sum \in Long, NEW s, s = [pk EXCEPT !.checksum = sum]
    PROVE  /\ s \in Packet /\ s.checksum = sum
           /\ s.payload = pk.payload /\ s.header_length = pk.header_length
           /\ \A other \in Long : [s EXCEPT !.checksum = other] = [pk EXCEPT !.checksum = other]
           /\ SameSegment(s, pk)
BY DEF Packet, SameSegment

LEMMA SendableLengths ==
    ASSUME NEW pk \in Packet, Sendable(pk)
    PROVE  /\ Len(pk.payload) \in Short /\ 24 + Len(pk.payload) \in Short
           /\ 44 + Len(pk.payload) \in Short /\ 44 + Len(pk.payload) <= MaxLength
<1>1. MaxShort \in Nat /\ MaxShort <= 65535
  BY DEF MaxShort
<1>2. MaxLength \in Int /\ MaxLength <= 65535
  BY <1>1, MaxLengthAssumption
<1>3. Len(pk.payload) \in Nat
  BY DEF Packet
<1>4. 44 + Len(pk.payload) <= MaxLength
  BY <1>2, <1>3 DEF Sendable, IPV4_SIZE, TTP_HEADER_SIZE
<1> QED BY <1>2, <1>3, <1>4, Ranges

LEMMA BuiltSegment ==
    ASSUME NEW source \in Address, NEW destination \in Address, NEW pk \in Packet,
           pk.header_length = TTP_HEADER_SIZE, Sendable(pk)
    PROVE  /\ SumOf(source, destination, pk) \in Long
           /\ WellFormed(Segment(source, destination, pk))
           /\ Complete(Segment(source, destination, pk))
           /\ Len(Segment(source, destination, pk)) = 24 + Len(pk.payload)
           /\ Unpack(Segment(source, destination, pk)) =
                [pk EXCEPT !.checksum = SumOf(source, destination, pk)]
           /\ Carries(BuildRawPacket(source, destination, pk), source, destination,
                      Segment(source, destination, pk))
<1> DEFINE blank == [pk EXCEPT !.checksum = NoSum]
           sum == SumOf(source, destination, pk)
           summed == [pk EXCEPT !.checksum = sum]
           segment == Segment(source, destination, pk)
<1>1. /\ Len(pk.payload) \in Short /\ 24 + Len(pk.payload) \in Short
      /\ 44 + Len(pk.payload) \in Short
  BY SendableLengths
<1>2. blank \in Packet /\ blank.payload = pk.payload
  BY NoSumIsLong, SummedIsPacket
<1>3. sum = TTPChecksum(source, destination, Pack(blank))
  BY Zenon DEF SumOf
<1> HIDE DEF blank
<1>4. Pack(blank) \in Seq(Byte) /\ Len(Pack(blank)) = 24 + Len(blank.payload)
  BY <1>1, <1>2, PackBytes
<1>5. sum \in Long
  <2>1. Len(Pack(blank)) \in Short
    BY <1>1, <1>2, <1>4
  <2> QED BY <1>3, <1>4, <2>1, SumIsLong
<1>6. segment = Pack(summed)
  BY DEF Segment
<1> HIDE DEF sum, segment
<1>7. summed \in Packet /\ summed.payload = pk.payload /\ summed.header_length = TTP_HEADER_SIZE
  BY <1>5, SummedIsPacket
<1> HIDE DEF summed
<1>8. Len(summed.payload) \in Short
  BY <1>1, <1>7
<1>9. WellFormed(segment)
  BY <1>6, <1>7, <1>8, PackIsWellFormed
<1>10. Complete(segment) /\ Unpack(segment) = summed
  BY <1>6, <1>7, <1>8, UnpackPack
<1>11. segment \in Seq(Byte) /\ Len(segment) = 24 + Len(pk.payload)
  <2>1. Pack(summed) \in Seq(Byte) /\ Len(Pack(summed)) = 24 + Len(summed.payload)
    BY <1>7, <1>8, PackBytes
  <2> QED BY <1>6, <1>7, <2>1
<1>12. BuildRawPacket(source, destination, pk) = IPv4Pack(source, destination, segment)
  BY Zenon DEF BuildRawPacket, segment, Segment, SumOf, NoSum
<1>13. Carries(IPv4Pack(source, destination, segment), source, destination, segment)
  <2>1. 20 + Len(segment) \in Short
    <3>1. Len(pk.payload) \in Nat
      BY DEF Packet
    <3>2. 20 + Len(segment) = 44 + Len(pk.payload)
      BY <1>11, <3>1
    <3> QED BY <1>1, <3>2
  <2> QED BY <1>11, <2>1, IPv4Carries
<1> QED BY <1>5, <1>9, <1>10, <1>11, <1>12, <1>13 DEF segment, summed, sum

\* socket.py:60-79, 128-150: a segment that is not altered is accepted as it was built.
THEOREM IntactIsAccepted ==
    ASSUME NEW source \in Address, NEW destination \in Address, NEW pk \in Packet,
           pk.header_length = TTP_HEADER_SIZE, Sendable(pk)
    PROVE  /\ Accepted(BuildRawPacket(source, destination, pk))
           /\ SameSegment(ParseRawPacket(BuildRawPacket(source, destination, pk)), pk)
<1> DEFINE raw == BuildRawPacket(source, destination, pk)
           segment == Segment(source, destination, pk)
           sum == SumOf(source, destination, pk)
           summed == [pk EXCEPT !.checksum = sum]
<1>1. /\ sum \in Long /\ Complete(segment) /\ Unpack(segment) = summed
      /\ Carries(raw, source, destination, segment)
  BY BuiltSegment
<1>2. sum = TTPChecksum(source, destination, Pack([pk EXCEPT !.checksum = NoSum]))
  BY Zenon DEF SumOf
<1> HIDE DEF raw, segment, sum
<1>3. /\ IsTTPDatagram(raw) /\ SourceOf(raw) = source /\ DestinationOf(raw) = destination
      /\ PayloadOf(raw) = segment
  BY <1>1, CarriedIsFound
<1>4. /\ summed.checksum = sum /\ SameSegment(summed, pk)
      /\ \A other \in Long : [summed EXCEPT !.checksum = other] = [pk EXCEPT !.checksum = other]
  <2>1. sum \in Long
    BY <1>1
  <2>2. summed.checksum = sum /\ SameSegment(summed, pk)
    BY <2>1, SummedIsPacket
  <2>3. \A other \in Long : [summed EXCEPT !.checksum = other] = [pk EXCEPT !.checksum = other]
    BY <2>1, SummedIsPacket, Zenon
  <2> QED BY <2>2, <2>3
<1> HIDE DEF summed
<1>5. Valid(source, destination, summed)
  <2>1. [summed EXCEPT !.checksum = NoSum] = [pk EXCEPT !.checksum = NoSum]
    BY <1>4, NoSumIsLong
  <2> QED BY <1>2, <1>4, <2>1, Zenon DEF Valid, NoSum
<1>6. Accepted(raw) /\ ParseRawPacket(raw) = summed
  BY <1>1, <1>3, <1>5, Zenon DEF Accepted, ParseRawPacket
<1> QED BY <1>4, <1>6 DEF raw

\* One byte altered in a segment, but for the lengths.
Altered(other, data, i) ==
    /\ other \in Seq(Byte) /\ Len(other) = Len(data)
    /\ i \in 1..Len(data) /\ i \notin LengthBytes
    /\ other[i] # data[i]
    /\ \A j \in 1..Len(data) : j # i => other[j] = data[j]

LEMMA AlteredIsWellFormed ==
    ASSUME NEW data, WellFormed(data), NEW other, NEW i, Altered(other, data, i)
    PROVE  WellFormed(other)
<1>1. /\ data \in Seq(Byte) /\ Len(data) >= 24 /\ Len(data) - 24 \in Short
      /\ data[14] = 24 /\ ShortAt(data, 19) = Len(data) - 24
  BY DEF WellFormed
<1>2. /\ other \in Seq(Byte) /\ Len(other) = Len(data)
      /\ i # 14 /\ i # 19 /\ i # 20
      /\ \A j \in 1..Len(data) : j # i => other[j] = data[j]
  BY DEF Altered, LengthBytes
<1>3. other[14] = data[14] /\ other[19] = data[19] /\ other[20] = data[20]
  BY <1>1, <1>2
<1>4. ShortAt(other, 19) = ShortAt(data, 19)
  BY <1>3 DEF ShortAt
<1> QED BY <1>1, <1>2, <1>3, <1>4 DEF WellFormed

\* An altered checksum leaves the rest of the segment as it was.
LEMMA ChecksumAltered ==
    ASSUME NEW data, WellFormed(data), NEW other, NEW i, Altered(other, data, i), i \in 21..24
    PROVE  SameSegment(Unpack(other), Unpack(data))
<1> DEFINE n == Len(data) - 24
           p == SubSeq(data, 25, 24 + n)
           q == SubSeq(other, 25, 24 + n)
<1>1. data \in Seq(Byte) /\ Len(data) = 24 + n /\ n \in Nat /\ data[14] = 24 /\ ShortAt(data, 19) = n
  BY DEF WellFormed
<1>2. /\ other \in Seq(Byte) /\ Len(other) = 24 + n /\ i \in 21..24
      /\ \A j \in 1..(24 + n) : j # i => other[j] = data[j]
  BY <1>1 DEF Altered
<1> HIDE DEF n
<1>3. \A j \in 1..20 : other[j] = data[j]
  BY <1>1, <1>2
<1>4. \A j \in 1..n : other[24 + j] = data[24 + j]
  BY <1>1, <1>2
<1>5. p = q
  <2>1. p \in Seq(Byte) /\ Len(p) = n /\ \A j \in 1..n : p[j] = data[24 + j]
    BY <1>1
  <2>2. q \in Seq(Byte) /\ Len(q) = n /\ \A j \in 1..n : q[j] = other[24 + j]
    BY <1>1, <1>2
  <2> HIDE DEF p, q
  <2> QED BY <1>4, <2>1, <2>2
<1>6. /\ other[1] = data[1] /\ other[2] = data[2] /\ other[3] = data[3] /\ other[4] = data[4]
      /\ other[5] = data[5] /\ other[6] = data[6] /\ other[7] = data[7] /\ other[8] = data[8]
      /\ other[9] = data[9] /\ other[10] = data[10] /\ other[11] = data[11]
      /\ other[12] = data[12] /\ other[13] = data[13] /\ other[14] = data[14]
      /\ other[15] = data[15] /\ other[16] = data[16] /\ other[17] = data[17]
      /\ other[18] = data[18] /\ other[19] = data[19] /\ other[20] = data[20]
  BY <1>3
<1>7. /\ ShortAt(other, 1) = ShortAt(data, 1) /\ ShortAt(other, 3) = ShortAt(data, 3)
      /\ LongAt(other, 5) = LongAt(data, 5) /\ LongAt(other, 9) = LongAt(data, 9)
      /\ ShortAt(other, 15) = ShortAt(data, 15) /\ ShortAt(other, 17) = ShortAt(data, 17)
      /\ ShortAt(other, 19) = ShortAt(data, 19)
  BY <1>6 DEF LongAt, ShortAt
<1>8. /\ SubSeq(data, data[14] + 1, data[14] + ShortAt(data, 19)) = p
      /\ SubSeq(other, other[14] + 1, other[14] + ShortAt(other, 19)) = q
  <2>1. data[14] + 1 = 25 /\ data[14] + ShortAt(data, 19) = 24 + n
    BY <1>1
  <2>2. other[14] + 1 = 25 /\ other[14] + ShortAt(other, 19) = 24 + n
    BY <1>6, <1>7, <2>1
  <2> QED BY <2>1, <2>2
<1> HIDE DEF p, q
<1> DEFINE sum == LongAt(data, 21)
           old == LongAt(other, 21)
<1>9. Unpack(other) =
        [source_port |-> ShortAt(data, 1), destination_port |-> ShortAt(data, 3),
         sequence_number |-> LongAt(data, 5), acknowledgment_number |-> LongAt(data, 9),
         flags |-> data[13], header_length |-> data[14], reserved |-> ShortAt(data, 15),
         window |-> ShortAt(data, 17), payload |-> p, checksum |-> old]
  BY <1>5, <1>6, <1>7, <1>8, Zenon DEF Unpack
<1>10. Unpack(data) =
        [source_port |-> ShortAt(data, 1), destination_port |-> ShortAt(data, 3),
         sequence_number |-> LongAt(data, 5), acknowledgment_number |-> LongAt(data, 9),
         flags |-> data[13], header_length |-> data[14], reserved |-> ShortAt(data, 15),
         window |-> ShortAt(data, 17), payload |-> p, checksum |-> sum]
  BY <1>8, Zenon DEF Unpack
<1> HIDE DEF sum, old
<1> QED BY <1>9, <1>10 DEF SameSegment

\* Any other altered byte is summed.
LEMMA OtherByteAltered ==
    ASSUME NEW source \in Address, NEW destination \in Address,
           NEW data, WellFormed(data), Len(data) \in Short,
           Valid(source, destination, Unpack(data)),
           NEW other, NEW i, Altered(other, data, i), i \notin 21..24
    PROVE  ~Valid(source, destination, Unpack(other))
<1> DEFINE a == Pack([Unpack(data) EXCEPT !.checksum = NoSum])
           b == Pack([Unpack(other) EXCEPT !.checksum = NoSum])
<1>1. Resummed(a, data, NoSum)
  BY NoSumIsLong, PackUnpack
<1>2. Resummed(b, other, NoSum)
  BY NoSumIsLong, AlteredIsWellFormed, PackUnpack
<1>3. LongAt(data, 21) = TTPChecksum(source, destination, a)
  BY DEF Valid, Unpack, NoSum
<1>4. Valid(source, destination, Unpack(other)) =>
        LongAt(other, 21) = TTPChecksum(source, destination, b)
  BY DEF Valid, Unpack, NoSum
<1> HIDE DEF a, b
<1>5. /\ data \in Seq(Byte) /\ Len(data) >= 24
      /\ other \in Seq(Byte) /\ Len(other) = Len(data) /\ i \in 1..Len(data)
      /\ other[i] # data[i] /\ \A j \in 1..Len(data) : j # i => other[j] = data[j]
  BY DEF Altered, WellFormed
<1>6. LongAt(other, 21) = LongAt(data, 21)
  <2>1. /\ other[21] = data[21] /\ other[22] = data[22]
        /\ other[23] = data[23] /\ other[24] = data[24]
    BY <1>5
  <2> QED BY <2>1 DEF LongAt, ShortAt
<1>7. /\ a \in Seq(Byte) /\ Len(a) = Len(data)
      /\ \A j \in 1..Len(data) : j \notin 21..24 => a[j] = data[j]
      /\ \A j \in 1..4 : a[20 + j] = PackLong(NoSum)[j]
  BY <1>1 DEF Resummed
<1>8. /\ b \in Seq(Byte) /\ Len(b) = Len(data)
      /\ \A j \in 1..Len(data) : j \notin 21..24 => b[j] = other[j]
      /\ \A j \in 1..4 : b[20 + j] = PackLong(NoSum)[j]
  BY <1>2, <1>5 DEF Resummed
<1>9. \A j \in 1..4 : b[20 + j] = a[20 + j]
  BY <1>7, <1>8
<1>10. b[21] = a[21] /\ b[22] = a[22] /\ b[23] = a[23] /\ b[24] = a[24]
  BY <1>9
<1>11. ASSUME NEW j \in 1..Len(data), j # i PROVE b[j] = a[j]
  <2>1. CASE j \in 21..24
    BY <1>10, <2>1
  <2>2. CASE j \notin 21..24
    BY <1>5, <1>7, <1>8, <1>11, <2>2
  <2> QED BY <2>1, <2>2
<1>12. DiffersAt(a, b, i)
  BY <1>5, <1>7, <1>8, <1>11 DEF DiffersAt
<1>13. TTPChecksum(source, destination, b) # TTPChecksum(source, destination, a)
  <2>1. Len(a) \in Short
    BY <1>7
  <2> QED BY <1>7, <1>8, <1>12, <2>1, SegmentSumsDiffer
<1> QED BY <1>3, <1>4, <1>6, <1>13

\* socket.py:137-144: of a segment with one byte altered, validate_ttp_checksum() lets
\* through only one whose fields and payload are those that were sent.
THEOREM OneByteIsRefused ==
    ASSUME NEW source \in Address, NEW destination \in Address, NEW pk \in Packet,
           pk.header_length = TTP_HEADER_SIZE, Sendable(pk),
           NEW other, NEW i, Altered(other, Segment(source, destination, pk), i),
           Valid(source, destination, Unpack(other))
    PROVE  SameSegment(Unpack(other), pk)
<1> DEFINE segment == Segment(source, destination, pk)
           sum == SumOf(source, destination, pk)
           summed == [pk EXCEPT !.checksum = sum]
<1>1. /\ sum \in Long /\ WellFormed(segment) /\ Unpack(segment) = summed
      /\ Len(segment) = 24 + Len(pk.payload)
  BY BuiltSegment
<1>2. sum = TTPChecksum(source, destination, Pack([pk EXCEPT !.checksum = NoSum]))
  BY Zenon DEF SumOf
<1> HIDE DEF segment, sum
<1>3. sum \in Long
  BY <1>1
<1>4. summed \in Packet /\ summed.checksum = sum /\ SameSegment(summed, pk)
  BY <1>3, SummedIsPacket
<1>5. \A o \in Long : [summed EXCEPT !.checksum = o] = [pk EXCEPT !.checksum = o]
  BY <1>3, SummedIsPacket, Zenon
<1> HIDE DEF summed
<1>6. Altered(other, segment, i)
  BY DEF segment
<1>7. Len(segment) \in Short
  BY <1>1, SendableLengths
<1>8. CASE i \notin 21..24
  <2>1. [summed EXCEPT !.checksum = NoSum] = [pk EXCEPT !.checksum = NoSum]
    BY <1>5, NoSumIsLong
  <2>2. Valid(source, destination, Unpack(segment))
    BY <1>1, <1>2, <1>4, <2>1, Zenon DEF Valid, NoSum
  <2>3. ~Valid(source, destination, Unpack(other))
    BY <1>1, <1>6, <1>7, <1>8, <2>2, OtherByteAltered
  <2> QED BY <2>3
<1>9. CASE i \in 21..24
  <2>1. SameSegment(Unpack(other), summed)
    BY <1>1, <1>6, <1>9, ChecksumAltered
  <2>2. WellFormed(other)
    BY <1>1, <1>6, AlteredIsWellFormed
  <2>3. Unpack(other) \in Packet
    BY <2>2, UnpackedFields
  <2> DEFINE u == Unpack(other)
  <2> HIDE DEF u
  <2>4. [[u EXCEPT !.checksum = summed.checksum] EXCEPT !.checksum = pk.checksum] =
           [u EXCEPT !.checksum = pk.checksum]
    BY <2>3 DEF u, Packet
  <2>5. [u EXCEPT !.checksum = summed.checksum] = summed
    BY <2>1 DEF u, SameSegment
  <2>6. [summed EXCEPT !.checksum = pk.checksum] = pk
    BY <1>4 DEF SameSegment
  <2> QED BY <2>4, <2>5, <2>6 DEF u, SameSegment
<1> QED BY <1>8, <1>9, Zenon

-----------------------------------------------------------------------------
(* The checksum of the IPv4 header *)

LEMMA WordsTotalAdds ==
    ASSUME NEW data \in Seq(Byte), NEW k \in Nat, Len(data) = 2 * k
    PROVE  \E g : IsAdding(g, data, k) /\ WordsTotal(data) = g[k]
<1> DEFINE n == Len(data) \div 2
           f == CHOOSE g : IsAdding(g, data, n)
<1>1. WordsTotal(data) = f[n]
  BY Zenon DEF WordsTotal, IsAdding
<1>2. n = k
  OBVIOUS
<1>3. IsAdding(f, data, n)
  <2> HIDE DEF n
  <2>1. 2 * n <= Len(data)
    BY <1>2
  <2>2. \E g : IsAdding(g, data, n)
    BY <1>2, <2>1, AddingExists
  <2> QED BY <2>2
<1> HIDE DEF f, n
<1> QED BY <1>1, <1>2, <1>3

\* The words of a header, added up.
LEMMA TenWords ==
    ASSUME NEW data \in Seq(Byte), Len(data) = 20
    PROVE  \E first, last \in Nat :
              /\ first = ShortAt(data, 1) + ShortAt(data, 3) + ShortAt(data, 5)
                         + ShortAt(data, 7) + ShortAt(data, 9)
              /\ last = ShortAt(data, 13) + ShortAt(data, 15)
                        + ShortAt(data, 17) + ShortAt(data, 19)
              /\ WordsTotal(data) = first + ShortAt(data, 11) + last
<1>1. PICK g : IsAdding(g, data, 10) /\ WordsTotal(data) = g[10]
  <2> DEFINE ten == 10
  <2>1. ten \in Nat /\ Len(data) = 2 * ten
    OBVIOUS
  <2> HIDE DEF ten
  <2>2. \E g : IsAdding(g, data, ten) /\ WordsTotal(data) = g[ten]
    BY <2>1, WordsTotalAdds
  <2> QED BY <2>2 DEF ten
<1>2. g[0] = 0
  BY <1>1 DEF IsAdding
<1>3. ASSUME NEW n \in Nat, NEW m \in Nat, NEW i \in Nat, n = m + 1, i = 2 * m + 1, n <= 10
      PROVE  g[n] = g[m] + ShortAt(data, i) /\ ShortAt(data, i) \in Nat
  <2>1. n \in 0..10 /\ n # 0 /\ n - 1 = m /\ 2 * n - 1 = i
    BY <1>3
  <2>2. g[n] = g[n - 1] + ShortAt(data, 2 * n - 1)
    BY <1>1, <1>3, <2>1 DEF IsAdding
  <2>3. 2 * n <= Len(data)
    BY <1>3
  <2>4. ShortAt(data, 2 * n - 1) \in Short
    BY <1>3, <2>1, <2>3, WordIsShort
  <2> QED BY <2>1, <2>2, <2>4, Ranges
<1>4. g[0] = 0
  BY <1>2
<1>5. g[1] = ShortAt(data, 1) /\ ShortAt(data, 1) \in Nat /\ g[1] \in Nat
  BY <1>2, <1>3, <1>4
<1>6. g[2] = g[1] + ShortAt(data, 3) /\ ShortAt(data, 3) \in Nat /\ g[2] \in Nat
  <2>1. g[2] = g[1] + ShortAt(data, 3) /\ ShortAt(data, 3) \in Nat
    BY <1>3
  <2> QED BY <1>5, <2>1
<1>7. g[3] = g[2] + ShortAt(data, 5) /\ ShortAt(data, 5) \in Nat /\ g[3] \in Nat
  <2>1. g[3] = g[2] + ShortAt(data, 5) /\ ShortAt(data, 5) \in Nat
    BY <1>3
  <2> QED BY <1>6, <2>1
<1>8. g[4] = g[3] + ShortAt(data, 7) /\ ShortAt(data, 7) \in Nat /\ g[4] \in Nat
  <2>1. g[4] = g[3] + ShortAt(data, 7) /\ ShortAt(data, 7) \in Nat
    BY <1>3
  <2> QED BY <1>7, <2>1
<1>9. g[5] = g[4] + ShortAt(data, 9) /\ ShortAt(data, 9) \in Nat /\ g[5] \in Nat
  <2>1. g[5] = g[4] + ShortAt(data, 9) /\ ShortAt(data, 9) \in Nat
    BY <1>3
  <2> QED BY <1>8, <2>1
<1>10. g[6] = g[5] + ShortAt(data, 11) /\ ShortAt(data, 11) \in Nat /\ g[6] \in Nat
  <2>1. 5 \in Nat /\ 6 \in Nat /\ 11 \in Nat /\ 6 = 5 + 1 /\ 11 = 2 * 5 + 1 /\ 6 <= 10
    OBVIOUS
  <2>2. g[6] = g[5] + ShortAt(data, 11) /\ ShortAt(data, 11) \in Nat
    BY <2>1, <1>3, SMTT(60)
  <2> QED BY <1>9, <2>2
<1>11. g[7] = g[6] + ShortAt(data, 13) /\ ShortAt(data, 13) \in Nat /\ g[7] \in Nat
  <2>1. g[7] = g[6] + ShortAt(data, 13) /\ ShortAt(data, 13) \in Nat
    BY <1>3
  <2> QED BY <1>10, <2>1
<1>12. g[8] = g[7] + ShortAt(data, 15) /\ ShortAt(data, 15) \in Nat /\ g[8] \in Nat
  <2>1. g[8] = g[7] + ShortAt(data, 15) /\ ShortAt(data, 15) \in Nat
    BY <1>3
  <2> QED BY <1>11, <2>1
<1>13. g[9] = g[8] + ShortAt(data, 17) /\ ShortAt(data, 17) \in Nat /\ g[9] \in Nat
  <2>1. g[9] = g[8] + ShortAt(data, 17) /\ ShortAt(data, 17) \in Nat
    BY <1>3
  <2> QED BY <1>12, <2>1
<1>14. g[10] = g[9] + ShortAt(data, 19) /\ ShortAt(data, 19) \in Nat /\ g[10] \in Nat
  <2>1. g[10] = g[9] + ShortAt(data, 19) /\ ShortAt(data, 19) \in Nat
    BY <1>3
  <2> QED BY <1>13, <2>1
<1> DEFINE first == ShortAt(data, 1) + ShortAt(data, 3) + ShortAt(data, 5)
                    + ShortAt(data, 7) + ShortAt(data, 9)
           last == ShortAt(data, 13) + ShortAt(data, 15)
                   + ShortAt(data, 17) + ShortAt(data, 19)
<1>15. first \in Nat /\ last \in Nat /\ WordsTotal(data) = first + ShortAt(data, 11) + last
  <2>1. first = g[5]
    BY <1>5, <1>6, <1>7, <1>8, <1>9
  <2>2. g[10] = g[6] + last /\ last \in Nat
    <3> DEFINE c == ShortAt(data, 13)
               d == ShortAt(data, 15)
               e == ShortAt(data, 17)
               f == ShortAt(data, 19)
    <3>1. /\ g[7] = g[6] + c /\ g[8] = g[7] + d /\ g[9] = g[8] + e /\ g[10] = g[9] + f
          /\ c \in Nat /\ d \in Nat /\ e \in Nat /\ f \in Nat /\ g[6] \in Nat
      BY <1>10, <1>11, <1>12, <1>13, <1>14
    <3>2. last = c + d + e + f
      OBVIOUS
    <3> HIDE DEF c, d, e, f, last
    <3> QED BY <3>1, <3>2
  <2> HIDE DEF first, last
  <2> QED BY <1>1, <1>9, <1>10, <2>1, <2>2
<1> QED BY <1>15

\* The header checksum makes the words of the header add up to a multiple of 65535.
LEMMA HeaderSums ==
    ASSUME NEW source \in Address, NEW destination \in Address, NEW length \in Short,
           NEW sum, sum = checksum(IPv4Header(source, destination, length, 0))
    PROVE  WordsTotal(IPv4Header(source, destination, length, sum)) % 65535 = 0
<1> DEFINE a == IPv4Header(source, destination, length, 0)
           b == IPv4Header(source, destination, length, sum)
<1>1. 0 \in Short
  BY Ranges
<1>2. IsHeader(a, source, destination, length, 0)
  BY <1>1, HeaderBytes
<1>3. sum = checksum(a)
  OBVIOUS
<1>4. a \in Seq(Byte) /\ Len(a) = 20
  BY <1>2 DEF IsHeader
<1>5. sum \in Short
  BY <1>3, <1>4, OnesSumIsShort
<1>6. IsHeader(b, source, destination, length, sum)
  BY <1>5, HeaderBytes
<1>7. b \in Seq(Byte) /\ Len(b) = 20
  BY <1>6 DEF IsHeader
<1> HIDE DEF a, b
<1>8. ShortAt(a, 11) = 0 /\ ShortAt(b, 11) = sum
  <2>1. HoldsShort(a, 11, 0) /\ HoldsShort(b, 11, sum)
    BY <1>2, <1>6 DEF IsHeader
  <2> QED BY <1>1, <1>5, <2>1, ReadShort
<1>9. /\ a[1] = b[1] /\ a[2] = b[2] /\ a[3] = b[3] /\ a[4] = b[4] /\ a[5] = b[5]
      /\ a[6] = b[6] /\ a[7] = b[7] /\ a[8] = b[8] /\ a[9] = b[9] /\ a[10] = b[10]
  BY <1>2, <1>6 DEF IsHeader, HoldsShort
<1>10. \A i \in 1..4 : a[12 + i] = b[12 + i] /\ a[16 + i] = b[16 + i]
  <2>1. /\ \A i \in 1..4 : a[12 + i] = source[i]
        /\ \A i \in 1..4 : a[16 + i] = destination[i]
    BY <1>2 DEF IsHeader
  <2>2. /\ \A i \in 1..4 : b[12 + i] = source[i]
        /\ \A i \in 1..4 : b[16 + i] = destination[i]
    BY <1>6 DEF IsHeader
  <2> QED BY <2>1, <2>2
<1>11. /\ a[13] = b[13] /\ a[14] = b[14] /\ a[15] = b[15] /\ a[16] = b[16]
       /\ a[17] = b[17] /\ a[18] = b[18] /\ a[19] = b[19] /\ a[20] = b[20]
  BY <1>10
<1>12. /\ ShortAt(a, 1) = ShortAt(b, 1) /\ ShortAt(a, 3) = ShortAt(b, 3)
       /\ ShortAt(a, 5) = ShortAt(b, 5) /\ ShortAt(a, 7) = ShortAt(b, 7)
       /\ ShortAt(a, 9) = ShortAt(b, 9) /\ ShortAt(a, 13) = ShortAt(b, 13)
       /\ ShortAt(a, 15) = ShortAt(b, 15) /\ ShortAt(a, 17) = ShortAt(b, 17)
       /\ ShortAt(a, 19) = ShortAt(b, 19)
  BY <1>9, <1>11 DEF ShortAt
<1>13. PICK p, q \in Nat :
         /\ p = ShortAt(a, 1) + ShortAt(a, 3) + ShortAt(a, 5) + ShortAt(a, 7) + ShortAt(a, 9)
         /\ q = ShortAt(a, 13) + ShortAt(a, 15) + ShortAt(a, 17) + ShortAt(a, 19)
         /\ WordsTotal(a) = p + ShortAt(a, 11) + q
  BY <1>4, TenWords
<1>14. PICK r, s \in Nat :
         /\ r = ShortAt(b, 1) + ShortAt(b, 3) + ShortAt(b, 5) + ShortAt(b, 7) + ShortAt(b, 9)
         /\ s = ShortAt(b, 13) + ShortAt(b, 15) + ShortAt(b, 17) + ShortAt(b, 19)
         /\ WordsTotal(b) = r + ShortAt(b, 11) + s
  BY <1>7, TenWords
<1>15. r = p /\ s = q
  BY <1>12, <1>13, <1>14
<1>16. WordsTotal(b) = WordsTotal(a) + sum /\ WordsTotal(a) \in Nat
  <2>1. sum \in Nat
    BY <1>5, Ranges
  <2> QED BY <1>8, <1>13, <1>14, <1>15, <2>1
<1>17. PICK m \in Nat : OnesSum(a) \in Nat /\ WordsTotal(a) = OnesSum(a) + 65535 * m
  <2> DEFINE ten == 10
  <2>1. ten \in Nat /\ Len(a) = 2 * ten /\ 2 * ten <= Len(a) /\ Len(a) \div 2 = ten
    BY <1>4
  <2>2. Padded(a) = a
    <3>1. Len(a) % 2 = 0
      BY <1>4
    <3> QED BY <3>1 DEF Padded
  <2> HIDE DEF ten
  <2>3. PICK f : IsFolding(f, a, ten) /\ OnesSum(a) = f[ten]
    BY <1>4, <2>1, <2>2, OnesSumFolds
  <2>4. PICK g : IsAdding(g, a, ten) /\ WordsTotal(a) = g[ten]
    BY <1>4, <2>1, WordsTotalAdds
  <2>5. f[ten] \in Short /\ \E m \in Nat : g[ten] = f[ten] + 65535 * m
    BY <1>4, <2>1, <2>3, <2>4, FoldingIsAdding
  <2> QED BY <2>3, <2>4, <2>5, Ranges
<1>18. sum = 65535 - OnesSum(a)
  BY <1>3 DEF checksum
<1> DEFINE k == m + 1
<1>19. WordsTotal(b) = 65535 * k /\ k \in Nat
  BY <1>16, <1>17, <1>18
<1> HIDE DEF k
<1>20. WordsTotal(b) % 65535 = 0
  BY <1>19
<1> QED BY <1>20 DEF b

-----------------------------------------------------------------------------
(* A datagram on the wire *)

\* The header that _build_raw_packet() puts in front passes a receiver's test.
LEMMA BuiltHeader ==
    ASSUME NEW source \in Address, NEW destination \in Address, NEW pk \in Packet,
           pk.header_length = TTP_HEADER_SIZE, Sendable(pk)
    PROVE  /\ ShortAt(BuildRawPacket(source, destination, pk), 3) =
                Len(BuildRawPacket(source, destination, pk))
           /\ Len(BuildRawPacket(source, destination, pk)) <= MaxLength
           /\ WordsTotal(SubSeq(BuildRawPacket(source, destination, pk), 1, 20)) % 65535 = 0
<1> DEFINE raw == BuildRawPacket(source, destination, pk)
           segment == Segment(source, destination, pk)
           length == 20 + Len(segment)
<1>1. /\ Carries(raw, source, destination, segment)
      /\ Len(segment) = 24 + Len(pk.payload)
  BY BuiltSegment
<1>2. raw = IPv4Pack(source, destination, segment)
  BY Zenon DEF BuildRawPacket, Segment, SumOf, NoSum
<1>3. 44 + Len(pk.payload) \in Short /\ 44 + Len(pk.payload) <= MaxLength
  BY SendableLengths
<1>4. Len(pk.payload) \in Nat
  BY DEF Packet
<1> HIDE DEF raw, segment
<1>5. /\ Len(raw) = length /\ ShortAt(raw, 3) = Len(raw) /\ segment \in Seq(Byte)
  BY <1>1 DEF Carries
<1>6. length \in Short /\ length <= MaxLength
  BY <1>1, <1>3, <1>4
<1>7. PICK sum \in Short :
        /\ sum = checksum(IPv4Header(source, destination, length, 0))
        /\ SubSeq(IPv4Pack(source, destination, segment), 1, 20) =
             IPv4Header(source, destination, length, sum)
  BY <1>5, <1>6, IPv4Carries
<1> HIDE DEF length
<1>8. WordsTotal(IPv4Header(source, destination, length, sum)) % 65535 = 0
  BY <1>6, <1>7, HeaderSums
<1>9. WordsTotal(SubSeq(raw, 1, 20)) % 65535 = 0
  <2> DEFINE header == IPv4Header(source, destination, length, sum)
  <2> HIDE DEF header
  <2>1. SubSeq(raw, 1, 20) = header
    <3> DEFINE packed == IPv4Pack(source, destination, segment)
    <3>1. SubSeq(packed, 1, 20) = header
      BY <1>7 DEF header
    <3>2. raw = packed
      BY <1>2
    <3> HIDE DEF packed
    <3> QED BY <3>1, <3>2
  <2>2. WordsTotal(header) % 65535 = 0
    BY <1>8 DEF header
  <2> DEFINE front == SubSeq(raw, 1, 20)
  <2>3. front = header
    BY <2>1
  <2> HIDE DEF front
  <2>4. WordsTotal(front) % 65535 = 0
    BY <2>2, <2>3
  <2> QED BY <2>4 DEF front
<1> QED BY <1>5, <1>6, <1>9 DEF raw

\* A bit of the segment altered on the way.
OneBitAway(other, raw, n) ==
    \E bit \in 0..7 : other = [raw EXCEPT ![IPV4_SIZE + n] = FlipBit(@, bit)]

SameHeader(other, raw) ==
    /\ SubSeq(other, 1, 20) = SubSeq(raw, 1, 20)
    /\ Len(other) = Len(raw) /\ ShortAt(other, 3) = ShortAt(raw, 3)

\* It is one byte altered in the segment that is found, and none in the header.
LEMMA AlteredDatagram ==
    ASSUME NEW raw, NEW source \in Address, NEW destination \in Address, NEW segment,
           Carries(raw, source, destination, segment),
           NEW i \in 1..Len(segment), NEW other, OneBitAway(other, raw, i)
    PROVE  /\ SameHeader(other, raw)
           /\ \E data : /\ Carries(other, source, destination, data)
                        /\ i \notin LengthBytes => Altered(data, segment, i)
<1>0. PICK bit \in 0..7 : other = [raw EXCEPT ![IPV4_SIZE + i] = FlipBit(@, bit)]
  BY DEF OneBitAway
<1> DEFINE byte == FlipBit(raw[20 + i], bit)
           data == [segment EXCEPT ![i] = byte]
<1>1. /\ raw \in Seq(Byte) /\ segment \in Seq(Byte) /\ Len(segment) \in Nat
      /\ Len(raw) = 20 + Len(segment)
  BY DEF Carries
<1>2. raw[20 + i] = segment[i] /\ segment[i] \in Byte
  BY <1>1 DEF Carries
<1>3. byte \in Byte /\ byte # segment[i]
  BY <1>2, FlippedByte
<1>4. other = [raw EXCEPT ![IPV4_SIZE + i] = byte]
  BY <1>0, <1>1 DEF IPV4_SIZE
<1> HIDE DEF byte
<1>5. Carries(other, source, destination, data)
  <2>1. Carries([raw EXCEPT ![IPV4_SIZE + i] = byte], source, destination, data)
    BY <1>3, CarriedAltered
  <2> QED BY <1>4, <2>1
<1>6. /\ data \in Seq(Byte) /\ Len(data) = Len(segment) /\ data[i] = byte
      /\ \A j \in 1..Len(segment) : j # i => data[j] = segment[j]
  BY <1>1, <1>3
<1>7. ASSUME i \notin LengthBytes PROVE Altered(data, segment, i)
  BY <1>3, <1>6, <1>7 DEF Altered
<1>8. /\ other \in Seq(Byte) /\ Len(other) = Len(raw)
      /\ \A j \in Nat : j # 0 /\ j <= 20 => other[j] = raw[j]
  BY <1>1, <1>3, <1>4 DEF IPV4_SIZE
<1>9. SubSeq(other, 1, 20) = SubSeq(raw, 1, 20)
  <2> DEFINE n == 20
             s == SubSeq(other, 1, n)
             t == SubSeq(raw, 1, n)
  <2>1. n \in Nat /\ n <= Len(raw) /\ n <= Len(other)
        /\ \A j \in Nat : j # 0 /\ j <= n => other[j] = raw[j]
    BY <1>1, <1>8
  <2> HIDE DEF n
  <2>2. s \in Seq(Byte) /\ Len(s) = n /\ \A j \in 1..n : s[j] = other[j]
    BY <1>8, <2>1
  <2>3. t \in Seq(Byte) /\ Len(t) = n /\ \A j \in 1..n : t[j] = raw[j]
    BY <1>1, <2>1
  <2> HIDE DEF s, t
  <2>4. s = t
    BY <2>1, <2>2, <2>3
  <2> QED BY <2>4 DEF s, t, n
<1>10. ShortAt(other, 3) = ShortAt(raw, 3)
  BY <1>8 DEF ShortAt
<1> HIDE DEF data
<1>11. Len(other) = Len(raw)
  BY <1>8
<1>12. SameHeader(other, raw)
  BY <1>9, <1>10, <1>11 DEF SameHeader
<1> QED BY <1>5, <1>7, <1>12
=============================================================================
