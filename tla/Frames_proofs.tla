--------------------------- MODULE Frames_proofs ----------------------------
(***************************************************************************)
(* Proofs about Frames.tla, for messages of any bytes and any length: the  *)
(* CRC of utils.c:52-166 is the remainder by x^16 + x^15 + x^2 + 1, a      *)
(* message with its CRC behind it has the CRC 0, and a changed bit changes *)
(* the CRC by a power of x.  The powers differ up to the 32767th.          *)
(***************************************************************************)
EXTENDS Frames, FiniteSetTheorems, WellFoundedInduction, TLAPS

(* Xor of nibbles, and what it is of numbers of more bits.                  *)

Word == {a \in Nat : a < 65536}

Differ(x, y) == IF x = y THEN 0 ELSE 1

LEMMA LeastNat ==
  ASSUME NEW S, S \subseteq Nat, S # {}
  PROVE  \E m \in S : \A k \in S : m <= k
<1> DEFINE U == {0 .. k : k \in S}
<1>1. U \subseteq FiniteSubsetsOf(Nat) /\ U # {}
  <2>1. ASSUME NEW k \in S PROVE 0 .. k \in SUBSET Nat /\ IsFiniteSet(0 .. k)
    BY FS_Interval
  <2> QED
    BY <2>1 DEF FiniteSubsetsOf
<1>2. PICK x \in U : \A y \in U : <<y, x>> \notin StrictSubsetOrdering(Nat)
  <2>1. IsWellFoundedOn(StrictSubsetOrdering(Nat), FiniteSubsetsOf(Nat))
    BY FS_StrictSubsetOrderingWellFounded
  <2> HIDE DEF U
  <2> QED
    BY <1>1, <2>1, WFMin
<1>3. PICK m \in S : x = 0 .. m
  BY <1>2
<1>4. ASSUME NEW k \in S, k < m PROVE FALSE
  <2>1. <<0 .. k, 0 .. m>> \in StrictSubsetOrdering(Nat)
    BY <1>4 DEF StrictSubsetOrdering
  <2> QED
    BY <2>1, <1>2, <1>3
<1> QED
  BY <1>4

LEMMA BitsOf ==
  ASSUME NEW x0 \in {0, 1}, NEW x1 \in {0, 1}, NEW x2 \in {0, 1}, NEW x3 \in {0, 1},
         NEW a, a = x0 + 2 * x1 + 4 * x2 + 8 * x3
  PROVE  /\ Bit(a, 0) = x0 /\ Bit(a, 1) = x1 /\ Bit(a, 2) = x2 /\ Bit(a, 3) = x3
         /\ a \in 0 .. 15
<1>1. 2^0 = 1 /\ 2^1 = 2 /\ 2^2 = 4 /\ 2^3 = 8
  OBVIOUS
<1>2. /\ Bit(a, 0) = (a \div 1) % 2 /\ Bit(a, 1) = (a \div 2) % 2
      /\ Bit(a, 2) = (a \div 4) % 2 /\ Bit(a, 3) = (a \div 8) % 2
  BY <1>1 DEF Bit
<1> QED
  BY <1>2, SMT

LEMMA NibblesBits ==
  ASSUME NEW x0 \in {0, 1}, NEW x1 \in {0, 1}, NEW x2 \in {0, 1}, NEW x3 \in {0, 1},
         NEW y0 \in {0, 1}, NEW y1 \in {0, 1}, NEW y2 \in {0, 1}, NEW y3 \in {0, 1},
         NEW a, a = x0 + 2 * x1 + 4 * x2 + 8 * x3,
         NEW b, b = y0 + 2 * y1 + 4 * y2 + 8 * y3
  PROVE  Nibbles[a][b] =
           Differ(x0, y0) + 2 * Differ(x1, y1) + 4 * Differ(x2, y2) + 8 * Differ(x3, y3)
<1>1. 2^0 = 1 /\ 2^1 = 2 /\ 2^2 = 4 /\ 2^3 = 8
  OBVIOUS
<1>2. a \in 0 .. 15 /\ b \in 0 .. 15
  BY BitsOf
<1>3. Nibbles[a][b] =
         ((Bit(a, 0) + Bit(b, 0)) % 2) * 2^0 + ((Bit(a, 1) + Bit(b, 1)) % 2) * 2^1
       + ((Bit(a, 2) + Bit(b, 2)) % 2) * 2^2 + ((Bit(a, 3) + Bit(b, 3)) % 2) * 2^3
  BY <1>2 DEF Nibbles
<1>4. Nibbles[a][b] =
         ((x0 + y0) % 2) * 1 + ((x1 + y1) % 2) * 2
       + ((x2 + y2) % 2) * 4 + ((x3 + y3) % 2) * 8
  <2>1. Bit(a, 0) = x0 /\ Bit(a, 1) = x1 /\ Bit(a, 2) = x2 /\ Bit(a, 3) = x3
    BY BitsOf
  <2>2. Bit(b, 0) = y0 /\ Bit(b, 1) = y1 /\ Bit(b, 2) = y2 /\ Bit(b, 3) = y3
    BY BitsOf
  <2> QED
    BY <1>1, <1>3, <2>1, <2>2
<1>5. \A x, y \in {0, 1} : (x + y) % 2 = Differ(x, y)
  BY DEF Differ
<1> QED
  BY <1>4, <1>5

(* What Nibbles does with a bit below three others, and with one above.     *)
NibbleRule(a, b, x, y) ==
  /\ Nibbles[a][b] \in Nat /\ Nibbles[a][b] < 8
  /\ Nibbles[2 * a + x][2 * b + y] = 2 * Nibbles[a][b] + Differ(x, y)
  /\ Nibbles[8 * x + a][8 * y + b] = 8 * Differ(x, y) + Nibbles[a][b]

LEMMA NibblesRule ==
  ASSUME NEW a \in Nat, a < 8, NEW b \in Nat, b < 8, NEW x \in {0, 1}, NEW y \in {0, 1}
  PROVE  NibbleRule(a, b, x, y)
<1>1. PICK a0, a1, a2 \in {0, 1} : a = a0 + 2 * a1 + 4 * a2
  <2>1. \E z0, z1, z2 \in {0, 1} : a = z0 + 2 * z1 + 4 * z2
    BY SMT
  <2> QED
    BY <2>1
<1>2. PICK b0, b1, b2 \in {0, 1} : b = b0 + 2 * b1 + 4 * b2
  <2>1. \E z0, z1, z2 \in {0, 1} : b = z0 + 2 * z1 + 4 * z2
    BY SMT
  <2> QED
    BY <2>1
<1>3. \A u, v \in {0, 1} : Differ(u, v) \in {0, 1} /\ Differ(0, 0) = 0
  BY DEF Differ
<1>4. PICK d0, d1, d2, d \in {0, 1} :
        d0 = Differ(a0, b0) /\ d1 = Differ(a1, b1) /\ d2 = Differ(a2, b2) /\ d = Differ(x, y)
  BY <1>3
<1>5. Nibbles[a][b] = d0 + 2 * d1 + 4 * d2
  <2>1. a = a0 + 2 * a1 + 4 * a2 + 8 * 0 /\ b = b0 + 2 * b1 + 4 * b2 + 8 * 0
    BY <1>1, <1>2
  <2>2. Nibbles[a][b] =
          Differ(a0, b0) + 2 * Differ(a1, b1) + 4 * Differ(a2, b2) + 8 * Differ(0, 0)
    BY <2>1, NibblesBits
  <2> QED
    BY <2>2, <1>3, <1>4
<1>6. Nibbles[2 * a + x][2 * b + y] = d + 2 * d0 + 4 * d1 + 8 * d2
  <2>1. PICK p, q \in Nat : p = 2 * a + x /\ q = 2 * b + y
    OBVIOUS
  <2>2. p = x + 2 * a0 + 4 * a1 + 8 * a2 /\ q = y + 2 * b0 + 4 * b1 + 8 * b2
    BY <1>1, <1>2, <2>1
  <2>3. Nibbles[p][q] =
          Differ(x, y) + 2 * Differ(a0, b0) + 4 * Differ(a1, b1) + 8 * Differ(a2, b2)
    BY <2>2, NibblesBits
  <2> QED
    BY <2>1, <2>3, <1>4
<1>7. Nibbles[8 * x + a][8 * y + b] = d0 + 2 * d1 + 4 * d2 + 8 * d
  <2>1. PICK p, q \in Nat : p = 8 * x + a /\ q = 8 * y + b
    OBVIOUS
  <2>2. p = a0 + 2 * a1 + 4 * a2 + 8 * x /\ q = b0 + 2 * b1 + 4 * b2 + 8 * y
    BY <1>1, <1>2, <2>1
  <2>3. Nibbles[p][q] =
          Differ(a0, b0) + 2 * Differ(a1, b1) + 4 * Differ(a2, b2) + 8 * Differ(x, y)
    BY <2>2, NibblesBits
  <2> QED
    BY <2>1, <2>3, <1>4
<1>8. PICK n \in Nat : n = d0 + 2 * d1 + 4 * d2 /\ n < 8
  OBVIOUS
<1>9. /\ Nibbles[a][b] = n
      /\ Nibbles[2 * a + x][2 * b + y] = 2 * n + d
      /\ Nibbles[8 * x + a][8 * y + b] = 8 * d + n
  BY <1>5, <1>6, <1>7, <1>8
<1> QED
  BY <1>4, <1>8, <1>9 DEF NibbleRule

LEMMA NibblesType ==
  ASSUME NEW a \in Nat, a < 16, NEW b \in Nat, b < 16
  PROVE  Nibbles[a][b] \in Nat /\ Nibbles[a][b] < 16 /\ Nibbles[0][0] = 0
<1>1. PICK c \in Nat : c = a % 8 /\ c < 8
  BY SMT
<1>2. PICK x \in {0, 1} : a = 8 * x + c
  BY <1>1, SMT
<1>3. PICK d \in Nat : d = b % 8 /\ d < 8
  BY SMT
<1>4. PICK y \in {0, 1} : b = 8 * y + d
  BY <1>3, SMT
<1>5. NibbleRule(c, d, x, y) /\ NibbleRule(0, 0, 0, 0)
  BY <1>1, <1>3, NibblesRule
<1> QED
  BY <1>2, <1>4, <1>5 DEF NibbleRule, Differ

(* Xor digit by digit.                                                      *)
HexRule(g, h, k, l) == Xor(16 * g + k, 16 * h + l) = 16 * Xor(g, h) + Nibbles[k][l]

LEMMA XorHex ==
  ASSUME NEW g \in Nat, g < 4096, NEW h \in Nat, h < 4096,
         NEW k \in Nat, k < 16, NEW l \in Nat, l < 16
  PROVE  HexRule(g, h, k, l)
<1>1. PICK g1, g2, g3 \in Nat :
        /\ g1 = g % 16 /\ g2 = (g \div 16) % 16 /\ g3 = (g \div 256) % 16
        /\ g1 < 16 /\ g2 < 16 /\ g3 < 16
  BY SMT
<1>2. PICK h1, h2, h3 \in Nat :
        /\ h1 = h % 16 /\ h2 = (h \div 16) % 16 /\ h3 = (h \div 256) % 16
        /\ h1 < 16 /\ h2 < 16 /\ h3 < 16
  BY SMT
<1>3. PICK p \in Nat : p = 16 * g + k
  OBVIOUS
<1>4. PICK q \in Nat : q = 16 * h + l
  OBVIOUS
<1>5. /\ (p \div 1) % 16 = k /\ (p \div 16) % 16 = g1
      /\ (p \div 256) % 16 = g2 /\ (p \div 4096) % 16 = g3
  BY <1>1, <1>3, SMT
<1>6. /\ (q \div 1) % 16 = l /\ (q \div 16) % 16 = h1
      /\ (q \div 256) % 16 = h2 /\ (q \div 4096) % 16 = h3
  BY <1>2, <1>4, SMT
<1>7. /\ (g \div 1) % 16 = g1 /\ (g \div 16) % 16 = g2
      /\ (g \div 256) % 16 = g3 /\ (g \div 4096) % 16 = 0
  BY <1>1, SMT
<1>8. /\ (h \div 1) % 16 = h1 /\ (h \div 16) % 16 = h2
      /\ (h \div 256) % 16 = h3 /\ (h \div 4096) % 16 = 0
  BY <1>2, SMT
<1>9. /\ Nibbles[k][l] \in Nat /\ Nibbles[g1][h1] \in Nat
      /\ Nibbles[g2][h2] \in Nat /\ Nibbles[g3][h3] \in Nat /\ Nibbles[0][0] = 0
  BY <1>1, <1>2, NibblesType
<1>10. Xor(p, q) = Nibbles[k][l] * 1 + Nibbles[g1][h1] * 16 + Nibbles[g2][h2] * 256
                   + Nibbles[g3][h3] * 4096
  BY <1>5, <1>6 DEF Xor
<1>11. Xor(g, h) = Nibbles[g1][h1] * 1 + Nibbles[g2][h2] * 16 + Nibbles[g3][h3] * 256
                   + Nibbles[0][0] * 4096
  BY <1>7, <1>8 DEF Xor
<1> QED
  BY <1>3, <1>4, <1>9, <1>10, <1>11 DEF HexRule

(* Xor and doubling, Xor and a bit on top, for numbers below n.             *)
Doubled(n, a, b, x, y) ==
  /\ Xor(a, b) \in Nat /\ Xor(a, b) < n
  /\ Xor(2 * a + x, 2 * b + y) = 2 * Xor(a, b) + Differ(x, y)
  /\ Xor(n * x + a, n * y + b) = n * Differ(x, y) + Xor(a, b)

Doubles(n) ==
  \A a, b \in Nat : a < n /\ b < n => \A x, y \in {0, 1} : Doubled(n, a, b, x, y)

LEMMA DoublesFirst == Doubles(8)
<1> SUFFICES ASSUME NEW a \in Nat, NEW b \in Nat, a < 8, b < 8,
                    NEW x \in {0, 1}, NEW y \in {0, 1}
             PROVE  Doubled(8, a, b, x, y)
  BY DEF Doubles
<1>1. \A p, q \in Nat : p < 16 /\ q < 16 => Xor(p, q) = Nibbles[p][q]
  <2> TAKE p, q \in Nat
  <2> HAVE p < 16 /\ q < 16
  <2>1. HexRule(0, 0, p, q) /\ HexRule(0, 0, 0, 0)
    BY XorHex
  <2>2. Nibbles[p][q] \in Nat /\ Nibbles[0][0] = 0
    BY NibblesType
  <2>3. /\ Xor(0, 0) = 16 * Xor(0, 0) + 0
        /\ Xor(p, q) = 16 * Xor(0, 0) + Nibbles[p][q]
    BY <2>1, <2>2 DEF HexRule
  <2>4. Xor(0, 0) = 0
    <3>1. /\ (0 \div 1) % 16 = 0 /\ (0 \div 16) % 16 = 0
          /\ (0 \div 256) % 16 = 0 /\ (0 \div 4096) % 16 = 0
      BY SMT
    <3> QED
      BY <2>2, <3>1 DEF Xor
  <2> QED
    BY <2>2, <2>3, <2>4
<1>2. NibbleRule(a, b, x, y)
  BY NibblesRule
<1>3. Xor(a, b) = Nibbles[a][b]
  BY <1>1
<1>4. PICK p, q \in Nat : p = 2 * a + x /\ q = 2 * b + y /\ p < 16 /\ q < 16
  OBVIOUS
<1>5. Xor(p, q) = Nibbles[p][q]
  BY <1>1, <1>4
<1>6. PICK r, s \in Nat : r = 8 * x + a /\ s = 8 * y + b /\ r < 16 /\ s < 16
  OBVIOUS
<1>7. Xor(r, s) = Nibbles[r][s]
  BY <1>1, <1>6
<1> QED
  BY <1>2, <1>3, <1>4, <1>5, <1>6, <1>7 DEF Doubled, NibbleRule

LEMMA DoublesNext ==
  ASSUME NEW n \in {8, 128, 2048}, Doubles(n), NEW m, m = 16 * n
  PROVE  Doubles(m)
<1> SUFFICES ASSUME NEW a \in Nat, NEW b \in Nat, a < m, b < m,
                    NEW x \in {0, 1}, NEW y \in {0, 1}
             PROVE  Doubled(m, a, b, x, y)
  BY DEF Doubles
<1>1. PICK g \in Nat : g = a \div 16
  BY SMT
<1>2. PICK k \in Nat : k = a % 8
  BY SMT
<1>3. PICK c \in {0, 1} : c = (a % 16) \div 8
  BY SMT
<1>4. a = 16 * g + (8 * c + k) /\ k < 8 /\ g < n
  BY <1>1, <1>2, <1>3, SMT
<1>5. PICK h \in Nat : h = b \div 16
  BY SMT
<1>6. PICK l \in Nat : l = b % 8
  BY SMT
<1>7. PICK d \in {0, 1} : d = (b % 16) \div 8
  BY SMT
<1>8. b = 16 * h + (8 * d + l) /\ l < 8 /\ h < n
  BY <1>5, <1>6, <1>7, SMT
<1>9a. /\ Xor(g, h) \in Nat /\ Xor(g, h) < n
       /\ Nibbles[k][l] \in Nat /\ Nibbles[k][l] < 8
  <2>1. Doubled(n, g, h, c, d) /\ NibbleRule(k, l, c, d)
    BY <1>4, <1>8, NibblesRule DEF Doubles
  <2> QED
    BY <2>1 DEF Doubled, NibbleRule
<1>9b. PICK e \in Nat : e = Xor(g, h) /\ e < n
  BY <1>9a
<1>9. PICK t \in Nat : t = Nibbles[k][l] /\ t < 8
  BY <1>9a
<1>10. PICK v, w \in {0, 1} : v = Differ(x, y) /\ w = Differ(c, d)
  BY DEF Differ
<1>11. /\ Xor(2 * g + c, 2 * h + d) = 2 * e + w
       /\ Xor(n * x + g, n * y + h) = n * v + e
  <2>1. Doubled(n, g, h, c, d) /\ Doubled(n, g, h, x, y)
    BY <1>4, <1>8 DEF Doubles
  <2> QED
    BY <2>1, <1>9b, <1>10 DEF Doubled
<1>12. /\ Nibbles[2 * k + x][2 * l + y] = 2 * t + v
       /\ Nibbles[8 * c + k][8 * d + l] = 8 * w + t
  <2>1. NibbleRule(k, l, c, d) /\ NibbleRule(k, l, x, y)
    BY <1>4, <1>8, NibblesRule
  <2> QED
    BY <2>1, <1>9, <1>10 DEF NibbleRule
<1>13. Xor(a, b) = 16 * e + (8 * w + t)
  <2>1. PICK r, s \in Nat : r = 8 * c + k /\ s = 8 * d + l /\ r < 16 /\ s < 16
    BY <1>4, <1>8
  <2>2. HexRule(g, h, r, s)
    BY <2>1, <1>4, <1>8, XorHex
  <2> QED
    BY <2>1, <2>2, <1>4, <1>8, <1>9b, <1>9, <1>12 DEF HexRule
<1>14. Xor(2 * a + x, 2 * b + y) = 16 * (2 * e + w) + (2 * t + v)
  <2>1. PICK r, s \in Nat : r = 2 * k + x /\ s = 2 * l + y /\ r < 16 /\ s < 16
    BY <1>4, <1>8
  <2>2. PICK i, j \in Nat : i = 2 * g + c /\ j = 2 * h + d /\ i < 4096 /\ j < 4096
    BY <1>4, <1>8
  <2>3. HexRule(i, j, r, s)
    BY <2>1, <2>2, XorHex
  <2>4. 2 * a + x = 16 * i + r /\ 2 * b + y = 16 * j + s
    BY <2>1, <2>2, <1>4, <1>8
  <2> QED
    BY <2>1, <2>2, <2>3, <2>4, <1>11, <1>12 DEF HexRule
<1>15. Xor(m * x + a, m * y + b) = 16 * (n * v + e) + (8 * w + t)
  <2>1. PICK r, s \in Nat : r = 8 * c + k /\ s = 8 * d + l /\ r < 16 /\ s < 16
    BY <1>4, <1>8
  <2>2. PICK i, j \in Nat : i = n * x + g /\ j = n * y + h /\ i < 4096 /\ j < 4096
    BY <1>4, <1>8
  <2>3. HexRule(i, j, r, s)
    BY <2>1, <2>2, XorHex
  <2>4. m * x + a = 16 * i + r /\ m * y + b = 16 * j + s
    BY <2>1, <2>2, <1>4, <1>8
  <2> QED
    BY <2>1, <2>2, <2>3, <2>4, <1>11, <1>12 DEF HexRule
<1>16. 16 * (n * v + e) + (8 * w + t) = m * v + (16 * e + (8 * w + t))
  OBVIOUS
<1>17. PICK z \in Nat : z = 16 * e + (8 * w + t) /\ z < m
  BY <1>9b, <1>9
<1> QED
  BY <1>10, <1>13, <1>14, <1>15, <1>16, <1>17 DEF Doubled

LEMMA XorDoubles == Doubles(32768)
<1>1. Doubles(128)
  BY DoublesFirst, DoublesNext
<1>2. Doubles(2048)
  BY <1>1, DoublesNext
<1> QED
  BY <1>2, DoublesNext

-----------------------------------------------------------------------------
(* Xor is commutative and associative, 0 its unit, every number its own     *)
(* inverse; of bits, it is whether they differ.                             *)

(* The laws of Xor, for numbers below n.                                    *)
Lawful(a, b, c) ==
  /\ Xor(a, b) = Xor(b, a) /\ Xor(a, 0) = a /\ Xor(a, a) = 0
  /\ Xor(Xor(a, b), c) = Xor(a, Xor(b, c))

Laws(n) == \A a, b, c \in Nat : a < n /\ b < n /\ c < n => Lawful(a, b, c)

LEMMA BitLaws ==
  ASSUME NEW x \in {0, 1}, NEW y \in {0, 1}, NEW z \in {0, 1}
  PROVE  /\ Differ(x, y) \in {0, 1} /\ Differ(y, z) \in {0, 1}
         /\ Differ(x, y) = Differ(y, x) /\ Differ(x, 0) = x /\ Differ(x, x) = 0
         /\ Differ(Differ(x, y), z) = Differ(x, Differ(y, z))
  BY DEF Differ

LEMMA XorRule ==
  ASSUME NEW a \in Nat, a < 32768, NEW b \in Nat, b < 32768,
         NEW x \in {0, 1}, NEW y \in {0, 1}
  PROVE  Doubled(32768, a, b, x, y)
  BY XorDoubles DEF Doubles

LEMMA LawsFirst == Laws(1)
<1>1. Xor(0, 0) = 0
  <2>1. Doubled(32768, 0, 0, 0, 0)
    BY XorRule
  <2>2. Xor(0, 0) \in Nat /\ Xor(0, 0) = 2 * Xor(0, 0) + 0
    BY <2>1 DEF Doubled, Differ
  <2> QED
    BY <2>2
<1> QED
  BY <1>1 DEF Laws, Lawful

LEMMA LawsNext ==
  ASSUME NEW n \in Nat, 0 < n, n <= 32768, Laws(n), NEW m, m = 2 * n
  PROVE  Laws(m)
<1> SUFFICES ASSUME NEW a \in Nat, NEW b \in Nat, NEW c \in Nat, a < m, b < m, c < m
             PROVE  Lawful(a, b, c)
  BY DEF Laws
<1>1. PICK g \in Nat : g = a \div 2
  BY SMT
<1>2. PICK x \in {0, 1} : a = 2 * g + x /\ g < n
  BY <1>1, SMT
<1>3. PICK h \in Nat : h = b \div 2
  BY SMT
<1>4. PICK y \in {0, 1} : b = 2 * h + y /\ h < n
  BY <1>3, SMT
<1>5. PICK k \in Nat : k = c \div 2
  BY SMT
<1>6. PICK z \in {0, 1} : c = 2 * k + z /\ k < n
  BY <1>5, SMT
<1>7. Lawful(g, h, k)
  BY <1>2, <1>4, <1>6 DEF Laws
<1>8. /\ Doubled(32768, g, h, x, y) /\ Doubled(32768, h, g, y, x)
      /\ Doubled(32768, h, k, y, z) /\ Doubled(32768, g, 0, x, 0)
      /\ Doubled(32768, g, g, x, x)
  BY <1>2, <1>4, <1>6, XorRule
<1>9. PICK s \in Nat : s = Xor(g, h) /\ s < 32768
  BY <1>8 DEF Doubled
<1>10. PICK t \in Nat : t = Xor(h, k) /\ t < 32768
  BY <1>8 DEF Doubled
<1>11. PICK u \in {0, 1} : u = Differ(x, y)
  BY BitLaws
<1>12. PICK v \in {0, 1} : v = Differ(y, z)
  BY BitLaws
<1>13. Doubled(32768, s, k, u, z) /\ Doubled(32768, g, t, x, v)
  BY <1>2, <1>6, <1>9, <1>10, XorRule
<1>14. Xor(a, b) = 2 * s + u /\ Xor(b, c) = 2 * t + v
  BY <1>2, <1>4, <1>6, <1>8, <1>9, <1>10, <1>11, <1>12 DEF Doubled
<1>15. Xor(a, b) = Xor(b, a)
  <2>1. Xor(h, g) = s /\ Differ(y, x) = u
    BY <1>7, <1>9, <1>11, BitLaws DEF Lawful
  <2>2. Xor(b, a) = 2 * Xor(h, g) + Differ(y, x)
    BY <1>2, <1>4, <1>8 DEF Doubled
  <2> QED
    BY <1>14, <2>1, <2>2
<1>16. Xor(a, 0) = a
  <2>1. Xor(g, 0) = g /\ Differ(x, 0) = x
    BY <1>7, BitLaws DEF Lawful
  <2>2. Xor(a, 2 * 0 + 0) = 2 * Xor(g, 0) + Differ(x, 0)
    BY <1>2, <1>8 DEF Doubled
  <2> QED
    BY <1>2, <2>1, <2>2
<1>17. Xor(a, a) = 0
  <2>1. Xor(g, g) = 0 /\ Differ(x, x) = 0
    BY <1>7, BitLaws DEF Lawful
  <2>2. Xor(a, a) = 2 * Xor(g, g) + Differ(x, x)
    BY <1>2, <1>8 DEF Doubled
  <2> QED
    BY <2>1, <2>2
<1>18. Xor(Xor(a, b), c) = Xor(a, Xor(b, c))
  <2>1. Xor(s, k) = Xor(g, t) /\ Differ(u, z) = Differ(x, v)
    BY <1>7, <1>9, <1>10, <1>11, <1>12, BitLaws DEF Lawful
  <2>2. /\ Xor(2 * s + u, 2 * k + z) = 2 * Xor(s, k) + Differ(u, z)
        /\ Xor(2 * g + x, 2 * t + v) = 2 * Xor(g, t) + Differ(x, v)
    BY <1>13 DEF Doubled
  <2> QED
    BY <1>2, <1>6, <1>14, <2>1, <2>2
<1> QED
  BY <1>15, <1>16, <1>17, <1>18 DEF Lawful

LEMMA XorLaws == Laws(65536)
<1>1. Laws(16)
  <2>1. Laws(2)
    BY LawsFirst, LawsNext
  <2>2. Laws(4)
    BY <2>1, LawsNext
  <2>3. Laws(8)
    BY <2>2, LawsNext
  <2> QED
    BY <2>3, LawsNext
<1>2. Laws(256)
  <2>1. Laws(32)
    BY <1>1, LawsNext
  <2>2. Laws(64)
    BY <2>1, LawsNext
  <2>3. Laws(128)
    BY <2>2, LawsNext
  <2> QED
    BY <2>3, LawsNext
<1>3. Laws(4096)
  <2>1. Laws(512)
    BY <1>2, LawsNext
  <2>2. Laws(1024)
    BY <2>1, LawsNext
  <2>3. Laws(2048)
    BY <2>2, LawsNext
  <2> QED
    BY <2>3, LawsNext
<1>4. Laws(32768)
  <2>1. Laws(8192)
    BY <1>3, LawsNext
  <2>2. Laws(16384)
    BY <2>1, LawsNext
  <2> QED
    BY <2>2, LawsNext
<1> QED
  BY <1>4, LawsNext

IsWord(a) == a \in Nat /\ a < 65536

LEMMA XorType ==
  ASSUME NEW a, IsWord(a), NEW b, IsWord(b)
  PROVE  IsWord(Xor(a, b))
<1>1. PICK g \in Nat : g = a % 32768 /\ g < 32768
  BY SMT DEF IsWord
<1>2. PICK x \in {0, 1} : a = 32768 * x + g
  BY <1>1, SMT DEF IsWord
<1>3. PICK h \in Nat : h = b % 32768 /\ h < 32768
  BY SMT DEF IsWord
<1>4. PICK y \in {0, 1} : b = 32768 * y + h
  BY <1>3, SMT DEF IsWord
<1>5. Doubled(32768, g, h, x, y)
  BY <1>1, <1>3, XorRule
<1>6. Differ(x, y) \in {0, 1}
  BY BitLaws
<1> QED
  BY <1>2, <1>4, <1>5, <1>6 DEF Doubled, IsWord

LEMMA XorLawful ==
  ASSUME NEW a, IsWord(a), NEW b, IsWord(b), NEW c, IsWord(c)
  PROVE  Lawful(a, b, c)
  BY XorLaws DEF Laws, IsWord

LEMMA XorSwap ==
  ASSUME NEW a, IsWord(a), NEW b, IsWord(b), NEW c, IsWord(c), NEW d, IsWord(d)
  PROVE  Xor(Xor(a, b), Xor(c, d)) = Xor(Xor(a, c), Xor(b, d))
<1>1. IsWord(Xor(c, d)) /\ IsWord(Xor(b, d)) /\ IsWord(Xor(b, c))
  BY XorType
<1>2. Xor(Xor(a, b), Xor(c, d)) = Xor(a, Xor(b, Xor(c, d)))
  BY <1>1, XorLawful DEF Lawful
<1>3. Xor(b, Xor(c, d)) = Xor(Xor(b, c), d)
  BY XorLawful DEF Lawful
<1>4. Xor(b, c) = Xor(c, b)
  BY XorLawful DEF Lawful
<1>5. Xor(Xor(c, b), d) = Xor(c, Xor(b, d))
  BY XorLawful DEF Lawful
<1>6. Xor(a, Xor(c, Xor(b, d))) = Xor(Xor(a, c), Xor(b, d))
  BY <1>1, XorLawful DEF Lawful
<1> QED
  BY <1>2, <1>3, <1>4, <1>5, <1>6

-----------------------------------------------------------------------------
(* Dividing by the polynomial, bit by bit, is linear.                       *)

(* One bit more of the message: Remainder's step.                           *)
Push(r, bit) ==
  LET x == 2 * r + bit
  IN  IF x >= 65536 THEN Xor(x % 65536, \h8005) ELSE x

(* The polynomial, if the bit that leaves is set.                           *)
Poly(x) == IF x = 1 THEN 32773 ELSE 0

LEMMA PolyType ==
  ASSUME NEW x \in {0, 1}, NEW y \in {0, 1}
  PROVE  IsWord(Poly(x)) /\ Xor(Poly(x), Poly(y)) = Poly(Differ(x, y))
<1>1. IsWord(0) /\ IsWord(32773)
  BY DEF IsWord
<1>2. Lawful(0, 32773, 0) /\ Lawful(32773, 0, 0)
  BY <1>1, XorLawful
<1> QED
  BY <1>1, <1>2 DEF Lawful, Poly, Differ

PushRule(g, x, u) == Push(32768 * x + g, u) = Xor(2 * g + u, Poly(x))

LEMMA PushForm ==
  ASSUME NEW g \in Nat, g < 32768, NEW x \in {0, 1}, NEW u \in {0, 1}
  PROVE  PushRule(g, x, u)
<1>1. PICK y \in Nat : y = 2 * g + u /\ y < 65536
  OBVIOUS
<1>2. PICK z \in Nat : z = 2 * (32768 * x + g) + u
  OBVIOUS
<1>3. CASE x = 1
  <2>1. z >= 65536 /\ z % 65536 = y
    BY <1>1, <1>2, <1>3, SMT
  <2>2. \h8005 = 32773
    OBVIOUS
  <2> QED
    BY <1>1, <1>2, <1>3, <2>1, <2>2 DEF PushRule, Push, Poly
<1>4. CASE x = 0
  <2>1. z = y /\ ~ z >= 65536
    BY <1>1, <1>2, <1>4
  <2>2. IsWord(y) /\ IsWord(0)
    BY <1>1 DEF IsWord
  <2>3. Xor(y, 0) = y
    BY <2>2, XorLawful DEF Lawful
  <2>4. Push(32768 * x + g, u) = z
    BY <1>2, <2>1 DEF Push
  <2> QED
    BY <1>1, <1>4, <2>1, <2>3, <2>4 DEF PushRule, Poly
<1> QED
  BY <1>3, <1>4

(* A word as its highest bit and the others.                                *)
LEMMA TopBit ==
  ASSUME NEW a, IsWord(a)
  PROVE  \E g \in Nat : \E x \in {0, 1} : g < 32768 /\ a = 32768 * x + g
<1>1. PICK g \in Nat : g = a % 32768 /\ g < 32768
  BY SMT DEF IsWord
<1>2. PICK x \in {0, 1} : a = 32768 * x + g
  BY <1>1, SMT DEF IsWord
<1> WITNESS g \in Nat
<1> WITNESS x \in {0, 1}
<1> QED
  BY <1>1, <1>2

LEMMA PushType ==
  ASSUME NEW r, IsWord(r), NEW u \in {0, 1}
  PROVE  IsWord(Push(r, u))
<1>1. PICK g \in Nat : \E x \in {0, 1} : g < 32768 /\ r = 32768 * x + g
  BY TopBit
<1>2. PICK x \in {0, 1} : g < 32768 /\ r = 32768 * x + g
  BY <1>1
<1>3. PushRule(g, x, u)
  BY <1>2, PushForm
<1>4. IsWord(2 * g + u) /\ IsWord(Poly(x))
  BY <1>2, PolyType DEF IsWord
<1>5. IsWord(Xor(2 * g + u, Poly(x)))
  BY <1>4, XorType
<1> QED
  BY <1>2, <1>3, <1>5 DEF PushRule

(* Push is linear.                                                          *)
LEMMA PushLinear ==
  ASSUME NEW r, IsWord(r), NEW s, IsWord(s), NEW u \in {0, 1}, NEW v \in {0, 1}
  PROVE  Push(Xor(r, s), Differ(u, v)) = Xor(Push(r, u), Push(s, v))
<1>1. PICK g \in Nat : \E x \in {0, 1} : g < 32768 /\ r = 32768 * x + g
  BY TopBit
<1>2. PICK x \in {0, 1} : g < 32768 /\ r = 32768 * x + g
  BY <1>1
<1>3. PICK h \in Nat : \E y \in {0, 1} : h < 32768 /\ s = 32768 * y + h
  BY TopBit
<1>4. PICK y \in {0, 1} : h < 32768 /\ s = 32768 * y + h
  BY <1>3
<1>5. Doubled(32768, g, h, x, y) /\ Doubled(32768, g, h, u, v)
  BY <1>2, <1>4, XorRule
<1>6. PICK k \in Nat : k = Xor(g, h) /\ k < 32768
  BY <1>5 DEF Doubled
<1>7. PICK d \in {0, 1} : d = Differ(u, v)
  BY BitLaws
<1>8. PICK e \in {0, 1} : e = Differ(x, y)
  BY BitLaws
<1>9. PushRule(g, x, u) /\ PushRule(h, y, v) /\ PushRule(k, e, d)
  BY <1>2, <1>4, <1>6, PushForm
<1>10. Xor(r, s) = 32768 * e + k /\ Xor(2 * g + u, 2 * h + v) = 2 * k + d
  BY <1>2, <1>4, <1>5, <1>6, <1>7, <1>8 DEF Doubled
<1>11. Push(Xor(r, s), Differ(u, v)) = Xor(Xor(2 * g + u, 2 * h + v), Poly(e))
  BY <1>7, <1>9, <1>10 DEF PushRule
<1>12. Poly(e) = Xor(Poly(x), Poly(y))
  BY <1>8, PolyType
<1>13. /\ IsWord(2 * g + u) /\ IsWord(2 * h + v)
       /\ IsWord(Poly(x)) /\ IsWord(Poly(y))
  BY <1>2, <1>4, PolyType DEF IsWord
<1>14. Xor(Xor(2 * g + u, 2 * h + v), Xor(Poly(x), Poly(y)))
         = Xor(Xor(2 * g + u, Poly(x)), Xor(2 * h + v, Poly(y)))
  BY <1>13, XorSwap
<1>15. Push(r, u) = Xor(2 * g + u, Poly(x)) /\ Push(s, v) = Xor(2 * h + v, Poly(y))
  BY <1>2, <1>4, <1>9 DEF PushRule
<1> QED
  BY <1>11, <1>12, <1>14, <1>15

(* Nothing but zero is pushed to zero.                                      *)
LEMMA PushZero ==
  ASSUME NEW r, IsWord(r), Push(r, 0) = 0
  PROVE  r = 0
<1>1. PICK g \in Nat : \E x \in {0, 1} : g < 32768 /\ r = 32768 * x + g
  BY TopBit
<1>2. PICK x \in {0, 1} : g < 32768 /\ r = 32768 * x + g
  BY <1>1
<1>3. PushRule(g, x, 0)
  BY <1>2, PushForm
<1>4. Xor(2 * g + 0, Poly(x)) = 0
  BY <1>2, <1>3 DEF PushRule
<1>5. Doubled(32768, g, 16386, 0, 1) /\ Differ(0, 1) = 1
  BY <1>2, XorRule DEF Differ
<1>6. CASE x = 1
  <2>1. Poly(x) = 2 * 16386 + 1
    BY <1>6 DEF Poly
  <2>2. Xor(g, 16386) \in Nat /\ Xor(2 * g + 0, 2 * 16386 + 1) = 2 * Xor(g, 16386) + 1
    BY <1>5 DEF Doubled
  <2> QED
    BY <1>4, <2>1, <2>2
<1>7. CASE x = 0
  <2>1. Poly(x) = 0
    BY <1>7 DEF Poly
  <2>2. IsWord(2 * g + 0) /\ IsWord(0)
    BY <1>2 DEF IsWord
  <2>3. Xor(2 * g + 0, 0) = 2 * g + 0
    BY <2>2, XorLawful DEF Lawful
  <2> QED
    BY <1>2, <1>4, <1>7, <2>1, <2>3
<1> QED
  BY <1>6, <1>7

-----------------------------------------------------------------------------
(* The table: its entries 2g and 2g + 1 are entry g, one step further.      *)

(* y ^ 0x8005, by its bits 0, 2 and 15.                                     *)
Flipped(y) ==
  y + (1 - 2 * (y % 2)) + 4 * (1 - 2 * ((y \div 4) % 2)) + 32768 * (1 - 2 * (y \div 32768))

Pushed(y) == IF y < 32768 THEN 2 * y ELSE Flipped(2 * y - 65536)

(* The entries 2g and 2g + 1 of Crc16Table, from entry g.                   *)
Grows(g) ==
  /\ Crc16Table[2 * g + 1] = Pushed(Crc16Table[g + 1])
  /\ Crc16Table[2 * g + 2] = Flipped(Crc16Table[2 * g + 1])

LEMMA TableGrows == \A g \in 0 .. 127 : Grows(g)
<1>0. /\ Crc16Table[1] = 0 /\ Crc16Table[2] = 32773 /\ Crc16Table[3] = 32783
      /\ Crc16Table[4] = 10
      /\ Crc16Table[5] = 32795 /\ Crc16Table[6] = 30 /\ Crc16Table[7] = 20
      /\ Crc16Table[8] = 32785
      /\ Crc16Table[9] = 32819 /\ Crc16Table[10] = 54 /\ Crc16Table[11] = 60
      /\ Crc16Table[12] = 32825
      /\ Crc16Table[13] = 40 /\ Crc16Table[14] = 32813 /\ Crc16Table[15] = 32807
      /\ Crc16Table[16] = 34
  BY DEF Crc16Table
<1>1. /\ Crc16Table[17] = 32867 /\ Crc16Table[18] = 102 /\ Crc16Table[19] = 108
      /\ Crc16Table[20] = 32873
      /\ Crc16Table[21] = 120 /\ Crc16Table[22] = 32893 /\ Crc16Table[23] = 32887
      /\ Crc16Table[24] = 114
      /\ Crc16Table[25] = 80 /\ Crc16Table[26] = 32853 /\ Crc16Table[27] = 32863
      /\ Crc16Table[28] = 90
      /\ Crc16Table[29] = 32843 /\ Crc16Table[30] = 78 /\ Crc16Table[31] = 68
      /\ Crc16Table[32] = 32833
  BY DEF Crc16Table
<1>2. /\ Crc16Table[33] = 32963 /\ Crc16Table[34] = 198 /\ Crc16Table[35] = 204
      /\ Crc16Table[36] = 32969
      /\ Crc16Table[37] = 216 /\ Crc16Table[38] = 32989 /\ Crc16Table[39] = 32983
      /\ Crc16Table[40] = 210
      /\ Crc16Table[41] = 240 /\ Crc16Table[42] = 33013 /\ Crc16Table[43] = 33023
      /\ Crc16Table[44] = 250
      /\ Crc16Table[45] = 33003 /\ Crc16Table[46] = 238 /\ Crc16Table[47] = 228
      /\ Crc16Table[48] = 32993
  BY DEF Crc16Table
<1>3. /\ Crc16Table[49] = 160 /\ Crc16Table[50] = 32933 /\ Crc16Table[51] = 32943
      /\ Crc16Table[52] = 170
      /\ Crc16Table[53] = 32955 /\ Crc16Table[54] = 190 /\ Crc16Table[55] = 180
      /\ Crc16Table[56] = 32945
      /\ Crc16Table[57] = 32915 /\ Crc16Table[58] = 150 /\ Crc16Table[59] = 156
      /\ Crc16Table[60] = 32921
      /\ Crc16Table[61] = 136 /\ Crc16Table[62] = 32909 /\ Crc16Table[63] = 32903
      /\ Crc16Table[64] = 130
  BY DEF Crc16Table
<1>4. /\ Crc16Table[65] = 33155 /\ Crc16Table[66] = 390 /\ Crc16Table[67] = 396
      /\ Crc16Table[68] = 33161
      /\ Crc16Table[69] = 408 /\ Crc16Table[70] = 33181 /\ Crc16Table[71] = 33175
      /\ Crc16Table[72] = 402
      /\ Crc16Table[73] = 432 /\ Crc16Table[74] = 33205 /\ Crc16Table[75] = 33215
      /\ Crc16Table[76] = 442
      /\ Crc16Table[77] = 33195 /\ Crc16Table[78] = 430 /\ Crc16Table[79] = 420
      /\ Crc16Table[80] = 33185
  BY DEF Crc16Table
<1>5. /\ Crc16Table[81] = 480 /\ Crc16Table[82] = 33253 /\ Crc16Table[83] = 33263
      /\ Crc16Table[84] = 490
      /\ Crc16Table[85] = 33275 /\ Crc16Table[86] = 510 /\ Crc16Table[87] = 500
      /\ Crc16Table[88] = 33265
      /\ Crc16Table[89] = 33235 /\ Crc16Table[90] = 470 /\ Crc16Table[91] = 476
      /\ Crc16Table[92] = 33241
      /\ Crc16Table[93] = 456 /\ Crc16Table[94] = 33229 /\ Crc16Table[95] = 33223
      /\ Crc16Table[96] = 450
  BY DEF Crc16Table
<1>6. /\ Crc16Table[97] = 320 /\ Crc16Table[98] = 33093 /\ Crc16Table[99] = 33103
      /\ Crc16Table[100] = 330
      /\ Crc16Table[101] = 33115 /\ Crc16Table[102] = 350 /\ Crc16Table[103] = 340
      /\ Crc16Table[104] = 33105
      /\ Crc16Table[105] = 33139 /\ Crc16Table[106] = 374 /\ Crc16Table[107] = 380
      /\ Crc16Table[108] = 33145
      /\ Crc16Table[109] = 360 /\ Crc16Table[110] = 33133 /\ Crc16Table[111] = 33127
      /\ Crc16Table[112] = 354
  BY DEF Crc16Table
<1>7. /\ Crc16Table[113] = 33059 /\ Crc16Table[114] = 294 /\ Crc16Table[115] = 300
      /\ Crc16Table[116] = 33065
      /\ Crc16Table[117] = 312 /\ Crc16Table[118] = 33085 /\ Crc16Table[119] = 33079
      /\ Crc16Table[120] = 306
      /\ Crc16Table[121] = 272 /\ Crc16Table[122] = 33045 /\ Crc16Table[123] = 33055
      /\ Crc16Table[124] = 282
      /\ Crc16Table[125] = 33035 /\ Crc16Table[126] = 270 /\ Crc16Table[127] = 260
      /\ Crc16Table[128] = 33025
  BY DEF Crc16Table
<1>8. /\ Crc16Table[129] = 33539 /\ Crc16Table[130] = 774 /\ Crc16Table[131] = 780
      /\ Crc16Table[132] = 33545
      /\ Crc16Table[133] = 792 /\ Crc16Table[134] = 33565 /\ Crc16Table[135] = 33559
      /\ Crc16Table[136] = 786
      /\ Crc16Table[137] = 816 /\ Crc16Table[138] = 33589 /\ Crc16Table[139] = 33599
      /\ Crc16Table[140] = 826
      /\ Crc16Table[141] = 33579 /\ Crc16Table[142] = 814 /\ Crc16Table[143] = 804
      /\ Crc16Table[144] = 33569
  BY DEF Crc16Table
<1>9. /\ Crc16Table[145] = 864 /\ Crc16Table[146] = 33637 /\ Crc16Table[147] = 33647
      /\ Crc16Table[148] = 874
      /\ Crc16Table[149] = 33659 /\ Crc16Table[150] = 894 /\ Crc16Table[151] = 884
      /\ Crc16Table[152] = 33649
      /\ Crc16Table[153] = 33619 /\ Crc16Table[154] = 854 /\ Crc16Table[155] = 860
      /\ Crc16Table[156] = 33625
      /\ Crc16Table[157] = 840 /\ Crc16Table[158] = 33613 /\ Crc16Table[159] = 33607
      /\ Crc16Table[160] = 834
  BY DEF Crc16Table
<1>10. /\ Crc16Table[161] = 960 /\ Crc16Table[162] = 33733 /\ Crc16Table[163] = 33743
       /\ Crc16Table[164] = 970
      /\ Crc16Table[165] = 33755 /\ Crc16Table[166] = 990 /\ Crc16Table[167] = 980
      /\ Crc16Table[168] = 33745
      /\ Crc16Table[169] = 33779 /\ Crc16Table[170] = 1014 /\ Crc16Table[171] = 1020
      /\ Crc16Table[172] = 33785
      /\ Crc16Table[173] = 1000 /\ Crc16Table[174] = 33773 /\ Crc16Table[175] = 33767
      /\ Crc16Table[176] = 994
  BY DEF Crc16Table
<1>11. /\ Crc16Table[177] = 33699 /\ Crc16Table[178] = 934 /\ Crc16Table[179] = 940
       /\ Crc16Table[180] = 33705
      /\ Crc16Table[181] = 952 /\ Crc16Table[182] = 33725 /\ Crc16Table[183] = 33719
      /\ Crc16Table[184] = 946
      /\ Crc16Table[185] = 912 /\ Crc16Table[186] = 33685 /\ Crc16Table[187] = 33695
      /\ Crc16Table[188] = 922
      /\ Crc16Table[189] = 33675 /\ Crc16Table[190] = 910 /\ Crc16Table[191] = 900
      /\ Crc16Table[192] = 33665
  BY DEF Crc16Table
<1>12. /\ Crc16Table[193] = 640 /\ Crc16Table[194] = 33413 /\ Crc16Table[195] = 33423
       /\ Crc16Table[196] = 650
      /\ Crc16Table[197] = 33435 /\ Crc16Table[198] = 670 /\ Crc16Table[199] = 660
      /\ Crc16Table[200] = 33425
      /\ Crc16Table[201] = 33459 /\ Crc16Table[202] = 694 /\ Crc16Table[203] = 700
      /\ Crc16Table[204] = 33465
      /\ Crc16Table[205] = 680 /\ Crc16Table[206] = 33453 /\ Crc16Table[207] = 33447
      /\ Crc16Table[208] = 674
  BY DEF Crc16Table
<1>13. /\ Crc16Table[209] = 33507 /\ Crc16Table[210] = 742 /\ Crc16Table[211] = 748
       /\ Crc16Table[212] = 33513
      /\ Crc16Table[213] = 760 /\ Crc16Table[214] = 33533 /\ Crc16Table[215] = 33527
      /\ Crc16Table[216] = 754
      /\ Crc16Table[217] = 720 /\ Crc16Table[218] = 33493 /\ Crc16Table[219] = 33503
      /\ Crc16Table[220] = 730
      /\ Crc16Table[221] = 33483 /\ Crc16Table[222] = 718 /\ Crc16Table[223] = 708
      /\ Crc16Table[224] = 33473
  BY DEF Crc16Table
<1>14. /\ Crc16Table[225] = 33347 /\ Crc16Table[226] = 582 /\ Crc16Table[227] = 588
       /\ Crc16Table[228] = 33353
      /\ Crc16Table[229] = 600 /\ Crc16Table[230] = 33373 /\ Crc16Table[231] = 33367
      /\ Crc16Table[232] = 594
      /\ Crc16Table[233] = 624 /\ Crc16Table[234] = 33397 /\ Crc16Table[235] = 33407
      /\ Crc16Table[236] = 634
      /\ Crc16Table[237] = 33387 /\ Crc16Table[238] = 622 /\ Crc16Table[239] = 612
      /\ Crc16Table[240] = 33377
  BY DEF Crc16Table
<1>15. /\ Crc16Table[241] = 544 /\ Crc16Table[242] = 33317 /\ Crc16Table[243] = 33327
       /\ Crc16Table[244] = 554
      /\ Crc16Table[245] = 33339 /\ Crc16Table[246] = 574 /\ Crc16Table[247] = 564
      /\ Crc16Table[248] = 33329
      /\ Crc16Table[249] = 33299 /\ Crc16Table[250] = 534 /\ Crc16Table[251] = 540
      /\ Crc16Table[252] = 33305
      /\ Crc16Table[253] = 520 /\ Crc16Table[254] = 33293 /\ Crc16Table[255] = 33287
      /\ Crc16Table[256] = 514
  BY DEF Crc16Table
<1>16. \A g \in 0 .. 7 : Grows(g)
  BY <1>0 DEF Grows, Pushed, Flipped
<1>17. \A g \in 8 .. 15 : Grows(g)
  BY <1>0, <1>1 DEF Grows, Pushed, Flipped
<1>18. \A g \in 16 .. 23 : Grows(g)
  BY <1>1, <1>2 DEF Grows, Pushed, Flipped
<1>19. \A g \in 24 .. 31 : Grows(g)
  BY <1>1, <1>3 DEF Grows, Pushed, Flipped
<1>20. \A g \in 32 .. 39 : Grows(g)
  BY <1>2, <1>4 DEF Grows, Pushed, Flipped
<1>21. \A g \in 40 .. 47 : Grows(g)
  BY <1>2, <1>5 DEF Grows, Pushed, Flipped
<1>22. \A g \in 48 .. 55 : Grows(g)
  BY <1>3, <1>6 DEF Grows, Pushed, Flipped
<1>23. \A g \in 56 .. 63 : Grows(g)
  BY <1>3, <1>7 DEF Grows, Pushed, Flipped
<1>24. \A g \in 64 .. 71 : Grows(g)
  BY <1>4, <1>8 DEF Grows, Pushed, Flipped
<1>25. \A g \in 72 .. 79 : Grows(g)
  BY <1>4, <1>9 DEF Grows, Pushed, Flipped
<1>26. \A g \in 80 .. 87 : Grows(g)
  BY <1>5, <1>10 DEF Grows, Pushed, Flipped
<1>27. \A g \in 88 .. 95 : Grows(g)
  BY <1>5, <1>11 DEF Grows, Pushed, Flipped
<1>28. \A g \in 96 .. 103 : Grows(g)
  BY <1>6, <1>12 DEF Grows, Pushed, Flipped
<1>29. \A g \in 104 .. 111 : Grows(g)
  BY <1>6, <1>13 DEF Grows, Pushed, Flipped
<1>30. \A g \in 112 .. 119 : Grows(g)
  BY <1>7, <1>14 DEF Grows, Pushed, Flipped
<1>31. \A g \in 120 .. 127 : Grows(g)
  BY <1>7, <1>15 DEF Grows, Pushed, Flipped
<1> QED
  BY <1>16, <1>17, <1>18, <1>19, <1>20, <1>21, <1>22, <1>23, <1>24, <1>25, <1>26, <1>27, <1>28,
     <1>29, <1>30, <1>31

LEMMA FlipRule ==
  ASSUME NEW y, IsWord(y)
  PROVE  Xor(y, 32773) = Flipped(y)
<1>1. PICK g \in Nat : \E x \in {0, 1} : g < 32768 /\ y = 32768 * x + g
  BY TopBit
<1>2. PICK x \in {0, 1} : g < 32768 /\ y = 32768 * x + g
  BY <1>1
<1>3. PICK h \in Nat : h = g \div 8
  BY SMT
<1>4. PICK a \in {0, 1} : a = g % 2
  BY SMT
<1>5. PICK b \in {0, 1} : b = (g \div 2) % 2
  BY SMT
<1>6. PICK c \in {0, 1} : c = (g \div 4) % 2
  BY SMT
<1>7. g = 2 * (2 * (2 * h + c) + b) + a /\ h < 4096
  BY <1>2, <1>3, <1>4, <1>5, <1>6, SMT
<1>8. PICK p, q \in Nat : p = 2 * h + c /\ q = 2 * p + b /\ p < 32768 /\ q < 32768
        /\ g = 2 * q + a
  BY <1>7
<1>9. /\ Doubled(32768, h, 0, c, 1) /\ Doubled(32768, p, 1, b, 0)
      /\ Doubled(32768, q, 2, a, 1) /\ Doubled(32768, g, 5, x, 1)
  BY <1>2, <1>7, <1>8, XorRule
<1>10. Xor(h, 0) = h
  <2>1. IsWord(h) /\ IsWord(0)
    BY <1>7 DEF IsWord
  <2> QED
    BY <2>1, XorLawful DEF Lawful
<1>11. \A u \in {0, 1} : Differ(u, 1) = 1 - u /\ Differ(u, 0) = u
  BY DEF Differ
<1>12. Xor(p, 1) = 2 * h + (1 - c)
  <2>1. Xor(2 * h + c, 2 * 0 + 1) = 2 * Xor(h, 0) + Differ(c, 1)
    BY <1>9 DEF Doubled
  <2>2. Differ(c, 1) = 1 - c
    BY <1>11
  <2> QED
    BY <1>8, <1>10, <2>1, <2>2
<1>13. Xor(q, 2) = 2 * (2 * h + (1 - c)) + b
  <2>1. Xor(2 * p + b, 2 * 1 + 0) = 2 * Xor(p, 1) + Differ(b, 0)
    BY <1>9 DEF Doubled
  <2>2. Differ(b, 0) = b
    BY <1>11
  <2> QED
    BY <1>8, <1>12, <2>1, <2>2
<1>14. Xor(g, 5) = 2 * (2 * (2 * h + (1 - c)) + b) + (1 - a)
  <2>1. Xor(2 * q + a, 2 * 2 + 1) = 2 * Xor(q, 2) + Differ(a, 1)
    BY <1>9 DEF Doubled
  <2>2. Differ(a, 1) = 1 - a
    BY <1>11
  <2> QED
    BY <1>8, <1>13, <2>1, <2>2
<1>15. Xor(y, 32773) = 32768 * (1 - x) + (2 * (2 * (2 * h + (1 - c)) + b) + (1 - a))
  <2>1. Xor(32768 * x + g, 32768 * 1 + 5) = 32768 * Differ(x, 1) + Xor(g, 5)
    BY <1>9 DEF Doubled
  <2> QED
    BY <1>2, <1>11, <1>14, <2>1
<1>16. PICK n \in Nat : n = y
  BY <1>2
<1>17. n % 2 = a /\ (n \div 4) % 2 = c /\ n \div 32768 = x
  BY <1>2, <1>7, <1>16, SMT
<1> QED
  BY <1>2, <1>7, <1>15, <1>16, <1>17 DEF Flipped

LEMMA PushTwice ==
  ASSUME NEW y, IsWord(y)
  PROVE  Push(y, 0) = Pushed(y)
<1>1. PICK n \in Nat : n = y /\ n < 65536
  BY DEF IsWord
<1>2. CASE n < 32768
  BY <1>1, <1>2 DEF Push, Pushed
<1>3. CASE n >= 32768
  <2>1. PICK m \in Nat : m = 2 * n - 65536 /\ m < 65536
    BY <1>1, <1>3
  <2>2. (2 * n + 0) % 65536 = m
    BY <1>1, <1>3, <2>1, SMT
  <2>3. Xor(m, 32773) = Flipped(m)
    BY <2>1, FlipRule DEF IsWord
  <2>4. \h8005 = 32773
    OBVIOUS
  <2> QED
    BY <1>1, <1>3, <2>1, <2>2, <2>3, <2>4 DEF Push, Pushed
<1> QED
  BY <1>1, <1>2, <1>3

(* A byte of the message, its highest bit first.                            *)
Pushes(r, byte) ==
  LET r1 == Push(r, Bit(byte, 7))
      r2 == Push(r1, Bit(byte, 6))
      r3 == Push(r2, Bit(byte, 5))
      r4 == Push(r3, Bit(byte, 4))
      r5 == Push(r4, Bit(byte, 3))
      r6 == Push(r5, Bit(byte, 2))
      r7 == Push(r6, Bit(byte, 1))
  IN  Push(r7, Bit(byte, 0))

(* The bits of a byte.                                                      *)
LEMMA ByteBits ==
  ASSUME NEW b \in Byte
  PROVE  /\ \A i \in 0 .. 7 : Bit(b, i) \in {0, 1}
         /\ b = 128 * Bit(b, 7) + 64 * Bit(b, 6) + 32 * Bit(b, 5) + 16 * Bit(b, 4)
                + 8 * Bit(b, 3) + 4 * Bit(b, 2) + 2 * Bit(b, 1) + Bit(b, 0)
<1>1. PICK n \in Nat : n = b /\ n < 256
  BY DEF Byte
<1>2. /\ 2^0 = 1 /\ 2^1 = 2 /\ 2^2 = 4 /\ 2^3 = 8
      /\ 2^4 = 16 /\ 2^5 = 32 /\ 2^6 = 64 /\ 2^7 = 128
  OBVIOUS
<1>3. /\ Bit(n, 0) = (n \div 1) % 2 /\ Bit(n, 1) = (n \div 2) % 2
      /\ Bit(n, 2) = (n \div 4) % 2 /\ Bit(n, 3) = (n \div 8) % 2
      /\ Bit(n, 4) = (n \div 16) % 2 /\ Bit(n, 5) = (n \div 32) % 2
      /\ Bit(n, 6) = (n \div 64) % 2 /\ Bit(n, 7) = (n \div 128) % 2
  BY <1>2 DEF Bit
<1>4. PICK b0, b1, b2, b3, b4, b5, b6, b7 \in Nat :
        /\ b0 = (n \div 1) % 2 /\ b1 = (n \div 2) % 2 /\ b2 = (n \div 4) % 2
        /\ b3 = (n \div 8) % 2 /\ b4 = (n \div 16) % 2 /\ b5 = (n \div 32) % 2
        /\ b6 = (n \div 64) % 2 /\ b7 = (n \div 128) % 2
  BY SMT
<1>5. /\ b0 < 2 /\ b1 < 2 /\ b2 < 2 /\ b3 < 2 /\ b4 < 2 /\ b5 < 2 /\ b6 < 2 /\ b7 < 2
      /\ n = 128 * b7 + 64 * b6 + 32 * b5 + 16 * b4 + 8 * b3 + 4 * b2 + 2 * b1 + b0
  BY <1>1, <1>4, SMT
<1>6. /\ Bit(b, 0) = b0 /\ Bit(b, 1) = b1 /\ Bit(b, 2) = b2 /\ Bit(b, 3) = b3
      /\ Bit(b, 4) = b4 /\ Bit(b, 5) = b5 /\ Bit(b, 6) = b6 /\ Bit(b, 7) = b7
  BY <1>1, <1>3, <1>4
<1>7. /\ Bit(b, 0) \in {0, 1} /\ Bit(b, 1) \in {0, 1} /\ Bit(b, 2) \in {0, 1}
      /\ Bit(b, 3) \in {0, 1} /\ Bit(b, 4) \in {0, 1} /\ Bit(b, 5) \in {0, 1}
      /\ Bit(b, 6) \in {0, 1} /\ Bit(b, 7) \in {0, 1}
  BY <1>5, <1>6
<1>8. \A i \in 0 .. 7 : i = 0 \/ i = 1 \/ i = 2 \/ i = 3 \/ i = 4 \/ i = 5 \/ i = 6 \/ i = 7
  OBVIOUS
<1>9. \A i \in 0 .. 7 : Bit(b, i) \in {0, 1}
  BY <1>7, <1>8
<1> QED
  BY <1>1, <1>5, <1>6, <1>9

LEMMA ZeroBits == \A i \in 0 .. 7 : Bit(0, i) = 0
<1>1. 0 \in Byte /\ \A i \in 0 .. 7 : Bit(0, i) \in {0, 1}
  BY ByteBits DEF Byte
<1>2. 0 = 128 * Bit(0, 7) + 64 * Bit(0, 6) + 32 * Bit(0, 5) + 16 * Bit(0, 4)
          + 8 * Bit(0, 3) + 4 * Bit(0, 2) + 2 * Bit(0, 1) + Bit(0, 0)
  BY <1>1, ByteBits
<1>3. \A i \in 0 .. 7 : i = 0 \/ i = 1 \/ i = 2 \/ i = 3 \/ i = 4 \/ i = 5 \/ i = 6 \/ i = 7
  OBVIOUS
<1>4. /\ Bit(0, 0) \in {0, 1} /\ Bit(0, 1) \in {0, 1} /\ Bit(0, 2) \in {0, 1}
      /\ Bit(0, 3) \in {0, 1} /\ Bit(0, 4) \in {0, 1} /\ Bit(0, 5) \in {0, 1}
      /\ Bit(0, 6) \in {0, 1} /\ Bit(0, 7) \in {0, 1}
  BY <1>1
<1> QED
  BY <1>2, <1>3, <1>4

LEMMA PushLow ==
  ASSUME NEW x \in Nat, x < 32768, NEW u \in {0, 1}
  PROVE  Push(x, u) = 2 * x + u
  BY DEF Push

LEMMA PushesType ==
  ASSUME NEW r, IsWord(r), NEW b \in Byte
  PROVE  IsWord(Pushes(r, b))
<1>1. \A i \in 0 .. 7 : Bit(b, i) \in {0, 1}
  BY ByteBits
<1>2. \A s : \A i \in 0 .. 7 : IsWord(s) => IsWord(Push(s, Bit(b, i)))
  BY <1>1, PushType
<1> QED
  BY <1>2 DEF Pushes

(* What is pushed out of the register depends on its high byte only.        *)
LEMMA PushesLow ==
  ASSUME NEW l \in Byte, NEW b \in Byte
  PROVE  Pushes(l, b) = 256 * l + b
<1>1. /\ Bit(b, 0) \in {0, 1} /\ Bit(b, 1) \in {0, 1} /\ Bit(b, 2) \in {0, 1}
      /\ Bit(b, 3) \in {0, 1} /\ Bit(b, 4) \in {0, 1} /\ Bit(b, 5) \in {0, 1}
      /\ Bit(b, 6) \in {0, 1} /\ Bit(b, 7) \in {0, 1}
  BY ByteBits
<1>2. PICK n \in Nat : n = l /\ n < 256
  BY DEF Byte
<1>b0. PICK b0 \in {0, 1} : b0 = Bit(b, 0)
  BY <1>1
<1>b1. PICK b1 \in {0, 1} : b1 = Bit(b, 1)
  BY <1>1
<1>b2. PICK b2 \in {0, 1} : b2 = Bit(b, 2)
  BY <1>1
<1>b3. PICK b3 \in {0, 1} : b3 = Bit(b, 3)
  BY <1>1
<1>b4. PICK b4 \in {0, 1} : b4 = Bit(b, 4)
  BY <1>1
<1>b5. PICK b5 \in {0, 1} : b5 = Bit(b, 5)
  BY <1>1
<1>b6. PICK b6 \in {0, 1} : b6 = Bit(b, 6)
  BY <1>1
<1>b7. PICK b7 \in {0, 1} : b7 = Bit(b, 7)
  BY <1>1
<1>3. PICK p1 \in Nat : p1 = Push(n, Bit(b, 7)) /\ p1 = 2 * n + b7 /\ p1 < 512
  BY <1>1, <1>b7, <1>2, PushLow
<1>4. PICK p2 \in Nat : p2 = Push(p1, Bit(b, 6)) /\ p2 = 2 * p1 + b6 /\ p2 < 1024
  BY <1>1, <1>b6, <1>3, PushLow
<1>5. PICK p3 \in Nat : p3 = Push(p2, Bit(b, 5)) /\ p3 = 2 * p2 + b5 /\ p3 < 2048
  BY <1>1, <1>b5, <1>4, PushLow
<1>6. PICK p4 \in Nat : p4 = Push(p3, Bit(b, 4)) /\ p4 = 2 * p3 + b4 /\ p4 < 4096
  BY <1>1, <1>b4, <1>5, PushLow
<1>7. PICK p5 \in Nat : p5 = Push(p4, Bit(b, 3)) /\ p5 = 2 * p4 + b3 /\ p5 < 8192
  BY <1>1, <1>b3, <1>6, PushLow
<1>8. PICK p6 \in Nat : p6 = Push(p5, Bit(b, 2)) /\ p6 = 2 * p5 + b2 /\ p6 < 16384
  BY <1>1, <1>b2, <1>7, PushLow
<1>9. PICK p7 \in Nat : p7 = Push(p6, Bit(b, 1)) /\ p7 = 2 * p6 + b1 /\ p7 < 32768
  BY <1>1, <1>b1, <1>8, PushLow
<1>10. Push(p7, Bit(b, 0)) = 2 * p7 + b0
  BY <1>1, <1>b0, <1>9, PushLow
<1>11. Pushes(l, b) = Push(p7, Bit(b, 0))
  BY <1>2, <1>3, <1>4, <1>5, <1>6, <1>7, <1>8, <1>9 DEF Pushes
<1>12. PICK m \in Nat : m
        = 128 * b7 + 64 * b6 + 32 * b5 + 16 * b4 + 8 * b3 + 4 * b2 + 2 * b1 + b0
  OBVIOUS
<1>14. m = b
  <2>1. b = 128 * Bit(b, 7) + 64 * Bit(b, 6) + 32 * Bit(b, 5) + 16 * Bit(b, 4)
            + 8 * Bit(b, 3) + 4 * Bit(b, 2) + 2 * Bit(b, 1) + Bit(b, 0)
    BY ByteBits
  <2> QED
    BY <2>1, <1>b0, <1>b1, <1>b2, <1>b3, <1>b4, <1>b5, <1>b6, <1>b7, <1>12
<1>13. 2 * p7 + b0 = 256 * n + m
  BY <1>3, <1>4, <1>5, <1>6, <1>7, <1>8, <1>9, <1>12
<1> QED
  BY <1>2, <1>10, <1>11, <1>12, <1>13, <1>14

-----------------------------------------------------------------------------
(* A byte: its bits, and that the table does in one step what eight bits do.*)

LEMMA BitsOfByte ==
  ASSUME NEW d0 \in {0, 1}, NEW d1 \in {0, 1}, NEW d2 \in {0, 1}, NEW d3 \in {0, 1},
         NEW d4 \in {0, 1}, NEW d5 \in {0, 1}, NEW d6 \in {0, 1}, NEW d7 \in {0, 1}, NEW n,
         n = 128 * d7 + 64 * d6 + 32 * d5 + 16 * d4 + 8 * d3 + 4 * d2 + 2 * d1 + d0
  PROVE  /\ n \in Byte
         /\ Bit(n, 0) = d0 /\ Bit(n, 1) = d1 /\ Bit(n, 2) = d2 /\ Bit(n, 3) = d3
         /\ Bit(n, 4) = d4 /\ Bit(n, 5) = d5 /\ Bit(n, 6) = d6 /\ Bit(n, 7) = d7
<1>1. /\ 2^0 = 1 /\ 2^1 = 2 /\ 2^2 = 4 /\ 2^3 = 8
      /\ 2^4 = 16 /\ 2^5 = 32 /\ 2^6 = 64 /\ 2^7 = 128
  OBVIOUS
<1>2. PICK m \in Nat : m = n /\ m < 256
  OBVIOUS
<1>3. (m \div 1) % 2 = d0
  BY <1>2, SMT
<1>4. (m \div 2) % 2 = d1
  BY <1>2, SMT
<1>5. (m \div 4) % 2 = d2
  BY <1>2, SMT
<1>6. (m \div 8) % 2 = d3
  BY <1>2, SMT
<1>7. (m \div 16) % 2 = d4
  BY <1>2, SMT
<1>8. (m \div 32) % 2 = d5
  BY <1>2, SMT
<1>9. (m \div 64) % 2 = d6
  BY <1>2, SMT
<1>10. (m \div 128) % 2 = d7
  BY <1>2, SMT
<1>11. n \in Byte
  BY <1>2 DEF Byte
<1> QED
  BY <1>1, <1>2, <1>3, <1>4, <1>5, <1>6, <1>7, <1>8, <1>9, <1>10, <1>11 DEF Bit

(* The bits of an exclusive or.                                             *)
LEMMA XorBits ==
  ASSUME NEW a \in Byte, NEW b \in Byte
  PROVE  Xor(a, b) \in Byte
          /\ \A i \in 0 .. 7 : Bit(Xor(a, b), i) = Differ(Bit(a, i), Bit(b, i))
<1>1. PICK a0, a1, a2, a3, a4, a5, a6, a7 \in {0, 1} :
        /\ Bit(a, 0) = a0 /\ Bit(a, 1) = a1 /\ Bit(a, 2) = a2 /\ Bit(a, 3) = a3
        /\ Bit(a, 4) = a4 /\ Bit(a, 5) = a5 /\ Bit(a, 6) = a6 /\ Bit(a, 7) = a7
  <2>1. /\ Bit(a, 0) \in {0, 1} /\ Bit(a, 1) \in {0, 1} /\ Bit(a, 2) \in {0, 1}
        /\ Bit(a, 3) \in {0, 1} /\ Bit(a, 4) \in {0, 1} /\ Bit(a, 5) \in {0, 1}
        /\ Bit(a, 6) \in {0, 1} /\ Bit(a, 7) \in {0, 1}
    BY ByteBits
  <2> QED
    BY <2>1
<1>1s. a = 128 * a7 + 64 * a6 + 32 * a5 + 16 * a4 + 8 * a3 + 4 * a2 + 2 * a1 + a0
  <2>1. a = 128 * Bit(a, 7) + 64 * Bit(a, 6) + 32 * Bit(a, 5) + 16 * Bit(a, 4)
          + 8 * Bit(a, 3) + 4 * Bit(a, 2) + 2 * Bit(a, 1) + Bit(a, 0)
    BY ByteBits
  <2> QED
    BY <2>1, <1>1
<1>2. PICK b0, b1, b2, b3, b4, b5, b6, b7 \in {0, 1} :
        /\ Bit(b, 0) = b0 /\ Bit(b, 1) = b1 /\ Bit(b, 2) = b2 /\ Bit(b, 3) = b3
        /\ Bit(b, 4) = b4 /\ Bit(b, 5) = b5 /\ Bit(b, 6) = b6 /\ Bit(b, 7) = b7
  <2>1. /\ Bit(b, 0) \in {0, 1} /\ Bit(b, 1) \in {0, 1} /\ Bit(b, 2) \in {0, 1}
        /\ Bit(b, 3) \in {0, 1} /\ Bit(b, 4) \in {0, 1} /\ Bit(b, 5) \in {0, 1}
        /\ Bit(b, 6) \in {0, 1} /\ Bit(b, 7) \in {0, 1}
    BY ByteBits
  <2> QED
    BY <2>1
<1>2s. b = 128 * b7 + 64 * b6 + 32 * b5 + 16 * b4 + 8 * b3 + 4 * b2 + 2 * b1 + b0
  <2>1. b = 128 * Bit(b, 7) + 64 * Bit(b, 6) + 32 * Bit(b, 5) + 16 * Bit(b, 4)
          + 8 * Bit(b, 3) + 4 * Bit(b, 2) + 2 * Bit(b, 1) + Bit(b, 0)
    BY ByteBits
  <2> QED
    BY <2>1, <1>2
<1>d0. PICK d0 \in {0, 1} : d0 = Differ(a0, b0)
  BY BitLaws
<1>d1. PICK d1 \in {0, 1} : d1 = Differ(a1, b1)
  BY BitLaws
<1>d2. PICK d2 \in {0, 1} : d2 = Differ(a2, b2)
  BY BitLaws
<1>d3. PICK d3 \in {0, 1} : d3 = Differ(a3, b3)
  BY BitLaws
<1>d4. PICK d4 \in {0, 1} : d4 = Differ(a4, b4)
  BY BitLaws
<1>d5. PICK d5 \in {0, 1} : d5 = Differ(a5, b5)
  BY BitLaws
<1>d6. PICK d6 \in {0, 1} : d6 = Differ(a6, b6)
  BY BitLaws
<1>d7. PICK d7 \in {0, 1} : d7 = Differ(a7, b7)
  BY BitLaws
<1>z. Xor(0, 0) = 0
  <2>1. Lawful(0, 0, 0)
    BY XorLawful DEF IsWord
  <2> QED
    BY <2>1 DEF Lawful
<1>x7. Xor(a7, b7) = d7
  <2>1. PICK p, q, r \in Nat : p = 0 /\ q = 0 /\ r = 0 /\ p < 256 /\ q < 256
    OBVIOUS
  <2>2. Doubled(32768, p, q, a7, b7)
    BY <2>1, XorRule
  <2>3. Xor(2 * p + a7, 2 * q + b7) = 2 * r + d7
    BY <2>1, <2>2, <1>z, <1>d7 DEF Doubled
  <2> QED
    BY <2>1, <2>3
<1>x6. Xor(2 * a7 + a6, 2 * b7 + b6) = 2 * d7 + d6
  <2>1. PICK p, q, r \in Nat : p = a7 /\ q = b7 /\ r = d7 /\ p < 256 /\ q < 256
    OBVIOUS
  <2>2. Doubled(32768, p, q, a6, b6)
    BY <2>1, XorRule
  <2>3. Xor(2 * p + a6, 2 * q + b6) = 2 * r + d6
    BY <2>1, <2>2, <1>x7, <1>d6 DEF Doubled
  <2> QED
    BY <2>1, <2>3
<1>x5. Xor(4 * a7 + 2 * a6 + a5, 4 * b7 + 2 * b6 + b5) = 4 * d7 + 2 * d6 + d5
  <2>1. PICK p, q, r \in Nat :
          /\ p = 2 * a7 + a6
          /\ q = 2 * b7 + b6
          /\ r = 2 * d7 + d6
          /\ p < 256
          /\ q < 256
    OBVIOUS
  <2>2. Doubled(32768, p, q, a5, b5)
    BY <2>1, XorRule
  <2>3. Xor(2 * p + a5, 2 * q + b5) = 2 * r + d5
    BY <2>1, <2>2, <1>x6, <1>d5 DEF Doubled
  <2> QED
    BY <2>1, <2>3
<1>x4. Xor(8 * a7 + 4 * a6 + 2 * a5 + a4,
           8 * b7 + 4 * b6 + 2 * b5 + b4)
         = 8 * d7 + 4 * d6 + 2 * d5 + d4
  <2>1. PICK p, q, r \in Nat :
          /\ p = 4 * a7 + 2 * a6 + a5
          /\ q = 4 * b7 + 2 * b6 + b5
          /\ r = 4 * d7 + 2 * d6 + d5
          /\ p < 256
          /\ q < 256
    OBVIOUS
  <2>2. Doubled(32768, p, q, a4, b4)
    BY <2>1, XorRule
  <2>3. Xor(2 * p + a4, 2 * q + b4) = 2 * r + d4
    BY <2>1, <2>2, <1>x5, <1>d4 DEF Doubled
  <2> QED
    BY <2>1, <2>3
<1>x3. Xor(16 * a7 + 8 * a6 + 4 * a5 + 2 * a4 + a3,
           16 * b7 + 8 * b6 + 4 * b5 + 2 * b4 + b3)
         = 16 * d7 + 8 * d6 + 4 * d5 + 2 * d4 + d3
  <2>1. PICK p, q, r \in Nat :
          /\ p = 8 * a7 + 4 * a6 + 2 * a5 + a4
          /\ q = 8 * b7 + 4 * b6 + 2 * b5 + b4
          /\ r = 8 * d7 + 4 * d6 + 2 * d5 + d4
          /\ p < 256
          /\ q < 256
    OBVIOUS
  <2>2. Doubled(32768, p, q, a3, b3)
    BY <2>1, XorRule
  <2>3. Xor(2 * p + a3, 2 * q + b3) = 2 * r + d3
    BY <2>1, <2>2, <1>x4, <1>d3 DEF Doubled
  <2> QED
    BY <2>1, <2>3
<1>x2. Xor(32 * a7 + 16 * a6 + 8 * a5 + 4 * a4 + 2 * a3 + a2,
           32 * b7 + 16 * b6 + 8 * b5 + 4 * b4 + 2 * b3 + b2)
         = 32 * d7 + 16 * d6 + 8 * d5 + 4 * d4 + 2 * d3 + d2
  <2>1. PICK p, q, r \in Nat :
          /\ p = 16 * a7 + 8 * a6 + 4 * a5 + 2 * a4 + a3
          /\ q = 16 * b7 + 8 * b6 + 4 * b5 + 2 * b4 + b3
          /\ r = 16 * d7 + 8 * d6 + 4 * d5 + 2 * d4 + d3
          /\ p < 256
          /\ q < 256
    OBVIOUS
  <2>2. Doubled(32768, p, q, a2, b2)
    BY <2>1, XorRule
  <2>3. Xor(2 * p + a2, 2 * q + b2) = 2 * r + d2
    BY <2>1, <2>2, <1>x3, <1>d2 DEF Doubled
  <2> QED
    BY <2>1, <2>3
<1>x1. Xor(64 * a7 + 32 * a6 + 16 * a5 + 8 * a4 + 4 * a3 + 2 * a2 + a1,
           64 * b7 + 32 * b6 + 16 * b5 + 8 * b4 + 4 * b3 + 2 * b2 + b1)
         = 64 * d7 + 32 * d6 + 16 * d5 + 8 * d4 + 4 * d3 + 2 * d2 + d1
  <2>1. PICK p, q, r \in Nat :
          /\ p = 32 * a7 + 16 * a6 + 8 * a5 + 4 * a4 + 2 * a3 + a2
          /\ q = 32 * b7 + 16 * b6 + 8 * b5 + 4 * b4 + 2 * b3 + b2
          /\ r = 32 * d7 + 16 * d6 + 8 * d5 + 4 * d4 + 2 * d3 + d2
          /\ p < 256
          /\ q < 256
    OBVIOUS
  <2>2. Doubled(32768, p, q, a1, b1)
    BY <2>1, XorRule
  <2>3. Xor(2 * p + a1, 2 * q + b1) = 2 * r + d1
    BY <2>1, <2>2, <1>x2, <1>d1 DEF Doubled
  <2> QED
    BY <2>1, <2>3
<1>x0. Xor(128 * a7 + 64 * a6 + 32 * a5 + 16 * a4 + 8 * a3 + 4 * a2 + 2 * a1 + a0,
           128 * b7 + 64 * b6 + 32 * b5 + 16 * b4 + 8 * b3 + 4 * b2 + 2 * b1 + b0)
         = 128 * d7 + 64 * d6 + 32 * d5 + 16 * d4 + 8 * d3 + 4 * d2 + 2 * d1 + d0
  <2>1. PICK p, q, r \in Nat :
          /\ p = 64 * a7 + 32 * a6 + 16 * a5 + 8 * a4 + 4 * a3 + 2 * a2 + a1
          /\ q = 64 * b7 + 32 * b6 + 16 * b5 + 8 * b4 + 4 * b3 + 2 * b2 + b1
          /\ r = 64 * d7 + 32 * d6 + 16 * d5 + 8 * d4 + 4 * d3 + 2 * d2 + d1
          /\ p < 256
          /\ q < 256
    OBVIOUS
  <2>2. Doubled(32768, p, q, a0, b0)
    BY <2>1, XorRule
  <2>3. Xor(2 * p + a0, 2 * q + b0) = 2 * r + d0
    BY <2>1, <2>2, <1>x1, <1>d0 DEF Doubled
  <2> QED
    BY <2>1, <2>3
<1>3. PICK x : x = Xor(a, b)
  OBVIOUS
<1>4. x = 128 * d7 + 64 * d6 + 32 * d5 + 16 * d4 + 8 * d3 + 4 * d2 + 2 * d1 + d0
  BY <1>1s, <1>2s, <1>3, <1>x0
<1>5. /\ x \in Byte
      /\ Bit(x, 0) = d0 /\ Bit(x, 1) = d1 /\ Bit(x, 2) = d2 /\ Bit(x, 3) = d3
      /\ Bit(x, 4) = d4 /\ Bit(x, 5) = d5 /\ Bit(x, 6) = d6 /\ Bit(x, 7) = d7
  BY <1>4, BitsOfByte
<1>6. \A i \in 0 .. 7 : i = 0 \/ i = 1 \/ i = 2 \/ i = 3 \/ i = 4 \/ i = 5 \/ i = 6 \/ i = 7
  OBVIOUS
<1> QED
  BY <1>1, <1>2, <1>3, <1>5, <1>6, <1>d0, <1>d1, <1>d2, <1>d3, <1>d4, <1>d5, <1>d6, <1>d7

(* Pushes is linear.                                                        *)
LEMMA PushesLinear ==
  ASSUME NEW r, IsWord(r), NEW s, IsWord(s), NEW b \in Byte, NEW c \in Byte
  PROVE  Pushes(Xor(r, s), Xor(b, c)) = Xor(Pushes(r, b), Pushes(s, c))
<1>0. \A i \in 0 .. 7 : Bit(b, i) \in {0, 1} /\ Bit(c, i) \in {0, 1}
  BY ByteBits
<1>1. \A i \in 0 .. 7 : Bit(Xor(b, c), i) = Differ(Bit(b, i), Bit(c, i))
  BY XorBits
<1>2. ASSUME NEW p, IsWord(p), NEW q, IsWord(q), NEW i \in 0 .. 7
      PROVE  /\ Push(Xor(p, q), Bit(Xor(b, c), i)) = Xor(Push(p, Bit(b, i)), Push(q, Bit(c, i)))
             /\ IsWord(Push(p, Bit(b, i))) /\ IsWord(Push(q, Bit(c, i)))
  <2>1. PICK u \in {0, 1} : u = Bit(b, i)
    BY <1>0
  <2>2. PICK v \in {0, 1} : v = Bit(c, i)
    BY <1>0
  <2>3. Push(Xor(p, q), Differ(u, v)) = Xor(Push(p, u), Push(q, v))
    BY <1>2, PushLinear
  <2>4. IsWord(Push(p, u)) /\ IsWord(Push(q, v))
    BY <1>2, PushType
  <2> QED
    BY <1>1, <2>1, <2>2, <2>3, <2>4
<1> DEFINE P1 == Push(r, Bit(b, 7))
           P2 == Push(P1, Bit(b, 6))
           P3 == Push(P2, Bit(b, 5))
           P4 == Push(P3, Bit(b, 4))
           P5 == Push(P4, Bit(b, 3))
           P6 == Push(P5, Bit(b, 2))
           P7 == Push(P6, Bit(b, 1))
           P8 == Push(P7, Bit(b, 0))
           Q1 == Push(s, Bit(c, 7))
           Q2 == Push(Q1, Bit(c, 6))
           Q3 == Push(Q2, Bit(c, 5))
           Q4 == Push(Q3, Bit(c, 4))
           Q5 == Push(Q4, Bit(c, 3))
           Q6 == Push(Q5, Bit(c, 2))
           Q7 == Push(Q6, Bit(c, 1))
           Q8 == Push(Q7, Bit(c, 0))
           d == Xor(b, c)
<1>3. Pushes(r, b) = P8 /\ Pushes(s, c) = Q8
  BY DEF Pushes
<1>4. Pushes(Xor(r, s), d) =
        Push(Push(Push(Push(Push(Push(Push(Push(Xor(r, s), Bit(d, 7)), Bit(d, 6)), Bit(d, 5)),
          Bit(d, 4)), Bit(d, 3)), Bit(d, 2)), Bit(d, 1)), Bit(d, 0))
  BY DEF Pushes
<1> HIDE DEF P8, Q8
<1>5. Push(Xor(r, s), Bit(d, 7)) = Xor(P1, Q1) /\ IsWord(P1) /\ IsWord(Q1)
  BY <1>2
<1> HIDE DEF P1, Q1
<1>6. Push(Xor(P1, Q1), Bit(d, 6)) = Xor(P2, Q2) /\ IsWord(P2) /\ IsWord(Q2)
  BY <1>2, <1>5
<1> HIDE DEF P2, Q2
<1>7. Push(Xor(P2, Q2), Bit(d, 5)) = Xor(P3, Q3) /\ IsWord(P3) /\ IsWord(Q3)
  BY <1>2, <1>6
<1> HIDE DEF P3, Q3
<1>8. Push(Xor(P3, Q3), Bit(d, 4)) = Xor(P4, Q4) /\ IsWord(P4) /\ IsWord(Q4)
  BY <1>2, <1>7
<1> HIDE DEF P4, Q4
<1>9. Push(Xor(P4, Q4), Bit(d, 3)) = Xor(P5, Q5) /\ IsWord(P5) /\ IsWord(Q5)
  BY <1>2, <1>8
<1> HIDE DEF P5, Q5
<1>10. Push(Xor(P5, Q5), Bit(d, 2)) = Xor(P6, Q6) /\ IsWord(P6) /\ IsWord(Q6)
  BY <1>2, <1>9
<1> HIDE DEF P6, Q6
<1>11. Push(Xor(P6, Q6), Bit(d, 1)) = Xor(P7, Q7) /\ IsWord(P7) /\ IsWord(Q7)
  BY <1>2, <1>10
<1> HIDE DEF P7, Q7
<1>12. Push(Xor(P7, Q7), Bit(d, 0)) = Xor(P8, Q8)
  BY <1>2, <1>11 DEF P8, Q8
<1> HIDE DEF d
<1>13. Pushes(Xor(r, s), d) = Xor(P8, Q8)
  BY <1>4, <1>5, <1>6, <1>7, <1>8, <1>9, <1>10, <1>11, <1>12
<1> QED
  BY <1>3, <1>13 DEF d

(* Xor of two bytes of a word.                                              *)
LEMMA XorSplit ==
  ASSUME NEW h \in Byte, NEW l \in Byte
  PROVE  Xor(256 * h, l) = 256 * h + l
<1>1. PICK n \in Nat : n = h /\ n < 256
  BY DEF Byte
<1>2. PICK k \in Nat : k = l % 16 /\ k < 16
  BY SMT DEF Byte
<1>3. PICK m \in Nat : l = 16 * m + k /\ m < 16
  BY <1>2, SMT DEF Byte
<1>4. Xor(0, 0) = 0 /\ Xor(n, 0) = n
  BY <1>1, XorLawful DEF Lawful, IsWord
<1>5. ASSUME NEW i \in Nat, i < 16
      PROVE  Nibbles[0][i] = i
  <2>1. Xor(0, i) = Xor(i, 0) /\ Xor(i, 0) = i
    BY <1>5, XorLawful DEF Lawful, IsWord
  <2>2. HexRule(0, 0, 0, i)
    BY <1>5, XorHex
  <2>3. Xor(16 * 0 + 0, 16 * 0 + i) = 16 * Xor(0, 0) + Nibbles[0][i]
    BY <2>2 DEF HexRule
  <2>4. Nibbles[0][i] \in Nat
    BY <1>5, NibblesType
  <2> QED
    BY <1>5, <1>4, <2>1, <2>3, <2>4
<1>6. Nibbles[0][k] = k /\ Nibbles[0][m] = m
  BY <1>2, <1>3, <1>5
<1>7. HexRule(n, 0, 0, m)
  BY <1>1, <1>3, XorHex
<1>8. Xor(16 * n, m) = 16 * n + m
  BY <1>3, <1>4, <1>6, <1>7 DEF HexRule
<1>9. PICK p \in Nat : p = 16 * n /\ p < 4096
  BY <1>1
<1>10. HexRule(p, m, 0, k)
  BY <1>2, <1>3, <1>9, XorHex
<1>11. Xor(16 * p + 0, 16 * m + k) = 16 * Xor(p, m) + Nibbles[0][k]
  BY <1>10 DEF HexRule
<1>12. Xor(p, m) = p + m
  BY <1>8, <1>9
<1> QED
  BY <1>1, <1>2, <1>3, <1>6, <1>9, <1>11, <1>12

LEMMA PushesZero ==
  ASSUME NEW y
  PROVE  Pushes(Push(y, 0), 0) = Push(Pushes(y, 0), 0)
<1>1. Bit(0, 0) = 0 /\ Bit(0, 1) = 0 /\ Bit(0, 2) = 0 /\ Bit(0, 3) = 0
  BY ZeroBits
<1>2. Bit(0, 4) = 0 /\ Bit(0, 5) = 0 /\ Bit(0, 6) = 0 /\ Bit(0, 7) = 0
  BY ZeroBits
<1> QED
  BY <1>1, <1>2 DEF Pushes

Listed(g) == Pushes(256 * g, 0) = Crc16Table[g + 1]

LEMMA TableRule ==
  ASSUME NEW g0 \in Nat, g0 < 256
  PROVE  Listed(g0)
<1> DEFINE S == {n \in Nat : n < 256 /\ ~ Listed(n)}
<1> SUFFICES ASSUME S # {} PROVE FALSE
  OBVIOUS
<1>1. PICK g \in S : \A n \in S : g <= n
  BY LeastNat
<1>2. g \in Nat /\ g < 256 /\ ~ Listed(g)
  BY <1>1
<1>3. \A n \in Nat : n < g => Listed(n)
  BY <1>1, <1>2
<1> HIDE DEF S
<1>4. 0 \in Byte /\ 128 \in Byte /\ IsWord(0) /\ IsWord(256)
  BY DEF Byte, IsWord
<1>5. CASE g = 0
  <2>1. Pushes(0, 0) = 0
    BY <1>4, PushesLow
  <2>2. Crc16Table[1] = 0
    BY DEF Crc16Table
  <2> QED
    BY <1>2, <1>5, <2>1, <2>2 DEF Listed
<1>6. CASE g > 0
  <2>1. PICK k \in Nat : k = g \div 2
    BY <1>2, SMT
  <2>2. PICK x \in {0, 1} : g = 2 * k + x /\ k < 128 /\ k < g
    BY <1>2, <1>6, <2>1, SMT
  <2>3. Listed(k)
    BY <1>3, <2>2
  <2>4. Grows(k)
    BY <2>2, TableGrows
  <2>5. PICK m \in Nat : m = 256 * k /\ m < 32768
    BY <2>2
  <2>6. IsWord(m) /\ IsWord(2 * m)
    BY <2>5 DEF IsWord
  <2>7. Push(m, 0) = 2 * m
    BY <2>5, PushLow
  <2>8. Pushes(m, 0) = Crc16Table[k + 1] /\ IsWord(Pushes(m, 0))
    BY <1>4, <2>3, <2>5, <2>6, PushesType DEF Listed
  <2>9. Pushes(2 * m, 0) = Push(Pushes(m, 0), 0)
    BY <2>7, PushesZero
  <2>10. Push(Pushes(m, 0), 0) = Pushed(Crc16Table[k + 1])
    BY <2>8, PushTwice
  <2>11. Pushes(2 * m, 0) = Crc16Table[2 * k + 1]
    BY <2>4, <2>9, <2>10 DEF Grows
  <2>12. CASE x = 0
    <3>1. 256 * g = 2 * m /\ g + 1 = 2 * k + 1
      BY <2>2, <2>5, <2>12
    <3> QED
      BY <1>2, <2>11, <3>1 DEF Listed
  <2>13. CASE x = 1
    <3>1. Pushes(256, 0) = 32773
      <4>1. Pushes(128, 0) = 32768
        BY <1>4, PushesLow
      <4>2. Push(128, 0) = 256
        BY PushLow
      <4>3. Push(32768, 0) = Pushed(32768)
        BY PushTwice DEF IsWord
      <4>4. Pushed(32768) = 32773
        BY DEF Pushed, Flipped
      <4> QED
        BY <4>1, <4>2, <4>3, <4>4, PushesZero
    <3>2. Xor(2 * m, 256) = 256 * g
      <4>1. Doubled(32768, k, 0, 0, 1) /\ Differ(0, 1) = 1
        BY <2>2, XorRule DEF Differ
      <4>2. Xor(k, 0) = k
        BY <1>4, <2>2, XorLawful DEF Lawful, IsWord
      <4>3. Xor(2 * k + 0, 2 * 0 + 1) = 2 * Xor(k, 0) + Differ(0, 1)
        BY <4>1 DEF Doubled
      <4>4. PICK a \in Nat : a = 2 * k /\ a < 4096
        BY <2>2
      <4>5. Xor(a, 1) = a + 1
        BY <4>1, <4>2, <4>3, <4>4
      <4>6. HexRule(a, 1, 0, 0) /\ Nibbles[0][0] = 0
        BY <4>4, XorHex, NibblesType
      <4>7. PICK c \in Nat : c = 16 * a /\ c < 4096
        BY <2>2, <4>4
      <4>8. Xor(16 * a + 0, 16 * 1 + 0) = 16 * Xor(a, 1) + Nibbles[0][0]
        BY <4>6 DEF HexRule
      <4>9. Xor(c, 16) = c + 16
        BY <4>5, <4>6, <4>7, <4>8
      <4>10. HexRule(c, 16, 0, 0)
        BY <4>7, XorHex
      <4>11. Xor(16 * c + 0, 16 * 16 + 0) = 16 * Xor(c, 16) + Nibbles[0][0]
        BY <4>10 DEF HexRule
      <4>12. 16 * c + 0 = 2 * m /\ 16 * (c + 16) + 0 = 256 * g
        BY <2>2, <2>5, <2>13, <4>4, <4>7
      <4> QED
        BY <4>6, <4>9, <4>11, <4>12
    <3>3. Xor(0, 0) = 0
      BY <1>4, XorLawful DEF Lawful
    <3>4. Pushes(Xor(2 * m, 256), Xor(0, 0)) = Xor(Pushes(2 * m, 0), Pushes(256, 0))
      BY <1>4, <2>6, PushesLinear
    <3>5. IsWord(Pushes(2 * m, 0))
      BY <1>4, <2>6, PushesType
    <3>6. Xor(Pushes(2 * m, 0), 32773) = Flipped(Pushes(2 * m, 0))
      BY <3>5, FlipRule
    <3>7. Pushes(256 * g, 0) = Crc16Table[2 * k + 2]
      BY <2>4, <2>11, <3>1, <3>2, <3>3, <3>4, <3>6 DEF Grows
    <3>8. g + 1 = 2 * k + 2
      BY <2>2, <2>13
    <3> QED
      BY <1>2, <3>7, <3>8 DEF Listed
  <2> QED
    BY <2>12, <2>13
<1> QED
  BY <1>2, <1>5, <1>6

(* The table's step is eight bits of the division.                          *)
LEMMA StepRule ==
  ASSUME NEW c, IsWord(c), NEW b \in Byte
  PROVE  Step(c, b) = Pushes(c, b) /\ IsWord(Step(c, b))
<1>0. PICK n \in Nat : n = c /\ n < 65536
  BY DEF IsWord
<1>1. PICK h \in Nat : h = n \div 256
  BY SMT
<1>2. PICK l \in Nat : l = n % 256 /\ n = 256 * h + l /\ h < 256 /\ l < 256
  BY <1>0, <1>1, SMT
<1>3. h \in Byte /\ l \in Byte /\ 0 \in Byte
  BY <1>2 DEF Byte
<1>4. Step(c, b) = Xor(256 * l + b, Crc16Table[h + 1])
  <2>1. l * 256 = 256 * l
    OBVIOUS
  <2> QED
    BY <1>0, <1>1, <1>2, <2>1 DEF Step
<1>5. Pushes(l, b) = 256 * l + b
  BY <1>3, PushesLow
<1>6. Pushes(256 * h, 0) = Crc16Table[h + 1]
  BY <1>2, TableRule DEF Listed
<1>7. IsWord(l) /\ IsWord(256 * h)
  BY <1>2 DEF IsWord
<1>8. Xor(l, 256 * h) = c
  <2>1. Xor(l, 256 * h) = Xor(256 * h, l)
    BY <1>7, XorLawful DEF Lawful
  <2> QED
    BY <1>0, <1>2, <1>3, <2>1, XorSplit
<1>9. Xor(b, 0) = b
  <2>1. IsWord(b) /\ IsWord(0)
    BY DEF IsWord, Byte
  <2> QED
    BY <2>1, XorLawful DEF Lawful
<1>10. Pushes(Xor(l, 256 * h), Xor(b, 0)) = Xor(Pushes(l, b), Pushes(256 * h, 0))
  BY <1>3, <1>7, PushesLinear
<1>11. Step(c, b) = Pushes(c, b)
  BY <1>4, <1>5, <1>6, <1>8, <1>9, <1>10
<1> QED
  BY <1>11, PushesType

-----------------------------------------------------------------------------
(* A whole message.  That the recursive functions exist is shown by the     *)
(* least length at which they would not.                                    *)

(* The values the register takes, byte by byte.                             *)
ByBytes(f, mes, n) ==
  f = [i \in 0 .. n |-> IF i = 0 THEN 0 ELSE Step(f[i - 1], mes[i])]

LEMMA ByBytesExists ==
  ASSUME NEW mes, NEW n0 \in Nat
  PROVE  \E f : ByBytes(f, mes, n0)
<1> DEFINE P(n) == \E f : ByBytes(f, mes, n)
           S == {n \in Nat : ~ P(n)}
<1> SUFFICES ASSUME S # {} PROVE FALSE
  OBVIOUS
<1>1. PICK n \in S : \A k \in S : n <= k
  <2> HIDE DEF P
  <2> QED
    BY LeastNat
<1>2. n \in Nat /\ (~ \E f : ByBytes(f, mes, n))
        /\ \A k \in Nat : k < n => \E f : ByBytes(f, mes, k)
  BY <1>1
<1> HIDE DEF S, P
<1>3. CASE n = 0
  <2>1. ByBytes([i \in 0 .. 0 |-> 0], mes, 0)
    BY DEF ByBytes
  <2> QED
    BY <1>2, <1>3, <2>1
<1>4. CASE n > 0
  <2>1. PICK k \in Nat : n = k + 1
    BY <1>2, <1>4
  <2>2. PICK f : ByBytes(f, mes, k)
    BY <1>2, <2>1
  <2> DEFINE g == [i \in 0 .. n |-> IF i = n THEN Step(f[k], mes[n]) ELSE f[i]]
  <2>3. ASSUME NEW i \in 0 .. n
        PROVE  g[i] = IF i = 0 THEN 0 ELSE Step(g[i - 1], mes[i])
    <3>1. CASE i = n
      BY <2>1, <3>1
    <3>2. CASE i # n
      <4>1. i \in 0 .. k /\ g[i] = f[i] /\ (i # 0 => i - 1 \in 0 .. n /\ i - 1 # n)
        BY <1>2, <2>1, <3>2
      <4>2. f[i] = IF i = 0 THEN 0 ELSE Step(f[i - 1], mes[i])
        BY <2>2, <4>1 DEF ByBytes
      <4> QED
        BY <4>1, <4>2
    <3> QED
      BY <3>1, <3>2
  <2>4. g = [i \in 0 .. n |-> g[i]]
    OBVIOUS
  <2> HIDE DEF g
  <2>5. g = [i \in 0 .. n |-> IF i = 0 THEN 0 ELSE Step(g[i - 1], mes[i])]
    BY <2>3, <2>4
  <2> QED
    BY <1>2, <2>5 DEF ByBytes
<1> QED
  BY <1>2, <1>3, <1>4

LEMMA CrcDef ==
  ASSUME NEW mes \in Seq(Byte)
  PROVE  \E f : ByBytes(f, mes, Len(mes)) /\ Crc(mes) = f[Len(mes)]
<1> DEFINE n == Len(mes)
           F == CHOOSE f : f = [i \in 0 .. n |-> IF i = 0 THEN 0 ELSE Step(f[i - 1], mes[i])]
<1>1. n \in Nat
  OBVIOUS
<1>2. \E f : f = [i \in 0 .. n |-> IF i = 0 THEN 0 ELSE Step(f[i - 1], mes[i])]
  BY <1>1, ByBytesExists DEF ByBytes
<1>3. F = [i \in 0 .. n |-> IF i = 0 THEN 0 ELSE Step(F[i - 1], mes[i])]
  BY <1>2
<1>4. Crc(mes) = F[n]
  BY DEF Crc
<1> QED
  BY <1>3, <1>4 DEF ByBytes

(* The values the division takes, bit by bit.                               *)
MesBit(mes, i) == Bit(mes[(i + 7) \div 8], 7 - ((i - 1) % 8))

ByBits(r, mes, n) ==
  r = [i \in 0 .. n |-> IF i = 0 THEN 0 ELSE Push(r[i - 1], MesBit(mes, i))]

LEMMA ByBitsExists ==
  ASSUME NEW mes, NEW n0 \in Nat
  PROVE  \E r : ByBits(r, mes, n0)
<1> DEFINE P(n) == \E r : ByBits(r, mes, n)
           S == {n \in Nat : ~ P(n)}
<1> SUFFICES ASSUME S # {} PROVE FALSE
  OBVIOUS
<1>1. PICK n \in S : \A k \in S : n <= k
  <2> HIDE DEF P
  <2> QED
    BY LeastNat
<1>2. n \in Nat /\ (~ \E r : ByBits(r, mes, n))
        /\ \A k \in Nat : k < n => \E r : ByBits(r, mes, k)
  BY <1>1
<1> HIDE DEF S, P
<1>3. CASE n = 0
  <2>1. ByBits([i \in 0 .. 0 |-> 0], mes, 0)
    BY DEF ByBits
  <2> QED
    BY <1>2, <1>3, <2>1
<1>4. CASE n > 0
  <2>1. PICK k \in Nat : n = k + 1
    BY <1>2, <1>4
  <2>2. PICK r : ByBits(r, mes, k)
    BY <1>2, <2>1
  <2> DEFINE g == [i \in 0 .. n |-> IF i = n THEN Push(r[k], MesBit(mes, n)) ELSE r[i]]
  <2>3. ASSUME NEW i \in 0 .. n
        PROVE  g[i] = IF i = 0 THEN 0 ELSE Push(g[i - 1], MesBit(mes, i))
    <3>1. CASE i = n
      BY <2>1, <3>1
    <3>2. CASE i # n
      <4>1. i \in 0 .. k /\ g[i] = r[i] /\ (i # 0 => i - 1 \in 0 .. n /\ i - 1 # n)
        BY <1>2, <2>1, <3>2
      <4>2. r[i] = IF i = 0 THEN 0 ELSE Push(r[i - 1], MesBit(mes, i))
        BY <2>2, <4>1 DEF ByBits
      <4> QED
        BY <4>1, <4>2
    <3> QED
      BY <3>1, <3>2
  <2>4. g = [i \in 0 .. n |-> g[i]]
    OBVIOUS
  <2> HIDE DEF g
  <2>5. g = [i \in 0 .. n |-> IF i = 0 THEN 0 ELSE Push(g[i - 1], MesBit(mes, i))]
    BY <2>3, <2>4
  <2> QED
    BY <1>2, <2>5 DEF ByBits
<1> QED
  BY <1>2, <1>3, <1>4

LEMMA RemainderDef ==
  ASSUME NEW mes \in Seq(Byte)
  PROVE  \E r : ByBits(r, mes, 8 * Len(mes)) /\ Remainder(mes) = r[8 * Len(mes)]
<1> DEFINE n == 8 * Len(mes)
           R == CHOOSE r : r = [i \in 0 .. n |->
                  IF i = 0 THEN 0 ELSE Push(r[i - 1], MesBit(mes, i))]
<1>1. n \in Nat
  OBVIOUS
<1>2. \E r : r = [i \in 0 .. n |-> IF i = 0 THEN 0 ELSE Push(r[i - 1], MesBit(mes, i))]
  BY <1>1, ByBitsExists DEF ByBits
<1>3. R = [i \in 0 .. n |-> IF i = 0 THEN 0 ELSE Push(R[i - 1], MesBit(mes, i))]
  BY <1>2
<1>4. Remainder(mes) = R[n]
  BY DEF Remainder, Push, MesBit
<1> QED
  BY <1>3, <1>4 DEF ByBits

(* The eight bits of byte k+1.                                              *)
LEMMA EightBits ==
  ASSUME NEW mes \in Seq(Byte), NEW k \in Nat, NEW j \in 1 .. 8
  PROVE  MesBit(mes, 8 * k + j) = Bit(mes[k + 1], 8 - j)
<1>1. (8 * k + j + 7) \div 8 = k + 1 /\ 7 - ((8 * k + j - 1) % 8) = 8 - j
  BY SMT
<1> QED
  BY <1>1 DEF MesBit

LEMMA ByteOfBits ==
  ASSUME NEW mes \in Seq(Byte), NEW r, ByBits(r, mes, 8 * Len(mes)),
         NEW k \in Nat, k < Len(mes)
  PROVE  r[8 * (k + 1)] = Pushes(r[8 * k], mes[k + 1])
<1>1. ASSUME NEW j \in 1 .. 8
      PROVE  r[8 * k + j] = Push(r[8 * k + (j - 1)], Bit(mes[k + 1], 8 - j))
  <2>1. 8 * k + j \in 0 .. 8 * Len(mes) /\ 8 * k + j # 0
    OBVIOUS
  <2>2. r[8 * k + j] = Push(r[8 * k + j - 1], MesBit(mes, 8 * k + j))
    <3>1. PICK i \in 0 .. 8 * Len(mes) : i = 8 * k + j /\ i # 0
      BY <2>1
    <3>2. r[i] = Push(r[i - 1], MesBit(mes, i))
      BY <3>1 DEF ByBits
    <3> QED
      BY <3>1, <3>2
  <2>3. 8 * k + j - 1 = 8 * k + (j - 1)
    OBVIOUS
  <2> QED
    BY <2>2, <2>3, EightBits
<1> DEFINE R(j) == r[8 * k + j]
           B(i) == Bit(mes[k + 1], i)
<1>2. R(1) = Push(R(0), B(7)) /\ R(2) = Push(R(1), B(6))
  BY <1>1
<1>3. R(3) = Push(R(2), B(5)) /\ R(4) = Push(R(3), B(4))
  BY <1>1
<1>4. R(5) = Push(R(4), B(3)) /\ R(6) = Push(R(5), B(2))
  BY <1>1
<1>5. R(7) = Push(R(6), B(1)) /\ R(8) = Push(R(7), B(0))
  BY <1>1
<1>6. R(0) = r[8 * k] /\ R(8) = r[8 * (k + 1)]
  OBVIOUS
<1> HIDE DEF R
<1> QED
  BY <1>2, <1>3, <1>4, <1>5, <1>6 DEF Pushes

(* The table-driven CRC is the remainder of its definition (utils.c:54,     *)
(* :134-144), of every message.                                             *)
THEOREM CrcRemainder ==
  ASSUME NEW mes \in Seq(Byte)
  PROVE  Crc(mes) = Remainder(mes) /\ IsWord(Crc(mes))
<1>1. PICK f : ByBytes(f, mes, Len(mes)) /\ Crc(mes) = f[Len(mes)]
  BY CrcDef
<1>2. PICK r : ByBits(r, mes, 8 * Len(mes)) /\ Remainder(mes) = r[8 * Len(mes)]
  BY RemainderDef
<1> DEFINE Agree(k) == IsWord(f[k]) /\ r[8 * k] = f[k]
           S == {k \in Nat : k <= Len(mes) /\ ~ Agree(k)}
<1>3. ASSUME S # {} PROVE FALSE
  <2>1. PICK n \in S : \A k \in S : n <= k
    <3> HIDE DEF Agree
    <3> QED
      BY <1>3, LeastNat
  <2>2. n \in Nat /\ n <= Len(mes) /\ ~ Agree(n) /\ \A k \in Nat : k < n => Agree(k)
    BY <2>1
  <2> HIDE DEF S
  <2>3. CASE n = 0
    <3>1. f[0] = 0
      BY <1>1 DEF ByBytes
    <3>2. r[8 * 0] = 0
      BY <1>2 DEF ByBits
    <3> QED
      BY <2>2, <2>3, <3>1, <3>2 DEF IsWord
  <2>4. CASE n > 0
    <3>1. PICK k \in Nat : n = k + 1
      BY <2>2, <2>4
    <3>2. Agree(k)
      BY <2>2, <3>1
    <3>3. f[n] = Step(f[k], mes[n])
      BY <1>1, <2>2, <3>1 DEF ByBytes
    <3>4. mes[n] \in Byte
      BY <2>2, <2>4
    <3>5. r[8 * n] = Pushes(r[8 * k], mes[n])
      <4>1. k < Len(mes)
        BY <2>2, <3>1
      <4>2. r[8 * (k + 1)] = Pushes(r[8 * k], mes[k + 1])
        BY <1>2, <4>1, ByteOfBits
      <4> QED
        BY <3>1, <4>2
    <3>6. Step(f[k], mes[n]) = Pushes(f[k], mes[n]) /\ IsWord(Step(f[k], mes[n]))
      BY <3>2, <3>4, StepRule
    <3> QED
      BY <2>2, <3>2, <3>3, <3>5, <3>6
  <2> QED
    BY <2>2, <2>3, <2>4
<1>4. Agree(Len(mes))
  <2>1. Len(mes) \in Nat
    OBVIOUS
  <2> HIDE DEF Agree
  <2> QED
    BY <1>3, <2>1
<1> QED
  BY <1>1, <1>2, <1>4

-----------------------------------------------------------------------------
(* Parity: the polynomial has x + 1 as a factor, so a remainder keeps the   *)
(* parity of what is divided.                                               *)

(* The number of bits set, modulo 2.                                        *)
Halves(a) ==
  a + a \div 2 + a \div 4 + a \div 8 + a \div 16 + a \div 32 + a \div 64 + a \div 128
    + a \div 256 + a \div 512 + a \div 1024 + a \div 2048 + a \div 4096 + a \div 8192
    + a \div 16384 + a \div 32768

Parity(a) == Halves(a) % 2

(* A bit more, below or above.                                              *)
ParityRule(a, x) ==
  /\ Parity(2 * a + x) = Differ(x, Parity(a))
  /\ Parity(32768 * x + a) = Differ(x, Parity(a))
  /\ Parity(a) \in {0, 1}

LEMMA ParityBits ==
  ASSUME NEW a \in Nat, a < 32768, NEW x \in {0, 1}
  PROVE  ParityRule(a, x)
<1>1. PICK b \in Nat : b = 2 * a + x
  OBVIOUS
<1>2. /\ b \div 2 = a /\ b \div 4 = a \div 2 /\ b \div 8 = a \div 4 /\ b \div 16 = a \div 8
      /\ b \div 32 = a \div 16 /\ b \div 64 = a \div 32 /\ b \div 128 = a \div 64
  BY <1>1, SMT
<1>3. /\ b \div 256 = a \div 128 /\ b \div 512 = a \div 256 /\ b \div 1024 = a \div 512
      /\ b \div 2048 = a \div 1024 /\ b \div 4096 = a \div 2048 /\ b \div 8192 = a \div 4096
      /\ b \div 16384 = a \div 8192 /\ b \div 32768 = a \div 16384
  BY <1>1, SMT
<1>4. a \div 32768 = 0
  BY SMT
<1>5. PICK s \in Nat : s = Halves(a)
  BY SMT DEF Halves
<1>6. Halves(b) = 2 * a + x + s
  BY <1>1, <1>2, <1>3, <1>4, <1>5, SMT DEF Halves
<1>7. PICK c \in Nat : c = 32768 * x + a
  OBVIOUS
<1>8. /\ c \div 2 = 16384 * x + a \div 2 /\ c \div 4 = 8192 * x + a \div 4
      /\ c \div 8 = 4096 * x + a \div 8 /\ c \div 16 = 2048 * x + a \div 16
      /\ c \div 32 = 1024 * x + a \div 32 /\ c \div 64 = 512 * x + a \div 64
      /\ c \div 128 = 256 * x + a \div 128 /\ c \div 256 = 128 * x + a \div 256
  BY <1>7, SMT
<1>9. /\ c \div 512 = 64 * x + a \div 512 /\ c \div 1024 = 32 * x + a \div 1024
      /\ c \div 2048 = 16 * x + a \div 2048 /\ c \div 4096 = 8 * x + a \div 4096
      /\ c \div 8192 = 4 * x + a \div 8192 /\ c \div 16384 = 2 * x + a \div 16384
      /\ c \div 32768 = x + a \div 32768
  BY <1>7, SMT
<1>10. Halves(c) = 65535 * x + s
  BY <1>5, <1>7, <1>8, <1>9, SMT DEF Halves
<1>11. PICK y \in {0, 1} : y = s % 2
  BY SMT
<1>12. (2 * a + x + s) % 2 = Differ(x, y) /\ (65535 * x + s) % 2 = Differ(x, y)
  BY <1>11, SMT DEF Differ
<1> QED
  BY <1>1, <1>5, <1>6, <1>7, <1>10, <1>11, <1>12 DEF ParityRule, Parity

ParityXor(a, b) == Parity(Xor(a, b)) = Differ(Parity(a), Parity(b))

ParityXors(n) == \A a, b \in Nat : a < n /\ b < n => ParityXor(a, b)

LEMMA ParityFirst == ParityXors(1)
<1>1. Xor(0, 0) = 0
  BY XorLawful DEF Lawful, IsWord
<1>2. Parity(0) = 0
  BY SMT DEF Parity, Halves
<1> QED
  BY <1>1, <1>2 DEF ParityXors, ParityXor, Differ

LEMMA ParityNext ==
  ASSUME NEW n \in Nat, 0 < n, n <= 32768, ParityXors(n), NEW m, m = 2 * n
  PROVE  ParityXors(m)
<1> SUFFICES ASSUME NEW a \in Nat, NEW b \in Nat, a < m, b < m
             PROVE  ParityXor(a, b)
  BY DEF ParityXors
<1>1. PICK g \in Nat : g = a \div 2
  BY SMT
<1>2. PICK x \in {0, 1} : a = 2 * g + x /\ g < n
  BY <1>1, SMT
<1>3. PICK h \in Nat : h = b \div 2
  BY SMT
<1>4. PICK y \in {0, 1} : b = 2 * h + y /\ h < n
  BY <1>3, SMT
<1>5. ParityXor(g, h) /\ Doubled(32768, g, h, x, y)
  BY <1>2, <1>4, XorRule DEF ParityXors
<1>6. PICK k \in Nat : k = Xor(g, h) /\ k < 32768
  BY <1>5 DEF Doubled
<1>7. PICK d \in {0, 1} : d = Differ(x, y)
  BY BitLaws
<1>8. Xor(a, b) = 2 * k + d
  BY <1>2, <1>4, <1>5, <1>6, <1>7 DEF Doubled
<1>9. ParityRule(g, x) /\ ParityRule(h, y) /\ ParityRule(k, d)
  BY <1>2, <1>4, <1>6, ParityBits
<1>10. PICK u \in {0, 1} : u = Parity(g)
  BY <1>9 DEF ParityRule
<1>11. PICK v \in {0, 1} : v = Parity(h)
  BY <1>9 DEF ParityRule
<1>12. Parity(k) = Differ(u, v)
  BY <1>5, <1>6, <1>10, <1>11 DEF ParityXor
<1>13. Parity(a) = Differ(x, u) /\ Parity(b) = Differ(y, v)
  BY <1>2, <1>4, <1>9, <1>10, <1>11 DEF ParityRule
<1>14. Parity(2 * k + d) = Differ(d, Differ(u, v))
  BY <1>9, <1>12 DEF ParityRule
<1>15. Differ(Differ(x, y), Differ(u, v)) = Differ(Differ(x, u), Differ(y, v))
  BY DEF Differ
<1> QED
  BY <1>7, <1>8, <1>13, <1>14, <1>15 DEF ParityXor

LEMMA XorParity ==
  ASSUME NEW a, IsWord(a), NEW b, IsWord(b)
  PROVE  /\ Parity(Xor(a, b)) = Differ(Parity(a), Parity(b))
         /\ Parity(a) \in {0, 1}
<1>1. ParityXors(16)
  <2>1. ParityXors(2)
    BY ParityFirst, ParityNext
  <2>2. ParityXors(4)
    BY <2>1, ParityNext
  <2>3. ParityXors(8)
    BY <2>2, ParityNext
  <2> QED
    BY <2>3, ParityNext
<1>2. ParityXors(256)
  <2>1. ParityXors(32)
    BY <1>1, ParityNext
  <2>2. ParityXors(64)
    BY <2>1, ParityNext
  <2>3. ParityXors(128)
    BY <2>2, ParityNext
  <2> QED
    BY <2>3, ParityNext
<1>3. ParityXors(4096)
  <2>1. ParityXors(512)
    BY <1>2, ParityNext
  <2>2. ParityXors(1024)
    BY <2>1, ParityNext
  <2>3. ParityXors(2048)
    BY <2>2, ParityNext
  <2> QED
    BY <2>3, ParityNext
<1>4. ParityXors(32768)
  <2>1. ParityXors(8192)
    BY <1>3, ParityNext
  <2>2. ParityXors(16384)
    BY <2>1, ParityNext
  <2> QED
    BY <2>2, ParityNext
<1>5. ParityXors(65536)
  BY <1>4, ParityNext
<1>6. PICK n \in Nat : n = Halves(a)
  BY SMT DEF Halves, IsWord
<1>7. n % 2 \in {0, 1}
  BY SMT
<1> QED
  BY <1>5, <1>6, <1>7 DEF ParityXors, ParityXor, IsWord, Parity

(* The bits of a word are as many, modulo 2, when a zero is pushed: the     *)
(* polynomial has four bits.                                                *)
LEMMA PushParity ==
  ASSUME NEW r, IsWord(r)
  PROVE  Parity(Push(r, 0)) = Parity(r)
<1>1. PICK g \in Nat : \E x \in {0, 1} : g < 32768 /\ r = 32768 * x + g
  BY TopBit
<1>2. PICK x \in {0, 1} : g < 32768 /\ r = 32768 * x + g
  BY <1>1
<1>3. PushRule(g, x, 0) /\ ParityRule(g, x) /\ ParityRule(g, 0)
  BY <1>2, PushForm, ParityBits
<1>4. Push(r, 0) = Xor(2 * g + 0, Poly(x))
  BY <1>2, <1>3 DEF PushRule
<1>5. Parity(Poly(x)) = x
  <2>1. Parity(0) = 0 /\ Parity(32773) = 1
    BY SMT DEF Parity, Halves
  <2> QED
    BY <2>1 DEF Poly
<1>6. IsWord(2 * g + 0) /\ IsWord(Poly(x))
  BY <1>2, PolyType DEF IsWord
<1>7. Parity(Push(r, 0)) = Differ(Parity(2 * g + 0), x)
  BY <1>4, <1>5, <1>6, XorParity
<1>8. PICK u \in {0, 1} : u = Parity(g)
  BY <1>3 DEF ParityRule
<1>9. Parity(2 * g + 0) = Differ(0, u) /\ Parity(r) = Differ(x, u)
  BY <1>2, <1>3, <1>8 DEF ParityRule
<1>10. Differ(Differ(0, u), x) = Differ(x, u)
  BY DEF Differ
<1> QED
  BY <1>7, <1>9, <1>10

-----------------------------------------------------------------------------
(* The powers of x, as remainders.                                          *)

(* What becomes of a bit when zeros are pushed behind it: the powers of x.  *)
Powers(f, n) == f = [k \in 0 .. n |-> IF k = 0 THEN 1 ELSE Push(f[k - 1], 0)]

Last == 65535

Power == CHOOSE f : Powers(f, Last)

LEMMA PowersExist ==
  ASSUME NEW n0 \in Nat
  PROVE  \E f : Powers(f, n0)
<1> DEFINE P(n) == \E f : Powers(f, n)
           S == {n \in Nat : ~ P(n)}
<1> SUFFICES ASSUME S # {} PROVE FALSE
  OBVIOUS
<1>1. PICK n \in S : \A k \in S : n <= k
  <2> HIDE DEF P
  <2> QED
    BY LeastNat
<1>2. n \in Nat /\ (~ \E f : Powers(f, n)) /\ \A k \in Nat : k < n => \E f : Powers(f, k)
  BY <1>1
<1> HIDE DEF S, P
<1>3. CASE n = 0
  <2>1. Powers([i \in 0 .. 0 |-> 1], 0)
    BY DEF Powers
  <2> QED
    BY <1>2, <1>3, <2>1
<1>4. CASE n > 0
  <2>1. PICK k \in Nat : n = k + 1
    BY <1>2, <1>4
  <2>2. PICK f : Powers(f, k)
    BY <1>2, <2>1
  <2> DEFINE g == [i \in 0 .. n |-> IF i = n THEN Push(f[k], 0) ELSE f[i]]
  <2>3. ASSUME NEW i \in 0 .. n
        PROVE  g[i] = IF i = 0 THEN 1 ELSE Push(g[i - 1], 0)
    <3>1. CASE i = n
      BY <2>1, <3>1
    <3>2. CASE i # n
      <4>1. i \in 0 .. k /\ g[i] = f[i] /\ (i # 0 => i - 1 \in 0 .. n /\ i - 1 # n)
        BY <1>2, <2>1, <3>2
      <4>2. f[i] = IF i = 0 THEN 1 ELSE Push(f[i - 1], 0)
        BY <2>2, <4>1 DEF Powers
      <4> QED
        BY <4>1, <4>2
    <3> QED
      BY <3>1, <3>2
  <2>4. g = [i \in 0 .. n |-> g[i]]
    OBVIOUS
  <2> HIDE DEF g
  <2>5. g = [i \in 0 .. n |-> IF i = 0 THEN 1 ELSE Push(g[i - 1], 0)]
    BY <2>3, <2>4
  <2> QED
    BY <1>2, <2>5 DEF Powers
<1> QED
  BY <1>2, <1>3, <1>4

LEMMA PowersStep ==
  ASSUME NEW n \in Nat, NEW f, Powers(f, n)
  PROVE  f[0] = 1 /\ \A k \in Nat : k < n => f[k + 1] = Push(f[k], 0)
<1>1. f[0] = 1
  BY DEF Powers
<1>2. ASSUME NEW k \in Nat, k < n
      PROVE  f[k + 1] = Push(f[k], 0)
  <2>1. k + 1 \in 0 .. n /\ k + 1 # 0 /\ (k + 1) - 1 = k
    BY <1>2
  <2> QED
    BY <2>1 DEF Powers
<1> QED
  BY <1>1, <1>2

LEMMA LastIs == Last \in Nat /\ Last = 65535
  BY DEF Last

LEMMA PowerStep ==
  /\ Power[0] = 1
  /\ \A k \in Nat : k < Last => Power[k + 1] = Push(Power[k], 0)
<1>1. Last \in Nat
  BY LastIs
<1>2. \E f : Powers(f, Last)
  BY <1>1, PowersExist
<1>3. Powers(Power, Last)
  BY <1>2 DEF Power
<1> QED
  BY <1>1, <1>3, PowersStep

(* Each is a word, with an odd number of bits.                              *)
PowerFact(k) == IsWord(Power[k]) /\ Parity(Power[k]) = 1

LEMMA PowerType ==
  ASSUME NEW k0 \in Nat, k0 <= Last
  PROVE  PowerFact(k0)
<1> DEFINE S == {n \in Nat : n <= Last /\ ~ PowerFact(n)}
<1> SUFFICES ASSUME S # {} PROVE FALSE
  OBVIOUS
<1>1. PICK n \in S : \A k \in S : n <= k
  BY LeastNat
<1>2. n \in Nat /\ n <= Last /\ ~ PowerFact(n) /\ \A k \in Nat : k < n => PowerFact(k)
  BY <1>1, LastIs
<1> HIDE DEF S
<1>3. CASE n = 0
  <2>1. Parity(1) = 1
    BY SMT DEF Parity, Halves
  <2> QED
    BY <1>2, <1>3, <2>1, PowerStep DEF PowerFact, IsWord
<1>4. CASE n > 0
  <2>1. PICK k \in Nat : n = k + 1 /\ k < Last
    BY <1>2, <1>4, LastIs
  <2>2. IsWord(Power[k]) /\ Parity(Power[k]) = 1
    BY <1>2, <2>1 DEF PowerFact
  <2>3. Power[n] = Push(Power[k], 0)
    BY <2>1, PowerStep
  <2> QED
    BY <1>2, <2>2, <2>3, PushType, PushParity DEF PowerFact
<1> QED
  BY <1>2, <1>3, <1>4

(* Another eight zeros.                                                     *)
LEMMA PowerByte ==
  ASSUME NEW k \in Nat, k + 8 <= Last
  PROVE  Power[k + 8] = Pushes(Power[k], 0)
<1>1. /\ Power[k + 1] = Push(Power[k], 0) /\ Power[k + 2] = Push(Power[k + 1], 0)
      /\ Power[k + 3] = Push(Power[k + 2], 0) /\ Power[k + 4] = Push(Power[k + 3], 0)
  <2>1. /\ k < Last /\ k + 1 \in Nat /\ k + 1 < Last /\ k + 2 \in Nat /\ k + 2 < Last
        /\ k + 3 \in Nat /\ k + 3 < Last
        /\ (k + 1) + 1 = k + 2 /\ (k + 2) + 1 = k + 3 /\ (k + 3) + 1 = k + 4
    BY LastIs
  <2> QED
    BY <2>1, PowerStep
<1>2. /\ Power[k + 5] = Push(Power[k + 4], 0) /\ Power[k + 6] = Push(Power[k + 5], 0)
      /\ Power[k + 7] = Push(Power[k + 6], 0) /\ Power[k + 8] = Push(Power[k + 7], 0)
  <2>1. /\ k + 4 \in Nat /\ k + 4 < Last /\ k + 5 \in Nat /\ k + 5 < Last
        /\ k + 6 \in Nat /\ k + 6 < Last /\ k + 7 \in Nat /\ k + 7 < Last
        /\ (k + 4) + 1 = k + 5 /\ (k + 5) + 1 = k + 6 /\ (k + 6) + 1 = k + 7
        /\ (k + 7) + 1 = k + 8
    BY LastIs
  <2> QED
    BY <2>1, PowerStep
<1>3. Bit(0, 0) = 0 /\ Bit(0, 1) = 0 /\ Bit(0, 2) = 0 /\ Bit(0, 3) = 0
  BY ZeroBits
<1>4. Bit(0, 4) = 0 /\ Bit(0, 5) = 0 /\ Bit(0, 6) = 0 /\ Bit(0, 7) = 0
  BY ZeroBits
<1> QED
  BY <1>1, <1>2, <1>3, <1>4 DEF Pushes

(* Push loses nothing.                                                      *)
LEMMA PushInjective ==
  ASSUME NEW r, IsWord(r), NEW s, IsWord(s), NEW u \in {0, 1}, Push(r, u) = Push(s, u)
  PROVE  r = s
<1>1. Push(Xor(r, s), Differ(u, u)) = Xor(Push(r, u), Push(s, u))
  BY PushLinear
<1>2. IsWord(Push(r, u)) /\ IsWord(Push(s, u)) /\ IsWord(Xor(r, s)) /\ IsWord(0)
  BY PushType, XorType DEF IsWord
<1>3. Xor(Push(r, u), Push(s, u)) = 0
  BY <1>2, XorLawful DEF Lawful
<1>4. Differ(u, u) = 0
  BY DEF Differ
<1>5. Xor(r, s) = 0
  BY <1>1, <1>2, <1>3, <1>4, PushZero
<1>6. Xor(Xor(r, s), s) = Xor(r, Xor(s, s)) /\ Xor(s, s) = 0 /\ Xor(r, 0) = r
  BY XorLawful DEF Lawful
<1>7. Xor(0, s) = Xor(s, 0) /\ Xor(s, 0) = s
  BY <1>2, XorLawful DEF Lawful
<1> QED
  BY <1>5, <1>6, <1>7

(* Powers that agree do so from the first on.                               *)
LEMMA PowerBack ==
  ASSUME NEW j \in Nat, NEW i0 \in Nat, i0 + j <= Last, Power[i0 + j] = Power[i0]
  PROVE  Power[j] = 1
<1> DEFINE S == {i \in Nat : i + j <= Last /\ Power[i + j] = Power[i]}
<1>1. S \subseteq Nat /\ S # {}
  OBVIOUS
<1>2. PICK n \in S : \A i \in S : n <= i
  BY <1>1, LeastNat
<1>3. n \in Nat /\ n + j <= Last /\ Power[n + j] = Power[n]
  BY <1>2
<1>4. CASE n = 0
  BY <1>3, <1>4, PowerStep
<1>5. CASE n > 0
  <2>1. PICK k \in Nat : n = k + 1 /\ k < n
    BY <1>3, <1>5
  <2>2. k + j \in Nat /\ k + j < Last /\ k < Last /\ n + j = (k + j) + 1
    BY <1>3, <2>1, LastIs
  <2>3. Power[n + j] = Push(Power[k + j], 0) /\ Power[n] = Push(Power[k], 0)
    BY <2>1, <2>2, PowerStep
  <2>4. IsWord(Power[k + j]) /\ IsWord(Power[k])
    BY <2>2, PowerType, LastIs DEF PowerFact
  <2>5. Power[k + j] = Power[k]
    BY <1>3, <2>3, <2>4, PushInjective
  <2>6. k \in S
    BY <2>2, <2>5, LastIs
  <2> QED
    BY <1>2, <1>3, <2>1, <2>6
<1> QED
  BY <1>3, <1>4, <1>5

-----------------------------------------------------------------------------
(* Squares: the square of a sum is the sum of the squares, and of a power of*)
(* x the power of twice the exponent.                                       *)

(* The square of a polynomial: a zero between any two of its bits, divided  *)
(* like a message.                                                          *)
Spread(n) == Bit(n, 0) + 4 * Bit(n, 1) + 16 * Bit(n, 2) + 64 * Bit(n, 3)

Digit(w, k) == (w \div k) % 16

Square(w) ==
  Pushes(Pushes(Pushes(Pushes(0, Spread(Digit(w, 4096))), Spread(Digit(w, 256))),
                Spread(Digit(w, 16))), Spread(Digit(w, 1)))

LEMMA SpreadTable ==
  /\ Spread(0) = 0 /\ Spread(1) = 1 /\ Spread(2) = 4 /\ Spread(3) = 5
  /\ Spread(4) = 16 /\ Spread(5) = 17 /\ Spread(6) = 20 /\ Spread(7) = 21
  /\ Spread(8) = 64 /\ Spread(9) = 65 /\ Spread(10) = 68 /\ Spread(11) = 69
  /\ Spread(12) = 80 /\ Spread(13) = 81 /\ Spread(14) = 84 /\ Spread(15) = 85
  BY DEF Spread, Bit

(* Spread of a digit with the bits n3 n2 n1 n0.                             *)
LEMMA SpreadBits ==
  ASSUME NEW n0 \in {0, 1}, NEW n1 \in {0, 1}, NEW n2 \in {0, 1}, NEW n3 \in {0, 1},
         NEW n, n = n0 + 2 * n1 + 4 * n2 + 8 * n3
  PROVE  /\ Spread(n) = n0 + 4 * n1 + 16 * n2 + 64 * n3
         /\ Spread(n) \in Byte
         /\ Bit(Spread(n), 0) = n0 /\ Bit(Spread(n), 1) = 0 /\ Bit(Spread(n), 2) = n1
         /\ Bit(Spread(n), 3) = 0 /\ Bit(Spread(n), 4) = n2 /\ Bit(Spread(n), 5) = 0
         /\ Bit(Spread(n), 6) = n3 /\ Bit(Spread(n), 7) = 0
<1>1. Bit(n, 0) = n0 /\ Bit(n, 1) = n1 /\ Bit(n, 2) = n2 /\ Bit(n, 3) = n3
  BY BitsOf
<1>2. Spread(n) = n0 + 4 * n1 + 16 * n2 + 64 * n3
  BY <1>1 DEF Spread
<1>3. PICK s \in Nat : s = Spread(n)
  BY <1>2
<1>4. s = 128 * 0 + 64 * n3 + 32 * 0 + 16 * n2 + 8 * 0 + 4 * n1 + 2 * 0 + n0
  BY <1>2, <1>3
<1>5. /\ s \in Byte
      /\ Bit(s, 0) = n0 /\ Bit(s, 1) = 0 /\ Bit(s, 2) = n1 /\ Bit(s, 3) = 0
      /\ Bit(s, 4) = n2 /\ Bit(s, 5) = 0 /\ Bit(s, 6) = n3 /\ Bit(s, 7) = 0
  BY <1>4, BitsOfByte
<1> QED
  BY <1>2, <1>3, <1>5

LEMMA DigitBits ==
  ASSUME NEW n \in Nat, n < 16
  PROVE  \E n0, n1, n2, n3 \in {0, 1} : n = n0 + 2 * n1 + 4 * n2 + 8 * n3
  BY SMT

LEMMA SpreadType ==
  ASSUME NEW n \in Nat, n < 16
  PROVE  Spread(n) \in Byte
<1>1. PICK n0, n1, n2, n3 \in {0, 1} : n = n0 + 2 * n1 + 4 * n2 + 8 * n3
  BY DigitBits
<1> QED
  BY <1>1, SpreadBits

LEMMA SpreadXor ==
  ASSUME NEW k \in Nat, k < 16, NEW l \in Nat, l < 16
  PROVE  Spread(Nibbles[k][l]) = Xor(Spread(k), Spread(l))
<1>1. PICK k0, k1, k2, k3 \in {0, 1} : k = k0 + 2 * k1 + 4 * k2 + 8 * k3
  BY DigitBits
<1>2. PICK l0, l1, l2, l3 \in {0, 1} : l = l0 + 2 * l1 + 4 * l2 + 8 * l3
  BY DigitBits
<1>3. Nibbles[k][l] =
        Differ(k0, l0) + 2 * Differ(k1, l1) + 4 * Differ(k2, l2) + 8 * Differ(k3, l3)
  BY <1>1, <1>2, NibblesBits
<1>4. /\ Differ(k0, l0) \in {0, 1} /\ Differ(k1, l1) \in {0, 1}
      /\ Differ(k2, l2) \in {0, 1} /\ Differ(k3, l3) \in {0, 1} /\ Differ(0, 0) = 0
  BY DEF Differ
<1>5. Spread(Nibbles[k][l]) =
        Differ(k0, l0) + 4 * Differ(k1, l1) + 16 * Differ(k2, l2) + 64 * Differ(k3, l3)
  BY <1>3, <1>4, SpreadBits
<1>6. /\ Spread(k) \in Byte
      /\ Bit(Spread(k), 0) = k0 /\ Bit(Spread(k), 1) = 0 /\ Bit(Spread(k), 2) = k1
      /\ Bit(Spread(k), 3) = 0 /\ Bit(Spread(k), 4) = k2 /\ Bit(Spread(k), 5) = 0
      /\ Bit(Spread(k), 6) = k3 /\ Bit(Spread(k), 7) = 0
  BY <1>1, SpreadBits
<1>7. /\ Spread(l) \in Byte
      /\ Bit(Spread(l), 0) = l0 /\ Bit(Spread(l), 1) = 0 /\ Bit(Spread(l), 2) = l1
      /\ Bit(Spread(l), 3) = 0 /\ Bit(Spread(l), 4) = l2 /\ Bit(Spread(l), 5) = 0
      /\ Bit(Spread(l), 6) = l3 /\ Bit(Spread(l), 7) = 0
  BY <1>2, SpreadBits
<1> DEFINE x == Xor(Spread(k), Spread(l))
<1>8. x \in Byte /\ \A i \in 0 .. 7 : Bit(x, i) = Differ(Bit(Spread(k), i), Bit(Spread(l), i))
  BY <1>6, <1>7, XorBits
<1> HIDE DEF x
<1>9. /\ Bit(x, 0) = Differ(k0, l0) /\ Bit(x, 1) = 0 /\ Bit(x, 2) = Differ(k1, l1)
      /\ Bit(x, 3) = 0 /\ Bit(x, 4) = Differ(k2, l2) /\ Bit(x, 5) = 0
      /\ Bit(x, 6) = Differ(k3, l3) /\ Bit(x, 7) = 0
  BY <1>4, <1>6, <1>7, <1>8
<1>10. x = 128 * Bit(x, 7) + 64 * Bit(x, 6) + 32 * Bit(x, 5) + 16 * Bit(x, 4)
           + 8 * Bit(x, 3) + 4 * Bit(x, 2) + 2 * Bit(x, 1) + Bit(x, 0)
  BY <1>8, ByteBits
<1>11. x = Differ(k0, l0) + 4 * Differ(k1, l1) + 16 * Differ(k2, l2) + 64 * Differ(k3, l3)
  BY <1>4, <1>9, <1>10
<1> QED
  BY <1>5, <1>11 DEF x

(* The digits of a word, and of an exclusive or.                            *)
Digits(w, n3, n2, n1, n0) ==
  /\ Digit(w, 4096) = n3 /\ Digit(w, 256) = n2 /\ Digit(w, 16) = n1 /\ Digit(w, 1) = n0

LEMMA DigitsOf ==
  ASSUME NEW n3 \in Nat, n3 < 16, NEW n2 \in Nat, n2 < 16, NEW n1 \in Nat, n1 < 16,
         NEW n0 \in Nat, n0 < 16, NEW w, w = 4096 * n3 + 256 * n2 + 16 * n1 + n0
  PROVE  Digits(w, n3, n2, n1, n0)
<1>1. PICK v \in Nat : v = w
  OBVIOUS
<1>2. /\ (v \div 4096) % 16 = n3 /\ (v \div 256) % 16 = n2
      /\ (v \div 16) % 16 = n1 /\ (v \div 1) % 16 = n0
  BY <1>1, SMT
<1> QED
  BY <1>1, <1>2 DEF Digits, Digit

LEMMA WordDigits ==
  ASSUME NEW w, IsWord(w)
  PROVE  /\ Digit(w, 4096) \in Nat /\ Digit(w, 4096) < 16
         /\ Digit(w, 256) \in Nat /\ Digit(w, 256) < 16
         /\ Digit(w, 16) \in Nat /\ Digit(w, 16) < 16
         /\ Digit(w, 1) \in Nat /\ Digit(w, 1) < 16
         /\ w = 4096 * Digit(w, 4096) + 256 * Digit(w, 256) + 16 * Digit(w, 16) + Digit(w, 1)
<1>1. PICK v \in Nat : v = w /\ v < 65536
  BY DEF IsWord
<1>2. PICK n3 \in Nat : n3 = (v \div 4096) % 16
  BY SMT
<1>3. PICK n2 \in Nat : n2 = (v \div 256) % 16
  BY SMT
<1>4. PICK n1 \in Nat : n1 = (v \div 16) % 16
  BY SMT
<1>5. PICK n0 \in Nat : n0 = (v \div 1) % 16
  BY SMT
<1>6. /\ n3 < 16 /\ n2 < 16 /\ n1 < 16 /\ n0 < 16
      /\ v = 4096 * n3 + 256 * n2 + 16 * n1 + n0
  BY <1>1, <1>2, <1>3, <1>4, <1>5, SMT
<1>7. Digit(v, 4096) = n3 /\ Digit(v, 256) = n2 /\ Digit(v, 16) = n1 /\ Digit(v, 1) = n0
  BY <1>2, <1>3, <1>4, <1>5 DEF Digit
<1> QED
  BY <1>1, <1>6, <1>7

XorDigit(a, b, k) == Nibbles[Digit(a, k)][Digit(b, k)]

LEMMA XorDigits ==
  ASSUME NEW a, IsWord(a), NEW b, IsWord(b)
  PROVE  Digits(Xor(a, b), XorDigit(a, b, 4096), XorDigit(a, b, 256),
                XorDigit(a, b, 16), XorDigit(a, b, 1))
<1>k3. PICK k3 \in Nat : k3 = Digit(a, 4096) /\ k3 < 16
  BY WordDigits
<1>k2. PICK k2 \in Nat : k2 = Digit(a, 256) /\ k2 < 16
  BY WordDigits
<1>k1. PICK k1 \in Nat : k1 = Digit(a, 16) /\ k1 < 16
  BY WordDigits
<1>k0. PICK k0 \in Nat : k0 = Digit(a, 1) /\ k0 < 16
  BY WordDigits
<1>k. a = 4096 * k3 + 256 * k2 + 16 * k1 + k0
  BY <1>k3, <1>k2, <1>k1, <1>k0, WordDigits
<1>l3. PICK l3 \in Nat : l3 = Digit(b, 4096) /\ l3 < 16
  BY WordDigits
<1>l2. PICK l2 \in Nat : l2 = Digit(b, 256) /\ l2 < 16
  BY WordDigits
<1>l1. PICK l1 \in Nat : l1 = Digit(b, 16) /\ l1 < 16
  BY WordDigits
<1>l0. PICK l0 \in Nat : l0 = Digit(b, 1) /\ l0 < 16
  BY WordDigits
<1>l. b = 4096 * l3 + 256 * l2 + 16 * l1 + l0
  BY <1>l3, <1>l2, <1>l1, <1>l0, WordDigits
<1>1. PICK n3 \in Nat : n3 = Nibbles[k3][l3] /\ n3 < 16
  BY <1>k3, <1>l3, NibblesType
<1>2. PICK n2 \in Nat : n2 = Nibbles[k2][l2] /\ n2 < 16
  BY <1>k2, <1>l2, NibblesType
<1>3. PICK n1 \in Nat : n1 = Nibbles[k1][l1] /\ n1 < 16
  BY <1>k1, <1>l1, NibblesType
<1>4. PICK n0 \in Nat : n0 = Nibbles[k0][l0] /\ n0 < 16
  BY <1>k0, <1>l0, NibblesType
<1>5. Xor(k3, l3) = n3
  <2>1. HexRule(0, 0, k3, l3)
    BY <1>k3, <1>l3, XorHex
  <2>2. Xor(0, 0) = 0
    BY XorLawful DEF Lawful, IsWord
  <2>3. Xor(16 * 0 + k3, 16 * 0 + l3) = 16 * Xor(0, 0) + Nibbles[k3][l3]
    BY <2>1 DEF HexRule
  <2>4. 16 * 0 + k3 = k3 /\ 16 * 0 + l3 = l3 /\ 16 * 0 + n3 = n3
    OBVIOUS
  <2> QED
    BY <1>1, <2>2, <2>3, <2>4
<1>6. PICK g2 \in Nat : g2 = 16 * k3 + k2 /\ g2 < 256
  BY <1>k3, <1>k2
<1>7. PICK h2 \in Nat : h2 = 16 * l3 + l2 /\ h2 < 256
  BY <1>l3, <1>l2
<1>8. Xor(g2, h2) = 16 * n3 + n2
  <2>1. HexRule(k3, l3, k2, l2)
    BY <1>k3, <1>l3, <1>k2, <1>l2, XorHex
  <2> QED
    BY <1>2, <1>5, <1>6, <1>7, <2>1 DEF HexRule
<1>9. PICK g1 \in Nat : g1 = 16 * g2 + k1 /\ g1 < 4096
  BY <1>k1, <1>6
<1>10. PICK h1 \in Nat : h1 = 16 * h2 + l1 /\ h1 < 4096
  BY <1>l1, <1>7
<1>11. Xor(g1, h1) = 16 * (16 * n3 + n2) + n1
  <2>1. HexRule(g2, h2, k1, l1)
    BY <1>k1, <1>l1, <1>6, <1>7, XorHex
  <2> QED
    BY <1>3, <1>8, <1>9, <1>10, <2>1 DEF HexRule
<1>12. Xor(a, b) = 16 * (16 * (16 * n3 + n2) + n1) + n0
  <2>1. HexRule(g1, h1, k0, l0)
    BY <1>k0, <1>l0, <1>9, <1>10, XorHex
  <2>2. a = 16 * g1 + k0 /\ b = 16 * h1 + l0
    BY <1>k, <1>l, <1>6, <1>7, <1>9, <1>10
  <2> QED
    BY <1>4, <1>11, <2>1, <2>2 DEF HexRule
<1>13. Xor(a, b) = 4096 * n3 + 256 * n2 + 16 * n1 + n0
  BY <1>12
<1>14. Digits(Xor(a, b), n3, n2, n1, n0)
  <2>1. n3 < 16 /\ n2 < 16 /\ n1 < 16 /\ n0 < 16
    BY <1>1, <1>2, <1>3, <1>4
  <2> QED
    BY <1>13, <2>1, DigitsOf
<1> QED
  BY <1>1, <1>2, <1>3, <1>4, <1>14, <1>k3, <1>k2, <1>k1, <1>k0, <1>l3, <1>l2, <1>l1, <1>l0
     DEF XorDigit

LEMMA SquareForm ==
  ASSUME NEW w, NEW n3, NEW n2, NEW n1, NEW n0, Digits(w, n3, n2, n1, n0)
  PROVE  Square(w) =
           Pushes(Pushes(Pushes(Pushes(0, Spread(n3)), Spread(n2)), Spread(n1)), Spread(n0))
  BY DEF Digits, Square

(* Square is linear.                                                        *)
LEMMA SquareLinear ==
  ASSUME NEW a, IsWord(a), NEW b, IsWord(b)
  PROVE  /\ Square(Xor(a, b)) = Xor(Square(a), Square(b))
         /\ IsWord(Square(a))
<1> DEFINE K(k) == Spread(Digit(a, k))
           L(k) == Spread(Digit(b, k))
           A3 == Pushes(0, K(4096))
           A2 == Pushes(A3, K(256))
           A1 == Pushes(A2, K(16))
           A0 == Pushes(A1, K(1))
           B3 == Pushes(0, L(4096))
           B2 == Pushes(B3, L(256))
           B1 == Pushes(B2, L(16))
           B0 == Pushes(B1, L(1))
<1>1. ASSUME NEW k \in {4096, 256, 16, 1}
      PROVE  K(k) \in Byte /\ L(k) \in Byte /\ Spread(XorDigit(a, b, k)) = Xor(K(k), L(k))
  <2>1. PICK m \in Nat : m = Digit(a, k) /\ m < 16
    BY <1>1, WordDigits
  <2>2. PICK n \in Nat : n = Digit(b, k) /\ n < 16
    BY <1>1, WordDigits
  <2>3. Spread(m) \in Byte /\ Spread(n) \in Byte
          /\ Spread(Nibbles[m][n]) = Xor(Spread(m), Spread(n))
    BY <2>1, <2>2, SpreadType, SpreadXor
  <2> QED
    BY <2>1, <2>2, <2>3 DEF XorDigit
<1>7. Square(a) = A0 /\ Square(b) = B0
  BY DEF Square
<1>8. Square(Xor(a, b)) =
        Pushes(Pushes(Pushes(Pushes(0, Spread(XorDigit(a, b, 4096))),
                             Spread(XorDigit(a, b, 256))),
                      Spread(XorDigit(a, b, 16))), Spread(XorDigit(a, b, 1)))
  BY XorDigits, SquareForm
<1> HIDE DEF K, L
<1>9. IsWord(0) /\ Xor(0, 0) = 0
  BY XorLawful DEF Lawful, IsWord
<1> HIDE DEF A0, B0
<1>10. /\ Pushes(0, Spread(XorDigit(a, b, 4096))) = Xor(A3, B3)
       /\ IsWord(A3) /\ IsWord(B3)
  BY <1>1, <1>9, PushesLinear, PushesType
<1> HIDE DEF A3, B3
<1>11. /\ Pushes(Xor(A3, B3), Spread(XorDigit(a, b, 256))) = Xor(A2, B2)
       /\ IsWord(A2) /\ IsWord(B2)
  BY <1>1, <1>10, PushesLinear, PushesType
<1> HIDE DEF A2, B2
<1>12. /\ Pushes(Xor(A2, B2), Spread(XorDigit(a, b, 16))) = Xor(A1, B1)
       /\ IsWord(A1) /\ IsWord(B1)
  BY <1>1, <1>11, PushesLinear, PushesType
<1> HIDE DEF A1, B1
<1>13. /\ Pushes(Xor(A1, B1), Spread(XorDigit(a, b, 1))) = Xor(A0, B0)
       /\ IsWord(A0)
  BY <1>1, <1>12, PushesLinear, PushesType DEF A0, B0
<1> QED
  BY <1>7, <1>8, <1>10, <1>11, <1>12, <1>13

LEMMA PowerLow ==
  /\ Power[0] = 1 /\ Power[1] = 2 /\ Power[2] = 4 /\ Power[3] = 8
  /\ Power[4] = 16 /\ Power[5] = 32 /\ Power[6] = 64 /\ Power[7] = 128
  /\ Power[8] = 256 /\ Power[9] = 512 /\ Power[10] = 1024 /\ Power[11] = 2048
  /\ Power[12] = 4096 /\ Power[13] = 8192 /\ Power[14] = 16384 /\ Power[15] = 32768
<1>1. ASSUME NEW k \in Nat, k < 15, NEW n \in Nat, n < 32768, Power[k] = n
      PROVE  Power[k + 1] = 2 * n
  <2>1. k < Last
    BY <1>1, LastIs
  <2>2. Push(n, 0) = 2 * n + 0
    BY <1>1, PushLow
  <2> QED
    BY <1>1, <2>1, <2>2, PowerStep
<1>2. Power[0] = 1 /\ Power[1] = 2 /\ Power[2] = 4 /\ Power[3] = 8
  <2>1. Power[0] = 1
    BY PowerStep
  <2>2. Power[0 + 1] = 2 * 1
    BY <1>1, <2>1
  <2>3. Power[1 + 1] = 2 * 2
    BY <1>1, <2>2
  <2>4. Power[2 + 1] = 2 * 4
    BY <1>1, <2>3
  <2> QED
    BY <2>1, <2>2, <2>3, <2>4
<1>3. Power[4] = 16 /\ Power[5] = 32 /\ Power[6] = 64 /\ Power[7] = 128
  <2>1. Power[3 + 1] = 2 * 8
    BY <1>1, <1>2
  <2>2. Power[4 + 1] = 2 * 16
    BY <1>1, <2>1
  <2>3. Power[5 + 1] = 2 * 32
    BY <1>1, <2>2
  <2>4. Power[6 + 1] = 2 * 64
    BY <1>1, <2>3
  <2> QED
    BY <2>1, <2>2, <2>3, <2>4
<1>4. Power[8] = 256 /\ Power[9] = 512 /\ Power[10] = 1024 /\ Power[11] = 2048
  <2>1. Power[7 + 1] = 2 * 128
    BY <1>1, <1>3
  <2>2. Power[8 + 1] = 2 * 256
    BY <1>1, <2>1
  <2>3. Power[9 + 1] = 2 * 512
    BY <1>1, <2>2
  <2>4. Power[10 + 1] = 2 * 1024
    BY <1>1, <2>3
  <2> QED
    BY <2>1, <2>2, <2>3, <2>4
<1>5. Power[12] = 4096 /\ Power[13] = 8192 /\ Power[14] = 16384 /\ Power[15] = 32768
  <2>1. Power[11 + 1] = 2 * 2048
    BY <1>1, <1>4
  <2>2. Power[12 + 1] = 2 * 4096
    BY <1>1, <2>1
  <2>3. Power[13 + 1] = 2 * 8192
    BY <1>1, <2>2
  <2>4. Power[14 + 1] = 2 * 16384
    BY <1>1, <2>3
  <2> QED
    BY <2>1, <2>2, <2>3, <2>4
<1> QED
  BY <1>2, <1>3, <1>4, <1>5

(* Square by the digits, with the table.                                    *)
LEMMA SquareStep ==
  ASSUME NEW n3 \in Nat, n3 < 16, NEW n2 \in Nat, n2 < 16, NEW n1 \in Nat, n1 < 16,
         NEW n0 \in Nat, n0 < 16, NEW w, w = 4096 * n3 + 256 * n2 + 16 * n1 + n0
  PROVE  Square(w) = Step(Step(256 * Spread(n3) + Spread(n2), Spread(n1)), Spread(n0))
<1>1. /\ Spread(n3) \in Byte /\ Spread(n2) \in Byte
      /\ Spread(n1) \in Byte /\ Spread(n0) \in Byte
  BY SpreadType
<1>2. Digits(w, n3, n2, n1, n0)
  BY DigitsOf
<1>3. Square(w) =
        Pushes(Pushes(Pushes(Pushes(0, Spread(n3)), Spread(n2)), Spread(n1)), Spread(n0))
  BY <1>2, SquareForm
<1>4. Pushes(0, Spread(n3)) = Spread(n3)
  <2>1. 0 \in Byte
    BY DEF Byte
  <2>2. Pushes(0, Spread(n3)) = 256 * 0 + Spread(n3)
    BY <1>1, <2>1, PushesLow
  <2> QED
    BY <1>1, <2>2 DEF Byte
<1>5. Pushes(Spread(n3), Spread(n2)) = 256 * Spread(n3) + Spread(n2)
  BY <1>1, PushesLow
<1>6. IsWord(256 * Spread(n3) + Spread(n2))
  <2>1. PICK a \in Nat : a = Spread(n3) /\ a < 256
    BY <1>1 DEF Byte
  <2>2. PICK b \in Nat : b = Spread(n2) /\ b < 256
    BY <1>1 DEF Byte
  <2>3. IsWord(256 * a + b)
    BY <2>1, <2>2 DEF IsWord
  <2> QED
    BY <2>1, <2>2, <2>3
<1>7. /\ Step(256 * Spread(n3) + Spread(n2), Spread(n1))
           = Pushes(256 * Spread(n3) + Spread(n2), Spread(n1))
      /\ IsWord(Step(256 * Spread(n3) + Spread(n2), Spread(n1)))
  BY <1>1, <1>6, StepRule
<1>8. Step(Step(256 * Spread(n3) + Spread(n2), Spread(n1)), Spread(n0))
        = Pushes(Step(256 * Spread(n3) + Spread(n2), Spread(n1)), Spread(n0))
  BY <1>1, <1>7, StepRule
<1> QED
  BY <1>3, <1>4, <1>5, <1>7, <1>8

LEMMA PowerTable ==
  ASSUME NEW k \in Nat, k + 8 <= Last
  PROVE  Power[k + 8] = Step(Power[k], 0)
<1>1. 0 \in Byte /\ IsWord(Power[k])
  BY PowerType, LastIs DEF PowerFact, Byte
<1> QED
  BY <1>1, PowerByte, StepRule

(* The squares of single bits are powers.                                   *)
LEMMA SquareBits ==
  /\ Square(1) = Power[0] /\ Square(2) = Power[2] /\ Square(4) = Power[4]
  /\ Square(8) = Power[6]
  /\ Square(16) = Power[8] /\ Square(32) = Power[10] /\ Square(64) = Power[12]
  /\ Square(128) = Power[14]
  /\ Square(256) = Power[16] /\ Square(512) = Power[18] /\ Square(1024) = Power[20]
  /\ Square(2048) = Power[22]
  /\ Square(4096) = Power[24] /\ Square(8192) = Power[26] /\ Square(16384) = Power[28]
  /\ Square(32768) = Power[30]
<1>1. ASSUME NEW b \in {0, 1, 2, 4, 8}, NEW c \in {0, 1, 2, 4, 8}
      PROVE  /\ Square(16 * b + c) = 256 * Spread(b) + Spread(c)
             /\ Square(4096 * b + 256 * c) = Step(Step(256 * Spread(b) + Spread(c), 0), 0)
  <2>1. Spread(0) = 0 /\ Spread(b) \in Byte /\ Spread(c) \in Byte
    BY SpreadTable, SpreadType
  <2>0. b \in Nat /\ b < 16 /\ c \in Nat /\ c < 16
    OBVIOUS
  <2>7. PICK v \in Nat : v = 16 * b + c
    BY <2>0
  <2>2. Square(v) = Step(Step(0, Spread(b)), Spread(c))
    <3>1. v = 4096 * 0 + 256 * 0 + 16 * b + c
      BY <2>0, <2>7
    <3>2. Square(v) = Step(Step(256 * Spread(0) + Spread(0), Spread(b)), Spread(c))
      BY <2>0, <3>1, SquareStep
    <3> QED
      BY <2>1, <3>2
  <2>3. 0 \in Byte /\ IsWord(0) /\ IsWord(Spread(b))
    BY <2>1 DEF Byte, IsWord
  <2>4. Step(0, Spread(b)) = 256 * 0 + Spread(b)
    BY <2>1, <2>3, StepRule, PushesLow
  <2>5. Step(Spread(b), Spread(c)) = 256 * Spread(b) + Spread(c)
    BY <2>1, <2>3, StepRule, PushesLow
  <2>6. Step(0, Spread(b)) = Spread(b)
    BY <2>1, <2>4 DEF Byte
  <2>9. PICK w \in Nat : w = 4096 * b + 256 * c
    BY <2>0
  <2>8. Square(w) = Step(Step(256 * Spread(b) + Spread(c), 0), 0)
    <3>1. w = 4096 * b + 256 * c + 16 * 0 + 0
      BY <2>0, <2>9
    <3>2. Square(w) = Step(Step(256 * Spread(b) + Spread(c), Spread(0)), Spread(0))
      BY <2>0, <3>1, SquareStep
    <3> QED
      BY <2>1, <3>2
  <2> QED
    BY <2>2, <2>5, <2>6, <2>7, <2>8, <2>9
<1>2. ASSUME NEW k \in Nat, k + 16 <= Last
      PROVE  Power[k + 16] = Step(Step(Power[k], 0), 0)
  <2>1. Power[k + 8] = Step(Power[k], 0) /\ Power[(k + 8) + 8] = Step(Power[k + 8], 0)
    BY <1>2, LastIs, PowerTable
  <2>2. (k + 8) + 8 = k + 16
    OBVIOUS
  <2> QED
    BY <2>1, <2>2
<1>3. Spread(0) = 0 /\ Spread(1) = 1 /\ Spread(2) = 4 /\ Spread(4) = 16 /\ Spread(8) = 64
  BY SpreadTable
<1>4. Square(1) = Power[0]
  <2>1. Square(16 * 0 + 1) = 256 * Spread(0) + Spread(1)
    BY <1>1
  <2> QED
    BY <2>1, <1>3, PowerLow
<1>5. Square(2) = Power[2]
  <2>1. Square(16 * 0 + 2) = 256 * Spread(0) + Spread(2)
    BY <1>1
  <2> QED
    BY <2>1, <1>3, PowerLow
<1>6. Square(4) = Power[4]
  <2>1. Square(16 * 0 + 4) = 256 * Spread(0) + Spread(4)
    BY <1>1
  <2> QED
    BY <2>1, <1>3, PowerLow
<1>7. Square(8) = Power[6]
  <2>1. Square(16 * 0 + 8) = 256 * Spread(0) + Spread(8)
    BY <1>1
  <2> QED
    BY <2>1, <1>3, PowerLow
<1>8. Square(16) = Power[8]
  <2>1. Square(16 * 1 + 0) = 256 * Spread(1) + Spread(0)
    BY <1>1
  <2> QED
    BY <2>1, <1>3, PowerLow
<1>9. Square(32) = Power[10]
  <2>1. Square(16 * 2 + 0) = 256 * Spread(2) + Spread(0)
    BY <1>1
  <2> QED
    BY <2>1, <1>3, PowerLow
<1>10. Square(64) = Power[12]
  <2>1. Square(16 * 4 + 0) = 256 * Spread(4) + Spread(0)
    BY <1>1
  <2> QED
    BY <2>1, <1>3, PowerLow
<1>11. Square(128) = Power[14]
  <2>1. Square(16 * 8 + 0) = 256 * Spread(8) + Spread(0)
    BY <1>1
  <2> QED
    BY <2>1, <1>3, PowerLow
<1>12. Square(256) = Power[16]
  <2>1. Square(4096 * 0 + 256 * 1) = Step(Step(256 * Spread(0) + Spread(1), 0), 0)
    BY <1>1
  <2>2. Power[0 + 16] = Step(Step(1, 0), 0)
    BY <1>2, PowerLow, LastIs
  <2> QED
    BY <2>1, <2>2, <1>3
<1>13. Square(512) = Power[18]
  <2>1. Square(4096 * 0 + 256 * 2) = Step(Step(256 * Spread(0) + Spread(2), 0), 0)
    BY <1>1
  <2>2. Power[2 + 16] = Step(Step(4, 0), 0)
    BY <1>2, PowerLow, LastIs
  <2> QED
    BY <2>1, <2>2, <1>3
<1>14. Square(1024) = Power[20]
  <2>1. Square(4096 * 0 + 256 * 4) = Step(Step(256 * Spread(0) + Spread(4), 0), 0)
    BY <1>1
  <2>2. Power[4 + 16] = Step(Step(16, 0), 0)
    BY <1>2, PowerLow, LastIs
  <2> QED
    BY <2>1, <2>2, <1>3
<1>15. Square(2048) = Power[22]
  <2>1. Square(4096 * 0 + 256 * 8) = Step(Step(256 * Spread(0) + Spread(8), 0), 0)
    BY <1>1
  <2>2. Power[6 + 16] = Step(Step(64, 0), 0)
    BY <1>2, PowerLow, LastIs
  <2> QED
    BY <2>1, <2>2, <1>3
<1>16. Square(4096) = Power[24]
  <2>1. Square(4096 * 1 + 256 * 0) = Step(Step(256 * Spread(1) + Spread(0), 0), 0)
    BY <1>1
  <2>2. Power[8 + 16] = Step(Step(256, 0), 0)
    BY <1>2, PowerLow, LastIs
  <2> QED
    BY <2>1, <2>2, <1>3
<1>17. Square(8192) = Power[26]
  <2>1. Square(4096 * 2 + 256 * 0) = Step(Step(256 * Spread(2) + Spread(0), 0), 0)
    BY <1>1
  <2>2. Power[10 + 16] = Step(Step(1024, 0), 0)
    BY <1>2, PowerLow, LastIs
  <2> QED
    BY <2>1, <2>2, <1>3
<1>18. Square(16384) = Power[28]
  <2>1. Square(4096 * 4 + 256 * 0) = Step(Step(256 * Spread(4) + Spread(0), 0), 0)
    BY <1>1
  <2>2. Power[12 + 16] = Step(Step(4096, 0), 0)
    BY <1>2, PowerLow, LastIs
  <2> QED
    BY <2>1, <2>2, <1>3
<1>19. Square(32768) = Power[30]
  <2>1. Square(4096 * 8 + 256 * 0) = Step(Step(256 * Spread(8) + Spread(0), 0), 0)
    BY <1>1
  <2>2. Power[14 + 16] = Step(Step(16384, 0), 0)
    BY <1>2, PowerLow, LastIs
  <2> QED
    BY <2>1, <2>2, <1>3
<1> QED
  BY <1>4, <1>5, <1>6, <1>7, <1>8, <1>9, <1>10, <1>11, <1>12, <1>13, <1>14, <1>15, <1>16,
     <1>17, <1>18, <1>19

-----------------------------------------------------------------------------
(* Squaring goes with multiplying by x.                                     *)

(* What the table makes of some words.                                      *)
LEMMA StepValues ==
  /\ Step(256, 0) = 32773 /\ Step(32773, 0) = 34307 /\ Step(34307, 0) = 32791
  /\ Step(16384, 1) = 33154 /\ Step(33154, 21) = 33043 /\ Step(16385, 1) = 32898
  /\ Step(32898, 5) = 262 /\ Step(1, 0) = 256 /\ Step(256, 20) = 32785
  /\ Step(33154, 1) = 33031 /\ Step(16385, 0) = 32899 /\ Step(32899, 21) = 22
  /\ Step(0, 1) = 1 /\ Step(1, 20) = 276 /\ Step(1, 1) = 257
  /\ Step(257, 16) = 33045 /\ Step(32898, 17) = 274 /\ Step(257, 4) = 33025
  /\ Step(32899, 1) = 2 /\ Step(32768, 0) = 33539 /\ Step(33539, 0) = 32777
  /\ Step(32777, 0) = 35331 /\ Step(22, 0) = 5632 /\ Step(5632, 0) = 32887
  /\ Step(32887, 0) = 62467 /\ Step(62467, 0) = 33083 /\ Step(33083, 0) = 14342
  /\ Step(33043, 0) = 4102 /\ Step(1024, 0) = 32795 /\ Step(32795, 80) = 38995
  /\ Step(16704, 17) = 16791 /\ Step(16791, 5) = 38531 /\ Step(16660, 64) = 5574
  /\ Step(5574, 5) = 18040 /\ Step(4116, 21) = 38006 /\ Step(38006, 64) = 62779
  /\ Step(21777, 5) = 4347 /\ Step(4347, 69) = 31526 /\ Step(5445, 4) = 50553
  /\ Step(50553, 20) = 31626 /\ Step(31626, 0) = 35610 /\ Step(35610, 0) = 6458
  /\ Step(16384, 0) = 33155 /\ Step(33155, 17) = 32791
<1>1. Step(256, 0) = 32773
  <2>1. Step(256, 0) = Xor(0, 32773)
    BY DEF Step, Crc16Table
  <2>2. Xor(0, 32773) = 32773
    BY DEF Xor, Nibbles, Bit
  <2> QED
    BY <2>1, <2>2
<1>2. Step(32773, 0) = 34307
  <2>1. Step(32773, 0) = Xor(1280, 33539)
    BY DEF Step, Crc16Table
  <2>2. Xor(1280, 33539) = 34307
    BY DEF Xor, Nibbles, Bit
  <2> QED
    BY <2>1, <2>2
<1>3. Step(34307, 0) = 32791
  <2>1. Step(34307, 0) = Xor(768, 33559)
    BY DEF Step, Crc16Table
  <2>2. Xor(768, 33559) = 32791
    BY DEF Xor, Nibbles, Bit
  <2> QED
    BY <2>1, <2>2
<1>4. Step(16384, 1) = 33154
  <2>1. Step(16384, 1) = Xor(1, 33155)
    BY DEF Step, Crc16Table
  <2>2. Xor(1, 33155) = 33154
    BY DEF Xor, Nibbles, Bit
  <2> QED
    BY <2>1, <2>2
<1>5. Step(33154, 21) = 33043
  <2>1. Step(33154, 21) = Xor(33301, 774)
    BY DEF Step, Crc16Table
  <2>2. Xor(33301, 774) = 33043
    BY DEF Xor, Nibbles, Bit
  <2> QED
    BY <2>1, <2>2
<1>6. Step(16385, 1) = 32898
  <2>1. Step(16385, 1) = Xor(257, 33155)
    BY DEF Step, Crc16Table
  <2>2. Xor(257, 33155) = 32898
    BY DEF Xor, Nibbles, Bit
  <2> QED
    BY <2>1, <2>2
<1>7. Step(32898, 5) = 262
  <2>1. Step(32898, 5) = Xor(33285, 33539)
    BY DEF Step, Crc16Table
  <2>2. Xor(33285, 33539) = 262
    BY DEF Xor, Nibbles, Bit
  <2> QED
    BY <2>1, <2>2
<1>8. Step(1, 0) = 256
  <2>1. Step(1, 0) = Xor(256, 0)
    BY DEF Step, Crc16Table
  <2>2. Xor(256, 0) = 256
    BY DEF Xor, Nibbles, Bit
  <2> QED
    BY <2>1, <2>2
<1>9. Step(256, 20) = 32785
  <2>1. Step(256, 20) = Xor(20, 32773)
    BY DEF Step, Crc16Table
  <2>2. Xor(20, 32773) = 32785
    BY DEF Xor, Nibbles, Bit
  <2> QED
    BY <2>1, <2>2
<1>10. Step(33154, 1) = 33031
  <2>1. Step(33154, 1) = Xor(33281, 774)
    BY DEF Step, Crc16Table
  <2>2. Xor(33281, 774) = 33031
    BY DEF Xor, Nibbles, Bit
  <2> QED
    BY <2>1, <2>2
<1>11. Step(16385, 0) = 32899
  <2>1. Step(16385, 0) = Xor(256, 33155)
    BY DEF Step, Crc16Table
  <2>2. Xor(256, 33155) = 32899
    BY DEF Xor, Nibbles, Bit
  <2> QED
    BY <2>1, <2>2
<1>12. Step(32899, 21) = 22
  <2>1. Step(32899, 21) = Xor(33557, 33539)
    BY DEF Step, Crc16Table
  <2>2. Xor(33557, 33539) = 22
    BY DEF Xor, Nibbles, Bit
  <2> QED
    BY <2>1, <2>2
<1>13. Step(0, 1) = 1
  <2>1. Step(0, 1) = Xor(1, 0)
    BY DEF Step, Crc16Table
  <2>2. Xor(1, 0) = 1
    BY DEF Xor, Nibbles, Bit
  <2> QED
    BY <2>1, <2>2
<1>14. Step(1, 20) = 276
  <2>1. Step(1, 20) = Xor(276, 0)
    BY DEF Step, Crc16Table
  <2>2. Xor(276, 0) = 276
    BY DEF Xor, Nibbles, Bit
  <2> QED
    BY <2>1, <2>2
<1>15. Step(1, 1) = 257
  <2>1. Step(1, 1) = Xor(257, 0)
    BY DEF Step, Crc16Table
  <2>2. Xor(257, 0) = 257
    BY DEF Xor, Nibbles, Bit
  <2> QED
    BY <2>1, <2>2
<1>16. Step(257, 16) = 33045
  <2>1. Step(257, 16) = Xor(272, 32773)
    BY DEF Step, Crc16Table
  <2>2. Xor(272, 32773) = 33045
    BY DEF Xor, Nibbles, Bit
  <2> QED
    BY <2>1, <2>2
<1>17. Step(32898, 17) = 274
  <2>1. Step(32898, 17) = Xor(33297, 33539)
    BY DEF Step, Crc16Table
  <2>2. Xor(33297, 33539) = 274
    BY DEF Xor, Nibbles, Bit
  <2> QED
    BY <2>1, <2>2
<1>18. Step(257, 4) = 33025
  <2>1. Step(257, 4) = Xor(260, 32773)
    BY DEF Step, Crc16Table
  <2>2. Xor(260, 32773) = 33025
    BY DEF Xor, Nibbles, Bit
  <2> QED
    BY <2>1, <2>2
<1>19. Step(32899, 1) = 2
  <2>1. Step(32899, 1) = Xor(33537, 33539)
    BY DEF Step, Crc16Table
  <2>2. Xor(33537, 33539) = 2
    BY DEF Xor, Nibbles, Bit
  <2> QED
    BY <2>1, <2>2
<1>20. Step(32768, 0) = 33539
  <2>1. Step(32768, 0) = Xor(0, 33539)
    BY DEF Step, Crc16Table
  <2>2. Xor(0, 33539) = 33539
    BY DEF Xor, Nibbles, Bit
  <2> QED
    BY <2>1, <2>2
<1>21. Step(33539, 0) = 32777
  <2>1. Step(33539, 0) = Xor(768, 33545)
    BY DEF Step, Crc16Table
  <2>2. Xor(768, 33545) = 32777
    BY DEF Xor, Nibbles, Bit
  <2> QED
    BY <2>1, <2>2
<1>22. Step(32777, 0) = 35331
  <2>1. Step(32777, 0) = Xor(2304, 33539)
    BY DEF Step, Crc16Table
  <2>2. Xor(2304, 33539) = 35331
    BY DEF Xor, Nibbles, Bit
  <2> QED
    BY <2>1, <2>2
<1>23. Step(22, 0) = 5632
  <2>1. Step(22, 0) = Xor(5632, 0)
    BY DEF Step, Crc16Table
  <2>2. Xor(5632, 0) = 5632
    BY DEF Xor, Nibbles, Bit
  <2> QED
    BY <2>1, <2>2
<1>24. Step(5632, 0) = 32887
  <2>1. Step(5632, 0) = Xor(0, 32887)
    BY DEF Step, Crc16Table
  <2>2. Xor(0, 32887) = 32887
    BY DEF Xor, Nibbles, Bit
  <2> QED
    BY <2>1, <2>2
<1>25. Step(32887, 0) = 62467
  <2>1. Step(32887, 0) = Xor(30464, 33539)
    BY DEF Step, Crc16Table
  <2>2. Xor(30464, 33539) = 62467
    BY DEF Xor, Nibbles, Bit
  <2> QED
    BY <2>1, <2>2
<1>26. Step(62467, 0) = 33083
  <2>1. Step(62467, 0) = Xor(768, 33339)
    BY DEF Step, Crc16Table
  <2>2. Xor(768, 33339) = 33083
    BY DEF Xor, Nibbles, Bit
  <2> QED
    BY <2>1, <2>2
<1>27. Step(33083, 0) = 14342
  <2>1. Step(33083, 0) = Xor(15104, 774)
    BY DEF Step, Crc16Table
  <2>2. Xor(15104, 774) = 14342
    BY DEF Xor, Nibbles, Bit
  <2> QED
    BY <2>1, <2>2
<1>28. Step(33043, 0) = 4102
  <2>1. Step(33043, 0) = Xor(4864, 774)
    BY DEF Step, Crc16Table
  <2>2. Xor(4864, 774) = 4102
    BY DEF Xor, Nibbles, Bit
  <2> QED
    BY <2>1, <2>2
<1>29. Step(1024, 0) = 32795
  <2>1. Step(1024, 0) = Xor(0, 32795)
    BY DEF Step, Crc16Table
  <2>2. Xor(0, 32795) = 32795
    BY DEF Xor, Nibbles, Bit
  <2> QED
    BY <2>1, <2>2
<1>30. Step(32795, 80) = 38995
  <2>1. Step(32795, 80) = Xor(6992, 33539)
    BY DEF Step, Crc16Table
  <2>2. Xor(6992, 33539) = 38995
    BY DEF Xor, Nibbles, Bit
  <2> QED
    BY <2>1, <2>2
<1>31. Step(16704, 17) = 16791
  <2>1. Step(16704, 17) = Xor(16401, 390)
    BY DEF Step, Crc16Table
  <2>2. Xor(16401, 390) = 16791
    BY DEF Xor, Nibbles, Bit
  <2> QED
    BY <2>1, <2>2
<1>32. Step(16791, 5) = 38531
  <2>1. Step(16791, 5) = Xor(38661, 390)
    BY DEF Step, Crc16Table
  <2>2. Xor(38661, 390) = 38531
    BY DEF Xor, Nibbles, Bit
  <2> QED
    BY <2>1, <2>2
<1>33. Step(16660, 64) = 5574
  <2>1. Step(16660, 64) = Xor(5184, 390)
    BY DEF Step, Crc16Table
  <2>2. Xor(5184, 390) = 5574
    BY DEF Xor, Nibbles, Bit
  <2> QED
    BY <2>1, <2>2
<1>34. Step(5574, 5) = 18040
  <2>1. Step(5574, 5) = Xor(50693, 32893)
    BY DEF Step, Crc16Table
  <2>2. Xor(50693, 32893) = 18040
    BY DEF Xor, Nibbles, Bit
  <2> QED
    BY <2>1, <2>2
<1>35. Step(4116, 21) = 38006
  <2>1. Step(4116, 21) = Xor(5141, 32867)
    BY DEF Step, Crc16Table
  <2>2. Xor(5141, 32867) = 38006
    BY DEF Xor, Nibbles, Bit
  <2> QED
    BY <2>1, <2>2
<1>36. Step(38006, 64) = 62779
  <2>1. Step(38006, 64) = Xor(30272, 33659)
    BY DEF Step, Crc16Table
  <2>2. Xor(30272, 33659) = 62779
    BY DEF Xor, Nibbles, Bit
  <2> QED
    BY <2>1, <2>2
<1>37. Step(21777, 5) = 4347
  <2>1. Step(21777, 5) = Xor(4357, 510)
    BY DEF Step, Crc16Table
  <2>2. Xor(4357, 510) = 4347
    BY DEF Xor, Nibbles, Bit
  <2> QED
    BY <2>1, <2>2
<1>38. Step(4347, 69) = 31526
  <2>1. Step(4347, 69) = Xor(64325, 32867)
    BY DEF Step, Crc16Table
  <2>2. Xor(64325, 32867) = 31526
    BY DEF Xor, Nibbles, Bit
  <2> QED
    BY <2>1, <2>2
<1>39. Step(5445, 4) = 50553
  <2>1. Step(5445, 4) = Xor(17668, 32893)
    BY DEF Step, Crc16Table
  <2>2. Xor(17668, 32893) = 50553
    BY DEF Xor, Nibbles, Bit
  <2> QED
    BY <2>1, <2>2
<1>40. Step(50553, 20) = 31626
  <2>1. Step(50553, 20) = Xor(30996, 670)
    BY DEF Step, Crc16Table
  <2>2. Xor(30996, 670) = 31626
    BY DEF Xor, Nibbles, Bit
  <2> QED
    BY <2>1, <2>2
<1>41. Step(31626, 0) = 35610
  <2>1. Step(31626, 0) = Xor(35328, 282)
    BY DEF Step, Crc16Table
  <2>2. Xor(35328, 282) = 35610
    BY DEF Xor, Nibbles, Bit
  <2> QED
    BY <2>1, <2>2
<1>42. Step(35610, 0) = 6458
  <2>1. Step(35610, 0) = Xor(6656, 826)
    BY DEF Step, Crc16Table
  <2>2. Xor(6656, 826) = 6458
    BY DEF Xor, Nibbles, Bit
  <2> QED
    BY <2>1, <2>2
<1>43. Step(16384, 0) = 33155
  <2>1. Step(16384, 0) = Xor(0, 33155)
    BY DEF Step, Crc16Table
  <2>2. Xor(0, 33155) = 33155
    BY DEF Xor, Nibbles, Bit
  <2> QED
    BY <2>1, <2>2
<1>44. Step(33155, 17) = 32791
  <2>1. Step(33155, 17) = Xor(33553, 774)
    BY DEF Step, Crc16Table
  <2>2. Xor(33553, 774) = 32791
    BY DEF Xor, Nibbles, Bit
  <2> QED
    BY <2>1, <2>2
<1> QED
  BY <1>1, <1>2, <1>3, <1>4, <1>5, <1>6, <1>7, <1>8, <1>9, <1>10, <1>11,
     <1>12, <1>13, <1>14, <1>15, <1>16, <1>17, <1>18, <1>19, <1>20, <1>21,
     <1>22, <1>23, <1>24, <1>25, <1>26, <1>27, <1>28, <1>29, <1>30, <1>31,
     <1>32, <1>33, <1>34, <1>35, <1>36, <1>37, <1>38, <1>39, <1>40, <1>41,
     <1>42, <1>43, <1>44

LEMMA PowerThirtyTwo == Power[32] = 32791
<1>1. Power[16] = 32773
  <2>1. Power[8 + 8] = Step(Power[8], 0)
    BY PowerTable, LastIs
  <2> QED
    BY <2>1, PowerLow, StepValues
<1>2. Power[24] = 34307
  <2>1. Power[16 + 8] = Step(Power[16], 0)
    BY PowerTable, LastIs
  <2> QED
    BY <2>1, <1>1, StepValues
<1>3. Power[32] = 32791
  <2>1. Power[24 + 8] = Step(Power[24], 0)
    BY PowerTable, LastIs
  <2> QED
    BY <2>1, <1>2, StepValues
<1> QED
  BY <1>3

(* Squares and the zero pushed.                                             *)
Shifts(x) == Square(Push(x, 0)) = Push(Push(Square(x), 0), 0)

AllShift(n) ==
  /\ \A x \in Nat : x < n => Shifts(x)
  /\ n <= 32768 => \A x \in Nat : x < n => Xor(n, x) = n + x

LEMMA ShiftFirst == AllShift(1)
<1>1. IsWord(0) /\ IsWord(1) /\ Xor(0, 0) = 0 /\ Xor(1, 0) = 1
  BY XorLawful DEF Lawful, IsWord
<1>2. Push(0, 0) = 0
  BY PushLow
<1>3. Square(0) = 0
  <2>1. Square(Xor(0, 0)) = Xor(Square(0), Square(0)) /\ IsWord(Square(0))
    BY <1>1, SquareLinear
  <2>2. Xor(Square(0), Square(0)) = 0
    BY <2>1, XorLawful DEF Lawful
  <2> QED
    BY <1>1, <2>1, <2>2
<1> QED
  BY <1>1, <1>2, <1>3 DEF AllShift, Shifts

LEMMA ShiftNext ==
  ASSUME NEW n \in Nat, 0 < n, n <= 32768, AllShift(n), Shifts(n), NEW m, m = 2 * n
  PROVE  AllShift(m)
<1>1. ASSUME NEW x \in Nat, x < m
      PROVE  Shifts(x)
  <2>1. CASE x < n
    BY <2>1 DEF AllShift
  <2>2. CASE x >= n
    <3>1. PICK g \in Nat : x = n + g /\ g < n
      BY <1>1, <2>2
    <3>2. x = Xor(n, g) /\ Shifts(g)
      BY <3>1 DEF AllShift
    <3>3. IsWord(n) /\ IsWord(g)
      BY <3>1 DEF IsWord
    <3>4. Differ(0, 0) = 0
      BY DEF Differ
    <3>5. \A r, s : IsWord(r) /\ IsWord(s) => Push(Xor(r, s), 0) = Xor(Push(r, 0), Push(s, 0))
      BY <3>4, PushLinear
    <3>6. \A r : IsWord(r) => IsWord(Push(r, 0)) /\ IsWord(Square(r))
      BY PushType, SquareLinear
    <3>7. \A r, s : IsWord(r) /\ IsWord(s) => Square(Xor(r, s)) = Xor(Square(r), Square(s))
      BY SquareLinear
    <3>8. Square(Push(x, 0)) = Xor(Square(Push(n, 0)), Square(Push(g, 0)))
      BY <3>2, <3>3, <3>5, <3>6, <3>7
    <3>9. Push(Square(x), 0) = Xor(Push(Square(n), 0), Push(Square(g), 0))
      BY <3>2, <3>3, <3>5, <3>6, <3>7
    <3>10. Push(Push(Square(x), 0), 0)
             = Xor(Push(Push(Square(n), 0), 0), Push(Push(Square(g), 0), 0))
      BY <3>3, <3>5, <3>6, <3>9
    <3> QED
      BY <3>2, <3>8, <3>10 DEF Shifts
  <2> QED
    BY <1>1, <2>1, <2>2
<1>2. ASSUME NEW x \in Nat, x < m, m <= 32768
      PROVE  Xor(m, x) = m + x
  <2>1. PICK g \in Nat : g = x \div 2
    BY SMT
  <2>2. PICK b \in {0, 1} : x = 2 * g + b /\ g < n
    BY <1>2, <2>1, SMT
  <2>3. Doubled(32768, n, g, 0, b) /\ Differ(0, b) = b
    BY <1>2, <2>2, XorRule DEF Differ
  <2>4. Xor(n, g) = n + g
    BY <2>2 DEF AllShift
  <2>5. Xor(2 * n + 0, 2 * g + b) = 2 * Xor(n, g) + Differ(0, b)
    BY <2>3 DEF Doubled
  <2> QED
    BY <2>2, <2>3, <2>4, <2>5
<1> QED
  BY <1>1, <1>2 DEF AllShift

(* For every power of two, from its square (SquareBits) ...                 *)
LEMMA ShiftBits ==
  /\ Shifts(1) /\ Shifts(2) /\ Shifts(4) /\ Shifts(8)
  /\ Shifts(16) /\ Shifts(32) /\ Shifts(64) /\ Shifts(128)
  /\ Shifts(256) /\ Shifts(512) /\ Shifts(1024) /\ Shifts(2048)
  /\ Shifts(4096) /\ Shifts(8192) /\ Shifts(16384) /\ Shifts(32768)
<1>1. ASSUME NEW k \in Nat, k + 2 <= Last
      PROVE  Power[k + 2] = Push(Push(Power[k], 0), 0)
  <2>1. Power[k + 1] = Push(Power[k], 0) /\ Power[(k + 1) + 1] = Push(Power[k + 1], 0)
    BY <1>1, PowerStep, LastIs
  <2>2. (k + 1) + 1 = k + 2
    OBVIOUS
  <2> QED
    BY <2>1, <2>2
<1>2. ASSUME NEW n \in Nat, n < 32768, NEW k \in Nat, k + 2 <= Last,
             Square(n) = Power[k], Square(2 * n) = Power[k + 2]
      PROVE  Shifts(n)
  <2>1. Push(n, 0) = 2 * n
    BY <1>2, PushLow
  <2> QED
    BY <1>1, <1>2, <2>1 DEF Shifts
<1>3. Shifts(1)
  <2>1. Square(1) = Power[0] /\ Square(2 * 1) = Power[0 + 2]
    BY SquareBits
  <2> QED
    BY <1>2, <2>1, LastIs
<1>4. Shifts(2)
  <2>1. Square(2) = Power[2] /\ Square(2 * 2) = Power[2 + 2]
    BY SquareBits
  <2> QED
    BY <1>2, <2>1, LastIs
<1>5. Shifts(4)
  <2>1. Square(4) = Power[4] /\ Square(2 * 4) = Power[4 + 2]
    BY SquareBits
  <2> QED
    BY <1>2, <2>1, LastIs
<1>6. Shifts(8)
  <2>1. Square(8) = Power[6] /\ Square(2 * 8) = Power[6 + 2]
    BY SquareBits
  <2> QED
    BY <1>2, <2>1, LastIs
<1>7. Shifts(16)
  <2>1. Square(16) = Power[8] /\ Square(2 * 16) = Power[8 + 2]
    BY SquareBits
  <2> QED
    BY <1>2, <2>1, LastIs
<1>8. Shifts(32)
  <2>1. Square(32) = Power[10] /\ Square(2 * 32) = Power[10 + 2]
    BY SquareBits
  <2> QED
    BY <1>2, <2>1, LastIs
<1>9. Shifts(64)
  <2>1. Square(64) = Power[12] /\ Square(2 * 64) = Power[12 + 2]
    BY SquareBits
  <2> QED
    BY <1>2, <2>1, LastIs
<1>10. Shifts(128)
  <2>1. Square(128) = Power[14] /\ Square(2 * 128) = Power[14 + 2]
    BY SquareBits
  <2> QED
    BY <1>2, <2>1, LastIs
<1>11. Shifts(256)
  <2>1. Square(256) = Power[16] /\ Square(2 * 256) = Power[16 + 2]
    BY SquareBits
  <2> QED
    BY <1>2, <2>1, LastIs
<1>12. Shifts(512)
  <2>1. Square(512) = Power[18] /\ Square(2 * 512) = Power[18 + 2]
    BY SquareBits
  <2> QED
    BY <1>2, <2>1, LastIs
<1>13. Shifts(1024)
  <2>1. Square(1024) = Power[20] /\ Square(2 * 1024) = Power[20 + 2]
    BY SquareBits
  <2> QED
    BY <1>2, <2>1, LastIs
<1>14. Shifts(2048)
  <2>1. Square(2048) = Power[22] /\ Square(2 * 2048) = Power[22 + 2]
    BY SquareBits
  <2> QED
    BY <1>2, <2>1, LastIs
<1>15. Shifts(4096)
  <2>1. Square(4096) = Power[24] /\ Square(2 * 4096) = Power[24 + 2]
    BY SquareBits
  <2> QED
    BY <1>2, <2>1, LastIs
<1>16. Shifts(8192)
  <2>1. Square(8192) = Power[26] /\ Square(2 * 8192) = Power[26 + 2]
    BY SquareBits
  <2> QED
    BY <1>2, <2>1, LastIs
<1>17. Shifts(16384)
  <2>1. Square(16384) = Power[28] /\ Square(2 * 16384) = Power[28 + 2]
    BY SquareBits
  <2> QED
    BY <1>2, <2>1, LastIs
<1>18. Shifts(32768)
  <2>1. Square(32768) = Power[30] /\ Power[30 + 2] = Push(Push(Power[30], 0), 0)
    BY <1>1, SquareBits, LastIs
  <2>2. Push(32768, 0) = 32773
    <3>1. Push(32768, 0) = Xor(0, 32773)
      BY DEF Push
    <3>2. Xor(0, 32773) = 32773
      <4>1. IsWord(0) /\ IsWord(32773)
        BY DEF IsWord
      <4>2. Lawful(0, 32773, 0) /\ Lawful(32773, 0, 0)
        BY <4>1, XorLawful
      <4> QED
        BY <4>2 DEF Lawful
    <3> QED
      BY <3>1, <3>2
  <2>3. Square(32773) = Step(Step(256 * Spread(8) + Spread(0), Spread(0)), Spread(5))
    BY SquareStep
  <2>4. Square(32773) = 32791
    BY <2>3, SpreadTable, StepValues
  <2> QED
    BY <2>1, <2>2, <2>4, PowerThirtyTwo DEF Shifts
<1> QED
  BY <1>3, <1>4, <1>5, <1>6, <1>7, <1>8, <1>9, <1>10, <1>11, <1>12, <1>13, <1>14, <1>15,
     <1>16, <1>17, <1>18

(* ... and for their sums.                                                  *)
LEMMA ShiftAll == AllShift(65536)
<1>1. AllShift(16)
  <2>1. AllShift(2)
    BY ShiftFirst, ShiftBits, ShiftNext
  <2>2. AllShift(4)
    BY <2>1, ShiftBits, ShiftNext
  <2>3. AllShift(8)
    BY <2>2, ShiftBits, ShiftNext
  <2> QED
    BY <2>3, ShiftBits, ShiftNext
<1>2. AllShift(256)
  <2>1. AllShift(32)
    BY <1>1, ShiftBits, ShiftNext
  <2>2. AllShift(64)
    BY <2>1, ShiftBits, ShiftNext
  <2>3. AllShift(128)
    BY <2>2, ShiftBits, ShiftNext
  <2> QED
    BY <2>3, ShiftBits, ShiftNext
<1>3. AllShift(4096)
  <2>1. AllShift(512)
    BY <1>2, ShiftBits, ShiftNext
  <2>2. AllShift(1024)
    BY <2>1, ShiftBits, ShiftNext
  <2>3. AllShift(2048)
    BY <2>2, ShiftBits, ShiftNext
  <2> QED
    BY <2>3, ShiftBits, ShiftNext
<1>4. AllShift(65536)
  <2>1. AllShift(8192)
    BY <1>3, ShiftBits, ShiftNext
  <2>2. AllShift(16384)
    BY <2>1, ShiftBits, ShiftNext
  <2>3. AllShift(32768)
    BY <2>2, ShiftBits, ShiftNext
  <2> QED
    BY <2>3, ShiftBits, ShiftNext
<1> QED
  BY <1>4

(* The square of a power.                                                   *)
Squared(k) == Square(Power[k]) = Power[2 * k]

LEMMA SquarePower ==
  ASSUME NEW k0 \in Nat, 2 * k0 <= Last
  PROVE  Power[2 * k0] = Square(Power[k0])
<1> DEFINE S == {n \in Nat : 2 * n <= Last /\ ~ Squared(n)}
<1>0. ASSUME S # {} PROVE FALSE
  <2>1. PICK n \in S : \A k \in S : n <= k
    BY <1>0, LeastNat
  <2>2. n \in Nat /\ 2 * n <= Last /\ ~ Squared(n) /\ \A k \in Nat : k < n => Squared(k)
    BY <2>1, LastIs
  <2> HIDE DEF S
  <2>3. CASE n = 0
    <3>1. Power[0] = 1 /\ Square(1) = Power[0] /\ 2 * 0 = 0
      BY PowerStep, SquareBits
    <3> QED
      BY <2>2, <2>3, <3>1 DEF Squared
  <2>4. CASE n > 0
    <3>1. PICK k \in Nat : n = k + 1 /\ k < n /\ k < Last /\ 2 * k < Last /\ 2 * k + 1 < Last
      BY <2>2, <2>4, LastIs
    <3>2. Square(Power[k]) = Power[2 * k]
      BY <2>2, <3>1 DEF Squared
    <3>3. Power[n] = Push(Power[k], 0)
      BY <3>1, PowerStep
    <3>4. Shifts(Power[k])
      <4>1. k <= Last
        BY <3>1, LastIs
      <4>2. IsWord(Power[k])
        BY <4>1, PowerType DEF PowerFact
      <4>3. PICK w : w = Power[k]
        OBVIOUS
      <4>4. Shifts(w)
        BY <4>2, <4>3, ShiftAll DEF AllShift, IsWord
      <4> QED
        BY <4>3, <4>4
    <3>5. PICK j \in Nat : j = 2 * k /\ 2 * n = (j + 1) + 1 /\ j < Last /\ j + 1 < Last
      BY <3>1
    <3>6. Power[j + 1] = Push(Power[j], 0) /\ Power[(j + 1) + 1] = Push(Power[j + 1], 0)
      BY <3>5, PowerStep, LastIs
    <3> QED
      BY <2>2, <3>2, <3>3, <3>4, <3>5, <3>6 DEF Squared, Shifts
  <2> QED
    BY <2>2, <2>3, <2>4
<1> HIDE DEF S
<1>1. S = {}
  BY <1>0
<1> QED
  BY <1>1 DEF S, Squared

(* x squared eight, nine, ... times.                                        *)
LEMMA PowersOfTwo ==
  /\ Power[64] = 33043 /\ Power[128] = 262 /\ Power[256] = 32785
  /\ Power[512] = 33031 /\ Power[1024] = 22 /\ Power[2048] = 276
  /\ Power[4096] = 33045 /\ Power[8192] = 274 /\ Power[16384] = 33025
  /\ Power[32768] = 2
<1>1. Power[64] = 33043
  <2>1. Square(32791) = Step(Step(256 * Spread(8) + Spread(0), Spread(1)), Spread(7))
    BY SquareStep
  <2>2. Power[2 * 32] = Square(32791)
    BY PowerThirtyTwo, SquarePower, LastIs
  <2> QED
    BY <2>1, <2>2, SpreadTable, StepValues
<1>2. Power[128] = 262
  <2>1. Square(33043) = Step(Step(256 * Spread(8) + Spread(1), Spread(1)), Spread(3))
    BY SquareStep
  <2>2. Power[2 * 64] = Square(33043)
    BY <1>1, SquarePower, LastIs
  <2> QED
    BY <2>1, <2>2, SpreadTable, StepValues
<1>3. Power[256] = 32785
  <2>1. Square(262) = Step(Step(256 * Spread(0) + Spread(1), Spread(0)), Spread(6))
    BY SquareStep
  <2>2. Power[2 * 128] = Square(262)
    BY <1>2, SquarePower, LastIs
  <2> QED
    BY <2>1, <2>2, SpreadTable, StepValues
<1>4. Power[512] = 33031
  <2>1. Square(32785) = Step(Step(256 * Spread(8) + Spread(0), Spread(1)), Spread(1))
    BY SquareStep
  <2>2. Power[2 * 256] = Square(32785)
    BY <1>3, SquarePower, LastIs
  <2> QED
    BY <2>1, <2>2, SpreadTable, StepValues
<1>5. Power[1024] = 22
  <2>1. Square(33031) = Step(Step(256 * Spread(8) + Spread(1), Spread(0)), Spread(7))
    BY SquareStep
  <2>2. Power[2 * 512] = Square(33031)
    BY <1>4, SquarePower, LastIs
  <2> QED
    BY <2>1, <2>2, SpreadTable, StepValues
<1>6. Power[2048] = 276
  <2>1. Square(22) = Step(Step(256 * Spread(0) + Spread(0), Spread(1)), Spread(6))
    BY SquareStep
  <2>2. Power[2 * 1024] = Square(22)
    BY <1>5, SquarePower, LastIs
  <2> QED
    BY <2>1, <2>2, SpreadTable, StepValues
<1>7. Power[4096] = 33045
  <2>1. Square(276) = Step(Step(256 * Spread(0) + Spread(1), Spread(1)), Spread(4))
    BY SquareStep
  <2>2. Power[2 * 2048] = Square(276)
    BY <1>6, SquarePower, LastIs
  <2> QED
    BY <2>1, <2>2, SpreadTable, StepValues
<1>8. Power[8192] = 274
  <2>1. Square(33045) = Step(Step(256 * Spread(8) + Spread(1), Spread(1)), Spread(5))
    BY SquareStep
  <2>2. Power[2 * 4096] = Square(33045)
    BY <1>7, SquarePower, LastIs
  <2> QED
    BY <2>1, <2>2, SpreadTable, StepValues
<1>9. Power[16384] = 33025
  <2>1. Square(274) = Step(Step(256 * Spread(0) + Spread(1), Spread(1)), Spread(2))
    BY SquareStep
  <2>2. Power[2 * 8192] = Square(274)
    BY <1>8, SquarePower, LastIs
  <2> QED
    BY <2>1, <2>2, SpreadTable, StepValues
<1>10. Power[32768] = 2
  <2>1. Square(33025) = Step(Step(256 * Spread(8) + Spread(1), Spread(0)), Spread(1))
    BY SquareStep
  <2>2. Power[2 * 16384] = Square(33025)
    BY <1>9, SquarePower, LastIs
  <2> QED
    BY <2>1, <2>2, SpreadTable, StepValues
<1> QED
  BY <1>1, <1>2, <1>3, <1>4, <1>5, <1>6, <1>7, <1>8, <1>9, <1>10

LEMMA PowerThirtyNine == Power[39] = 35331
<1>1. Power[23] = 33539
  <2>1. Power[15 + 8] = Step(Power[15], 0)
    BY PowerTable, LastIs
  <2> QED
    BY <2>1, PowerLow, StepValues
<1>2. Power[31] = 32777
  <2>1. Power[23 + 8] = Step(Power[23], 0)
    BY PowerTable, LastIs
  <2> QED
    BY <2>1, <1>1, StepValues
<1>3. Power[39] = 35331
  <2>1. Power[31 + 8] = Step(Power[31], 0)
    BY PowerTable, LastIs
  <2> QED
    BY <2>1, <1>2, StepValues
<1> QED
  BY <1>3

LEMMA PowerSevenTimes == Power[1064] = 14342
<1>1. Power[1032] = 5632
  <2>1. Power[1024 + 8] = Step(Power[1024], 0)
    BY PowerTable, LastIs
  <2> QED
    BY <2>1, PowersOfTwo, StepValues
<1>2. Power[1040] = 32887
  <2>1. Power[1032 + 8] = Step(Power[1032], 0)
    BY PowerTable, LastIs
  <2> QED
    BY <2>1, <1>1, StepValues
<1>3. Power[1048] = 62467
  <2>1. Power[1040 + 8] = Step(Power[1040], 0)
    BY PowerTable, LastIs
  <2> QED
    BY <2>1, <1>2, StepValues
<1>4. Power[1056] = 33083
  <2>1. Power[1048 + 8] = Step(Power[1048], 0)
    BY PowerTable, LastIs
  <2> QED
    BY <2>1, <1>3, StepValues
<1>5. Power[1064] = 14342
  <2>1. Power[1056 + 8] = Step(Power[1056], 0)
    BY PowerTable, LastIs
  <2> QED
    BY <2>1, <1>4, StepValues
<1> QED
  BY <1>5

LEMMA PowerThirtyOneTimes == Power[4688] = 6458
<1>1. Power[72] = 4102
  <2>1. Power[64 + 8] = Step(Power[64], 0)
    BY PowerTable, LastIs
  <2> QED
    BY <2>1, PowersOfTwo, StepValues
<1>2. Power[73] = 8204
  <2>1. Power[72 + 1] = Push(Power[72], 0)
    BY PowerStep, LastIs
  <2>2. Push(4102, 0) = 8204
    BY DEF Push
  <2> QED
    BY <2>1, <2>2, <1>1
<1>3. Power[146] = 38995
  <2>1. Square(8204) = Step(Step(256 * Spread(2) + Spread(0), Spread(0)), Spread(12))
    BY SquareStep
  <2>2. Power[2 * 73] = Square(8204)
    BY <1>2, SquarePower, LastIs
  <2> QED
    BY <2>1, <2>2, SpreadTable, StepValues
<1>4. Power[292] = 38531
  <2>1. Square(38995) = Step(Step(256 * Spread(9) + Spread(8), Spread(5)), Spread(3))
    BY SquareStep
  <2>2. Power[2 * 146] = Square(38995)
    BY <1>3, SquarePower, LastIs
  <2> QED
    BY <2>1, <2>2, SpreadTable, StepValues
<1>5. Power[584] = 18040
  <2>1. Square(38531) = Step(Step(256 * Spread(9) + Spread(6), Spread(8)), Spread(3))
    BY SquareStep
  <2>2. Power[2 * 292] = Square(38531)
    BY <1>4, SquarePower, LastIs
  <2> QED
    BY <2>1, <2>2, SpreadTable, StepValues
<1>6. Power[1168] = 62779
  <2>1. Square(18040) = Step(Step(256 * Spread(4) + Spread(6), Spread(7)), Spread(8))
    BY SquareStep
  <2>2. Power[2 * 584] = Square(18040)
    BY <1>5, SquarePower, LastIs
  <2> QED
    BY <2>1, <2>2, SpreadTable, StepValues
<1>7. Power[2336] = 31526
  <2>1. Square(62779) = Step(Step(256 * Spread(15) + Spread(5), Spread(3)), Spread(11))
    BY SquareStep
  <2>2. Power[2 * 1168] = Square(62779)
    BY <1>6, SquarePower, LastIs
  <2> QED
    BY <2>1, <2>2, SpreadTable, StepValues
<1>8. Power[4672] = 31626
  <2>1. Square(31526) = Step(Step(256 * Spread(7) + Spread(11), Spread(2)), Spread(6))
    BY SquareStep
  <2>2. Power[2 * 2336] = Square(31526)
    BY <1>7, SquarePower, LastIs
  <2> QED
    BY <2>1, <2>2, SpreadTable, StepValues
<1>9. Power[4680] = 35610
  <2>1. Power[4672 + 8] = Step(Power[4672], 0)
    BY PowerTable, LastIs
  <2> QED
    BY <2>1, <1>8, StepValues
<1>10. Power[4688] = 6458
  <2>1. Power[4680 + 8] = Step(Power[4680], 0)
    BY PowerTable, LastIs
  <2> QED
    BY <2>1, <1>9, StepValues
<1> QED
  BY <1>10

-----------------------------------------------------------------------------
(* The order of x is 32767 = 7 * 31 * 151: no proper divisor of it is a     *)
(* period of the powers.                                                    *)

(* The number of powers that differ.                                        *)
Order == 32767

LEMMA OrderIs == Order \in Nat /\ Order = 32767
  BY DEF Order

(* What follows a power that is 1 is what follows the first.                *)
LEMMA PowerForth ==
  ASSUME NEW j \in Nat, NEW i0 \in Nat, i0 + j <= Last, Power[j] = 1
  PROVE  Power[i0 + j] = Power[i0]
<1> DEFINE S == {i \in Nat : i + j <= Last /\ Power[i + j] # Power[i]}
<1>1. ASSUME S # {} PROVE FALSE
  <2>1. PICK n \in S : \A i \in S : n <= i
    <3>1. S \subseteq Nat
      OBVIOUS
    <3> QED
      BY <1>1, <3>1, LeastNat
  <2>2. n \in Nat /\ n + j <= Last /\ Power[n + j] # Power[n]
    BY <2>1
  <2>3. CASE n = 0
    BY <2>2, <2>3, PowerStep
  <2>4. CASE n > 0
    <3>1. PICK k \in Nat : n = k + 1 /\ k < n
      BY <2>2, <2>4
    <3>2. k + j \in Nat /\ k + j < Last /\ k < Last /\ n + j = (k + j) + 1
      BY <2>2, <3>1, LastIs
    <3>3. Power[n + j] = Push(Power[k + j], 0) /\ Power[n] = Push(Power[k], 0)
      BY <3>1, <3>2, PowerStep
    <3>4. k \in S
      BY <2>2, <3>2, <3>3, LastIs
    <3> QED
      BY <2>1, <2>2, <3>1, <3>4
  <2> QED
    BY <2>2, <2>3, <2>4
<1> QED
  BY <1>1

(* So do its multiples.                                                     *)
LEMMA PowerTimes ==
  ASSUME NEW d \in Nat, Power[d] = 1, NEW m0 \in Nat, m0 * d <= Last
  PROVE  Power[m0 * d] = 1
<1> DEFINE S == {m \in Nat : m * d <= Last /\ Power[m * d] # 1}
<1>1. ASSUME S # {} PROVE FALSE
  <2>1. PICK n \in S : \A i \in S : n <= i
    <3>1. S \subseteq Nat
      OBVIOUS
    <3> QED
      BY <1>1, <3>1, LeastNat
  <2>2. n \in Nat /\ n * d <= Last /\ Power[n * d] # 1
    BY <2>1
  <2>3. CASE n = 0
    <3>1. n * d = 0
      BY <2>3
    <3> QED
      BY <2>2, <3>1, PowerStep
  <2>4. CASE n > 0
    <3>1. PICK k \in Nat : n = k + 1 /\ k < n
      BY <2>2, <2>4
    <3>2. PICK e \in Nat : e = k * d
      OBVIOUS
    <3>3. n * d = e + d
      BY <3>1, <3>2
    <3>4. e <= Last
      BY <2>2, <3>3, LastIs
    <3>5. k \notin S
      BY <2>1, <2>2, <3>1
    <3>6. Power[e] = 1
      BY <3>2, <3>4, <3>5
    <3>7. e + d <= Last /\ Power[e + d] # 1
      BY <2>2, <3>3
    <3>8. Power[e + d] = Power[e]
      BY <3>7, PowerForth
    <3> QED
      BY <3>6, <3>7, <3>8
  <2> QED
    BY <2>2, <2>3, <2>4
<1> QED
  BY <1>1

LEMMA Between ==
  ASSUME NEW q \in Nat, q # 0, q <= 181,
         q < 2 \/ 5 < q,
         q < 6 \/ 6 < q,
         q < 8 \/ 11 < q,
         q < 12 \/ 15 < q,
         q < 16 \/ 23 < q,
         q < 24 \/ 30 < q,
         q < 32 \/ 39 < q,
         q < 40 \/ 47 < q,
         q < 48 \/ 55 < q,
         q < 56 \/ 63 < q,
         q < 64 \/ 71 < q,
         q < 72 \/ 79 < q,
         q < 80 \/ 87 < q,
         q < 88 \/ 95 < q,
         q < 96 \/ 103 < q,
         q < 104 \/ 111 < q,
         q < 112 \/ 119 < q,
         q < 120 \/ 127 < q,
         q < 128 \/ 135 < q,
         q < 136 \/ 143 < q,
         q < 144 \/ 150 < q,
         q < 152 \/ 159 < q,
         q < 160 \/ 167 < q,
         q < 168 \/ 175 < q,
         q < 176 \/ 181 < q
  PROVE  q \in {1, 7, 31, 151}
  BY SMT

(* 32767 is 7 * 31 * 151.                                                   *)
LEMMA SmallDivisors ==
  ASSUME NEW q \in Nat, NEW d \in Nat, q * d = Order, q <= 181
  PROVE  q \in {1, 7, 31, 151}
<1>1. q # 0
  BY OrderIs
<1>2. q < 2 \/ 5 < q
  BY OrderIs, SMTT(30)
<1>3. q < 6 \/ 6 < q
  BY OrderIs, SMTT(30)
<1>4. q < 8 \/ 11 < q
  BY OrderIs, SMTT(30)
<1>5. q < 12 \/ 15 < q
  BY OrderIs, SMTT(30)
<1>6. q < 16 \/ 23 < q
  BY OrderIs, SMTT(30)
<1>7. q < 24 \/ 30 < q
  BY OrderIs, SMTT(30)
<1>8. q < 32 \/ 39 < q
  BY OrderIs, SMTT(30)
<1>9. q < 40 \/ 47 < q
  BY OrderIs, SMTT(30)
<1>10. q < 48 \/ 55 < q
  BY OrderIs, SMTT(30)
<1>11. q < 56 \/ 63 < q
  BY OrderIs, SMTT(30)
<1>12. q < 64 \/ 71 < q
  BY OrderIs, SMTT(30)
<1>13. q < 72 \/ 79 < q
  BY OrderIs, SMTT(30)
<1>14. q < 80 \/ 87 < q
  BY OrderIs, SMTT(30)
<1>15. q < 88 \/ 95 < q
  BY OrderIs, SMTT(30)
<1>16. q < 96 \/ 103 < q
  BY OrderIs, SMTT(30)
<1>17. q < 104 \/ 111 < q
  BY OrderIs, SMTT(30)
<1>18. q < 112 \/ 119 < q
  BY OrderIs, SMTT(30)
<1>19. q < 120 \/ 127 < q
  BY OrderIs, SMTT(30)
<1>20. q < 128 \/ 135 < q
  BY OrderIs, SMTT(30)
<1>21. q < 136 \/ 143 < q
  BY OrderIs, SMTT(30)
<1>22. q < 144 \/ 150 < q
  BY OrderIs, SMTT(30)
<1>23. q < 152 \/ 159 < q
  BY OrderIs, SMTT(30)
<1>24. q < 160 \/ 167 < q
  BY OrderIs, SMTT(30)
<1>25. q < 168 \/ 175 < q
  BY OrderIs, SMTT(30)
<1>26. q < 176 \/ 181 < q
  BY OrderIs, SMTT(30)
<1> QED
  BY <1>1, <1>2, <1>3, <1>4, <1>5, <1>6, <1>7, <1>8, <1>9, <1>10, <1>11, <1>12, <1>13, <1>14,
     <1>15, <1>16, <1>17, <1>18, <1>19, <1>20, <1>21, <1>22, <1>23, <1>24, <1>25, <1>26, Between

LEMMA Period == Power[Order] = 1
<1>1. Power[32768] = 2
  BY PowersOfTwo
<1>3. 32768 = 1 + Order /\ 1 + Order <= Last /\ Order \in Nat
  BY OrderIs, LastIs
<1>2. Power[1] = 2
  BY PowerLow
<1> QED
  BY <1>1, <1>2, <1>3, PowerBack

LEMMA NoShorterPeriods ==
  /\ Power[217] # 1 /\ Power[1057] # 1 /\ Power[4681] # 1
<1>1. Power[217] # 1
  <2>1. Power[256] = 32785 /\ Power[39] = 35331
    BY PowersOfTwo, PowerThirtyNine
  <2>2. 39 + 217 = 256 /\ 39 + 217 <= Last
    BY LastIs
  <2> QED
    BY <2>1, <2>2, PowerForth
<1>2. Power[7] = 128
  BY PowerLow
<1>3. Power[1057] # 1
  <2>1. 7 + 1057 = 1064 /\ 7 + 1057 <= Last
    BY LastIs
  <2> QED
    BY <2>1, <1>2, PowerSevenTimes, PowerForth
<1>4. Power[4681] # 1
  <2>1. 7 + 4681 = 4688 /\ 7 + 4681 <= Last
    BY LastIs
  <2> QED
    BY <2>1, <1>2, PowerThirtyOneTimes, PowerForth
<1> QED
  BY <1>1, <1>3, <1>4

(* A divisor of the period other than itself divides one of these.          *)
LEMMA NoDivisor ==
  ASSUME NEW q \in Nat, NEW d \in Nat, q * d = Order, 1 < q
  PROVE  Power[d] # 1
<1>1. CASE q <= 181
  <2>1. q \in {7, 31, 151}
    <3>1. q \in {1, 7, 31, 151}
      BY <1>1, SmallDivisors, Zenon
    <3> QED
      BY <3>1
  <2>2. d \in {4681, 1057, 217}
    BY <2>1, OrderIs
  <2> QED
    BY <2>2, NoShorterPeriods
<1>2. CASE q > 181
  <2>1. d <= 181
    <3>1. ASSUME d > 181 PROVE FALSE
      <4>1. q * d >= 182 * 182
        BY <1>2, <3>1
      <4> QED
        BY <4>1, OrderIs
    <3> QED
      BY <3>1
  <2>2. d * q = Order
    OBVIOUS
  <2>3. d \in {1, 7, 31, 151}
    BY <2>1, <2>2, SmallDivisors, Zenon
  <2>4. \E m \in Nat : m * d \in {217, 1057}
    BY <2>3
  <2>5. PICK m \in Nat : m * d \in {217, 1057}
    BY <2>4
  <2> QED
    BY <2>5, PowerTimes, NoShorterPeriods, LastIs
<1> QED
  BY <1>1, <1>2

(* The powers below 32767 are all different from 1: x generates them.       *)
THEOREM PowerOrder ==
  ASSUME NEW k0 \in Nat, 0 < k0, k0 < Order
  PROVE  Power[k0] # 1
<1> DEFINE S == {k \in Nat : 0 < k /\ k < Order /\ Power[k] = 1}
<1>1. ASSUME S # {} PROVE FALSE
  <2>1. PICK d \in S : \A i \in S : d <= i
    <3>1. S \subseteq Nat
      OBVIOUS
    <3> HIDE DEF S
    <3> QED
      BY <1>1, <3>1, LeastNat, Zenon
  <2>2. d \in Nat /\ 0 < d /\ d < Order /\ Power[d] = 1
    BY <2>1
  <2>3. ASSUME NEW r \in Nat, 0 < r, r < d PROVE Power[r] # 1
    <3>1. r < Order
      BY <2>2, <2>3, OrderIs
    <3>2. r \notin S
      BY <2>1, <2>2, <2>3
    <3> QED
      BY <2>3, <3>1, <3>2
  <2>4. PICK q \in Nat, r \in Nat : Order = q * d + r /\ r < d
    <3>1. Order = (Order \div d) * d + (Order % d) /\ Order % d < d
      BY <2>2, OrderIs
    <3>2. Order \div d \in Nat /\ Order % d \in Nat
      BY <2>2, OrderIs
    <3> QED
      BY <3>1, <3>2
  <2>5. PICK e \in Nat : e = q * d
    OBVIOUS
  <2>6. Order = e + r
    BY <2>4, <2>5
  <2>7. Power[e] = 1
    BY <2>2, <2>5, <2>6, PowerTimes, LastIs, OrderIs
  <2>8. r + e = Order /\ r + e <= Last
    BY <2>6, LastIs, OrderIs
  <2>9. Power[r] = 1
    BY <2>7, <2>8, PowerForth, Period
  <2>10. r = 0
    BY <2>3, <2>4, <2>9
  <2>11. q * d = Order
    BY <2>5, <2>6, <2>10
  <2>12. 1 < q
    BY <2>2, <2>11
  <2> QED
    BY <2>2, <2>11, <2>12, NoDivisor
<1> QED
  BY <1>1

-----------------------------------------------------------------------------
(* What a changed bit, and a CRC added, make of the CRC of a message.       *)

(* f is what the register holds before each byte of mes, and after the last. *)
Runs(f, mes) ==
  /\ f[0] = 0
  /\ \A k \in 0 .. Len(mes) : IsWord(f[k])
  /\ \A k \in 0 .. Len(mes) : k < Len(mes) => f[k + 1] = Pushes(f[k], mes[k + 1])

LEMMA CrcRun ==
  ASSUME NEW mes \in Seq(Byte)
  PROVE  \E f : Runs(f, mes) /\ Crc(mes) = f[Len(mes)]
<1>1. PICK f : ByBytes(f, mes, Len(mes)) /\ Crc(mes) = f[Len(mes)]
  BY CrcDef
<1>2. PICK n \in Nat : n = Len(mes)
  OBVIOUS
<1>3. f[0] = 0 /\ \A k \in Nat : k < n => f[k + 1] = Step(f[k], mes[k + 1])
  <2>1. f[0] = 0
    BY <1>1, <1>2 DEF ByBytes
  <2>2. ASSUME NEW k \in Nat, k < n
        PROVE  f[k + 1] = Step(f[k], mes[k + 1])
    <3>1. k + 1 \in 0 .. n /\ k + 1 # 0 /\ (k + 1) - 1 = k
      BY <2>2
    <3> QED
      BY <1>1, <1>2, <3>1 DEF ByBytes
  <2> QED
    BY <2>1, <2>2
<1> DEFINE S == {k \in Nat : k <= n /\ ~ IsWord(f[k])}
<1>4. ASSUME S # {} PROVE FALSE
  <2>1. PICK m \in S : \A k \in S : m <= k
    <3>1. S \subseteq Nat
      OBVIOUS
    <3> QED
      BY <1>4, <3>1, LeastNat
  <2>2. m \in Nat /\ m <= n /\ ~ IsWord(f[m])
    BY <2>1
  <2>3. CASE m = 0
    BY <2>2, <2>3, <1>3 DEF IsWord
  <2>4. CASE m > 0
    <3>1. PICK k \in Nat : m = k + 1
      BY <2>2, <2>4
    <3>2. k < n /\ k \notin S
      BY <2>1, <2>2, <3>1
    <3>3. IsWord(f[k]) /\ f[m] = Step(f[k], mes[m])
      BY <1>3, <3>1, <3>2
    <3>4. mes[m] \in Byte
      BY <1>2, <2>2, <2>4
    <3> QED
      BY <2>2, <3>3, <3>4, StepRule
  <2> QED
    BY <2>2, <2>3, <2>4
<1>5. \A k \in Nat : k <= n => IsWord(f[k])
  BY <1>4
<1>6. ASSUME NEW k \in Nat, k < n
      PROVE  f[k + 1] = Pushes(f[k], mes[k + 1])
  <2>1. IsWord(f[k]) /\ f[k + 1] = Step(f[k], mes[k + 1])
    BY <1>3, <1>5, <1>6
  <2>2. mes[k + 1] \in Byte
    BY <1>2, <1>6
  <2> QED
    BY <2>1, <2>2, StepRule
<1>7. Runs(f, mes)
  BY <1>2, <1>3, <1>5, <1>6 DEF Runs
<1> QED
  BY <1>1, <1>7

(* The same bytes leave the same in the register.                           *)
LEMMA RunsAgree ==
  ASSUME NEW x, NEW y, NEW f, NEW g, Runs(f, x), Runs(g, y),
         NEW n0 \in Nat, Len(x) \in Nat, Len(y) \in Nat, n0 <= Len(x), n0 <= Len(y),
         \A i \in 1 .. n0 : x[i] = y[i]
  PROVE  f[n0] = g[n0]
<1> DEFINE S == {n \in Nat : n <= n0 /\ f[n] # g[n]}
<1>1. ASSUME S # {} PROVE FALSE
  <2>1. PICK n \in S : \A k \in S : n <= k
    <3>1. S \subseteq Nat
      OBVIOUS
    <3> QED
      BY <1>1, <3>1, LeastNat
  <2>2. n \in Nat /\ n <= n0 /\ f[n] # g[n]
    BY <2>1
  <2>3. CASE n = 0
    BY <2>2, <2>3 DEF Runs
  <2>4. CASE n > 0
    <3>1. PICK k \in Nat : n = k + 1
      BY <2>2, <2>4
    <3>2. k < n0 /\ k \notin S
      BY <2>1, <2>2, <3>1
    <3>3. k \in 0 .. Len(x) /\ k \in 0 .. Len(y) /\ k < Len(x) /\ k < Len(y)
      BY <3>2
    <3>4. f[n] = Pushes(f[k], x[n]) /\ g[n] = Pushes(g[k], y[n])
      BY <3>1, <3>3 DEF Runs
    <3>5. x[n] = y[n]
      BY <2>2, <2>4
    <3> QED
      BY <2>2, <3>2, <3>4, <3>5
  <2> QED
    BY <2>2, <2>3, <2>4
<1> QED
  BY <1>1

LEMMA ZeroWord ==
  ASSUME NEW a, IsWord(a)
  PROVE  Xor(a, 0) = a /\ Xor(0, a) = a /\ Xor(a, a) = 0
<1>1. IsWord(0)
  BY DEF IsWord
<1> QED
  BY <1>1, XorLawful DEF Lawful

LEMMA ByteWord ==
  ASSUME NEW b \in Byte
  PROVE  IsWord(b) /\ Xor(b, 0) = b /\ Xor(0, b) = b /\ Pushes(0, b) = b
<1>1. b \in Nat /\ b < 65536 /\ 0 \in Byte
  BY DEF Byte
<1>2. Pushes(0, b) = 256 * 0 + b
  BY <1>1, PushesLow
<1> QED
  BY <1>1, <1>2, ZeroWord DEF IsWord

(* A byte changed by e where the register differs by d changes the register *)
(* by d pushed on with e.                                                   *)
LEMMA PushesDiffer ==
  ASSUME NEW r, IsWord(r), NEW d, IsWord(d), NEW b \in Byte, NEW e \in Byte
  PROVE  /\ Pushes(Xor(r, d), b) = Xor(Pushes(r, b), Pushes(d, 0))
         /\ Pushes(r, Xor(b, e)) = Xor(Pushes(r, b), e)
<1>1. Xor(b, 0) = b /\ 0 \in Byte /\ IsWord(0) /\ Xor(r, 0) = r /\ Pushes(0, e) = e
  BY ByteWord, ZeroWord DEF IsWord, Byte
<1>2. Pushes(Xor(r, d), Xor(b, 0)) = Xor(Pushes(r, b), Pushes(d, 0))
  BY <1>1, PushesLinear
<1>3. Pushes(Xor(r, 0), Xor(b, e)) = Xor(Pushes(r, b), Pushes(0, e))
  BY <1>1, PushesLinear
<1> QED
  BY <1>1, <1>2, <1>3

(* A message with bit b of byte q changed.                                  *)
Changed(mes, q, b) == [mes EXCEPT ![q] = Xor(mes[q], Power[b])]

LEMMA PowerBits ==
  ASSUME NEW b \in 0 .. 7
  PROVE  Power[b] \in Byte /\ Power[b] = 2^b
<1>1. b \in {0, 1, 2, 3, 4, 5, 6, 7}
  OBVIOUS
<1>2. CASE b = 0
  <2>1. 2^0 = 1
    OBVIOUS
  <2>2. Power[0] = 1
    BY PowerLow
  <2> QED
    BY <1>2, <2>1, <2>2 DEF Byte
<1>3. CASE b = 1
  <2>1. 2^1 = 2
    OBVIOUS
  <2>2. Power[1] = 2
    BY PowerLow
  <2> QED
    BY <1>3, <2>1, <2>2 DEF Byte
<1>4. CASE b = 2
  <2>1. 2^2 = 4
    OBVIOUS
  <2>2. Power[2] = 4
    BY PowerLow
  <2> QED
    BY <1>4, <2>1, <2>2 DEF Byte
<1>5. CASE b = 3
  <2>1. 2^3 = 8
    OBVIOUS
  <2>2. Power[3] = 8
    BY PowerLow
  <2> QED
    BY <1>5, <2>1, <2>2 DEF Byte
<1>6. CASE b = 4
  <2>1. 2^4 = 16
    OBVIOUS
  <2>2. Power[4] = 16
    BY PowerLow
  <2> QED
    BY <1>6, <2>1, <2>2 DEF Byte
<1>7. CASE b = 5
  <2>1. 2^5 = 32
    OBVIOUS
  <2>2. Power[5] = 32
    BY PowerLow
  <2> QED
    BY <1>7, <2>1, <2>2 DEF Byte
<1>8. CASE b = 6
  <2>1. 2^6 = 64
    OBVIOUS
  <2>2. Power[6] = 64
    BY PowerLow
  <2> QED
    BY <1>8, <2>1, <2>2 DEF Byte
<1>9. CASE b = 7
  <2>1. 2^7 = 128
    OBVIOUS
  <2>2. Power[7] = 128
    BY PowerLow
  <2> QED
    BY <1>9, <2>1, <2>2 DEF Byte
<1> QED
  BY <1>1, <1>2, <1>3, <1>4, <1>5, <1>6, <1>7, <1>8, <1>9

LEMMA ChangedType ==
  ASSUME NEW mes \in Seq(Byte), NEW q \in 1 .. Len(mes), NEW b \in 0 .. 7
  PROVE  /\ Changed(mes, q, b) \in Seq(Byte) /\ Len(Changed(mes, q, b)) = Len(mes)
         /\ Changed(mes, q, b)[q] = Xor(mes[q], Power[b])
         /\ \A i \in 1 .. Len(mes) : i # q => Changed(mes, q, b)[i] = mes[i]
<1>1. mes[q] \in Byte
  OBVIOUS
<1>2. Xor(mes[q], Power[b]) \in Byte
  BY <1>1, PowerBits, XorBits
<1> QED
  BY <1>2 DEF Changed

(* The change is pushed on by the bytes that follow.                        *)
LEMMA CrcChanged ==
  ASSUME NEW mes \in Seq(Byte), NEW q \in 1 .. Len(mes), NEW b \in 0 .. 7,
         8 * (Len(mes) - q) + b <= Last
  PROVE  Crc(Changed(mes, q, b)) = Xor(Crc(mes), Power[8 * (Len(mes) - q) + b])
<1>1. PICK new : new = Changed(mes, q, b)
  OBVIOUS
<1>2. /\ new \in Seq(Byte) /\ Len(new) = Len(mes) /\ new[q] = Xor(mes[q], Power[b])
      /\ \A i \in 1 .. Len(mes) : i # q => new[i] = mes[i]
  BY <1>1, ChangedType
<1>3. PICK f : Runs(f, mes) /\ Crc(mes) = f[Len(mes)]
  BY CrcRun
<1>4. PICK g : Runs(g, new) /\ Crc(new) = g[Len(mes)]
  BY <1>2, CrcRun
<1>5. PICK n \in Nat : n = Len(mes)
  OBVIOUS
<1> DEFINE Off(k) == g[q + k] = Xor(f[q + k], Power[8 * k + b])
           S == {k \in Nat : q + k <= n /\ ~ Off(k)}
<1>6. Off(0)
  <2>1. PICK p \in Nat : q = p + 1 /\ p < n
    BY <1>5
  <2>2. f[p] = g[p]
    <3>1. \A i \in 1 .. p : mes[i] = new[i]
      BY <1>2, <1>5, <2>1
    <3> QED
      BY <1>2, <1>3, <1>4, <1>5, <2>1, <3>1, RunsAgree
  <2>3. f[q] = Pushes(f[p], mes[q]) /\ g[q] = Pushes(f[p], new[q]) /\ IsWord(f[p])
    <3>1. p \in 0 .. Len(mes) /\ p < Len(mes) /\ p \in 0 .. Len(new) /\ p < Len(new)
      BY <1>2, <1>5, <2>1
    <3>2. f[p + 1] = Pushes(f[p], mes[p + 1]) /\ IsWord(f[p])
      BY <1>3, <3>1 DEF Runs
    <3>3. g[p + 1] = Pushes(g[p], new[p + 1])
      BY <1>4, <3>1 DEF Runs
    <3> QED
      BY <2>1, <2>2, <3>2, <3>3, Zenon
  <2>4. mes[q] \in Byte /\ Power[b] \in Byte
    <3>1. mes[q] \in Byte
      OBVIOUS
    <3>2. Power[b] \in Byte
      BY PowerBits
    <3> QED
      BY <3>1, <3>2
  <2>5. g[q] = Xor(f[q], Power[b])
    BY <1>2, <2>3, <2>4, PushesDiffer
  <2>6. q + 0 = q /\ 8 * 0 + b = b
    OBVIOUS
  <2> QED
    BY <2>5, <2>6
<1>7. ASSUME S # {} PROVE FALSE
  <2>1. PICK m \in S : \A k \in S : m <= k
    <3>1. S \subseteq Nat
      OBVIOUS
    <3> HIDE DEF S
    <3> QED
      BY <1>7, <3>1, LeastNat
  <2>2. m \in Nat /\ q + m <= n /\ ~ Off(m) /\ \A k \in Nat : q + k <= n /\ ~ Off(k) => m <= k
    BY <2>1
  <2> HIDE DEF Off, S
  <2>3. m # 0
    BY <1>6, <2>2
  <2>4. PICK k \in Nat : m = k + 1
    BY <2>2, <2>3
  <2>5. q + k <= n /\ q + k < n /\ q + k \in Nat /\ Off(k)
    BY <2>2, <2>4
  <2>6. PICK i \in Nat : i = q + k /\ q + m = i + 1 /\ i < n
    BY <2>4, <2>5
  <2>7. PICK e \in Nat : e = 8 * k + b /\ 8 * m + b = e + 8 /\ e + 8 <= Last
    BY <1>5, <2>2, <2>4, LastIs
  <2>8. g[i] = Xor(f[i], Power[e])
    BY <2>5, <2>6, <2>7 DEF Off
  <2>9. f[i + 1] = Pushes(f[i], mes[i + 1]) /\ g[i + 1] = Pushes(g[i], new[i + 1])
          /\ IsWord(f[i])
    BY <1>2, <1>3, <1>4, <1>5, <2>6 DEF Runs
  <2>10. mes[i + 1] \in Byte /\ new[i + 1] = mes[i + 1]
    BY <1>2, <1>5, <2>6
  <2>11. IsWord(Power[e]) /\ Power[e + 8] = Pushes(Power[e], 0)
    <3>1. e <= Last
      BY <2>7, LastIs
    <3>2. PowerFact(e)
      BY <3>1, PowerType
    <3>3. Power[e + 8] = Pushes(Power[e], 0)
      BY <2>7, PowerByte
    <3> QED
      BY <3>2, <3>3 DEF PowerFact
  <2>12. 0 \in Byte
    BY DEF Byte
  <2>13. g[i + 1] = Xor(f[i + 1], Power[e + 8])
    BY <2>8, <2>9, <2>10, <2>11, <2>12, PushesDiffer
  <2> QED
    BY <2>2, <2>6, <2>7, <2>13 DEF Off
<1>8. PICK k \in Nat : q + k = n
  <2> HIDE DEF Off, S
  <2>1. n - q \in Nat /\ q + (n - q) = n
    BY <1>5
  <2> QED
    BY <2>1, Zenon
<1>9. Off(k)
  <2>1. k \notin S
    BY <1>7
  <2> QED
    BY <1>8, <2>1
<1>10. q + k = Len(mes) /\ 8 * k + b = 8 * (Len(mes) - q) + b
  BY <1>5, <1>8
<1> QED
  BY <1>1, <1>3, <1>4, <1>9, <1>10

(* add_crc16 (utils.c:152): with its CRC behind it, a message has the CRC 0.*)
THEOREM CrcAdded ==
  ASSUME NEW x \in Seq(Byte)
  PROVE  /\ add_crc16(x) \in Seq(Byte) /\ Len(add_crc16(x)) = Len(x) + 2
         /\ \A i \in 1 .. Len(x) : add_crc16(x)[i] = x[i]
         /\ Crc(add_crc16(x)) = 0
<1>1. PICK z : z = x \o <<0, 0>>
  OBVIOUS
<1>2. 0 \in Byte
  BY DEF Byte
<1>3. PICK n \in Nat : n = Len(x)
  OBVIOUS
<1>4. /\ z \in Seq(Byte) /\ Len(z) = n + 2 /\ z[n + 1] = 0 /\ z[n + 2] = 0
      /\ \A i \in 1 .. n : z[i] = x[i]
  BY <1>1, <1>2, <1>3
<1>5. PICK f : Runs(f, z) /\ Crc(z) = f[Len(z)]
  BY <1>4, CrcRun
<1>6. IsWord(f[n]) /\ IsWord(f[n + 1]) /\ IsWord(f[n + 2])
  BY <1>4, <1>5 DEF Runs
<1>7. PICK c \in Nat : c = Crc(z) /\ c = f[n + 2] /\ c < 65536
  BY <1>4, <1>5, <1>6 DEF IsWord
<1>8. PICK h \in Nat, l \in Nat : h = c \div 256 /\ l = c % 256 /\ c = 256 * h + l /\ l < 256
  BY SMT
<1>9. h \in Byte /\ l \in Byte
  <2>1. h < 256
    BY <1>7, <1>8
  <2> QED
    BY <1>8, <2>1 DEF Byte
<1>10. PICK y : y = x \o <<h, l>>
  OBVIOUS
<1>11. add_crc16(x) = y
  <2>1. Crc(x \o <<0, 0>>) = c
    BY <1>1, <1>7
  <2> QED
    BY <1>8, <1>10, <2>1, Zenon DEF add_crc16
<1>12. /\ y \in Seq(Byte) /\ Len(y) = n + 2 /\ y[n + 1] = h /\ y[n + 2] = l
       /\ \A i \in 1 .. n : y[i] = x[i]
  BY <1>3, <1>9, <1>10
<1>13. PICK g : Runs(g, y) /\ Crc(y) = g[Len(y)]
  BY <1>12, CrcRun
<1>14. f[n] = g[n]
  <2>1. /\ Runs(f, z) /\ Len(z) \in Nat /\ n <= Len(z)
        /\ Runs(g, y) /\ Len(y) \in Nat /\ n <= Len(y)
    BY <1>4, <1>5, <1>12, <1>13
  <2>2. \A i \in 1 .. n : z[i] = y[i]
    BY <1>4, <1>12
  <2> QED
    BY <2>1, <2>2, RunsAgree
<1>15. f[n + 1] = Pushes(f[n], 0) /\ f[(n + 1) + 1] = Pushes(f[n + 1], 0)
  <2>1. n + 2 = (n + 1) + 1
    OBVIOUS
  <2> QED
    BY <1>4, <1>5, <2>1 DEF Runs
<1>16. g[n + 1] = Pushes(f[n], h) /\ g[(n + 1) + 1] = Pushes(g[n + 1], l)
  <2>1. n + 2 = (n + 1) + 1
    OBVIOUS
  <2> QED
    BY <1>12, <1>13, <1>14, <2>1 DEF Runs
<1>17. g[n + 1] = Xor(f[n + 1], h)
  <2>1. Xor(0, h) = h
    BY <1>9, ByteWord
  <2> QED
    BY <1>2, <1>6, <1>9, <1>15, <1>16, <2>1, PushesDiffer
<1>18. g[(n + 1) + 1] = Xor(Pushes(f[n + 1], 0), Pushes(h, l))
  <2>1. Xor(0, l) = l /\ IsWord(h)
    BY <1>9, ByteWord
  <2>2. Pushes(Xor(f[n + 1], h), Xor(0, l)) = Xor(Pushes(f[n + 1], 0), Pushes(h, l))
    BY <1>2, <1>6, <1>9, <2>1, PushesLinear
  <2> QED
    BY <1>16, <1>17, <2>1, <2>2
<1>19. Pushes(h, l) = c
  BY <1>8, <1>9, PushesLow
<1>20. (n + 1) + 1 = n + 2
  OBVIOUS
<1>21. g[n + 2] = Xor(c, c) /\ IsWord(c)
  BY <1>6, <1>7, <1>15, <1>18, <1>19, <1>20
<1>22. Crc(y) = 0
  BY <1>12, <1>13, <1>21, ZeroWord
<1> QED
  BY <1>3, <1>11, <1>12, <1>22

=============================================================================
