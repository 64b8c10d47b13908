-------------------------- MODULE EbcMemory_proofs --------------------------
(***************************************************************************)
(* Arithmetic of words and the memory of the interpreter, for every width  *)
(* of a byte and of a natural: what the functions that read and write      *)
(* memory in pieces do to every byte.                                      *)
(***************************************************************************)
EXTENDS EbcExecute, FiniteSetTheorems, NaturalsInduction, TLAPS

\* A set of naturals that is not empty has a least element.
LEMMA LeastExists ==
  ASSUME NEW S \in SUBSET Nat, S # {}
  PROVE  \E n \in S : \A m \in S : n <= m
<1>. DEFINE R == {ss \in Nat \X Nat : ss[1] < ss[2]}
<1>1. IsWellFoundedOn(R, Nat)
  BY NatLessThanWellFounded DEF OpToRel
<1>2. PICK n \in S : \A m \in S : <<m, n>> \notin R
  <2>. HIDE DEF R
  <2>. QED
    BY <1>1, WFMin
<1>3. ASSUME NEW m \in S PROVE n <= m
  <2>1. m \in Nat /\ n \in Nat /\ <<m, n>> \notin R
    BY <1>2, <1>3
  <2>. QED
    BY <2>1
<1>. QED
  BY <1>3

\* Induction over the naturals, for membership of a set.
LEMMA NatBySet ==
  ASSUME NEW T, 0 \in T, \A n \in Nat : n \in T => n + 1 \in T
  PROVE  \A n \in Nat : n \in T
<1>. DEFINE S == Nat \ T
<1>1. SUFFICES ASSUME S # {} PROVE FALSE
  OBVIOUS
<1>2. PICK x \in S : \A y \in S : x <= y
  <2>. HIDE DEF S
  <2>1. S \in SUBSET Nat
    BY DEF S
  <2>. QED
    BY <1>1, <2>1, LeastExists
<1>3. x \in Nat /\ x # 0
  OBVIOUS
<1>4. x - 1 \in Nat /\ x - 1 \in T
  BY <1>2, <1>3
<1>. QED
  BY <1>3, <1>4

-----------------------------------------------------------------------------
(* Powers of two.                                                          *)

\* A power of two counts the subsets of a set, which one more element doubles.
LEMMA PowerStep ==
  ASSUME NEW n \in Nat
  PROVE  2^n \in Nat /\ 2^(n + 1) = 2 * 2^n
<1>. DEFINE S == 1..n
            Old == SUBSET S
            With == {s \cup {n + 1} : s \in Old}
<1>1. IsFiniteSet(S) /\ Cardinality(S) = n
  BY FS_Interval
<1>2. IsFiniteSet(Old) /\ Cardinality(Old) = 2^n
  BY <1>1, FS_SUBSET
<1>3. Cardinality(Old) \in Nat
  BY <1>2, FS_CardinalityType
<1>4. IsFiniteSet(1..n + 1) /\ Cardinality(1..n + 1) = n + 1
  BY FS_Interval
<1>5. Cardinality(SUBSET (1..n + 1)) = 2^(n + 1)
  BY <1>4, FS_SUBSET
<1>6. SUBSET (1..n + 1) = Old \cup With
  <2>1. ASSUME NEW s \in SUBSET (1..n + 1) PROVE s \in Old \cup With
    <3>1. CASE n + 1 \in s
      <4>1. s \ {n + 1} \in Old /\ s = (s \ {n + 1}) \cup {n + 1}
        BY <3>1
      <4>. QED
        BY <4>1
    <3>2. CASE n + 1 \notin s
      BY <3>2
    <3>. QED
      BY <3>1, <3>2
  <2>2. ASSUME NEW s \in Old \cup With PROVE s \in SUBSET (1..n + 1)
    OBVIOUS
  <2>. QED
    BY <2>1, <2>2
<1>7. Old \cap With = {}
  <2>1. n + 1 \notin S
    OBVIOUS
  <2>. QED
    BY <2>1
<1>8. IsFiniteSet(With) /\ Cardinality(With) = Cardinality(Old)
  <2>. DEFINE f == [s \in Old |-> s \cup {n + 1}]
  <2>1. ASSUME NEW s \in Old, NEW t \in Old, f[s] = f[t] PROVE s = t
    <3>1. n + 1 \notin s /\ n + 1 \notin t
      OBVIOUS
    <3>. QED
      BY <2>1, <3>1
  <2>2. f \in [Old -> With] /\ \A t \in With : \E s \in Old : f[s] = t
    <3>1. \A s \in Old : f[s] = s \cup {n + 1}
      OBVIOUS
    <3>. QED
      <4>1. f \in [Old -> With]
        OBVIOUS
      <4>2. ASSUME NEW t \in With PROVE \E s \in Old : f[s] = t
        <5>1. PICK s \in Old : t = s \cup {n + 1}
          OBVIOUS
        <5>. QED
          BY <3>1, <5>1
      <4>. QED
        BY <4>1, <4>2
  <2>3. ExistsBijection(Old, With)
    <3>. HIDE DEF f, Old, With
    <3>. QED
      BY <2>1, <2>2 DEF ExistsBijection, Bijection, Injection, Surjection, IsInjective
  <2>. HIDE DEF Old, With
  <2>. QED
    BY <1>2, <2>3, FS_Bijection
<1>9. Cardinality(Old \cup With) = Cardinality(Old) + Cardinality(With) - Cardinality(Old \cap With)
  <2>. HIDE DEF Old, With
  <2>. QED
    BY <1>2, <1>8, FS_Union
<1>10. Cardinality(Old \cap With) = 0
  BY <1>7, FS_EmptySet
<1>. QED
  <2>. HIDE DEF Old, With
  <2>. QED
    <3>1. 2^(n + 1) = Cardinality(Old) + Cardinality(With) - 0
      BY <1>5, <1>6, <1>9, <1>10
    <3>. QED
      BY <1>2, <1>3, <1>8, <3>1

\* Powers of two are positive, and exponents add up.
LEMMA PowerSum ==
  ASSUME NEW m \in Nat, NEW n \in Nat
  PROVE  /\ 2^n \in Nat \ {0}
         /\ 2^(m + n) = 2^m * 2^n
<1>1. 2^0 = 1
  OBVIOUS
<1>. DEFINE T == {k \in Nat : 2^k \in Nat \ {0} /\ 2^(m + k) = 2^m * 2^k}
<1>2. 0 \in T
  BY <1>1, PowerStep
<1>3. ASSUME NEW k \in Nat, k \in T PROVE k + 1 \in T
  <2>1. 2^(k + 1) = 2 * 2^k /\ 2^((m + k) + 1) = 2 * 2^(m + k) /\ 2^m \in Nat
    BY PowerStep
  <2>2. (m + k) + 1 = m + (k + 1)
    OBVIOUS
  <2>3. 2 * (2^m * 2^k) = 2^m * (2 * 2^k)
    BY <1>3, <2>1
  <2>. QED
    BY <1>3, <2>1, <2>2, <2>3
<1>4. n \in T
  <2>. HIDE DEF T
  <2>. QED
    BY <1>2, <1>3, NatBySet
<1>. QED
  BY <1>4

-----------------------------------------------------------------------------
(* Division by a positive number.                                          *)
Rem(x, m) == x % m
Quo(x, m) == x \div m

\* q and r are quotient and remainder of x by m.
Divided(x, m, q, r) == x = m * q + r /\ 0 <= r /\ r < m

\* Quotient and remainder as numbers that make up x.
LEMMA DivMod ==
  ASSUME NEW x \in Int, NEW m \in Nat \ {0}
  PROVE  /\ Quo(x, m) \in Int
         /\ Rem(x, m) \in 0..m - 1
         /\ x = m * Quo(x, m) + Rem(x, m)
  BY DEF Rem, Quo

\* No others do.
LEMMA DivModUnique ==
  ASSUME NEW m \in Nat \ {0}, NEW q \in Int, NEW r \in Int, NEW x \in Int, Divided(x, m, q, r)
  PROVE  Rem(x, m) = r /\ Quo(x, m) = q
<1>1. x = m * q + r /\ 0 <= r /\ r < m
  BY DEF Divided
<1>2. PICK p \in Int, s \in Int :
        /\ p = Quo(x, m) /\ s = Rem(x, m)
        /\ x = m * p + s /\ 0 <= s /\ s < m
  <2>1. /\ Quo(x, m) \in Int
        /\ Rem(x, m) \in 0..m - 1
        /\ x = m * Quo(x, m) + Rem(x, m)
    BY ONLY DivMod, x \in Int, m \in Nat \ {0}
  <2>. QED
    BY <2>1
<1>3. m * (p - q) = r - s
  BY <1>1, <1>2
<1>4. p - q = 0
  <2>1. ASSUME NEW k \in Int, m * k < m, m * k > -m PROVE k = 0
    <3>1. CASE k >= 1
      BY <2>1, <3>1
    <3>2. CASE k <= -1
      BY <2>1, <3>2
    <3>. QED
      BY <3>1, <3>2
  <2>2. r - s < m /\ r - s > -m
    BY <1>1, <1>2
  <2>3. p - q \in Int
    OBVIOUS
  <2>4. m * (p - q) < m /\ m * (p - q) > -m
    BY <1>3, <2>2
  <2>. QED
    BY <2>1, <2>3, <2>4
<1>5. p = q
  BY <1>4
<1>6. r = s
  <2>1. r - s = m * 0
    BY ONLY <1>3, <1>4, Zenon
  <2>. QED
    BY <2>1
<1>. QED
  BY <1>2, <1>5, <1>6

\* A multiple of m more leaves the remainder as it is, and nothing else does.
Exceeds(x, y, m, k) == x = y + m * k

\* Numbers a multiple of m apart have the same remainder.
LEMMA RemExceeds ==
  ASSUME NEW m \in Nat \ {0}, NEW x \in Int, NEW y \in Int, NEW k \in Int,
         Exceeds(x, y, m, k)
  PROVE  Rem(x, m) = Rem(y, m) /\ Quo(x, m) = Quo(y, m) + k
<1>1. PICK q \in Int, r \in 0..m - 1 : q = Quo(y, m) /\ r = Rem(y, m) /\ y = m * q + r
  BY DivMod
<1>2. PICK p \in Int : p = q + k
  OBVIOUS
<1>3. x = m * p + r
  <2>1. x = (m * q + r) + m * k
    BY <1>1 DEF Exceeds
  <2>2. (m * q + r) + m * k = m * (q + k) + r
    OBVIOUS
  <2>. QED
    BY ONLY <1>2, <2>1, <2>2, Zenon
<1>4. Divided(x, m, p, r) /\ r \in Int
  BY <1>3 DEF Divided
<1>5. Rem(x, m) = r /\ Quo(x, m) = p
  BY <1>4, DivModUnique
<1>. QED
  BY <1>1, <1>2, <1>5

\* Numbers of the same remainder are a multiple of m apart.
LEMMA RemSame ==
  ASSUME NEW m \in Nat \ {0}, NEW x \in Int, NEW y \in Int, Rem(x, m) = Rem(y, m)
  PROVE  \E k \in Int : Exceeds(x, y, m, k)
<1>1. PICK q \in Int, r \in 0..m - 1 : q = Quo(y, m) /\ r = Rem(y, m) /\ y = m * q + r
  BY DivMod
<1>2. PICK p \in Int : p = Quo(x, m) /\ x = m * p + r
  BY <1>1, DivMod
<1>3. Exceeds(x, y, m, p - q)
  BY <1>1, <1>2 DEF Exceeds
<1>. QED
  BY <1>3

\* Sums, differences and products have the remainders those of their parts give.
LEMMA RemArithmetic ==
  ASSUME NEW m \in Nat \ {0}, NEW x \in Int, NEW y \in Int, NEW u \in Int, NEW v \in Int,
         Rem(x, m) = Rem(u, m), Rem(y, m) = Rem(v, m)
  PROVE  /\ Rem(x + y, m) = Rem(u + v, m)
         /\ Rem(x - y, m) = Rem(u - v, m)
         /\ Rem(x * y, m) = Rem(u * v, m)
         /\ Rem(-x, m) = Rem(-u, m)
<1>1. PICK k \in Int : Exceeds(x, u, m, k)
  BY RemSame
<1>2. PICK l \in Int : Exceeds(y, v, m, l)
  BY RemSame
<1>3. Exceeds(x + y, u + v, m, k + l)
  BY <1>1, <1>2 DEF Exceeds
<1>4. Exceeds(x - y, u - v, m, k - l)
  BY <1>1, <1>2 DEF Exceeds
<1>5. Exceeds(x * y, u * v, m, u * l + k * v + m * (k * l))
  BY <1>1, <1>2 DEF Exceeds
<1>6. Exceeds(-x, -u, m, -k)
  BY <1>1 DEF Exceeds
<1>7. ASSUME NEW z \in Int, NEW w \in Int, NEW n \in Int, Exceeds(z, w, m, n)
      PROVE  Rem(z, m) = Rem(w, m)
  BY ONLY <1>7, m \in Nat \ {0}, RemExceeds
<1>8. Rem(x + y, m) = Rem(u + v, m)
  BY <1>3, <1>7
<1>9. Rem(x - y, m) = Rem(u - v, m)
  BY <1>4, <1>7
<1>10. Rem(x * y, m) = Rem(u * v, m)
  <2>1. u * l + k * v + m * (k * l) \in Int /\ x * y \in Int /\ u * v \in Int
    OBVIOUS
  <2>. QED
    BY ONLY <1>5, <1>7, <2>1
<1>11. Rem(-x, m) = Rem(-u, m)
  BY <1>6, <1>7
<1>. QED
  BY <1>8, <1>9, <1>10, <1>11

\* A number below m is its own remainder.
LEMMA RemSmall ==
  ASSUME NEW m \in Nat \ {0}, NEW x \in 0..m - 1
  PROVE  Rem(x, m) = x /\ Quo(x, m) = 0
<1>1. Divided(x, m, 0, x) /\ x \in Int /\ 0 \in Int
  BY DEF Divided
<1>. QED
  BY ONLY <1>1, DivModUnique, m \in Nat \ {0}

\* Taking the remainder twice changes nothing.
LEMMA RemRem ==
  ASSUME NEW m \in Nat \ {0}, NEW x \in Int
  PROVE  Rem(Rem(x, m), m) = Rem(x, m)
  BY DivMod, RemSmall

\* Division by a product.
IsProduct(e, c, d) == e = c * d

\* Division by a product is division by one factor after the other.
LEMMA QuoProduct ==
  ASSUME NEW c \in Nat \ {0}, NEW d \in Nat \ {0}, NEW e \in Nat \ {0}, NEW x \in Int,
         IsProduct(e, c, d)
  PROVE  /\ Quo(Quo(x, c), d) = Quo(x, e)
         /\ Rem(x, e) = Rem(x, c) + c * Rem(Quo(x, c), d)
         /\ Rem(Rem(x, e), c) = Rem(x, c)
         /\ Quo(Rem(x, e), c) = Rem(Quo(x, c), d)
<1>2. PICK q \in Int, r \in 0..c - 1 : q = Quo(x, c) /\ r = Rem(x, c) /\ x = c * q + r
  BY DivMod
<1>3. PICK p \in Int, s \in 0..d - 1 : p = Quo(q, d) /\ s = Rem(q, d) /\ q = d * p + s
  BY DivMod
<1>4. PICK t \in Int : t = c * s + r
  OBVIOUS
<1>5. x = e * p + t
  <2>1. c * (d * p + s) = (c * d) * p + c * s
    OBVIOUS
  <2>2. x = c * (d * p + s) + r
    BY ONLY <1>2, <1>3, Zenon
  <2>3. x = ((c * d) * p + c * s) + r
    BY ONLY <2>1, <2>2, Zenon
  <2>4. ((c * d) * p + c * s) + r = (c * d) * p + (c * s + r)
    OBVIOUS
  <2>. QED
    BY ONLY <1>4, <2>3, <2>4, Zenon, IsProduct(e, c, d) DEF IsProduct
<1>6. Divided(x, e, p, t)
  <2>1. ASSUME NEW a \in Nat PROVE c * a >= 0
    OBVIOUS
  <2>2. c * (d - 1 - s) >= 0 /\ c * s >= 0
    BY <2>1
  <2>3. c * (d - 1 - s) = e - c - c * s
    BY DEF IsProduct
  <2>4. t >= 0 /\ t <= e - 1
    BY <1>4, <2>2, <2>3
  <2>. QED
    BY <1>5, <2>4 DEF Divided
<1>7. Rem(x, e) = t /\ Quo(x, e) = p
  BY <1>6, DivModUnique
<1>8. Rem(t, c) = r /\ Quo(t, c) = s
  <2>1. Divided(t, c, s, r) /\ s \in Int /\ r \in Int
    BY <1>4 DEF Divided
  <2>. QED
    BY <2>1, DivModUnique
<1>9. t = r + c * s
  BY <1>4
<1>10. Rem(x, e) = Rem(x, c) + c * Rem(Quo(x, c), d)
  BY ONLY <1>2, <1>3, <1>7, <1>9, Zenon
<1>. QED
  BY ONLY <1>2, <1>3, <1>7, <1>8, <1>10, Zenon

-----------------------------------------------------------------------------
(* Numbers of some bytes.                                                  *)

\* The values of a word of m + n bytes are pairs of those of its parts.
LEMMA CellsSum ==
  ASSUME NEW m \in Nat, NEW n \in Nat
  PROVE  /\ Cells(n) \in Nat \ {0}
         /\ Cells(m + n) = Cells(m) * Cells(n)
<1>. USE WidthAssumption
<1>1. BYTE * m \in Nat /\ BYTE * n \in Nat /\ BYTE * (m + n) = BYTE * m + BYTE * n
  OBVIOUS
<1>. QED
  BY <1>1, PowerSum DEF Cells

\* A word has at least one value.
LEMMA CellsType ==
  ASSUME NEW n \in Nat
  PROVE  Cells(n) \in Nat \ {0}
  BY CellsSum

\* A word of no bytes has one.
LEMMA CellsZero == Cells(0) = 1
<1>1. BYTE * 0 = 0 /\ 2^0 = 1
  BY WidthAssumption
<1>. QED
  BY <1>1, Zenon DEF Cells

\* Half of them have a sign.
LEMMA CellsHalf ==
  ASSUME NEW n \in Nat \ {0}
  PROVE  \E h \in Nat \ {0} : Cells(n) = 2 * h /\ Cells(n) \div 2 = h
<1>1. BYTE * n - 1 \in Nat
  <2>1. BYTE * n >= 1
    BY WidthAssumption
  <2>. QED
    BY <2>1, WidthAssumption
<1>2. PICK k \in Nat : BYTE * n = k + 1
  BY <1>1, WidthAssumption
<1>3. 2^k \in Nat \ {0} /\ 2^(k + 1) = 2 * 2^k
  BY PowerStep, PowerSum
<1>4. PICK h \in Nat \ {0} : h = 2^k
  BY <1>3
<1>5. (2 * h) \div 2 = h
  OBVIOUS
<1>. QED
  BY <1>2, <1>3, <1>4, <1>5 DEF Cells

\* An address tells the sixteen bytes of a frame apart.
LEMMA NaturalLarge == Cells(NATURAL) \in Nat /\ Cells(NATURAL) >= 16
<1>1. PICK k \in Nat : BYTE * NATURAL = k + 4
  <2>1. BYTE * NATURAL \in Nat /\ BYTE * NATURAL >= 4
    BY WidthAssumption
  <2>2. BYTE * NATURAL - 4 \in Nat
    BY <2>1
  <2>3. BYTE * NATURAL = (BYTE * NATURAL - 4) + 4
    BY <2>1
  <2>. QED
    BY <2>2, <2>3
<1>2. 2^(k + 4) = 2^k * 16 /\ 2^k \in Nat \ {0}
  <2>1. 2^4 = 16
    OBVIOUS
  <2>2. 2^(k + 4) = 2^k * 2^4 /\ 2^k \in Nat \ {0}
    BY PowerSum, Zenon
  <2>. QED
    BY <2>1, <2>2, Zenon
<1>3. ASSUME NEW p \in Nat \ {0} PROVE p * 16 \in Nat /\ p * 16 >= 16
  OBVIOUS
<1>. QED
  BY <1>1, <1>2, <1>3 DEF Cells

\* UInt is the remainder of a division by Cells.
LEMMA UIntIsRem ==
  ASSUME NEW n \in Nat
  PROVE  \E m \in Nat \ {0} : m = Cells(n) /\ \A x : UInt(x, n) = Rem(x, m)
  BY CellsSum DEF UInt, Rem

\* UInt cuts a number to n bytes; cutting twice changes nothing.
LEMMA UIntType ==
  ASSUME NEW x \in Int, NEW n \in Nat
  PROVE  UInt(x, n) \in 0..Cells(n) - 1 /\ UInt(UInt(x, n), n) = UInt(x, n)
<1>1. PICK m \in Nat \ {0} : m = Cells(n) /\ \A z : UInt(z, n) = Rem(z, m)
  BY UIntIsRem
<1>2. Rem(x, m) \in 0..m - 1 /\ Rem(Rem(x, m), m) = Rem(x, m)
  BY DivMod, RemRem
<1>. QED
  BY <1>1, <1>2

\* A number of n bytes is not changed by UInt.
LEMMA UIntSmall ==
  ASSUME NEW n \in Nat, NEW x \in 0..Cells(n) - 1
  PROVE  UInt(x, n) = x
<1>1. PICK m \in Nat \ {0} : m = Cells(n) /\ \A z : UInt(z, n) = Rem(z, m)
  BY UIntIsRem
<1>. QED
  BY <1>1, RemSmall

\* Cutting to more bytes first makes no difference.
LEMMA UIntNested ==
  ASSUME NEW x \in Int, NEW m \in Nat, NEW n \in Nat, m <= n
  PROVE  UInt(UInt(x, n), m) = UInt(x, m)
<1>1. PICK k \in Nat : n = m + k
  <2>1. n - m \in Nat /\ n = m + (n - m)
    OBVIOUS
  <2>. QED
    BY <2>1
<1>2. Cells(n) = Cells(m) * Cells(k)
  BY <1>1, CellsSum
<1>3. PICK c \in Nat \ {0} : c = Cells(m) /\ \A z : UInt(z, m) = Rem(z, c)
  BY UIntIsRem
<1>4. PICK e \in Nat \ {0} : e = Cells(n) /\ \A z : UInt(z, n) = Rem(z, e)
  BY UIntIsRem
<1>5. PICK d \in Nat \ {0} : d = Cells(k)
  BY CellsSum
<1>6. IsProduct(e, c, d)
  BY <1>2, <1>3, <1>4, <1>5 DEF IsProduct
<1>7. Rem(Rem(x, e), c) = Rem(x, c)
  BY <1>6, QuoProduct
<1>. QED
  BY <1>3, <1>4, <1>7

\* Sums and products of numbers that agree as far as they are looked at.
LEMMA UIntArithmetic ==
  ASSUME NEW n \in Nat, NEW x \in Int, NEW y \in Int, NEW u \in Int, NEW v \in Int,
         UInt(x, n) = UInt(u, n), UInt(y, n) = UInt(v, n)
  PROVE  /\ UInt(x + y, n) = UInt(u + v, n)
         /\ UInt(x - y, n) = UInt(u - v, n)
         /\ UInt(x * y, n) = UInt(u * v, n)
         /\ UInt(-x, n) = UInt(-u, n)
<1>1. PICK m \in Nat \ {0} : m = Cells(n) /\ \A z : UInt(z, n) = Rem(z, m)
  BY UIntIsRem
<1>2. Rem(x, m) = Rem(u, m) /\ Rem(y, m) = Rem(v, m)
  BY <1>1
<1>3. /\ Rem(x + y, m) = Rem(u + v, m)
      /\ Rem(x - y, m) = Rem(u - v, m)
      /\ Rem(x * y, m) = Rem(u * v, m)
      /\ Rem(-x, m) = Rem(-u, m)
  BY <1>2, RemArithmetic
<1>. QED
  BY ONLY <1>1, <1>3, Zenon

\* SInt reads n bytes as a number with a sign, of the same bytes.
LEMMA SIntType ==
  ASSUME NEW x \in Int, NEW n \in Nat \ {0}
  PROVE  /\ SInt(x, n) \in Int
         /\ UInt(SInt(x, n), n) = UInt(x, n)
         /\ SInt(x, n) >= -(Cells(n) \div 2) /\ SInt(x, n) < Cells(n) \div 2
<1>1. PICK m \in Nat \ {0} : m = Cells(n)
  BY CellsSum
<1>2. PICK h \in Nat \ {0} : m = 2 * h /\ m \div 2 = h
  BY <1>1, CellsHalf
<1>3. PICK r \in 0..m - 1 : r = UInt(x, n) /\ UInt(r, n) = r
  BY <1>1, UIntType
<1>4. SInt(x, n) = IF r < h THEN r ELSE r - m
  BY <1>1, <1>2, <1>3 DEF SInt
<1>5. UInt(r - m, n) = UInt(r, n)
  <2>1. PICK y \in Int, k \in Int : y = r - m /\ Exceeds(y, r, m, k)
    <3>1. Exceeds(r - m, r, m, -1)
      BY DEF Exceeds
    <3>. QED
      BY <3>1
  <2>2. Rem(y, m) = Rem(r, m)
    <3>1. r \in Int
      OBVIOUS
    <3>. QED
      BY ONLY <2>1, <3>1, m \in Nat \ {0}, y \in Int, k \in Int, RemExceeds
  <2>. QED
    BY <1>1, <2>1, <2>2 DEF UInt, Rem
<1>. QED
  BY <1>1, <1>2, <1>3, <1>4, <1>5

\* Only the low bytes count for SInt.
LEMMA SIntSame ==
  ASSUME NEW x, NEW y, NEW n, UInt(x, n) = UInt(y, n)
  PROVE  SInt(x, n) = SInt(y, n)
  BY DEF SInt
Fields == {"Gpr", "Ip", "CC", "STEP", "FramePtr", "Done", "LastException", "Mem",
           "Tracker", "Status"}
IsContext(c) == c = [f \in Fields |-> c[f]]

Byte == 0..Cells(1) - 1
Memories == [Address -> Byte]

\* The byte k of x.
Digit(x, k) == UInt(x \div Cells(k), 1)

Steps(g, z, D, n) == g[0] = z /\ \A k \in 1..n : g[k] = D[k][g[k - 1]]

\* A sum of at most n steps, each given as a function, is what the steps come to.
LEMMA Recursion ==
  ASSUME NEW X, NEW z \in X, NEW n \in Nat, NEW D \in [1..n -> [X -> X]]
  PROVE  \E g \in [0..n -> X] : Steps(g, z, D, n)
<1>. DEFINE Good(g, M) == Steps(g, z, D, M)
            T == {M \in Nat : M <= n => \E g \in [0..M -> X] : Good(g, M)}
<1>1. 0 \in T
  <2>. DEFINE g == [k \in 0..0 |-> z]
  <2>1. g \in [0..0 -> X] /\ Good(g, 0)
    BY DEF Steps
  <2>. HIDE DEF g, Good
  <2>. QED
    BY <2>1
<1>2. ASSUME NEW M \in Nat, M \in T PROVE M + 1 \in T
  <2>. HIDE DEF Good
  <2>1. SUFFICES ASSUME M + 1 <= n
                 PROVE  \E g \in [0..M + 1 -> X] : Good(g, M + 1)
    BY <1>2
  <2>. USE DEF Good, Steps
  <2>2. PICK f \in [0..M -> X] : Good(f, M)
    BY <1>2, <2>1
  <2>. DEFINE g == [k \in 0..M + 1 |-> IF k = M + 1 THEN D[M + 1][f[M]] ELSE f[k]]
  <2>3. M + 1 \in 1..n /\ f[M] \in X
    BY <2>1
  <2>4. D[M + 1] \in [X -> X]
    BY <2>3
  <2>5. g \in [0..M + 1 -> X]
    <3>1. ASSUME NEW k \in 0..M + 1 PROVE g[k] \in X
      <4>1. CASE k = M + 1
        BY <2>3, <2>4, <4>1
      <4>2. CASE k \in 0..M
        BY <4>2
      <4>. QED
        BY <4>1, <4>2
    <3>. QED
      BY <3>1
  <2>6. g[0] = z
    BY <2>2
  <2>7. ASSUME NEW k \in 1..M + 1 PROVE g[k] = D[k][g[k - 1]]
    <3>1. g[k - 1] = f[k - 1]
      BY <2>7
    <3>2. CASE k = M + 1
      BY <3>1, <3>2
    <3>3. CASE k \in 1..M
      <4>1. g[k] = f[k]
        BY <3>3
      <4>2. f[k] = D[k][f[k - 1]]
        BY <2>2, <3>3
      <4>. QED
        BY <3>1, <4>1, <4>2
    <3>. QED
      BY <3>2, <3>3
  <2>. HIDE DEF g
  <2>. QED
    BY <2>5, <2>6, <2>7
<1>3. n \in T
  <2>. HIDE DEF T
  <2>. QED
    BY <1>1, <1>2, NatBySet
<1>. QED
  BY <1>3

\* An address is a natural word.
LEMMA NaturalType ==
  ASSUME NEW x \in Int
  PROVE  Natural(x) \in Address /\ Natural(x) \in Nat /\ Natural(Natural(x)) = Natural(x)
<1>1. NATURAL \in Nat
  BY WidthAssumption
<1>2. Cells(NATURAL) \in Nat \ {0}
  BY <1>1, CellsType
<1>3. /\ UInt(x, NATURAL) \in 0..Cells(NATURAL) - 1
      /\ UInt(UInt(x, NATURAL), NATURAL) = UInt(x, NATURAL)
  BY <1>1, UIntType
<1>4. Address \subseteq Nat
  BY <1>2 DEF Address
<1>. QED
  BY <1>3, <1>4 DEF Natural, Address

\* Addresses may be cut before or after a number is added.
LEMMA NaturalAdd ==
  ASSUME NEW x \in Int, NEW k \in Int
  PROVE  Natural(Natural(x) + k) = Natural(x + k)
<1>1. NATURAL \in Nat /\ Natural(x) \in Int
  BY WidthAssumption, NaturalType
<1>2. UInt(Natural(x), NATURAL) = UInt(x, NATURAL)
  BY NaturalType DEF Natural
<1>. QED
  BY <1>1, <1>2, UIntArithmetic DEF Natural

\* Bytes are what UInt leaves of one byte.
LEMMA ByteType == Byte \subseteq Nat /\ \A x \in Int : UInt(x, 1) \in Byte
  BY CellsSum, UIntType DEF Byte

\* Memory holds bytes.
LEMMA AtType ==
  ASSUME NEW mem \in Memories, NEW a \in Int
  PROVE  At(mem, a) \in Byte /\ At(mem, a) \in Nat
  BY NaturalType, ByteType DEF At, Memories

\* Direct reads a word byte after byte, the first one the lowest.
LEMMA DirectSum ==
  ASSUME NEW mem \in Memories, NEW a \in Int
  PROVE  /\ Direct(mem, a, 0) = 0
         /\ \A n \in 0..8 : Direct(mem, a, n) \in Int
         /\ \A n \in 0..7 : Direct(mem, a, n + 1) = Direct(mem, a, n) + At(mem, a + n) * Cells(n)
<1>. DEFINE IsSum(g) == g = [n \in 0..8 |->
              IF n = 0 THEN 0 ELSE g[n - 1] + At(mem, a + n - 1) * Cells(n - 1)]
            D == [n \in 1..8 |-> [x \in Int |-> x + At(mem, a + n - 1) * Cells(n - 1)]]
            g == CHOOSE f : IsSum(f)
<1>1. D \in [1..8 -> [Int -> Int]]
  <2>1. ASSUME NEW n \in 1..8, NEW x \in Int
        PROVE  x + At(mem, a + n - 1) * Cells(n - 1) \in Int
    <3>1. n - 1 \in Nat /\ a + n - 1 \in Int
      OBVIOUS
    <3>2. At(mem, a + n - 1) \in Int /\ Cells(n - 1) \in Int
      BY <3>1, AtType, CellsType
    <3>. QED
      BY <3>2
  <2>. QED
    BY <2>1
<1>2. PICK f \in [0..8 -> Int] : Steps(f, 0, D, 8)
  <2>1. 0 \in Int /\ 8 \in Nat
    OBVIOUS
  <2>. HIDE DEF D
  <2>. QED
    BY <1>1, <2>1, Recursion
<1>3. IsSum(f)
  <2>1. ASSUME NEW n \in 0..8
        PROVE  f[n] = IF n = 0 THEN 0 ELSE f[n - 1] + At(mem, a + n - 1) * Cells(n - 1)
    <3>1. CASE n = 0
      BY <1>2, <3>1 DEF Steps
    <3>2. CASE n # 0
      <4>1. n \in 1..8 /\ n - 1 \in 0..8
        BY <3>2
      <4>2. f[n] = D[n][f[n - 1]] /\ f[n - 1] \in Int
        BY <1>2, <4>1 DEF Steps
      <4>. QED
        BY <3>2, <4>1, <4>2
    <3>. QED
      BY <3>1, <3>2
  <2>. QED
    BY <1>2, <2>1
<1>4. IsSum(g)
  <2>. HIDE DEF IsSum
  <2>. QED
    BY <1>3
<1>5. \A n \in 0..8 : Direct(mem, a, n) = g[n]
  BY Zenon DEF Direct
<1>6. \A n \in 0..8 : g[n] = IF n = 0 THEN 0 ELSE g[n - 1] + At(mem, a + n - 1) * Cells(n - 1)
  <2>. HIDE DEF g
  <2>. QED
    BY <1>4
<1>. HIDE DEF g
<1>7. g[0] = 0
  BY <1>6
<1>8. ASSUME NEW n \in 0..7
      PROVE  g[n + 1] = g[n] + At(mem, a + n) * Cells(n)
  <2>1. n + 1 \in 0..8 /\ n + 1 # 0 /\ (n + 1) - 1 = n /\ a + (n + 1) - 1 = a + n
    OBVIOUS
  <2>. QED
    BY <1>6, <2>1
<1>9. \A n \in 0..7 : At(mem, a + n) * Cells(n) \in Int
  <2>1. ASSUME NEW n \in 0..7 PROVE At(mem, a + n) \in Int /\ Cells(n) \in Int
    <3>1. a + n \in Int /\ n \in Nat
      OBVIOUS
    <3>. QED
      BY <3>1, AtType, CellsType
  <2>. QED
    BY <2>1
<1>10. \A n \in 0..8 : g[n] \in Int
  BY <1>7, <1>8, <1>9
<1>. QED
  BY <1>5, <1>7, <1>8, <1>10

\* Induction over the bytes of a word.
LEMMA EightSteps ==
  ASSUME NEW T, 0 \in T, \A n \in 0..7 : n \in T => n + 1 \in T
  PROVE  \A n \in 0..8 : n \in T
<1>1. 1 \in T /\ 2 \in T /\ 3 \in T /\ 4 \in T
  <2>1. 0 + 1 \in T /\ 1 + 1 = 2 /\ 2 + 1 = 3 /\ 3 + 1 = 4
    OBVIOUS
  <2>. QED
    BY <2>1
<1>2. 5 \in T /\ 6 \in T /\ 7 \in T /\ 8 \in T
  <2>1. 4 + 1 = 5 /\ 5 + 1 = 6 /\ 6 + 1 = 7 /\ 7 + 1 = 8
    OBVIOUS
  <2>. QED
    BY <1>1, <2>1
<1>. QED
  BY <1>1, <1>2

\* Bytes that are the same make numbers that are the same.
LEMMA DirectSame ==
  ASSUME NEW mem \in Memories, NEW new \in Memories, NEW a \in Int, NEW b \in Int,
         NEW len \in 0..8, \A k \in 0..len - 1 : At(mem, a + k) = At(new, b + k)
  PROVE  Direct(mem, a, len) = Direct(new, b, len)
<1>. DEFINE T == {n \in 0..8 : n <= len => Direct(mem, a, n) = Direct(new, b, n)}
<1>1. 0 \in T
  BY DirectSum
<1>2. ASSUME NEW n \in 0..7, n \in T PROVE n + 1 \in T
  <2>1. SUFFICES ASSUME n + 1 <= len PROVE Direct(mem, a, n + 1) = Direct(new, b, n + 1)
    OBVIOUS
  <2>2. Direct(mem, a, n) = Direct(new, b, n) /\ At(mem, a + n) = At(new, b + n)
    BY <1>2, <2>1
  <2>3. /\ Direct(mem, a, n + 1) = Direct(mem, a, n) + At(mem, a + n) * Cells(n)
        /\ Direct(new, b, n + 1) = Direct(new, b, n) + At(new, b + n) * Cells(n)
    BY DirectSum
  <2>. QED
    BY <2>2, <2>3
<1>3. len \in T
  <2>. HIDE DEF T
  <2>. QED
    BY <1>1, <1>2, EightSteps
<1>. QED
  BY <1>3

\* Only the low bits of an address count for Direct.
LEMMA DirectNatural ==
  ASSUME NEW mem \in Memories, NEW a \in Int, NEW len \in 0..8
  PROVE  Direct(mem, Natural(a), len) = Direct(mem, a, len)
<1>1. Natural(a) \in Int
  BY NaturalType
<1>2. ASSUME NEW k \in 0..len - 1 PROVE At(mem, Natural(a) + k) = At(mem, a + k)
  <2>1. k \in Int
    OBVIOUS
  <2>. QED
    BY <2>1, NaturalAdd DEF At
<1>. QED
  BY <1>1, <1>2, DirectSame

\* A number read in two parts.
LEMMA DirectJoin ==
  ASSUME NEW mem \in Memories, NEW a \in Int, NEW p \in 0..8, NEW q \in 0..8, p + q <= 8
  PROVE  Direct(mem, a, p + q) = Direct(mem, a, p) + Direct(mem, a + p, q) * Cells(p)
<1>. DEFINE Joined(n) == Direct(mem, a, p + n) = Direct(mem, a, p) + Direct(mem, a + p, n) * Cells(p)
            T == {n \in 0..8 : p + n <= 8 => Joined(n)}
<1>1. /\ a + p \in Int
      /\ Cells(p) \in Int
      /\ \A n \in 0..8 : Direct(mem, a, n) \in Int /\ Direct(mem, a + p, n) \in Int
  <2>1. a + p \in Int /\ p \in Nat
    OBVIOUS
  <2>. QED
    BY <2>1, DirectSum, CellsType
<1>2. 0 \in T
  <2>1. Direct(mem, a + p, 0) = 0 /\ p + 0 = p
    BY <1>1, DirectSum
  <2>2. Direct(mem, a, p) \in Int
    BY <1>1
  <2>. QED
    BY <1>1, <2>1, <2>2
<1>3. ASSUME NEW n \in 0..7, n \in T PROVE n + 1 \in T
  <2>1. SUFFICES ASSUME p + (n + 1) <= 8 PROVE Joined(n + 1)
    OBVIOUS
  <2>2. Joined(n)
    BY <1>3, <2>1
  <2>3. p + n \in 0..7 /\ p + (n + 1) = (p + n) + 1 /\ (a + p) + n = a + (p + n)
    BY <2>1
  <2>4. PICK d \in Int, e \in Int, f \in Int, b \in Int, c \in Int, k \in Int :
          /\ d = Direct(mem, a, p) /\ e = Direct(mem, a + p, n) /\ f = Direct(mem, a, p + n)
          /\ b = At(mem, a + (p + n)) /\ c = Cells(p) /\ k = Cells(n)
    <3>1. a + (p + n) \in Int /\ n \in Nat /\ n \in 0..8 /\ p + n \in 0..8
      BY <2>3
    <3>2. At(mem, a + (p + n)) \in Int /\ Cells(n) \in Int
      BY <3>1, AtType, CellsType
    <3>. QED
      BY <1>1, <3>1, <3>2
  <2>5. Direct(mem, a, (p + n) + 1) = f + b * Cells(p + n)
    BY <2>3, <2>4, DirectSum
  <2>6. Direct(mem, a + p, n + 1) = e + b * k
    <3>1. Direct(mem, a + p, n + 1) = Direct(mem, a + p, n) + At(mem, (a + p) + n) * Cells(n)
      BY <1>1, DirectSum
    <3>. QED
      BY <2>3, <2>4, <3>1
  <2>7. Cells(p + n) = c * k
    <3>1. p \in Nat /\ n \in Nat
      OBVIOUS
    <3>. QED
      BY <2>4, <3>1, CellsSum
  <2>8. f = d + e * c
    BY <2>2, <2>4
  <2>9. (d + e * c) + b * (c * k) = d + (e + b * k) * c
    OBVIOUS
  <2>. QED
    BY ONLY <2>3, <2>4, <2>5, <2>6, <2>7, <2>8, <2>9, Zenon DEF Joined
<1>4. q \in T
  <2>. HIDE DEF T
  <2>. QED
    BY <1>2, <1>3, EightSteps
<1>. QED
  BY <1>4

\* What Direct reads of len bytes is a number of len bytes.
LEMMA DirectRange ==
  ASSUME NEW mem \in Memories, NEW a \in Int, NEW len \in 0..8
  PROVE  Direct(mem, a, len) \in 0..Cells(len) - 1
<1>. DEFINE T == {n \in 0..8 : Direct(mem, a, n) \in 0..Cells(n) - 1}
<1>1. 0 \in T
  <2>1. Direct(mem, a, 0) = 0 /\ Cells(0) = 1
    BY DirectSum, CellsZero
  <2>. QED
    BY <2>1
<1>2. ASSUME NEW n \in 0..7, n \in T PROVE n + 1 \in T
  <2>1. n \in Nat /\ 1 \in Nat /\ a + n \in Int
    OBVIOUS
  <2>2. PICK c \in Nat \ {0}, d \in Nat \ {0} : c = Cells(n) /\ d = Cells(1) /\ Cells(n + 1) = c * d
    <3>1. Cells(n) \in Nat \ {0} /\ Cells(1) \in Nat \ {0} /\ Cells(n + 1) = Cells(n) * Cells(1)
      BY <2>1, CellsSum
    <3>. QED
      BY <3>1
  <2>3. PICK b \in 0..d - 1 : b = At(mem, a + n)
    BY <2>1, <2>2, AtType DEF Byte
  <2>4. PICK s \in 0..c - 1 : s = Direct(mem, a, n)
    BY <1>2, <2>2
  <2>5. Direct(mem, a, n + 1) = s + b * c
    BY <2>2, <2>3, <2>4, DirectSum
  <2>6. s + b * c \in 0..(c * d) - 1
    <3>1. ASSUME NEW i \in Nat, NEW j \in Nat PROVE i * j >= 0
      OBVIOUS
    <3>2. (d - 1 - b) * c >= 0 /\ b * c >= 0
      BY <3>1
    <3>3. (d - 1 - b) * c = c * d - c - b * c
      OBVIOUS
    <3>4. s + b * c \in Int /\ c * d \in Int /\ 0 <= s + b * c /\ s + b * c <= c * d - 1
      BY <3>2, <3>3
    <3>. QED
      BY <3>4
  <2>. QED
    BY <2>2, <2>5, <2>6
<1>3. len \in T
  <2>. HIDE DEF T
  <2>. QED
    BY <1>1, <1>2, EightSteps
<1>. QED
  BY <1>3

\* The parts reads fall into make what lies there.
LEMMA ReadParts ==
  ASSUME NEW mem \in Memories, NEW a \in Int
  PROVE  /\ Direct(mem, a, 1) = At(mem, a)
         /\ VmReadMem16(mem, a) = Direct(mem, a, 2)
         /\ VmReadMem32(mem, a) = Direct(mem, a, 4)
         /\ VmReadMem64(mem, a) = Direct(mem, a, 8)
<1>1. \A b \in Int : Direct(mem, b, 1) = At(mem, b)
  <2>1. ASSUME NEW b \in Int PROVE Direct(mem, b, 1) = At(mem, b)
    <3>1. Direct(mem, b, 0 + 1) = 0 + At(mem, b + 0) * Cells(0)
      BY DirectSum
    <3>2. At(mem, b) \in Int /\ b + 0 = b /\ 0 + 1 = 1
      BY AtType
    <3>. QED
      BY <3>1, <3>2, CellsZero
  <2>. QED
    BY <2>1
<1>2. \A b \in Int : VmReadMem16(mem, b) = Direct(mem, b, 2)
  <2>1. ASSUME NEW b \in Int PROVE VmReadMem16(mem, b) = Direct(mem, b, 2)
    <3>1. Direct(mem, b, 1 + 1) = Direct(mem, b, 1) + Direct(mem, b + 1, 1) * Cells(1)
      BY DirectJoin
    <3>2. b + 1 \in Int /\ 1 + 1 = 2
      OBVIOUS
    <3>. QED
      BY <1>1, <3>1, <3>2 DEF VmReadMem16
  <2>. QED
    BY <2>1
<1>3. \A b \in Int : VmReadMem32(mem, b) = Direct(mem, b, 4)
  <2>1. ASSUME NEW b \in Int PROVE VmReadMem32(mem, b) = Direct(mem, b, 4)
    <3>1. Direct(mem, b, 2 + 2) = Direct(mem, b, 2) + Direct(mem, b + 2, 2) * Cells(2)
      BY DirectJoin
    <3>2. b + 2 \in Int /\ 2 + 2 = 4
      OBVIOUS
    <3>. QED
      BY <1>2, <3>1, <3>2 DEF VmReadMem32
  <2>. QED
    BY <2>1
<1>4. \A b \in Int : VmReadMem64(mem, b) = Direct(mem, b, 8)
  <2>1. ASSUME NEW b \in Int PROVE VmReadMem64(mem, b) = Direct(mem, b, 8)
    <3>1. Direct(mem, b, 4 + 4) = Direct(mem, b, 4) + Direct(mem, b + 4, 4) * Cells(4)
      BY DirectJoin
    <3>2. b + 4 \in Int /\ 4 + 4 = 8
      OBVIOUS
    <3>. QED
      BY <1>3, <3>1, <3>2 DEF VmReadMem64
  <2>. QED
    BY <2>1
<1>. QED
  BY <1>1, <1>2, <1>3, <1>4

\* The functions that read in one access or in pieces read the same word.
LEMMA ReadWhole ==
  ASSUME NEW mem \in Memories, NEW a \in Int
  PROVE  /\ \A bytes \in {1, 2, 4, 8} : VmReadMem(mem, a, bytes) = Direct(mem, a, bytes)
         /\ VmReadMemN(mem, Natural(a)) = Direct(mem, a, NATURAL)
<1>1. Natural(a) \in Int
  BY NaturalType
<1>2. ASSUME NEW bytes \in {1, 2, 4, 8} PROVE VmReadMem(mem, a, bytes) = Direct(mem, a, bytes)
  <2>1. VmReadMem(mem, a, bytes) = Direct(mem, Natural(a), bytes)
    BY <1>1, ReadParts DEF VmReadMem
  <2>2. bytes \in 0..8
    BY <1>2
  <2>. QED
    BY <2>1, <2>2, DirectNatural
<1>3. NATURAL \in 0..8
  BY WidthAssumption
<1>. QED
  BY <1>2, <1>3, DirectNatural DEF VmReadMemN
-----------------------------------------------------------------------------
(* Bytes of a number.                                                      *)

\* A digit of a number to the base of a byte is a byte.
LEMMA DigitType ==
  ASSUME NEW x \in Int, NEW k \in Nat
  PROVE  Digit(x, k) \in Byte /\ x \div Cells(k) \in Int
<1>1. Cells(k) \in Nat \ {0}
  BY CellsType
<1>2. x \div Cells(k) \in Int
  BY <1>1
<1>. QED
  BY <1>2, ByteType DEF Digit

\* The bytes below the place where a number is cut are its own.
LEMMA DigitCut ==
  ASSUME NEW x \in Int, NEW n \in Nat, NEW k \in 0..n - 1
  PROVE  Digit(UInt(x, n), k) = Digit(x, k)
<1>1. PICK j \in Nat \ {0} : n = k + j
  <2>1. n - k \in Nat \ {0} /\ n = k + (n - k)
    OBVIOUS
  <2>. QED
    BY <2>1
<1>2. PICK c \in Nat \ {0} : c = Cells(k)
  BY CellsType
<1>3. PICK d \in Nat \ {0} : d = Cells(j) /\ \A z : UInt(z, j) = Rem(z, d)
  BY UIntIsRem
<1>4. PICK e \in Nat \ {0} : e = Cells(n) /\ \A z : UInt(z, n) = Rem(z, e)
  BY UIntIsRem
<1>5. IsProduct(e, c, d)
  <2>1. k \in Nat /\ j \in Nat
    OBVIOUS
  <2>2. Cells(k + j) = Cells(k) * Cells(j)
    BY <2>1, CellsSum
  <2>. QED
    BY <1>1, <1>2, <1>3, <1>4, <2>2 DEF IsProduct
<1>6. Quo(Rem(x, e), c) = Rem(Quo(x, c), d)
  BY <1>5, QuoProduct
<1>7. Quo(x, c) \in Int
  BY DivMod
<1>8. UInt(UInt(Quo(x, c), j), 1) = UInt(Quo(x, c), 1)
  <2>1. 1 \in Nat /\ j \in Nat /\ 1 <= j
    OBVIOUS
  <2>. QED
    BY <1>7, <2>1, UIntNested
<1>9. Digit(UInt(x, n), k) = UInt(Quo(Rem(x, e), c), 1) /\ Digit(x, k) = UInt(Quo(x, c), 1)
  BY <1>2, <1>4 DEF Digit, Quo
<1>. QED
  BY <1>3, <1>6, <1>8, <1>9

\* The bytes of what a number leaves behind its first ones.
LEMMA DigitShift ==
  ASSUME NEW x \in Int, NEW p \in Nat, NEW k \in Nat
  PROVE  Digit(x \div Cells(p), k) = Digit(x, p + k)
<1>1. PICK c \in Nat \ {0}, d \in Nat \ {0}, e \in Nat \ {0} :
        c = Cells(p) /\ d = Cells(k) /\ e = Cells(p + k) /\ IsProduct(e, c, d)
  <2>1. Cells(p + k) = Cells(p) * Cells(k) /\ p + k \in Nat
    BY CellsSum
  <2>2. IsProduct(Cells(p + k), Cells(p), Cells(k))
    BY <2>1 DEF IsProduct
  <2>. QED
    BY <2>1, <2>2, CellsType
<1>2. Quo(Quo(x, c), d) = Quo(x, e)
  BY <1>1, QuoProduct
<1>. QED
  BY <1>1, <1>2 DEF Digit, Quo

\* One byte more of a number.
LEMMA DigitStep ==
  ASSUME NEW x \in Int, NEW n \in Nat
  PROVE  UInt(x, n + 1) = UInt(x, n) + Digit(x, n) * Cells(n)
<1>1. PICK c \in Nat \ {0} : c = Cells(n) /\ \A z : UInt(z, n) = Rem(z, c)
  BY UIntIsRem
<1>2. PICK d \in Nat \ {0} : d = Cells(1) /\ \A z : UInt(z, 1) = Rem(z, d)
  BY UIntIsRem
<1>3. PICK e \in Nat \ {0} : e = Cells(n + 1) /\ \A z : UInt(z, n + 1) = Rem(z, e)
  <2>1. n + 1 \in Nat
    OBVIOUS
  <2>. QED
    BY <2>1, UIntIsRem
<1>4. IsProduct(e, c, d)
  <2>1. 1 \in Nat
    OBVIOUS
  <2>2. Cells(n + 1) = Cells(n) * Cells(1)
    BY <2>1, CellsSum
  <2>. QED
    BY <1>1, <1>2, <1>3, <2>2 DEF IsProduct
<1>5. Rem(x, e) = Rem(x, c) + c * Rem(Quo(x, c), d)
  BY <1>4, QuoProduct
<1>6. Rem(Quo(x, c), d) \in Int
  BY DivMod
<1>7. c * Rem(Quo(x, c), d) = Rem(Quo(x, c), d) * c
  BY <1>6
<1>8. Digit(x, n) = Rem(Quo(x, c), d)
  BY <1>1, <1>2 DEF Digit, Quo
<1>. QED
  BY ONLY <1>1, <1>3, <1>5, <1>7, <1>8, Zenon

\* Memory that holds the bytes of a number is read as that number.
LEMMA ReadDigits ==
  ASSUME NEW mem \in Memories, NEW a \in Int, NEW len \in 0..8, NEW x \in Int,
         \A k \in 0..len - 1 : At(mem, a + k) = Digit(x, k)
  PROVE  Direct(mem, a, len) = UInt(x, len)
<1>. DEFINE T == {n \in 0..8 : n <= len => Direct(mem, a, n) = UInt(x, n)}
<1>1. 0 \in T
  <2>1. Direct(mem, a, 0) = 0
    BY DirectSum
  <2>2. 0 \in Nat
    OBVIOUS
  <2>3. UInt(x, 0) \in 0..Cells(0) - 1
    BY <2>2, UIntType
  <2>. QED
    BY <2>1, <2>3, CellsZero
<1>2. ASSUME NEW n \in 0..7, n \in T PROVE n + 1 \in T
  <2>1. SUFFICES ASSUME n + 1 <= len PROVE Direct(mem, a, n + 1) = UInt(x, n + 1)
    OBVIOUS
  <2>2. Direct(mem, a, n) = UInt(x, n) /\ At(mem, a + n) = Digit(x, n) /\ n \in Nat
    BY <1>2, <2>1
  <2>3. Direct(mem, a, n + 1) = Direct(mem, a, n) + At(mem, a + n) * Cells(n)
    BY DirectSum
  <2>4. UInt(x, n + 1) = UInt(x, n) + Digit(x, n) * Cells(n)
    BY <2>2, DigitStep
  <2>. QED
    BY <2>2, <2>3, <2>4
<1>3. len \in T
  <2>. HIDE DEF T
  <2>. QED
    BY <1>1, <1>2, EightSteps
<1>. QED
  BY <1>3

-----------------------------------------------------------------------------
(* Writing.                                                                *)

\* new is mem with the first len bytes of x at a, and nothing else changed.
Stored(mem, new, a, len, x) ==
  /\ new \in Memories
  /\ \A k \in 0..len - 1 : At(new, a + k) = Digit(x, k)
  /\ \A b \in Address : (\A k \in 0..len - 1 : b # Natural(a + k)) => new[b] = mem[b]

\* Eight addresses in a row are different, and so are sixteen.
LEMMA NaturalApart ==
  ASSUME NEW a \in Int, NEW j \in 0..15, NEW k \in 0..15, Natural(a + j) = Natural(a + k)
  PROVE  j = k
<1>1. NATURAL \in Nat
  BY WidthAssumption
<1>2. PICK m \in Nat \ {0} : m = Cells(NATURAL) /\ \A z : UInt(z, NATURAL) = Rem(z, m)
  BY <1>1, UIntIsRem
<1>3. m >= 16
  BY <1>2, NaturalLarge
<1>4. PICK x \in Int, y \in Int : x = a + j /\ y = a + k /\ Rem(x, m) = Rem(y, m)
  BY <1>2 DEF Natural
<1>5. PICK i \in Int : Exceeds(x, y, m, i)
  BY <1>4, RemSame
<1>6. j - k = m * i
  BY <1>4, <1>5 DEF Exceeds
<1>7. i = 0
  <2>1. ASSUME i >= 1 PROVE m * i >= 16
    <3>1. m * (i - 1) >= 0
      BY <2>1
    <3>. QED
      BY <1>3, <3>1
  <2>2. ASSUME i <= -1 PROVE m * i <= -16
    <3>1. m * (-1 - i) >= 0
      BY <2>2
    <3>. QED
      BY <1>3, <3>1
  <2>. QED
    BY <1>6, <2>1, <2>2
<1>. QED
  BY <1>6, <1>7

\* DirectWrite writes byte after byte, the lowest one first.
LEMMA DirectWriteStep ==
  ASSUME NEW mem \in Memories, NEW a \in Int, NEW x \in Int
  PROVE  /\ DirectWrite(mem, a, 0, x) = mem
         /\ \A n \in 0..8 : DirectWrite(mem, a, n, x) \in Memories
         /\ \A n \in 0..7 : DirectWrite(mem, a, n + 1, x)
                              = [DirectWrite(mem, a, n, x) EXCEPT ![Natural(a + n)] = Digit(x, n)]
<1>. DEFINE byte(n) == (x \div Cells(n - 1)) % Cells(1)
            IsWritten(g) == g = [n \in 0..8 |->
              IF n = 0 THEN mem
              ELSE [g[n - 1] EXCEPT ![Natural(a + n - 1)] = (x \div Cells(n - 1)) % Cells(1)]]
            D == [n \in 1..8 |-> [m \in Memories |-> [m EXCEPT ![Natural(a + n - 1)] = byte(n)]]]
            g == CHOOSE f : IsWritten(f)
<1>1. ASSUME NEW n \in 1..8 PROVE byte(n) = Digit(x, n - 1) /\ byte(n) \in Byte
  <2>1. n - 1 \in Nat
    OBVIOUS
  <2>2. byte(n) = Digit(x, n - 1)
    BY DEF Digit, UInt
  <2>. QED
    BY <2>1, <2>2, DigitType
<1>2. D \in [1..8 -> [Memories -> Memories]]
  <2>1. ASSUME NEW n \in 1..8, NEW m \in Memories
        PROVE  [m EXCEPT ![Natural(a + n - 1)] = byte(n)] \in Memories
    <3>1. byte(n) \in Byte
      BY <1>1
    <3>. HIDE DEF byte
    <3>. QED
      BY <3>1 DEF Memories
  <2>. HIDE DEF byte
  <2>. QED
    BY <2>1
<1>3. PICK f \in [0..8 -> Memories] : Steps(f, mem, D, 8)
  <2>1. 8 \in Nat
    OBVIOUS
  <2>. HIDE DEF D
  <2>. QED
    BY <1>2, <2>1, Recursion
<1>4. IsWritten(f)
  <2>1. ASSUME NEW n \in 0..8
        PROVE  f[n] = IF n = 0 THEN mem
                      ELSE [f[n - 1] EXCEPT ![Natural(a + n - 1)] = byte(n)]
    <3>1. CASE n = 0
      BY <1>3, <3>1 DEF Steps
    <3>2. CASE n # 0
      <4>1. n \in 1..8 /\ n - 1 \in 0..8
        BY <3>2
      <4>2. f[n] = D[n][f[n - 1]] /\ f[n - 1] \in Memories
        BY <1>3, <4>1 DEF Steps
      <4>. HIDE DEF byte
      <4>. QED
        BY <3>2, <4>1, <4>2
    <3>. QED
      BY <3>1, <3>2
  <2>. QED
    BY <1>3, <2>1
<1>5. IsWritten(g)
  <2>. HIDE DEF IsWritten
  <2>. QED
    BY <1>4
<1>6. \A n \in 0..8 : DirectWrite(mem, a, n, x) = g[n]
  BY Zenon DEF DirectWrite
<1>7. \A n \in 0..8 : g[n] = IF n = 0 THEN mem
                             ELSE [g[n - 1] EXCEPT ![Natural(a + n - 1)] = byte(n)]
  <2>. HIDE DEF g
  <2>. QED
    BY <1>5
<1>. HIDE DEF g, byte
<1>8. g[0] = mem
  BY <1>7
<1>9. ASSUME NEW n \in 0..7
      PROVE  g[n + 1] = [g[n] EXCEPT ![Natural(a + n)] = Digit(x, n)]
  <2>1. n + 1 \in 0..8 /\ n + 1 # 0 /\ (n + 1) - 1 = n /\ a + (n + 1) - 1 = a + n /\ n + 1 \in 1..8
    OBVIOUS
  <2>2. byte(n + 1) = Digit(x, n)
    BY <1>1, <2>1
  <2>. QED
    BY <1>7, <2>1, <2>2
<1>10. ASSUME NEW n \in 0..8 PROVE g[n] \in Memories
  <2>. DEFINE T == {m \in 0..8 : g[m] \in Memories}
  <2>1. 0 \in T
    BY <1>8
  <2>2. ASSUME NEW m \in 0..7, m \in T PROVE m + 1 \in T
    <3>1. m \in Nat /\ g[m] \in Memories
      BY <2>2
    <3>2. Digit(x, m) \in Byte
      BY <3>1, DigitType
    <3>. QED
      BY <1>9, <3>1, <3>2 DEF Memories
  <2>3. n \in T
    <3>. HIDE DEF T
    <3>. QED
      BY <2>1, <2>2, EightSteps
  <2>. QED
    BY <2>3
<1>. QED
  BY <1>6, <1>8, <1>9, <1>10

\* DirectWrite leaves every byte of the word at its address, and no other.
LEMMA DirectWriteStores ==
  ASSUME NEW mem \in Memories, NEW a \in Int, NEW x \in Int, NEW len \in 0..8
  PROVE  Stored(mem, DirectWrite(mem, a, len, x), a, len, x)
<1>. DEFINE W(n) == DirectWrite(mem, a, n, x)
            T == {n \in 0..8 : Stored(mem, W(n), a, n, x)}
<1>1. 0 \in T
  BY DirectWriteStep DEF Stored
<1>2. ASSUME NEW n \in 0..7, n \in T PROVE n + 1 \in T
  <2>1. /\ W(n) \in Memories /\ W(n + 1) \in Memories
        /\ W(n + 1) = [W(n) EXCEPT ![Natural(a + n)] = Digit(x, n)]
    BY DirectWriteStep
  <2>2. Stored(mem, W(n), a, n, x)
    BY <1>2
  <2>. HIDE DEF W
  <2>3. Natural(a + n) \in Address
    <3>1. a + n \in Int
      OBVIOUS
    <3>. QED
      BY <3>1, NaturalType
  <2>4. ASSUME NEW k \in 0..(n + 1) - 1 PROVE At(W(n + 1), a + k) = Digit(x, k)
    <3>1. Natural(a + k) \in Address
      <4>1. a + k \in Int
        OBVIOUS
      <4>. QED
        BY <4>1, NaturalType
    <3>2. CASE k = n
      BY <2>1, <2>3, <3>2 DEF At, Memories
    <3>3. CASE k \in 0..n - 1
      <4>1. Natural(a + k) # Natural(a + n)
        <5>1. k \in 0..15 /\ n \in 0..15 /\ k # n
          BY <3>3
        <5>. QED
          BY <5>1, NaturalApart
      <4>2. At(W(n), a + k) = Digit(x, k)
        BY <2>2, <3>3 DEF Stored
      <4>. QED
        BY <2>1, <3>1, <4>1, <4>2 DEF At, Memories
    <3>. QED
      BY <3>2, <3>3
  <2>5. ASSUME NEW b \in Address, \A k \in 0..(n + 1) - 1 : b # Natural(a + k)
        PROVE  W(n + 1)[b] = mem[b]
    <3>1. b # Natural(a + n) /\ \A k \in 0..n - 1 : b # Natural(a + k)
      BY <2>5
    <3>. QED
      BY <2>1, <2>2, <3>1 DEF Stored, Memories
  <2>6. Stored(mem, W(n + 1), a, n + 1, x)
    BY <2>1, <2>4, <2>5 DEF Stored
  <2>. QED
    BY <2>6
<1>3. len \in T
  <2>. HIDE DEF T
  <2>. QED
    BY <1>1, <1>2, EightSteps
<1>. QED
  BY <1>3

\* What is stored says everything about the memory it is stored in.
LEMMA StoredUnique ==
  ASSUME NEW mem, NEW new, NEW other, NEW a \in Int, NEW len \in 0..8, NEW x,
         Stored(mem, new, a, len, x), Stored(mem, other, a, len, x)
  PROVE  new = other
<1>1. ASSUME NEW b \in Address PROVE new[b] = other[b]
  <2>1. CASE \E k \in 0..len - 1 : b = Natural(a + k)
    BY <2>1 DEF Stored, At
  <2>2. CASE \A k \in 0..len - 1 : b # Natural(a + k)
    BY <2>2 DEF Stored
  <2>. QED
    BY <2>1, <2>2
<1>. QED
  BY <1>1 DEF Stored, Memories

\* Only the low bits of an address count for what is stored there.
LEMMA StoredNatural ==
  ASSUME NEW mem, NEW new, NEW a \in Int, NEW len \in 0..8, NEW x,
         Stored(mem, new, Natural(a), len, x)
  PROVE  Stored(mem, new, a, len, x)
<1>1. ASSUME NEW k \in 0..len - 1 PROVE Natural(Natural(a) + k) = Natural(a + k)
  <2>1. k \in Int
    OBVIOUS
  <2>. QED
    BY <2>1, NaturalAdd
<1>. QED
  BY <1>1 DEF Stored, At

\* The bytes of a number that was cut behind them.
LEMMA StoredCut ==
  ASSUME NEW mem, NEW new, NEW a \in Int, NEW len \in 0..8, NEW x \in Int, NEW n \in Nat, len <= n
  PROVE  Stored(mem, new, a, len, UInt(x, n)) <=> Stored(mem, new, a, len, x)
<1>1. ASSUME NEW k \in 0..len - 1 PROVE Digit(UInt(x, n), k) = Digit(x, k)
  <2>1. k \in 0..n - 1
    OBVIOUS
  <2>. QED
    BY <2>1, DigitCut
<1>. QED
  BY <1>1 DEF Stored

\* A number stored in two parts.
LEMMA StoredJoin ==
  ASSUME NEW mem, NEW mid, NEW new, NEW a \in Int, NEW x \in Int,
         NEW p \in 1..4, NEW q \in 1..4,
         Stored(mem, mid, a, p, x), Stored(mid, new, a + p, q, x \div Cells(p))
  PROVE  Stored(mem, new, a, p + q, x)
<1>1. ASSUME NEW k \in 0..(p + q) - 1 PROVE At(new, a + k) = Digit(x, k)
  <2>0. Natural(a + k) \in Address
    <3>1. a + k \in Int
      OBVIOUS
    <3>. QED
      BY <3>1, NaturalType
  <2>1. CASE k \in 0..p - 1
    <3>1. ASSUME NEW j \in 0..q - 1 PROVE Natural(a + k) # Natural((a + p) + j)
      <4>1. (a + p) + j = a + (p + j) /\ p + j \in 0..15 /\ k \in 0..15 /\ k # p + j
        BY <2>1
      <4>. QED
        BY <4>1, NaturalApart
    <3>2. At(mid, a + k) = Digit(x, k)
      BY <2>1 DEF Stored
    <3>. QED
      BY <2>0, <3>1, <3>2 DEF Stored, At
  <2>2. CASE k \in p..(p + q) - 1
    <3>1. k - p \in 0..q - 1 /\ k - p \in Nat /\ p \in Nat /\ (a + p) + (k - p) = a + k /\ p + (k - p) = k
      BY <2>2
    <3>2. At(new, (a + p) + (k - p)) = Digit(x \div Cells(p), k - p)
      BY <3>1 DEF Stored
    <3>3. Digit(x \div Cells(p), k - p) = Digit(x, p + (k - p))
      BY <3>1, DigitShift
    <3>. QED
      BY <3>1, <3>2, <3>3
  <2>. QED
    BY <2>1, <2>2
<1>2. ASSUME NEW b \in Address, \A k \in 0..(p + q) - 1 : b # Natural(a + k)
      PROVE  new[b] = mem[b]
  <2>1. ASSUME NEW k \in 0..p - 1 PROVE b # Natural(a + k)
    <3>1. k \in 0..(p + q) - 1
      OBVIOUS
    <3>. QED
      BY <1>2, <3>1
  <2>2. ASSUME NEW j \in 0..q - 1 PROVE b # Natural((a + p) + j)
    <3>1. p + j \in 0..(p + q) - 1 /\ (a + p) + j = a + (p + j)
      OBVIOUS
    <3>. QED
      BY <1>2, <3>1
  <2>. QED
    BY <2>1, <2>2 DEF Stored
<1>. QED
  BY <1>1, <1>2 DEF Stored

\* The parts writes fall into store the whole number.
LEMMA WriteParts ==
  ASSUME NEW mem \in Memories, NEW a \in Int, NEW x \in Int
  PROVE  /\ Stored(mem, VmWriteMem8(mem, a, x), a, 1, x)
         /\ Stored(mem, VmWriteMem16(mem, a, x), a, 2, x)
         /\ Stored(mem, VmWriteMem32(mem, a, x), a, 4, x)
         /\ Stored(mem, VmWriteMem64(mem, a, x), a, 8, x)
         /\ Stored(mem, VmWriteMemN(mem, a, x), a, NATURAL, x)
<1>1. ASSUME NEW m \in Memories, NEW b \in Int, NEW y \in Int, NEW len \in 0..8
      PROVE  Stored(m, DirectWrite(m, b, len, UInt(y, len)), b, len, y)
  <2>1. len \in Nat /\ len <= len
    OBVIOUS
  <2>2. UInt(y, len) \in Int
    <3>1. UInt(y, len) \in 0..Cells(len) - 1 /\ Cells(len) \in Nat
      BY <2>1, UIntType, CellsType
    <3>. QED
      BY <3>1
  <2>3. Stored(m, DirectWrite(m, b, len, UInt(y, len)), b, len, UInt(y, len))
    BY <2>2, DirectWriteStores
  <2>. QED
    BY <2>1, <2>3, StoredCut
<1>2. ASSUME NEW m \in Memories, NEW b \in Int, NEW y \in Int
      PROVE  Stored(m, VmWriteMem8(m, b, y), b, 1, y)
  BY <1>1 DEF VmWriteMem8
<1>3. ASSUME NEW m, NEW mid, NEW new, NEW b \in Int, NEW y \in Int, NEW p \in {1, 2, 4},
             Stored(m, mid, b, p, y), Stored(mid, new, Natural(b + p), p, y \div Cells(p))
      PROVE  Stored(m, new, b, p + p, y)
  <2>1. p \in 1..4 /\ p \in 0..8 /\ b + p \in Int
    OBVIOUS
  <2>2. Stored(mid, new, b + p, p, y \div Cells(p))
    BY <1>3, <2>1, StoredNatural
  <2>. QED
    BY <1>3, <2>1, <2>2, StoredJoin
<1>4. ASSUME NEW b \in Int, NEW y \in Int, NEW p \in {1, 2, 4}
      PROVE  Natural(b + p) \in Int /\ y \div Cells(p) \in Int
  <2>1. b + p \in Int /\ p \in Nat
    OBVIOUS
  <2>. QED
    BY <2>1, NaturalType, DigitType
<1>5. ASSUME NEW m \in Memories, NEW b \in Int, NEW y \in Int
      PROVE  Stored(m, VmWriteMem16(m, b, y), b, 2, y)
  <2>. DEFINE mid == VmWriteMem8(m, b, y)
              new == VmWriteMem8(mid, Natural(b + 1), y \div Cells(1))
  <2>1. Stored(m, mid, b, 1, y) /\ mid \in Memories
    BY <1>2 DEF Stored
  <2>. HIDE DEF mid
  <2>2. Stored(mid, new, Natural(b + 1), 1, y \div Cells(1))
    BY <1>2, <1>4, <2>1
  <2>. HIDE DEF new
  <2>3. Stored(m, new, b, 2, y)
    <3>1. Stored(m, new, b, 1 + 1, y) /\ 1 + 1 = 2
      BY <1>3, <2>1, <2>2
    <3>. QED
      BY <3>1
  <2>. QED
    BY <1>1, <2>3 DEF VmWriteMem16, new, mid
<1>6. ASSUME NEW m \in Memories, NEW b \in Int, NEW y \in Int
      PROVE  Stored(m, VmWriteMem32(m, b, y), b, 4, y)
  <2>. DEFINE mid == VmWriteMem16(m, b, y)
              new == VmWriteMem16(mid, Natural(b + 2), y \div Cells(2))
  <2>1. Stored(m, mid, b, 2, y) /\ mid \in Memories
    BY <1>5 DEF Stored
  <2>. HIDE DEF mid
  <2>2. Stored(mid, new, Natural(b + 2), 2, y \div Cells(2))
    BY <1>4, <1>5, <2>1
  <2>. HIDE DEF new
  <2>3. Stored(m, new, b, 4, y)
    <3>1. PICK p \in {1, 2, 4} : p = 2 /\ p + p = 4
      OBVIOUS
    <3>2. Stored(m, new, b, p + p, y)
      BY <1>3, <2>1, <2>2, <3>1
    <3>. QED
      BY <3>1, <3>2
  <2>. QED
    BY <1>1, <2>3 DEF VmWriteMem32, new, mid
<1>7. Stored(mem, VmWriteMem32(VmWriteMem32(mem, a, x), Natural(a + 4), x \div Cells(4)), a, 8, x)
  <2>. DEFINE mid == VmWriteMem32(mem, a, x)
              new == VmWriteMem32(mid, Natural(a + 4), x \div Cells(4))
  <2>1. Stored(mem, mid, a, 4, x) /\ mid \in Memories
    BY <1>6 DEF Stored
  <2>. HIDE DEF mid
  <2>2. Stored(mid, new, Natural(a + 4), 4, x \div Cells(4))
    BY <1>4, <1>6, <2>1
  <2>. HIDE DEF new
  <2>3. Stored(mem, new, a, 8, x)
    <3>1. Stored(mem, new, a, 4 + 4, x) /\ 4 + 4 = 8
      BY <1>3, <2>1, <2>2
    <3>. QED
      BY <3>1
  <2>. QED
    BY <2>3 DEF new, mid
<1>8. Stored(mem, VmWriteMem64(mem, a, x), a, 8, x)
  BY <1>1, <1>7 DEF VmWriteMem64
<1>9. Stored(mem, VmWriteMemN(mem, a, x), a, NATURAL, x)
  <2>1. NATURAL \in {4, 8} /\ NATURAL \in 0..8
    BY WidthAssumption
  <2>2. Stored(mem, DirectWrite(mem, a, NATURAL, UInt(x, NATURAL)), a, NATURAL, x)
    BY <1>1, <2>1
  <2>3. Stored(mem, VmWriteMem32(mem, a, x), a, 4, x)
    BY <1>6
  <2>. QED
    BY <1>7, <2>1, <2>2, <2>3 DEF VmWriteMemN
<1>. QED
  BY <1>2, <1>5, <1>6, <1>8, <1>9

Width(bytes) == IF bytes = N THEN NATURAL ELSE bytes

\* Write stores as many bytes as it is told to, at any address.
LEMMA WriteStores ==
  ASSUME NEW c, IsContext(c), c.Mem \in Memories, NEW addr \in Int, NEW x \in Int,
         NEW bytes \in {1, 2, 4, 8, N}
  PROVE  Stored(c.Mem, Write(c, addr, bytes, x).Mem, addr, Width(bytes), x)
<1>. DEFINE a == Natural(addr)
            v == UInt(x, 8)
            new == CASE bytes = 1 -> VmWriteMem8(c.Mem, a, v)
                     [] bytes = 2 -> VmWriteMem16(c.Mem, a, v)
                     [] bytes = 4 -> VmWriteMem32(c.Mem, a, v)
                     [] bytes = 8 -> VmWriteMem64(c.Mem, a, v)
                     [] bytes = N -> VmWriteMemN(c.Mem, a, Natural(v))
<1>1. Write(c, addr, bytes, x).Mem = new
  <2>1. Write(c, addr, bytes, x) = [c EXCEPT !.Mem = new]
    BY Zenon DEF Write
  <2>. HIDE DEF new
  <2>. QED
    BY <2>1 DEF IsContext, Fields
<1>2. a \in Int /\ v \in Int /\ Natural(v) \in Int
  <2>1. v \in Int
    <3>1. 8 \in Nat
      OBVIOUS
    <3>2. v \in 0..Cells(8) - 1 /\ Cells(8) \in Nat
      BY <3>1, UIntType, CellsType
    <3>. QED
      BY <3>2
  <2>. HIDE DEF v
  <2>. QED
    BY <2>1, NaturalType
<1>3. Width(bytes) \in 0..8 /\ NATURAL \in 0..8 /\ NATURAL <= NATURAL /\ 8 \in Nat /\ Width(bytes) <= 8
  BY WidthAssumption DEF Width
<1>4. Stored(c.Mem, new, a, Width(bytes), v)
  <2>. HIDE DEF a, v
  <2>1. CASE bytes = N
    <3>1. new = VmWriteMemN(c.Mem, a, Natural(v)) /\ Width(bytes) = NATURAL
      BY <2>1 DEF N, Width
    <3>2. Stored(c.Mem, VmWriteMemN(c.Mem, a, Natural(v)), a, NATURAL, UInt(v, NATURAL))
      BY <1>2, WriteParts DEF Natural
    <3>3. NATURAL \in Nat
      BY <1>3
    <3>4. Stored(c.Mem, VmWriteMemN(c.Mem, a, Natural(v)), a, NATURAL, v)
      BY <1>2, <1>3, <3>2, <3>3, StoredCut
    <3>. QED
      BY <3>1, <3>4
  <2>2. CASE bytes = 1
    BY <1>2, <2>2, WriteParts DEF N, Width
  <2>3. CASE bytes = 2
    BY <1>2, <2>3, WriteParts DEF N, Width
  <2>4. CASE bytes = 4
    BY <1>2, <2>4, WriteParts DEF N, Width
  <2>5. CASE bytes = 8
    BY <1>2, <2>5, WriteParts DEF N, Width
  <2>. QED
    BY <2>1, <2>2, <2>3, <2>4, <2>5
<1>. HIDE DEF new
<1>5. Stored(c.Mem, new, addr, Width(bytes), v)
  BY <1>3, <1>4, StoredNatural
<1>6. Stored(c.Mem, new, addr, Width(bytes), x)
  BY <1>3, <1>5, StoredCut
<1>. QED
  BY <1>1, <1>6

\* What was stored is read back.
LEMMA ReadStored ==
  ASSUME NEW mem \in Memories, NEW new, NEW a \in Int, NEW len \in 0..8, NEW x \in Int,
         Stored(mem, new, a, len, x)
  PROVE  Direct(new, a, len) = UInt(x, len)
  BY ReadDigits DEF Stored

\* Read with the width of the instruction reads the bytes at the address.
LEMMA ReadIsDirect ==
  ASSUME NEW c, c.Mem \in Memories, NEW addr \in Int, NEW bytes \in {1, 2, 4, 8, N}
  PROVE  Read(c, addr, bytes) = Direct(c.Mem, addr, Width(bytes))
<1>1. CASE bytes = N
  BY <1>1, ReadWhole DEF Read, Width
<1>2. CASE bytes \in {1, 2, 4, 8}
  BY <1>2, ReadWhole DEF Read, Width, N
<1>. QED
  BY <1>1, <1>2
=============================================================================
