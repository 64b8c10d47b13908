------------------------ MODULE EbcStackTracker_proofs ------------------------
(***************************************************************************)
(* Proofs about the stack tracker, for every stack, every set of updates   *)
(* and of addresses, and every length of a program: its codes stand for    *)
(* the slots of StackSlots.                                                *)
(***************************************************************************)
EXTENDS EbcStackTracker, SequenceTheorems, NaturalsInduction, WellFoundedInduction, TLAPS

\* A set of naturals that is not empty has a least element.
LEMMA LeastExists ==
  ASSUME NEW S \in SUBSET Nat, S # {}
  PROVE  \E n \in S : \A m \in S : n <= m
<1>. DEFINE R == {ss \in Nat \X Nat : ss[1] < ss[2]}
<1>1. IsWellFoundedOn(R, Nat)
  BY NatLessThanWellFounded DEF OpToRel
<1>2. PICK n \in S : \A m \in S : <<m, n>> \notin R
  <2>. HIDE DEF R
  <2>. QED
    BY <1>1, WFMin
<1>3. ASSUME NEW m \in S PROVE n <= m
  <2>1. m \in Nat /\ n \in Nat /\ <<m, n>> \notin R
    BY <1>2, <1>3
  <2>. QED
    BY <2>1
<1>. QED
  BY <1>3

\* Induction over the naturals, for membership of a set.
LEMMA NatBySet ==
  ASSUME NEW T, 0 \in T, \A n \in Nat : n \in T => n + 1 \in T
  PROVE  \A n \in Nat : n \in T
<1>. DEFINE S == Nat \ T
<1>1. SUFFICES ASSUME S # {} PROVE FALSE
  OBVIOUS
<1>2. PICK x \in S : \A y \in S : x <= y
  <2>. HIDE DEF S
  <2>1. S \in SUBSET Nat
    BY DEF S
  <2>. QED
    BY <1>1, <2>1, LeastExists
<1>3. x \in Nat /\ x # 0
  OBVIOUS
<1>4. x - 1 \in Nat /\ x - 1 \in T
  BY <1>2, <1>3
<1>. QED
  BY <1>3, <1>4

\* The least of a set of naturals.
LEMMA MinIs ==
  ASSUME NEW S \in SUBSET Nat, S # {}
  PROVE  Min(S) \in S /\ \A y \in S : Min(S) <= y
<1>1. \E n \in S : \A m \in S : n <= m
  BY LeastExists
<1>. QED
  BY <1>1 DEF Min

\* The greatest of a set of naturals that has a bound.
LEMMA MaxIs ==
  ASSUME NEW n \in Nat, NEW S \in SUBSET (0 .. n), S # {}
  PROVE  Max(S) \in S /\ \A y \in S : y <= Max(S)
<1>. DEFINE T == {n - k : k \in S}
<1>0. \A k \in S : k \in Nat /\ n - k \in Nat
  OBVIOUS
<1>1. T \in SUBSET Nat /\ T # {}
  BY <1>0
<1>2. PICK m \in T : \A y \in T : m <= y
  <2>. HIDE DEF T
  <2>. QED
    BY <1>1, LeastExists
<1>3. PICK k \in S : m = n - k
  OBVIOUS
<1>4. ASSUME NEW y \in S PROVE k >= y
  <2>1. n - y \in T
    OBVIOUS
  <2>2. n - k <= n - y
    BY <1>2, <1>3, <2>1
  <2>. QED
    BY <1>0, <2>2
<1>5. \E y \in S : \A z \in S : y >= z
  BY <1>4
<1>6. Max(S) \in S /\ \A y \in S : Max(S) >= y
  BY <1>5 DEF Max
<1>. QED
  BY <1>0, <1>6

Steps(g, z, D, n) == g[0] = z /\ \A k \in 1 .. n : g[k] = D[k][g[k - 1]]

\* A recursion of n steps, each given as a function, has a solution.
LEMMA Recursion ==
  ASSUME NEW X, NEW z \in X, NEW n \in Nat, NEW D \in [1 .. n -> [X -> X]]
  PROVE  \E g \in [0 .. n -> X] : Steps(g, z, D, n)
<1>. DEFINE Good(g, M) == Steps(g, z, D, M)
            T == {M \in Nat : M <= n => \E g \in [0 .. M -> X] : Good(g, M)}
<1>1. 0 \in T
  <2>. DEFINE g == [k \in 0 .. 0 |-> z]
  <2>1. g \in [0 .. 0 -> X] /\ Good(g, 0)
    BY DEF Steps
  <2>. HIDE DEF g, Good
  <2>. QED
    BY <2>1
<1>2. ASSUME NEW M \in Nat, M \in T PROVE M + 1 \in T
  <2>. HIDE DEF Good
  <2>1. SUFFICES ASSUME M + 1 <= n
                 PROVE  \E g \in [0 .. M + 1 -> X] : Good(g, M + 1)
    BY <1>2
  <2>. USE DEF Good, Steps
  <2>2. PICK f \in [0 .. M -> X] : Good(f, M)
    BY <1>2, <2>1
  <2>. DEFINE g == [k \in 0 .. M + 1 |-> IF k = M + 1 THEN D[M + 1][f[M]] ELSE f[k]]
  <2>3. M + 1 \in 1 .. n /\ f[M] \in X
    BY <2>1
  <2>4. D[M + 1] \in [X -> X]
    BY <2>3
  <2>5. g \in [0 .. M + 1 -> X]
    <3>1. ASSUME NEW k \in 0 .. M + 1 PROVE g[k] \in X
      <4>1. CASE k = M + 1
        BY <2>3, <2>4, <4>1
      <4>2. CASE k \in 0 .. M
        BY <4>2
      <4>. QED
        BY <4>1, <4>2
    <3>. QED
      BY <3>1
  <2>6. g[0] = z
    BY <2>2
  <2>7. ASSUME NEW k \in 1 .. M + 1 PROVE g[k] = D[k][g[k - 1]]
    <3>1. g[k - 1] = f[k - 1]
      BY <2>7
    <3>2. CASE k = M + 1
      BY <3>1, <3>2
    <3>3. CASE k \in 1 .. M
      <4>1. g[k] = f[k]
        BY <3>3
      <4>2. f[k] = D[k][f[k - 1]]
        BY <2>2, <3>3
      <4>. QED
        BY <3>1, <4>1, <4>2
    <3>. QED
      BY <3>2, <3>3
  <2>. HIDE DEF g
  <2>. QED
    BY <2>5, <2>6, <2>7
<1>3. n \in T
  <2>. HIDE DEF T
  <2>. QED
    BY <1>1, <1>2, NatBySet
<1>. QED
  BY <1>3

-----------------------------------------------------------------------------
(* Loops whose iterations have several outcomes.                            *)

\* What one more iteration makes of the states in x, and g: of each number of them up to n.
Iterated(F, x) == UNION {F[s] : s \in x}
Iterates(g, x, F, n) ==
  /\ g[0] = x
  /\ \A k \in 1 .. n : g[k] = Iterated(F, g[k - 1])

\* A loop whose iterations have sets of outcomes is a function of their number.
LEMMA IteratesExist ==
  ASSUME NEW S, NEW x \in SUBSET S, NEW n \in Nat, NEW F \in [S -> SUBSET S]
  PROVE  \E g \in [0 .. n -> SUBSET S] : Iterates(g, x, F, n)
<1>. DEFINE X == SUBSET S
            D == [k \in 1 .. n |-> [y \in X |-> Iterated(F, y)]]
<1>1. \A y \in X : Iterated(F, y) \in X
  BY DEF Iterated
<1>2. D \in [1 .. n -> [X -> X]]
  BY <1>1
<1>3. x \in X
  OBVIOUS
<1>4. PICK g \in [0 .. n -> X] : Steps(g, x, D, n)
  <2>. HIDE DEF X, D
  <2>. QED
    BY <1>2, <1>3, Recursion
<1>5. ASSUME NEW k \in 1 .. n PROVE g[k] = Iterated(F, g[k - 1])
  <2>1. g[k] = D[k][g[k - 1]]
    <3>. HIDE DEF D
    <3>. QED
      BY <1>4 DEF Steps
  <2>2. g[k - 1] \in X
    OBVIOUS
  <2>. HIDE DEF X
  <2>. QED
    BY <2>1, <2>2
<1>6. Iterates(g, x, F, n)
  BY <1>4, <1>5 DEF Steps, Iterates
<1>. QED
  BY <1>6

Starts(x, m, n)  == \A s \in x : m[s] <= n
Takes(S, F, m)   == \A s \in S : \A u \in F[s] : m[u] < m[s] \/ m[u] = 0
NothingIn(x, m)  == \A s \in x : m[s] = 0

\* Where every iteration takes from what is left, nothing is left after as many
\* iterations as there was at first.
LEMMA IteratesEnd ==
  ASSUME NEW S, NEW x \in SUBSET S, NEW n \in Nat, NEW F \in [S -> SUBSET S],
         NEW m \in [S -> Nat], NEW g, Iterates(g, x, F, n),
         Starts(x, m, n), Takes(S, F, m)
  PROVE  g[n] \in SUBSET S /\ NothingIn(g[n], m)
<1>. DEFINE Left(k) == g[k] \in SUBSET S /\ \A s \in g[k] : m[s] = 0 \/ m[s] <= n - k
            T == {k \in Nat : k <= n => Left(k)}
<1>1. 0 \in T
  BY DEF Iterates, Starts
<1>2. ASSUME NEW k \in Nat, k \in T PROVE k + 1 \in T
  <2>1. SUFFICES ASSUME k + 1 <= n PROVE Left(k + 1)
    OBVIOUS
  <2>2. Left(k)
    BY <1>2, <2>1
  <2>3. g[k + 1] = Iterated(F, g[k])
    <3>1. k + 1 \in 1 .. n /\ (k + 1) - 1 = k
      BY <2>1
    <3>. QED
      BY <3>1 DEF Iterates
  <2>4. g[k + 1] \in SUBSET S
    BY <2>2, <2>3 DEF Iterated
  <2>5. ASSUME NEW u \in g[k + 1] PROVE m[u] = 0 \/ m[u] <= n - (k + 1)
    <3>1. PICK s \in g[k] : u \in F[s]
      BY <2>3 DEF Iterated
    <3>2. s \in S /\ u \in S /\ m[s] \in Nat /\ m[u] \in Nat
      BY <2>2, <2>4, <3>1
    <3>3. m[u] < m[s] \/ m[u] = 0
      BY <3>1, <3>2 DEF Takes
    <3>4. m[s] = 0 \/ m[s] <= n - k
      BY <2>2
    <3>. QED
      BY <3>2, <3>3, <3>4
  <2>. QED
    BY <2>4, <2>5
<1>3. n \in T
  <2>. HIDE DEF T
  <2>. QED
    BY <1>1, <1>2, NatBySet
<1>4. Left(n)
  BY <1>3
<1>5. ASSUME NEW s \in g[n] PROVE m[s] = 0
  <2>1. m[s] \in Nat
    BY <1>4
  <2>2. m[s] = 0 \/ m[s] <= n - n
    BY <1>4
  <2>. QED
    BY <2>1, <2>2
<1>. QED
  BY <1>4, <1>5 DEF NothingIn

-----------------------------------------------------------------------------
(* The slots of StackSlots: sums and sequences.                             *)

Slot == 0 .. 8
SizeOf(slot) == IF slot = 0 THEN 4 ELSE slot

\* sum[k] is the size of the first k slots of s.
Sums(sum, s) == sum[0] = 0 /\ \A k \in 1 .. Len(s) : sum[k] = sum[k - 1] + SizeOf(s[k])

LEMMA SizeIsBytes == \A slot : Abstract!Bytes(slot) = SizeOf(slot)
  BY NaturalAssumption DEF Abstract!Bytes, Abstract!NaturalSlot, SizeOf

LEMMA SizeType == \A slot \in Slot : SizeOf(slot) \in 1 .. 8
  BY DEF Slot, SizeOf

\* Sums of slots, their totals, and what one slot more adds.
LEMMA SumsExist ==
  ASSUME NEW s \in Seq(Slot)
  PROVE  \E sum \in [0 .. Len(s) -> Nat] : Sums(sum, s)
<1>. DEFINE n == Len(s)
            D == [k \in 1 .. n |-> [x \in Nat |-> x + SizeOf(s[k])]]
<1>1. n \in Nat /\ \A k \in 1 .. n : s[k] \in Slot
  OBVIOUS
<1>2. D \in [1 .. n -> [Nat -> Nat]]
  <2>1. \A k \in 1 .. n : SizeOf(s[k]) \in Nat
    BY <1>1, SizeType
  <2>. HIDE DEF n
  <2>. QED
    BY <2>1
<1>3. PICK g \in [0 .. n -> Nat] : Steps(g, 0, D, n)
  <2>. HIDE DEF n, D
  <2>. QED
    BY <1>1, <1>2, Recursion
<1>4. Sums(g, s)
  <2>1. ASSUME NEW k \in 1 .. n PROVE g[k] = g[k - 1] + SizeOf(s[k])
    <3>1. g[k] = D[k][g[k - 1]]
      <4>. HIDE DEF D
      <4>. QED
        BY <1>3 DEF Steps
    <3>2. g[k - 1] \in Nat
      BY <1>1
    <3>. HIDE DEF n
    <3>. QED
      BY <3>1, <3>2
  <2>. QED
    BY <1>3, <2>1 DEF Sums, Steps
<1>. QED
  BY <1>4

Agree(s, t, n) == /\ Len(s) \in Nat /\ Len(t) \in Nat /\ n \in 0 .. Len(s) /\ n \in 0 .. Len(t)
                  /\ \A k \in 1 .. n : s[k] = t[k]

\* Two sums agree as far as the slots do.
LEMMA SumsAgree ==
  ASSUME NEW s, NEW t, NEW n, Agree(s, t, n),
         NEW f, NEW g, Sums(f, s), Sums(g, t)
  PROVE  f[n] = g[n]
<1>. DEFINE T == {k \in Nat : k <= n => f[k] = g[k]}
<1>1. 0 \in T
  BY DEF Sums
<1>2. ASSUME NEW k \in Nat, k \in T PROVE k + 1 \in T
  <2>. SUFFICES ASSUME k + 1 <= n PROVE f[k + 1] = g[k + 1]
    OBVIOUS
  <2>1. f[k] = g[k] /\ k + 1 \in 1 .. n /\ k + 1 \in 1 .. Len(s) /\ k + 1 \in 1 .. Len(t)
        /\ (k + 1) - 1 = k /\ s[k + 1] = t[k + 1]
    BY <1>2 DEF Agree
  <2>2. f[k + 1] = f[k] + SizeOf(s[k + 1]) /\ g[k + 1] = g[k] + SizeOf(t[k + 1])
    BY <2>1 DEF Sums
  <2>. QED
    BY <2>1, <2>2
<1>. HIDE DEF T
<1>3. n \in T
  <2>1. n \in Nat
    BY DEF Agree
  <2>. QED
    BY <1>1, <1>2, <2>1, NatBySet
<1>. QED
  BY <1>3 DEF T, Agree

LEMMA TotalIs ==
  ASSUME NEW s \in Seq(Slot), NEW sum, Sums(sum, s)
  PROVE  Abstract!Total(s) = sum[Len(s)]
<1>. DEFINE n == Len(s)
            IsSum(f) == f = [k \in 0 .. n |-> IF k = 0 THEN 0
                                              ELSE f[k - 1] + Abstract!Bytes(s[k])]
            g == CHOOSE f : IsSum(f)
<1>1. PICK f \in [0 .. n -> Nat] : Sums(f, s)
  BY SumsExist
<1>2. n \in Nat
  OBVIOUS
<1>3. IsSum(f)
  <2>1. ASSUME NEW k \in 0 .. n
        PROVE  f[k] = IF k = 0 THEN 0 ELSE f[k - 1] + Abstract!Bytes(s[k])
    <3>1. CASE k = 0
      BY <1>1, <3>1 DEF Sums
    <3>2. CASE k # 0
      <4>1. k \in 1 .. n
        BY <3>2
      <4>2. f[k] = f[k - 1] + SizeOf(s[k])
        BY <1>1, <4>1 DEF Sums
      <4>. QED
        BY <3>2, <4>2, SizeIsBytes
    <3>. QED
      BY <3>1, <3>2
  <2>. HIDE DEF n
  <2>. QED
    BY <1>1, <2>1
<1>4. IsSum(g)
  <2>. HIDE DEF IsSum
  <2>. QED
    BY <1>3
<1>5. Abstract!Total(s) = g[n]
  BY Zenon DEF Abstract!Total
<1>6. Sums(g, s)
  <2>. HIDE DEF g
  <2>1. g[0] = 0
    BY <1>2, <1>4
  <2>2. ASSUME NEW k \in 1 .. n PROVE g[k] = g[k - 1] + SizeOf(s[k])
    <3>1. k \in 0 .. n /\ k # 0
      BY <1>2
    <3>. HIDE DEF n
    <3>. QED
      BY <1>4, <3>1, SizeIsBytes
  <2>. QED
    BY <2>1, <2>2 DEF Sums
<1>7. g[n] = sum[n]
  <2>1. Agree(s, s, n)
    BY DEF Agree
  <2>. HIDE DEF g, n
  <2>. QED
    BY <1>6, <2>1, SumsAgree
<1>. QED
  BY <1>5, <1>7

\* The sums of a sequence are the sizes of its prefixes, and they grow.
LEMMA SumsOfPrefixes ==
  ASSUME NEW s \in Seq(Slot)
  PROVE  \E sum \in [0 .. Len(s) -> Nat] :
           /\ Sums(sum, s)
           /\ \A k \in 0 .. Len(s) : Abstract!Total(SubSeq(s, 1, k)) = sum[k]
<1>1. PICK sum \in [0 .. Len(s) -> Nat] : Sums(sum, s)
  BY SumsExist
<1>2. ASSUME NEW k \in 0 .. Len(s) PROVE Abstract!Total(SubSeq(s, 1, k)) = sum[k]
  <2>. DEFINE t == SubSeq(s, 1, k)
  <2>1. t \in Seq(Slot) /\ Len(t) = k /\ \A i \in 1 .. k : t[i] = s[i]
    OBVIOUS
  <2>. HIDE DEF t
  <2>2. PICK f \in [0 .. Len(t) -> Nat] : Sums(f, t)
    BY <2>1, SumsExist
  <2>3. Abstract!Total(t) = f[k]
    BY <2>1, <2>2, TotalIs
  <2>4. Agree(t, s, k)
    BY <2>1 DEF Agree
  <2>6. f[k] = sum[k]
    BY <1>1, <2>2, <2>4, SumsAgree
  <2>. QED
    BY <2>3, <2>6 DEF t
<1>. QED
  BY <1>1, <1>2

LEMMA TotalEmpty == Abstract!Total(<<>>) = 0
<1>1. <<>> \in Seq(Slot) /\ Len(<<>>) = 0
  OBVIOUS
<1>2. PICK f \in [0 .. Len(<<>>) -> Nat] : Sums(f, <<>>)
  BY <1>1, SumsExist
<1>3. f[0] = 0
  BY <1>2 DEF Sums
<1>. QED
  BY <1>1, <1>2, <1>3, TotalIs

LEMMA TotalType ==
  ASSUME NEW s \in Seq(Slot)
  PROVE  Abstract!Total(s) \in Nat
<1>1. PICK f \in [0 .. Len(s) -> Nat] : Sums(f, s)
  BY SumsExist
<1>2. Abstract!Total(s) = f[Len(s)] /\ Len(s) \in 0 .. Len(s)
  BY <1>1, TotalIs
<1>. QED
  BY <1>2

LEMMA TotalAppend ==
  ASSUME NEW s \in Seq(Slot), NEW x \in Slot
  PROVE  Abstract!Total(Append(s, x)) = Abstract!Total(s) + SizeOf(x)
<1>. DEFINE t == Append(s, x)
<1>1. /\ t \in Seq(Slot) /\ Len(t) = Len(s) + 1 /\ t[Len(t)] = x
      /\ Len(s) \in Nat /\ \A i \in 1 .. Len(s) : t[i] = s[i]
  OBVIOUS
<1>. HIDE DEF t
<1>2. PICK f \in [0 .. Len(s) -> Nat] : Sums(f, s)
  BY SumsExist
<1>3. PICK g \in [0 .. Len(t) -> Nat] : Sums(g, t)
  BY <1>1, SumsExist
<1>4. Abstract!Total(s) = f[Len(s)] /\ Abstract!Total(t) = g[Len(t)]
  BY <1>1, <1>2, <1>3, TotalIs
<1>5. f[Len(s)] = g[Len(s)]
  <2>1. Agree(s, t, Len(s))
    BY <1>1 DEF Agree
  <2>. QED
    BY <1>2, <1>3, <2>1, SumsAgree
<1>6. g[Len(t)] = g[Len(s)] + SizeOf(x)
  <2>1. Len(t) \in 1 .. Len(t) /\ Len(t) - 1 = Len(s)
    BY <1>1
  <2>. QED
    BY <1>1, <1>3, <2>1 DEF Sums
<1>. QED
  BY <1>4, <1>5, <1>6 DEF t

-----------------------------------------------------------------------------
(* What Drop leaves.                                                        *)

\* The first k slots of s, and their size.
Prefix(s, k) == SubSeq(s, 1, k)
Height(s, k) == Abstract!Total(Prefix(s, k))

\* Prefixes of slots and their totals.
LEMMA HeightType ==
  ASSUME NEW s \in Seq(Slot), NEW k \in 0 .. Len(s)
  PROVE  Prefix(s, k) \in Seq(Slot) /\ Len(Prefix(s, k)) = k /\ Height(s, k) \in Nat
<1>1. Prefix(s, k) \in Seq(Slot) /\ Len(Prefix(s, k)) = k
  BY DEF Prefix
<1>. QED
  BY <1>1, TotalType DEF Height

\* A longer prefix is higher.
LEMMA HeightGrows ==
  ASSUME NEW s \in Seq(Slot), NEW j \in 0 .. Len(s), NEW k \in 0 .. Len(s), j < k
  PROVE  Height(s, j) < Height(s, k)
<1>1. PICK sum \in [0 .. Len(s) -> Nat] :
        /\ Sums(sum, s)
        /\ \A i \in 0 .. Len(s) : Abstract!Total(SubSeq(s, 1, i)) = sum[i]
  BY SumsOfPrefixes
<1>2. \A i \in 0 .. Len(s) : Height(s, i) = sum[i]
  BY <1>1 DEF Height, Prefix
<1>. DEFINE T == {i \in Nat : j < i /\ i <= Len(s) => sum[j] < sum[i]}
<1>3. 0 \in T
  OBVIOUS
<1>4. ASSUME NEW i \in Nat, i \in T PROVE i + 1 \in T
  <2>. SUFFICES ASSUME j < i + 1, i + 1 <= Len(s) PROVE sum[j] < sum[i + 1]
    OBVIOUS
  <2>1. i + 1 \in 1 .. Len(s) /\ (i + 1) - 1 = i /\ i \in 0 .. Len(s) /\ i + 1 \in 0 .. Len(s)
    OBVIOUS
  <2>2. sum[i + 1] = sum[i] + SizeOf(s[i + 1])
    BY <1>1, <2>1 DEF Sums
  <2>3. SizeOf(s[i + 1]) \in 1 .. 8 /\ sum[i] \in Nat /\ sum[j] \in Nat
    <3>1. s[i + 1] \in Slot /\ sum[i] \in Nat /\ sum[j] \in Nat
      BY <2>1
    <3>. QED
      BY ONLY <3>1, SizeType
  <2>4. j = i \/ sum[j] < sum[i]
    BY <1>4, <2>1
  <2>. QED
    BY <2>2, <2>3, <2>4
<1>5. k \in T
  <2>. HIDE DEF T
  <2>. QED
    BY <1>3, <1>4, NatBySet
<1>. QED
  BY <1>2, <1>5

\* k slots of s are kept whole when left bytes are kept.
Cut(s, left, k) == /\ k \in 0 .. Len(s) /\ Height(s, k) <= left
                   /\ k < Len(s) => left < Height(s, k + 1)

Kept(s, left, k) == Prefix(s, k) \o (IF left - Height(s, k) = 0 THEN <<>>
                                     ELSE <<left - Height(s, k)>>)

\* How many slots still fit in what is left, and what Drop makes of it.
LEMMA CutExists ==
  ASSUME NEW s \in Seq(Slot), NEW left \in Nat
  PROVE  \E k \in 0 .. Len(s) : Cut(s, left, k)
<1>. DEFINE K == {k \in 0 .. Len(s) : Height(s, k) <= left}
<1>1. Len(s) \in Nat /\ 0 \in 0 .. Len(s)
  OBVIOUS
<1>2. 0 \in K
  <2>1. Prefix(s, 0) = <<>>
    BY SubSeqEmpty, 0 < 1 DEF Prefix
  <2>. QED
    BY <1>1, <2>1, TotalEmpty DEF Height
<1>3. K \in SUBSET (0 .. Len(s)) /\ K # {}
  BY <1>2
<1>4. Max(K) \in K /\ \A y \in K : y <= Max(K)
  <2>. HIDE DEF K
  <2>. QED
    BY <1>1, <1>3, MaxIs
<1>. DEFINE k == Max(K)
<1>5. k \in 0 .. Len(s) /\ Height(s, k) <= left
  BY <1>4
<1>6. ASSUME k < Len(s) PROVE left < Height(s, k + 1)
  <2>. HIDE DEF k
  <2>1. k + 1 \in 0 .. Len(s) /\ ~ (k + 1 <= k)
    BY <1>5, <1>6
  <2>2. k + 1 \notin K
    BY <1>4, <2>1 DEF k
  <2>3. Height(s, k + 1) \in Nat
    BY <2>1, HeightType
  <2>. QED
    BY <2>1, <2>2, <2>3
<1>7. Cut(s, left, k)
  <2>. HIDE DEF k
  <2>. QED
    BY <1>5, <1>6 DEF Cut
<1>. HIDE DEF k
<1>. QED
  BY <1>5, <1>7

LEMMA DropIs ==
  ASSUME NEW s \in Seq(Slot), NEW b \in Int, NEW k, Cut(s, Abstract!Total(s) - b, k)
  PROVE  Abstract!Drop(s, b) = Kept(s, Abstract!Total(s) - b, k)
<1>. DEFINE left == Abstract!Total(s) - b
            K == {j \in 0 .. Len(s) : Height(s, j) <= left}
<1>1. left \in Int /\ Len(s) \in Nat /\ Cut(s, left, k)
  BY TotalType
<1>. HIDE DEF left
<1>2. k \in K
  BY <1>1 DEF Cut
<1>3. K \in SUBSET (0 .. Len(s)) /\ K # {}
  BY <1>2
<1>4. Max(K) \in K /\ \A y \in K : y <= Max(K)
  <2>. HIDE DEF K
  <2>. QED
    BY <1>1, <1>3, MaxIs
<1>5. Max(K) = k
  <2>. DEFINE m == Max(K)
  <2>1. m \in K /\ k <= m
    BY <1>2, <1>4
  <2>. HIDE DEF m
  <2>2. m \in 0 .. Len(s) /\ Height(s, m) <= left /\ k \in 0 .. Len(s)
    BY <1>2, <2>1
  <2>3. ASSUME k < m PROVE FALSE
    <3>1. k + 1 \in 0 .. Len(s) /\ left < Height(s, k + 1)
      BY <1>1, <2>2, <2>3 DEF Cut
    <3>2. Height(s, k + 1) <= Height(s, m)
      <4>1. Height(s, k + 1) \in Nat /\ Height(s, m) \in Nat
        BY <2>2, <3>1, HeightType
      <4>2. CASE k + 1 = m
        BY <4>1, <4>2
      <4>3. CASE k + 1 < m
        BY <2>2, <3>1, <4>1, <4>3, HeightGrows
      <4>. QED
        BY <2>2, <2>3, <4>2, <4>3
    <3>. QED
      BY <1>1, <2>2, <3>1, <3>2, HeightType
  <2>4. m = k
    BY <2>1, <2>2, <2>3
  <2>. QED
    BY <2>4 DEF m
<1>6. K = {j \in 0 .. Len(s) : Abstract!Total(SubSeq(s, 1, j)) <= left}
  BY DEF Height, Prefix
<1>7. Abstract!Drop(s, b) = Kept(s, left, Max(K))
  <2>. HIDE DEF K
  <2>1. Abstract!Max(K) = Max(K)
    BY Zenon DEF Abstract!Max, Max
  <2>. QED
    BY <1>6, <2>1, Zenon DEF Abstract!Drop, Kept, Height, Prefix, left
<1>. QED
  BY <1>5, <1>7 DEF left

\* A slot more, or none less.
LEMMA AppendPrefix ==
  ASSUME NEW s \in Seq(Slot), NEW x \in Slot
  PROVE  /\ Append(s, x) \in Seq(Slot) /\ Len(Append(s, x)) = Len(s) + 1
         /\ Len(s) \in Nat
         /\ \A k \in 0 .. Len(s) : Prefix(Append(s, x), k) = Prefix(s, k)
         /\ Prefix(s, Len(s)) = s /\ Prefix(Append(s, x), Len(s) + 1) = Append(s, x)
<1>1. Append(s, x) \in Seq(Slot) /\ Len(Append(s, x)) = Len(s) + 1 /\ Len(s) \in Nat
  OBVIOUS
<1>2. Prefix(s, Len(s)) = s /\ Prefix(Append(s, x), Len(s) + 1) = Append(s, x)
  BY <1>1, SubSeqFull DEF Prefix
<1>3. ASSUME NEW k \in 0 .. Len(s) PROVE Prefix(Append(s, x), k) = Prefix(s, k)
  <2>. DEFINE f == Prefix(Append(s, x), k)
              g == Prefix(s, k)
  <2>1. f \in Seq(Slot) /\ g \in Seq(Slot) /\ Len(f) = k /\ Len(g) = k
    BY <1>1 DEF Prefix
  <2>2. \A i \in 1 .. k : f[i] = g[i]
    BY <1>1 DEF Prefix
  <2>. HIDE DEF f, g
  <2>3. f = g
    BY <2>1, <2>2, SeqEqual
  <2>. QED
    BY <2>3 DEF f, g
<1>. QED
  BY <1>1, <1>2, <1>3

LEMMA DropNothing ==
  ASSUME NEW s \in Seq(Slot)
  PROVE  Abstract!Drop(s, 0) = s
<1>1. Len(s) \in 0 .. Len(s) /\ Prefix(s, Len(s)) = s
  BY SubSeqFull DEF Prefix
<1>2. Height(s, Len(s)) = Abstract!Total(s) /\ Abstract!Total(s) \in Nat
  BY <1>1, TotalType DEF Height
<1>3. Cut(s, Abstract!Total(s) - 0, Len(s))
  BY <1>1, <1>2 DEF Cut
<1>4. Abstract!Drop(s, 0) = Kept(s, Abstract!Total(s) - 0, Len(s))
  BY <1>3, DropIs
<1>5. Kept(s, Abstract!Total(s) - 0, Len(s)) = s \o <<>>
  BY <1>1, <1>2 DEF Kept
<1>. QED
  BY <1>4, <1>5, ConcatEmptySeq

\* The newest slot goes whole.
LEMMA DropWhole ==
  ASSUME NEW s \in Seq(Slot), NEW x \in Slot, NEW b \in Nat,
         SizeOf(x) <= b, b <= Abstract!Total(Append(s, x))
  PROVE  Abstract!Drop(Append(s, x), b) = Abstract!Drop(s, b - SizeOf(x))
<1>. DEFINE t == Append(s, x)
            left == Abstract!Total(t) - b
<1>1. /\ Abstract!Total(t) = Abstract!Total(s) + SizeOf(x) /\ SizeOf(x) \in 1 .. 8
      /\ Abstract!Total(s) \in Nat
  BY TotalAppend, TotalType, SizeType
<1>2. left \in Nat /\ left = Abstract!Total(s) - (b - SizeOf(x)) /\ left < Abstract!Total(t)
  BY <1>1
<1>3. PICK k \in 0 .. Len(s) : Cut(s, left, k)
  <2>. HIDE DEF left
  <2>. QED
    BY <1>2, CutExists
<1>4. /\ t \in Seq(Slot) /\ Len(t) = Len(s) + 1 /\ Len(s) \in Nat
      /\ \A j \in 0 .. Len(s) : Height(t, j) = Height(s, j)
      /\ Height(t, Len(s) + 1) = Abstract!Total(t)
      /\ Prefix(t, k) = Prefix(s, k)
  BY AppendPrefix DEF Height
<1>. HIDE DEF t, left
<1>5. Cut(t, left, k)
  <2>1. CASE k = Len(s)
    BY <1>2, <1>3, <1>4, <2>1 DEF Cut
  <2>2. CASE k < Len(s)
    <3>1. k + 1 \in 0 .. Len(s)
      BY <2>2
    <3>. QED
      BY <1>3, <1>4, <2>2, <3>1 DEF Cut
  <2>. QED
    BY <1>4, <2>1, <2>2
<1>6. Abstract!Drop(t, b) = Kept(t, left, k)
  BY <1>4, <1>5, DropIs DEF left
<1>7. Abstract!Drop(s, b - SizeOf(x)) = Kept(s, left, k)
  <2>1. b - SizeOf(x) \in Int
    BY <1>1
  <2>. QED
    BY <1>2, <1>3, <2>1, DropIs
<1>8. Kept(t, left, k) = Kept(s, left, k)
  BY <1>4 DEF Kept
<1>. QED
  BY <1>6, <1>7, <1>8 DEF t

\* The newest slot goes in part.
LEMMA DropPart ==
  ASSUME NEW s \in Seq(Slot), NEW x \in Slot, NEW b \in Nat, 0 < b, b < SizeOf(x)
  PROVE  Abstract!Drop(Append(s, x), b) = Append(s, SizeOf(x) - b)
<1>. DEFINE t == Append(s, x)
            left == Abstract!Total(t) - b
<1>1. /\ Abstract!Total(t) = Abstract!Total(s) + SizeOf(x) /\ SizeOf(x) \in 1 .. 8
      /\ Abstract!Total(s) \in Nat
  BY TotalAppend, TotalType, SizeType
<1>2. /\ t \in Seq(Slot) /\ Len(t) = Len(s) + 1 /\ Len(s) \in Nat
      /\ Height(t, Len(s)) = Abstract!Total(s)
      /\ Height(t, Len(s) + 1) = Abstract!Total(t)
      /\ Prefix(t, Len(s)) = s
  <2>1. Len(s) \in 0 .. Len(s)
    OBVIOUS
  <2>. QED
    BY <2>1, AppendPrefix DEF Height
<1>. HIDE DEF t
<1>3. Cut(t, left, Len(s))
  BY <1>1, <1>2 DEF Cut
<1>4. Abstract!Drop(t, b) = Kept(t, left, Len(s))
  BY <1>2, <1>3, DropIs
<1>5. left - Height(t, Len(s)) = SizeOf(x) - b /\ SizeOf(x) - b # 0 /\ SizeOf(x) - b \in Slot
  <2>. DEFINE total == Abstract!Total(s)
              size  == SizeOf(x)
  <2>0. total \in Nat /\ size \in 1 .. 8 /\ b \in Int
    BY <1>1
  <2>. HIDE DEF total, size
  <2>3. ((total + size) - b) - total = size - b
    BY <2>0
  <2>1. left - Height(t, Len(s)) = SizeOf(x) - b
    BY <1>1, <1>2, <2>3 DEF total, size
  <2>2. SizeOf(x) - b # 0 /\ SizeOf(x) - b \in 0 .. 8
    BY <1>1, SMTT(20)
  <2>. QED
    BY <2>1, <2>2 DEF Slot
<1>6. Kept(t, left, Len(s)) = s \o <<SizeOf(x) - b>>
  <2>. HIDE DEF left
  <2>. QED
    BY <1>2, <1>5 DEF Kept
<1>7. Append(s, SizeOf(x) - b) = s \o <<SizeOf(x) - b>>
  BY <1>5, AppendIsConcat
<1>. QED
  BY <1>4, <1>6, <1>7 DEF t

\* Arithmetic of what is left of a slot.
LEMMA PartIs ==
  ASSUME NEW x \in 1 .. 8, NEW d \in Nat, 0 < d, d < x
  PROVE  x - d \in 1 .. 7 /\ (x - d) + d = x
OBVIOUS

LEMMA Remaining ==
  ASSUME NEW x \in 1 .. 8, NEW y \in 1 .. 7, NEW d \in Nat, NEW b \in Nat, NEW h \in Nat,
         y + d = x, x <= b, b <= h + x
  PROVE  b - d \in Nat /\ y <= b - d /\ (b - d) - y = b - x /\ b - d <= h + y
OBVIOUS

\* A slot may go piece by piece.
LEMMA DropPieces ==
  ASSUME NEW s \in Seq(Slot), NEW x \in Slot, NEW d \in Nat, NEW b \in Nat,
         0 < d, d < SizeOf(x), d <= b, b <= Abstract!Total(Append(s, x))
  PROVE  /\ SizeOf(x) - d \in 1 .. 7 /\ SizeOf(SizeOf(x) - d) = SizeOf(x) - d
         /\ Abstract!Drop(Append(s, SizeOf(x) - d), b - d) = Abstract!Drop(Append(s, x), b)
<1>1. SizeOf(x) \in 1 .. 8 /\ Abstract!Total(s) \in Nat
  BY SizeType, TotalType
<1>0. \E y \in 1 .. 7 : y + d = SizeOf(x)
  <2>1. SizeOf(x) - d \in 1 .. 7 /\ (SizeOf(x) - d) + d = SizeOf(x)
    BY <1>1, PartIs
  <2>. QED
    BY <2>1
<1>2. PICK y \in Slot : y \in 1 .. 7 /\ SizeOf(y) = y /\ y + d = SizeOf(x)
  <2>1. \A z \in 1 .. 7 : z \in Slot /\ SizeOf(z) = z
    BY DEF Slot, SizeOf
  <2>. QED
    BY <1>0, <2>1
<1>3. /\ Abstract!Total(Append(s, x)) = Abstract!Total(s) + SizeOf(x)
      /\ Abstract!Total(Append(s, y)) = Abstract!Total(s) + y
  BY <1>2, TotalAppend
<1>4. CASE b = d
  <2>1. Append(s, y) \in Seq(Slot)
    BY <1>2
  <2>2. Abstract!Drop(Append(s, y), b - d) = Append(s, y)
    <3>1. b - d = 0
      BY <1>4
    <3>. QED
      BY <2>1, <3>1, DropNothing
  <2>3. Abstract!Drop(Append(s, x), b) = Append(s, y)
    <3>1. 0 < b /\ b < SizeOf(x) /\ SizeOf(x) - b = y
      BY <1>2, <1>4
    <3>2. Abstract!Drop(Append(s, x), b) = Append(s, SizeOf(x) - b)
      BY <3>1, DropPart
    <3>. QED
      BY <3>1, <3>2
  <2>. QED
    BY <1>2, <2>2, <2>3
<1>5. CASE d < b /\ b < SizeOf(x)
  <2>1. b - d \in Nat /\ 0 < b - d /\ b - d < SizeOf(y) /\ SizeOf(y) - (b - d) = SizeOf(x) - b
    BY <1>1, <1>2, <1>5
  <2>2. Abstract!Drop(Append(s, y), b - d) = Append(s, SizeOf(y) - (b - d))
    BY <1>2, <2>1, DropPart
  <2>3. Abstract!Drop(Append(s, x), b) = Append(s, SizeOf(x) - b)
    BY <1>5, DropPart
  <2>. QED
    BY <1>2, <2>1, <2>2, <2>3, SMTT(20)
<1>6. CASE SizeOf(x) <= b
  <2>1. /\ b - d \in Nat /\ SizeOf(y) <= b - d /\ b - d <= Abstract!Total(Append(s, y))
        /\ (b - d) - SizeOf(y) = b - SizeOf(x)
    <3>2. b <= Abstract!Total(s) + SizeOf(x)
      BY <1>3
    <3>3. b - d \in Nat /\ y <= b - d /\ (b - d) - y = b - SizeOf(x) /\ b - d <= Abstract!Total(s) + y
      BY <1>1, <1>2, <1>6, <3>2, Remaining
    <3>. QED
      BY <1>2, <1>3, <3>3
  <2>2. Abstract!Drop(Append(s, y), b - d) = Abstract!Drop(s, (b - d) - SizeOf(y))
    BY <1>2, <2>1, DropWhole
  <2>3. Abstract!Drop(Append(s, x), b) = Abstract!Drop(s, b - SizeOf(x))
    BY <1>6, DropWhole
  <2>. QED
    BY <1>2, <2>1, <2>2, <2>3
<1>. QED
  BY <1>1, <1>4, <1>5, <1>6

-----------------------------------------------------------------------------
(* Trackers and what is added to them.                                      *)

Buffer(n) == [0 .. 4 * n - 1 -> 0 .. 3]
Buffers   == UNION {Buffer(n) : n \in Nat}
Statuses  == {"SUCCESS", "OUT_OF_RESOURCES", "UNSUPPORTED"}

Trackers == [Data : Buffers, Size : Nat, Index : Int, OrgIndex : Nat,
             OrgStackPointer : Int, junk : 0 .. 3, Status : Statuses]

\* A tracker that works, and one whose buffer could not be reallocated.
Buffered(t) ==
  /\ t \in Trackers /\ Ok(t)
  /\ t.Data \in Buffer(t.Size) /\ t.Size >= STACK_TRACKER_SIZE
  /\ t.Index \in 0 .. 4 * t.Size /\ t.OrgIndex \in 0 .. 4 * t.Size
Failed(t) == t \in Trackers /\ t.Status = "OUT_OF_RESOURCES"

\* Nothing but the codes from i on has changed.
SameBelow(u, t, i) ==
  /\ u.OrgIndex = t.OrgIndex /\ u.OrgStackPointer = t.OrgStackPointer /\ u.junk = t.junk
  /\ \A k \in 0 .. i - 1 : u.Data[k] = t.Data[k]

\* u has more codes than t, and room for at most four times as many.
Extends(u, t) ==
  /\ Buffered(u) /\ SameBelow(u, t, t.Index)
  /\ t.Index < u.Index /\ (u.Size <= t.Size \/ u.Size <= 2 * u.Index)

\* A reallocation fails, or leaves the codes where they were.
LEMMA FailedIs ==
  ASSUME NEW t, t \in Trackers
  PROVE  Failed(NotReallocated(t)) /\ ~ Ok(NotReallocated(t))
<1>1. <<>> \in Buffers
  <2>1. <<>> \in [1 .. 0 -> 0 .. 3]
    OBVIOUS
  <2>2. 1 .. 0 = 0 .. 4 * 0 - 1
    OBVIOUS
  <2>3. <<>> \in Buffer(0)
    BY <2>1, <2>2 DEF Buffer
  <2>. QED
    BY <2>3 DEF Buffers
<1>. QED
  BY <1>1 DEF NotReallocated, NULL, Failed, Trackers, Statuses, Ok

\* The buffer has room for four codes a byte, from the beginning.
LEMMA TrackerSize == STACK_TRACKER_SIZE \in Nat /\ STACK_TRACKER_SIZE >= 4
BY PoolAssumption DEF STACK_TRACKER_SIZE

LEMMA BufferedIs ==
  ASSUME NEW t, Buffered(t)
  PROVE  t.Size \in Nat /\ t.Size >= 4
BY TrackerSize DEF Buffered, Trackers

LEMMA BufferIsOne ==
  ASSUME NEW n \in Nat, NEW d \in Buffer(n)
  PROVE  d \in Buffers
BY DEF Buffers

LEMMA ReallocateIs ==
  ASSUME NEW t, Buffered(t), NEW size \in Nat, t.Size <= size, NEW u \in Reallocate(t, size)
  PROVE  \/ Failed(u) /\ ~ Ok(u)
         \/ /\ Buffered(u) /\ u.Size = size /\ u.Index = t.Index
            /\ SameBelow(u, t, 4 * t.Size)
<1>. DEFINE d == [i \in 0 .. 4 * size - 1 |-> IF i \in DOMAIN t.Data THEN t.Data[i] ELSE t.junk]
            v == [t EXCEPT !.Size = size, !.Data = d]
<1>1. u = NotReallocated(t) \/ u = v
  BY DEF Reallocate
<1>2. t \in Trackers /\ t.Size \in Nat /\ t.Data \in Buffer(t.Size) /\ t.junk \in 0 .. 3
  BY DEF Buffered, Trackers
<1>3. DOMAIN t.Data = 0 .. 4 * t.Size - 1 /\ \A i \in 0 .. 4 * t.Size - 1 : t.Data[i] \in 0 .. 3
  BY <1>2 DEF Buffer
<1>4. d \in Buffer(size) /\ \A i \in 0 .. 4 * t.Size - 1 : d[i] = t.Data[i]
  BY <1>2, <1>3 DEF Buffer
<1>. HIDE DEF d
<1>5. d \in Buffers
  BY <1>4, BufferIsOne
<1>6. /\ v \in Trackers /\ v.Data = d /\ v.Size = size /\ v.Index = t.Index
      /\ v.OrgIndex = t.OrgIndex /\ v.OrgStackPointer = t.OrgStackPointer /\ v.junk = t.junk
      /\ v.Status = t.Status
  BY <1>2, <1>5 DEF Trackers
<1>7. Buffered(v) /\ SameBelow(v, t, 4 * t.Size)
  <2>. HIDE DEF v
  <2>. QED
    BY TrackerSize, <1>2, <1>4, <1>6 DEF Buffered, SameBelow, Ok
<1>. QED
  BY <1>1, <1>2, <1>6, <1>7, FailedIs

\* One code more goes behind the others.
LEMMA AddCodeIs ==
  ASSUME NEW t, Buffered(t), NEW code \in 0 .. 3, NEW u \in AddCode(t, code)
  PROVE  \/ Failed(u) /\ ~ Ok(u)
         \/ Extends(u, t) /\ u.Index = t.Index + 1 /\ u.Data[t.Index] = code
<1>1. t \in Trackers /\ t.Size \in Nat /\ t.Size >= 4 /\ t.Index \in 0 .. 4 * t.Size /\ Ok(t)
  BY BufferedIs DEF Buffered, Trackers
<1>2. PICK v \in IF t.Index \div 4 >= t.Size THEN Reallocate(t, 2 * t.Size) ELSE {t} :
        u = IF Ok(v) THEN Coded(v, code) ELSE v
  BY DEF AddCode
<1>3. \/ Failed(v) /\ ~ Ok(v)
      \/ /\ Buffered(v) /\ v.Index = t.Index /\ t.Index < 4 * v.Size
         /\ SameBelow(v, t, t.Index) /\ (v.Size <= t.Size \/ v.Size <= 2 * (t.Index + 1))
  <2>1. CASE t.Index \div 4 >= t.Size
    <3>1. t.Index = 4 * t.Size
      BY <1>1, <2>1
    <3>2. v \in Reallocate(t, 2 * t.Size) /\ 2 * t.Size \in Nat /\ t.Size <= 2 * t.Size
      BY <1>1, <1>2, <2>1
    <3>3. \/ Failed(v) /\ ~ Ok(v)
          \/ /\ Buffered(v) /\ v.Size = 2 * t.Size /\ v.Index = t.Index
             /\ SameBelow(v, t, 4 * t.Size)
      BY <3>2, ReallocateIs
    <3>. QED
      BY <1>1, <3>1, <3>3
  <2>2. CASE ~ (t.Index \div 4 >= t.Size)
    <3>1. v = t /\ t.Index < 4 * t.Size
      BY <1>1, <1>2, <2>2
    <3>. QED
      BY <1>1, <3>1 DEF SameBelow
  <2>. QED
    BY <2>1, <2>2
<1>4. CASE Failed(v) /\ ~ Ok(v)
  BY <1>2, <1>4
<1>5. CASE /\ Buffered(v) /\ v.Index = t.Index /\ t.Index < 4 * v.Size
           /\ SameBelow(v, t, t.Index) /\ (v.Size <= t.Size \/ v.Size <= 2 * (t.Index + 1))
  <2>. DEFINE d == [i \in DOMAIN v.Data |->
                      IF i = v.Index THEN code
                      ELSE IF i > v.Index /\ i \div 4 = v.Index \div 4 THEN 0 ELSE v.Data[i]]
              w == [v EXCEPT !.Index = v.Index + 1, !.Data = d]
  <2>1. /\ v \in Trackers /\ v.Size \in Nat /\ v.Data \in Buffer(v.Size)
        /\ v.Index \in 0 .. 4 * v.Size - 1
    BY <1>5 DEF Buffered, Trackers
  <2>2. d \in Buffer(v.Size) /\ d[v.Index] = code /\ \A i \in 0 .. v.Index - 1 : d[i] = v.Data[i]
    <3>1. DOMAIN v.Data = 0 .. 4 * v.Size - 1 /\ \A i \in 0 .. 4 * v.Size - 1 : v.Data[i] \in 0 .. 3
      BY <2>1 DEF Buffer
    <3>2. d \in Buffer(v.Size)
      BY <3>1 DEF Buffer
    <3>3. \A i \in 0 .. v.Index - 1 : i \in DOMAIN v.Data /\ i # v.Index /\ ~ (i > v.Index)
      BY <2>1, <3>1
    <3>. QED
      BY <2>1, <3>1, <3>2, <3>3
  <2>3. u = w
    BY <1>2, <1>5, Zenon DEF Coded, Buffered
  <2>. HIDE DEF d
  <2>4. /\ w \in Trackers /\ w.Data = d /\ w.Size = v.Size /\ w.Index = v.Index + 1
        /\ w.OrgIndex = v.OrgIndex /\ w.OrgStackPointer = v.OrgStackPointer
        /\ w.junk = v.junk /\ w.Status = v.Status
    <3>1. d \in Buffers
      BY <2>1, <2>2, BufferIsOne
    <3>2. v.Index + 1 \in Int
      BY <2>1
    <3>. QED
      BY <2>1, <3>1, <3>2 DEF Trackers
  <2>. HIDE DEF w
  <2>5. Buffered(w)
    BY <1>5, <2>1, <2>2, <2>4 DEF Buffered, Ok
  <2>6. SameBelow(w, t, t.Index)
    BY <1>5, <2>2, <2>4 DEF SameBelow
  <2>. QED
    BY <1>1, <1>5, <2>1, <2>2, <2>3, <2>4, <2>5, <2>6 DEF Extends
<1>. QED
  BY <1>3, <1>4, <1>5

\* One code more is one entry of a natural or of eight bytes, two are one of fewer.
\* v is a slot: what the code calls the entry is Shown(v).
Shown(v) == CASE v = 0 -> 8 [] v = 8 -> 0 [] OTHER -> v

At(d, i, j, v) ==
  \/ v = 0 /\ j = i + 1 /\ d[i] = 1
  \/ v = 8 /\ j = i + 1 /\ d[i] = 0
  \/ v \in 1 .. 7 /\ j = i + 2 /\ d[i] = v % 4 /\ d[i + 1] = 2 + v \div 4

LEMMA AddEntryIs ==
  ASSUME NEW t, Buffered(t), NEW v \in Slot, NEW u \in AddStackTrackerEntry(t, Shown(v))
  PROVE  \/ Failed(u) /\ ~ Ok(u)
         \/ Extends(u, t) /\ At(u.Data, t.Index, u.Index, v)
<1>. DEFINE code == IF Shown(v) = 8 THEN 1 ELSE Shown(v) % 4
<1>1. /\ t.Index \in Nat /\ t.Size \in Nat /\ v \in 0 .. 8
  BY DEF Buffered, Trackers, Slot
<1>2. /\ code \in 0 .. 3
      /\ v = 0 => code = 1
      /\ v = 8 => code = 0
      /\ v \in 1 .. 7 => code = v % 4
      /\ Shown(v) \in 1 .. 7 <=> v \in 1 .. 7
      /\ v \in 1 .. 7 => Shown(v) = v
  BY <1>1 DEF Shown
<1>. HIDE DEF code
<1>3. PICK x \in AddCode(t, code) :
        u \in IF Ok(x) /\ Shown(v) \in 1 .. 7 THEN AddCode(x, 2 + Shown(v) \div 4) ELSE {x}
  BY DEF AddStackTrackerEntry, code
<1>4. \/ Failed(x) /\ ~ Ok(x)
      \/ Extends(x, t) /\ x.Index = t.Index + 1 /\ x.Data[t.Index] = code
  BY <1>2, AddCodeIs
<1>5. CASE Failed(x) /\ ~ Ok(x)
  BY <1>3, <1>5
<1>6. CASE Extends(x, t) /\ x.Index = t.Index + 1 /\ x.Data[t.Index] = code
  <2>0. Buffered(x) /\ Ok(x) /\ x.Size \in Nat
    BY <1>6 DEF Extends, Buffered, Trackers
  <2>1. CASE v \in 1 .. 7
    <3>1. u \in AddCode(x, 2 + v \div 4) /\ 2 + v \div 4 \in 0 .. 3
      BY <1>2, <1>3, <2>0, <2>1
    <3>2. \/ Failed(u) /\ ~ Ok(u)
          \/ /\ Extends(u, x) /\ u.Index = x.Index + 1 /\ u.Data[x.Index] = 2 + v \div 4
      BY <2>0, <3>1, AddCodeIs
    <3>3. ASSUME Extends(u, x), u.Index = x.Index + 1, u.Data[x.Index] = 2 + v \div 4
          PROVE  Extends(u, t) /\ At(u.Data, t.Index, u.Index, v)
      <4>1. u.Size \in Nat /\ u.Index = t.Index + 2
        BY <1>1, <1>6, <3>3 DEF Extends, Buffered, Trackers
      <4>2. SameBelow(u, t, t.Index) /\ u.Data[t.Index] = x.Data[t.Index]
        <5>1. \A k \in 0 .. t.Index : k \in 0 .. x.Index - 1
          BY <1>1, <1>6
        <5>2. \A k \in 0 .. t.Index : u.Data[k] = x.Data[k]
          BY <3>3, <5>1 DEF Extends, SameBelow
        <5>. QED
          BY <1>1, <1>6, <3>3, <5>2 DEF Extends, SameBelow
      <4>3. Extends(u, t)
        BY <1>1, <1>6, <2>0, <3>3, <4>1, <4>2 DEF Extends
      <4>4. At(u.Data, t.Index, u.Index, v)
        BY <1>1, <1>2, <1>6, <2>1, <3>3, <4>1, <4>2 DEF At
      <4>. QED
        BY <4>3, <4>4
    <3>. QED
      BY <3>2, <3>3
  <2>2. CASE v \in {0, 8}
    <3>1. u = x
      BY <1>2, <1>3, <2>2
    <3>. QED
      BY <1>2, <1>6, <2>2, <3>1 DEF At
  <2>. QED
    BY <1>1, <2>1, <2>2
<1>. QED
  BY <1>4, <1>5, <1>6

\* The sizes that are tried, doubled, come above the index.
LEMMA NewSizeIs ==
  ASSUME NEW size \in Nat, size > 0, NEW updated \in Nat
  PROVE  /\ NewSize(size, updated) \in Nat /\ NewSize(size, updated) > updated
         /\ NewSize(size, updated) >= 2 * size
         /\ NewSize(size, updated) = 2 * size \/ NewSize(size, updated) <= 2 * updated
<1>. DEFINE IsGrown(f) == f = [s \in Nat |-> IF s > updated THEN s ELSE f[2 * s]]
            Grown(f, n) == \A s \in Nat : s > n /\ s > 0 =>
                             f[s] = IF s > updated THEN s ELSE f[2 * s]
            T == {n \in Nat : \E f \in [Nat -> Nat] : Grown(f, updated - n)}
            g == CHOOSE f : IsGrown(f)
<1>1. 0 \in T
  <2>. DEFINE f == [s \in Nat |-> s]
  <2>1. f \in [Nat -> Nat] /\ Grown(f, updated - 0)
    OBVIOUS
  <2>. HIDE DEF f, Grown
  <2>. QED
    BY <2>1
<1>2. ASSUME NEW n \in Nat, n \in T PROVE n + 1 \in T
  <2>. HIDE DEF Grown
  <2>1. PICK f \in [Nat -> Nat] : Grown(f, updated - n)
    BY <1>2
  <2>. DEFINE m == updated - n
              h == [s \in Nat |-> IF s = m THEN f[2 * m] ELSE f[s]]
  <2>2. h \in [Nat -> Nat]
    OBVIOUS
  <2>3. ASSUME NEW s \in Nat, s > m - 1, s > 0
        PROVE  h[s] = IF s > updated THEN s ELSE h[2 * s]
    <3>1. 2 * s \in Nat /\ 2 * s # m
      BY <2>3
    <3>2. h[2 * s] = f[2 * s]
      BY <3>1
    <3>3. CASE s = m
      BY <3>2, <3>3
    <3>4. CASE s > m
      <4>1. f[s] = IF s > updated THEN s ELSE f[2 * s]
        BY <2>1, <2>3, <3>4 DEF Grown
      <4>. QED
        BY <3>2, <3>4, <4>1
    <3>. QED
      BY <2>3, <3>3, <3>4
  <2>4. Grown(h, updated - (n + 1))
    <3>1. m - 1 = updated - (n + 1)
      OBVIOUS
    <3>. HIDE DEF h, m
    <3>. QED
      BY <2>3, <3>1 DEF Grown
  <2>. HIDE DEF h
  <2>. QED
    BY <2>2, <2>4
<1>3. updated \in T
  <2>. HIDE DEF T
  <2>. QED
    BY <1>1, <1>2, NatBySet
<1>4. PICK f \in [Nat -> Nat] : Grown(f, 0)
  <2>. HIDE DEF Grown
  <2>1. PICK f \in [Nat -> Nat] : Grown(f, updated - updated)
    BY <1>3
  <2>2. updated - updated = 0
    OBVIOUS
  <2>. QED
    BY <2>1, <2>2
<1>5. IsGrown(f)
  <2>1. ASSUME NEW s \in Nat PROVE f[s] = IF s > updated THEN s ELSE f[2 * s]
    <3>1. CASE s = 0
      BY <3>1
    <3>2. CASE s > 0
      BY <1>4, <3>2
    <3>. QED
      BY <3>1, <3>2
  <2>. QED
    BY <2>1
<1>6. IsGrown(g)
  <2>. HIDE DEF IsGrown
  <2>. QED
    BY <1>5
<1>7. NewSize(size, updated) = g[2 * size]
  BY Zenon DEF NewSize
<1>8. \A s \in Nat : g[s] = IF s > updated THEN s ELSE g[2 * s]
  <2>. HIDE DEF g
  <2>. QED
    BY <1>6
<1>. HIDE DEF g
\* What is reached from a size is above the index, and not above twice it if the size is not.
<1>. DEFINE Good(s) == g[s] \in Nat /\ g[s] > updated /\ g[s] >= s /\ (g[s] = s \/ g[s] <= 2 * updated)
            U == {n \in Nat : \A s \in Nat : s > 0 /\ s > updated - n => Good(s)}
<1>9. 0 \in U
  <2>1. ASSUME NEW s \in Nat, s > updated PROVE Good(s)
    BY <1>8, <2>1
  <2>. HIDE DEF Good
  <2>. QED
    BY <2>1
<1>10. ASSUME NEW n \in Nat, n \in U PROVE n + 1 \in U
  <2>1. SUFFICES ASSUME NEW s \in Nat, s > 0, s > updated - (n + 1) PROVE Good(s)
    <3>. HIDE DEF Good
    <3>. QED
      OBVIOUS
  <2>2. CASE s > updated
    BY <1>8, <2>2
  <2>3. CASE s <= updated
    <3>1. 2 * s \in Nat /\ 2 * s > 0 /\ 2 * s > updated - n
      BY <2>1
    <3>2. Good(2 * s)
      <4>. HIDE DEF Good
      <4>. QED
        BY <1>10, <3>1
    <3>3. g[s] = g[2 * s]
      BY <1>8, <2>3
    <3>. QED
      BY <2>3, <3>1, <3>2, <3>3
  <2>. QED
    BY <2>2, <2>3
<1>11. updated \in U
  <2>. HIDE DEF U
  <2>. QED
    BY <1>9, <1>10, NatBySet
<1>12. Good(2 * size)
  <2>1. 2 * size \in Nat /\ 2 * size > 0 /\ 2 * size > updated - updated
    OBVIOUS
  <2>. HIDE DEF Good
  <2>. QED
    BY <1>11, <2>1
<1>. QED
  BY <1>7, <1>12

\* A block of codes.
LEMMA AddBlockIs ==
  ASSUME NEW t, Buffered(t), NEW code \in 0 .. 3, NEW count \in Nat, count > 0,
         NEW u \in AddStackTrackerBytes(t, code, count)
  PROVE  \/ Failed(u) /\ ~ Ok(u)
         \/ /\ Extends(u, t) /\ u.Index = t.Index + 4 * count
            /\ \A i \in t.Index .. u.Index - 1 : u.Data[i] = code
<1>. DEFINE updated == t.Index + 4 * count
            Filled(v) == [v EXCEPT !.Index = updated,
                                   !.Data  = [i \in DOMAIN @ |-> IF i \in t.Index .. updated - 1
                                                                 THEN code ELSE @[i]]]
<1>1. t \in Trackers /\ t.Size \in Nat /\ t.Size >= 4 /\ t.Index \in 0 .. 4 * t.Size /\ Ok(t)
  BY BufferedIs DEF Buffered, Trackers
<1>2. updated \in Nat /\ updated > t.Index
  BY <1>1
<1>3. PICK v \in IF updated >= t.Size THEN Reallocate(t, NewSize(t.Size, updated)) ELSE {t} :
        u = IF Ok(v) THEN Filled(v) ELSE v
  BY Zenon DEF AddStackTrackerBytes
<1>. HIDE DEF updated
<1>4. \/ Failed(v) /\ ~ Ok(v)
      \/ /\ Buffered(v) /\ v.Index = t.Index /\ updated < v.Size
         /\ SameBelow(v, t, t.Index) /\ (v.Size <= t.Size \/ v.Size <= 2 * updated)
  <2>1. CASE updated >= t.Size
    <3>1. v \in Reallocate(t, NewSize(t.Size, updated))
      BY <1>3, <2>1
    <3>. DEFINE size == NewSize(t.Size, updated)
    <3>2. /\ size \in Nat /\ size > updated /\ size >= 2 * t.Size
          /\ size = 2 * t.Size \/ size <= 2 * updated
      <4>1. t.Size > 0
        BY <1>1
      <4>. QED
        BY <1>1, <1>2, <4>1, NewSizeIs
    <3>. HIDE DEF size
    <3>3. t.Size <= size /\ size <= 2 * updated
      BY <1>1, <1>2, <2>1, <3>2
    <3>4. \/ Failed(v) /\ ~ Ok(v)
          \/ /\ Buffered(v) /\ v.Size = size /\ v.Index = t.Index
             /\ SameBelow(v, t, 4 * t.Size)
      BY <3>1, <3>2, <3>3, ReallocateIs DEF size
    <3>5. ASSUME SameBelow(v, t, 4 * t.Size) PROVE SameBelow(v, t, t.Index)
      <4>1. \A i \in 0 .. t.Index - 1 : i \in 0 .. 4 * t.Size - 1
        BY <1>1
      <4>. QED
        BY <3>5, <4>1 DEF SameBelow
    <3>. QED
      BY <3>2, <3>3, <3>4, <3>5
  <2>2. CASE ~ (updated >= t.Size)
    <3>1. v = t /\ updated < t.Size
      BY <1>1, <1>2, <1>3, <2>2
    <3>. QED
      BY <1>1, <3>1 DEF SameBelow
  <2>. QED
    BY <2>1, <2>2
<1>5. CASE Failed(v) /\ ~ Ok(v)
  BY <1>3, <1>5
<1>6. CASE /\ Buffered(v) /\ v.Index = t.Index /\ updated < v.Size
           /\ SameBelow(v, t, t.Index) /\ (v.Size <= t.Size \/ v.Size <= 2 * updated)
  <2>. DEFINE d == [i \in DOMAIN v.Data |-> IF i \in t.Index .. updated - 1 THEN code
                                            ELSE v.Data[i]]
              w == [v EXCEPT !.Index = updated, !.Data = d]
  <2>1. v \in Trackers /\ v.Size \in Nat /\ v.Data \in Buffer(v.Size) /\ Ok(v)
    BY <1>6 DEF Buffered, Trackers
  <2>2. /\ d \in Buffer(v.Size)
        /\ \A i \in t.Index .. updated - 1 : d[i] = code
        /\ \A i \in 0 .. t.Index - 1 : d[i] = v.Data[i]
    <3>1. DOMAIN v.Data = 0 .. 4 * v.Size - 1 /\ \A i \in 0 .. 4 * v.Size - 1 : v.Data[i] \in 0 .. 3
      BY <2>1 DEF Buffer
    <3>2. d \in Buffer(v.Size)
      BY <3>1 DEF Buffer
    <3>3. /\ \A i \in t.Index .. updated - 1 : i \in DOMAIN v.Data
          /\ \A i \in 0 .. t.Index - 1 : i \in DOMAIN v.Data /\ i \notin t.Index .. updated - 1
      <4>. DEFINE i0  == t.Index
                  n   == 4 * v.Size
                  dom == 0 .. n - 1
      <4>1. i0 \in Nat /\ n \in Nat /\ updated \in Nat /\ i0 < updated /\ updated <= n
        BY <1>1, <1>2, <1>6, <2>1
      <4>. HIDE DEF i0, n
      <4>2. /\ \A i \in i0 .. updated - 1 : i \in dom
            /\ \A i \in 0 .. i0 - 1 : i \in dom /\ i \notin i0 .. updated - 1
        BY <4>1
      <4>. QED
        BY <3>1, <4>2 DEF i0, n
    <3>. QED
      BY <3>2, <3>3
  <2>3. u = w
    BY <1>3, <2>1, Zenon
  <2>. HIDE DEF d
  <2>4. /\ w \in Trackers /\ w.Data = d /\ w.Size = v.Size /\ w.Index = updated
        /\ w.OrgIndex = v.OrgIndex /\ w.OrgStackPointer = v.OrgStackPointer
        /\ w.junk = v.junk /\ w.Status = v.Status
    <3>1. d \in Buffers
      BY <2>1, <2>2, BufferIsOne
    <3>2. updated \in Int
      BY <1>2
    <3>. QED
      BY <2>1, <3>1, <3>2 DEF Trackers
  <2>. HIDE DEF w
  <2>5. Buffered(w)
    BY <1>2, <1>6, <2>1, <2>2, <2>4 DEF Buffered, Ok
  <2>6. SameBelow(w, t, t.Index)
    BY <1>6, <2>2, <2>4 DEF SameBelow
  <2>. QED
    BY <1>2, <1>6, <2>2, <2>3, <2>4, <2>5, <2>6 DEF Extends, updated
<1>. QED
  BY <1>4, <1>5, <1>6

-----------------------------------------------------------------------------
(* The slots that codes stand for.                                          *)

\* pos[k] is the index behind slot k of q.
Places(d, b, top, q, pos) ==
  /\ pos[0] = b /\ pos[Len(q)] = top
  /\ \A k \in 1 .. Len(q) : At(d, pos[k - 1], pos[k], q[k])

\* The codes of d from b up to top stand for the slots in q.
Holds(d, b, top, q) ==
  /\ b \in Nat /\ top \in Nat /\ q \in Seq(Slot)
  /\ \E pos \in [0 .. Len(q) -> Nat] : Places(d, b, top, q, pos)

\* No codes are no slots, and the other way round.
LEMMA HoldsNone ==
  ASSUME NEW d, NEW b \in Nat
  PROVE  Holds(d, b, b, <<>>)
<1>. DEFINE pos == [k \in 0 .. 0 |-> b]
<1>1. <<>> \in Seq(Slot) /\ Len(<<>>) = 0
  OBVIOUS
<1>2. pos \in [0 .. 0 -> Nat] /\ Places(d, b, b, <<>>, pos)
  BY <1>1 DEF Places
<1>. QED
  BY <1>1, <1>2 DEF Holds

LEMMA HoldsOnlyNone ==
  ASSUME NEW d, NEW b, NEW top, Holds(d, b, top, <<>>)
  PROVE  top = b
<1>1. Len(<<>>) = 0
  OBVIOUS
<1>. QED
  BY <1>1 DEF Holds, Places

\* An entry takes one code or two.
LEMMA PlacesBounds ==
  ASSUME NEW d, NEW b \in Nat, NEW top, NEW q \in Seq(Slot), NEW pos \in [0 .. Len(q) -> Nat],
         Places(d, b, top, q, pos), NEW k \in 0 .. Len(q)
  PROVE  pos[k] - b \in k .. 2 * k
<1>. DEFINE T == {i \in Nat : i <= Len(q) => pos[i] - b \in i .. 2 * i}
<1>1. 0 \in T
  BY DEF Places
<1>2. ASSUME NEW i \in Nat, i \in T PROVE i + 1 \in T
  <2>. SUFFICES ASSUME i + 1 <= Len(q) PROVE pos[i + 1] - b \in i + 1 .. 2 * (i + 1)
    OBVIOUS
  <2>1. i + 1 \in 1 .. Len(q) /\ (i + 1) - 1 = i /\ i \in 0 .. Len(q) /\ i + 1 \in 0 .. Len(q)
    OBVIOUS
  <2>2. At(d, pos[i], pos[i + 1], q[i + 1])
    BY <2>1 DEF Places
  <2>3. pos[i] \in Nat /\ pos[i + 1] \in Nat
    BY <2>1
  <2>4. pos[i + 1] = pos[i] + 1 \/ pos[i + 1] = pos[i] + 2
    BY <2>2 DEF At
  <2>5. pos[i] - b \in i .. 2 * i
    BY <1>2, <2>1
  <2>. DEFINE x == pos[i]
              y == pos[i + 1]
  <2>. HIDE DEF x, y
  <2>6. x \in Nat /\ y \in Nat /\ (y = x + 1 \/ y = x + 2) /\ x - b \in i .. 2 * i
    BY <2>3, <2>4, <2>5 DEF x, y
  <2>7. y - b \in i + 1 .. 2 * (i + 1)
    BY <2>6
  <2>. QED
    BY <2>7 DEF y
<1>3. k \in T
  <2>. HIDE DEF T
  <2>. QED
    BY <1>1, <1>2, NatBySet
<1>. QED
  BY <1>3

\* A slot has one code or two.
LEMMA HoldsBounds ==
  ASSUME NEW d, NEW b, NEW top, NEW q, Holds(d, b, top, q)
  PROVE  b \in Nat /\ top \in Nat /\ Len(q) \in Nat /\ top - b \in Len(q) .. 2 * Len(q)
<1>1. b \in Nat /\ top \in Nat /\ q \in Seq(Slot) /\ Len(q) \in Nat /\ Len(q) \in 0 .. Len(q)
  BY DEF Holds
<1>2. PICK pos \in [0 .. Len(q) -> Nat] : Places(d, b, top, q, pos)
  BY DEF Holds
<1>3. pos[Len(q)] - b \in Len(q) .. 2 * Len(q) /\ pos[Len(q)] = top
  <2>1. pos[Len(q)] - b \in Len(q) .. 2 * Len(q)
    BY <1>1, <1>2, PlacesBounds
  <2>. QED
    BY <1>2, <2>1 DEF Places
<1>. QED
  BY <1>1, <1>3

LEMMA PlacesBelow ==
  ASSUME NEW d, NEW b \in Nat, NEW top, NEW q \in Seq(Slot), NEW pos \in [0 .. Len(q) -> Nat],
         Places(d, b, top, q, pos), NEW k \in 0 .. Len(q)
  PROVE  pos[k] <= top
<1>. DEFINE T == {m \in Nat : k + m <= Len(q) => pos[k] <= pos[k + m]}
<1>0. Len(q) \in Nat /\ pos[k] \in Nat
  OBVIOUS
<1>1. 0 \in T
  BY <1>0
<1>2. ASSUME NEW m \in Nat, m \in T PROVE m + 1 \in T
  <2>. SUFFICES ASSUME k + (m + 1) <= Len(q) PROVE pos[k] <= pos[k + (m + 1)]
    OBVIOUS
  <2>1. /\ k + (m + 1) \in 1 .. Len(q) /\ (k + (m + 1)) - 1 = k + m
        /\ k + m \in 0 .. Len(q) /\ k + (m + 1) \in 0 .. Len(q)
    BY <1>0
  <2>2. At(d, pos[k + m], pos[k + (m + 1)], q[k + (m + 1)])
    BY <2>1 DEF Places
  <2>3. pos[k + (m + 1)] > pos[k + m]
    BY <2>1, <2>2 DEF At
  <2>4. pos[k] <= pos[k + m]
    BY <1>2, <2>1
  <2>. QED
    BY <1>0, <2>1, <2>3, <2>4
<1>3. Len(q) - k \in Nat /\ k + (Len(q) - k) = Len(q)
  BY <1>0
<1>4. Len(q) - k \in T
  <2>. HIDE DEF T
  <2>. QED
    BY <1>1, <1>2, <1>3, NatBySet
<1>5. pos[Len(q)] = top
  BY DEF Places
<1>. QED
  BY <1>3, <1>4, <1>5

\* One entry more, whatever has changed behind the others.
LEMMA HoldsAppend ==
  ASSUME NEW d, NEW e, NEW b, NEW i, NEW j \in Nat, NEW q, NEW v \in Slot,
         Holds(d, b, i, q), \A k \in 0 .. i - 1 : e[k] = d[k], At(e, i, j, v)
  PROVE  Holds(e, b, j, Append(q, v))
<1>1. b \in Nat /\ i \in Nat /\ q \in Seq(Slot) /\ Len(q) \in Nat
  BY DEF Holds
<1>2. PICK pos \in [0 .. Len(q) -> Nat] : Places(d, b, i, q, pos)
  BY DEF Holds
<1>. DEFINE n == Len(q)
            r == Append(q, v)
            new == [k \in 0 .. n + 1 |-> IF k = n + 1 THEN j ELSE pos[k]]
<1>3. /\ r \in Seq(Slot) /\ Len(r) = n + 1 /\ r[n + 1] = v /\ \A k \in 1 .. n : r[k] = q[k]
  BY <1>1
<1>4. new \in [0 .. n + 1 -> Nat] /\ new[n + 1] = j /\ \A k \in 0 .. n : new[k] = pos[k]
  BY <1>1
<1>. HIDE DEF r, new
<1>5. ASSUME NEW k \in 1 .. n + 1 PROVE At(e, new[k - 1], new[k], r[k])
  <2>1. CASE k = n + 1
    <3>1. new[k - 1] = i /\ new[k] = j /\ r[k] = v
      BY <1>1, <1>2, <1>3, <1>4, <2>1 DEF Places
    <3>. QED
      BY <3>1
  <2>2. CASE k \in 1 .. n
    <3>1. k - 1 \in 0 .. n /\ k \in 0 .. n /\ n \in 0 .. n
      BY <1>1, <2>2
    <3>2. new[k - 1] = pos[k - 1] /\ new[k] = pos[k] /\ r[k] = q[k]
      BY <1>3, <1>4, <2>2, <3>1
    <3>3. At(d, pos[k - 1], pos[k], q[k])
      BY <1>2, <2>2 DEF Places
    <3>4. pos[k] <= i /\ pos[k] \in Nat /\ pos[k - 1] \in Nat
      BY <1>1, <1>2, <3>1, PlacesBelow
    <3>. DEFINE x == pos[k - 1]
                y == pos[k]
                z == q[k]
    <3>5. x \in Nat /\ y \in Nat /\ y <= i /\ At(d, x, y, z)
      BY <3>3, <3>4
    <3>. HIDE DEF x, y, z
    <3>6. y = x + 1 \/ y = x + 2
      BY <3>5 DEF At
    <3>7. x \in 0 .. i - 1 /\ (y = x + 2 => x + 1 \in 0 .. i - 1)
      BY <1>1, <3>5, <3>6
    <3>8. e[x] = d[x] /\ (y = x + 2 => e[x + 1] = d[x + 1])
      BY <3>7
    <3>9. At(e, x, y, z)
      BY <3>5, <3>8 DEF At
    <3>. QED
      BY <3>2, <3>9 DEF x, y, z
  <2>3. k = n + 1 \/ k \in 1 .. n
    BY <1>1
  <2>. QED
    BY <2>1, <2>2, <2>3
<1>6. Places(e, b, j, r, new)
  BY <1>1, <1>2, <1>3, <1>4, <1>5 DEF Places
<1>7. Holds(e, b, j, r)
  BY <1>1, <1>3, <1>4, <1>6 DEF Holds
<1>. QED
  BY <1>7 DEF r

\* What is behind the entries does not matter.
LEMMA HoldsSame ==
  ASSUME NEW d, NEW e, NEW b, NEW top, NEW q, Holds(d, b, top, q),
         \A k \in 0 .. top - 1 : e[k] = d[k]
  PROVE  Holds(e, b, top, q)
<1>1. b \in Nat /\ top \in Nat /\ q \in Seq(Slot) /\ Len(q) \in Nat
  BY DEF Holds
<1>2. PICK pos \in [0 .. Len(q) -> Nat] : Places(d, b, top, q, pos)
  BY DEF Holds
<1>3. ASSUME NEW k \in 1 .. Len(q) PROVE At(e, pos[k - 1], pos[k], q[k])
  <2>1. k - 1 \in 0 .. Len(q) /\ k \in 0 .. Len(q)
    BY <1>1
  <2>2. At(d, pos[k - 1], pos[k], q[k])
    BY <1>2 DEF Places
  <2>3. pos[k] <= top /\ pos[k] \in Nat /\ pos[k - 1] \in Nat
    BY <1>1, <1>2, <2>1, PlacesBelow
  <2>4. /\ e[pos[k - 1]] = d[pos[k - 1]]
        /\ pos[k] = pos[k - 1] + 2 => e[pos[k - 1] + 1] = d[pos[k - 1] + 1]
    BY <1>1, <2>2, <2>3 DEF At
  <2>. QED
    BY <2>2, <2>4 DEF At
<1>4. Places(e, b, top, q, pos)
  BY <1>2, <1>3 DEF Places
<1>. QED
  BY <1>1, <1>4 DEF Holds

\* The newest entry, and those before it.
LEMMA HoldsFront ==
  ASSUME NEW d, NEW b, NEW top, NEW q, Holds(d, b, top, q), q # <<>>
  PROVE  \E f \in Seq(Slot), x \in Slot, i \in Nat :
           q = Append(f, x) /\ Holds(d, b, i, f) /\ At(d, i, top, x)
<1>1. b \in Nat /\ top \in Nat /\ q \in Seq(Slot) /\ Len(q) \in Nat
  BY DEF Holds
<1>2. PICK pos \in [0 .. Len(q) -> Nat] : Places(d, b, top, q, pos)
  BY DEF Holds
<1>3. PICK f \in Seq(Slot), x \in Slot : q = Append(f, x)
  BY <1>1, SequenceEmptyOrAppend
<1>. DEFINE n == Len(f)
            new == [k \in 0 .. n |-> pos[k]]
<1>4. /\ n \in Nat /\ Len(q) = n + 1 /\ q[n + 1] = x
      /\ \A k \in 1 .. n : q[k] = f[k] /\ k - 1 \in 0 .. n /\ k \in 0 .. n
      /\ n \in 0 .. Len(q) /\ n + 1 \in 1 .. Len(q) /\ (n + 1) - 1 = n
      /\ 0 \in 0 .. n /\ n \in 0 .. n
  BY <1>3, AppendProperties
<1>5. At(d, pos[n], top, x)
  <2>. HIDE DEF n
  <2>1. At(d, pos[(n + 1) - 1], pos[n + 1], q[n + 1])
    BY <1>2, <1>4 DEF Places
  <2>2. pos[n + 1] = top
    BY <1>2, <1>4 DEF Places
  <2>. QED
    BY <1>4, <2>1, <2>2
<1>6. pos[n] \in Nat
  <2>. HIDE DEF n
  <2>. QED
    BY <1>4
<1>7. new \in [0 .. n -> Nat]
  <2>. HIDE DEF n
  <2>1. \A k \in 0 .. n : k \in 0 .. Len(q)
    BY <1>4
  <2>. QED
    BY <2>1
<1>8. Places(d, b, pos[n], f, new)
  <2>1. ASSUME NEW k \in 1 .. n PROVE At(d, new[k - 1], new[k], f[k])
    <3>. HIDE DEF n
    <3>1. k \in 1 .. Len(q) /\ new[k - 1] = pos[k - 1] /\ new[k] = pos[k] /\ q[k] = f[k]
      BY <1>4
    <3>. HIDE DEF new
    <3>. QED
      BY <1>2, <3>1 DEF Places
  <2>2. new[0] = b /\ new[n] = pos[n]
    <3>. HIDE DEF n
    <3>1. pos[0] = b
      BY <1>2 DEF Places
    <3>. QED
      BY <1>4, <3>1
  <2>. HIDE DEF new
  <2>. QED
    BY <2>1, <2>2 DEF Places
<1>9. Holds(d, b, pos[n], f)
  <2>. HIDE DEF new
  <2>. QED
    BY <1>1, <1>6, <1>7, <1>8 DEF Holds
<1>. HIDE DEF n
<1>. QED
  BY <1>3, <1>5, <1>6, <1>9

Fill(v, m) == [k \in 1 .. m |-> v]

\* A number of equal slots.
LEMMA FillType ==
  ASSUME NEW v \in Slot, NEW m \in Nat
  PROVE  /\ Fill(v, m) \in Seq(Slot) /\ Len(Fill(v, m)) = m
         /\ \A k \in 1 .. m : Fill(v, m)[k] = v
<1>1. Fill(v, m) \in [1 .. m -> Slot]
  BY DEF Fill
<1>. QED
  BY <1>1 DEF Fill

LEMMA FillIs ==
  ASSUME NEW q \in Seq(Slot), NEW v \in Slot, NEW m \in Nat
  PROVE  /\ q \o Fill(v, m) \in Seq(Slot) /\ Len(q \o Fill(v, m)) = Len(q) + m
         /\ q \o Fill(v, 0) = q
         /\ q \o Fill(v, m + 1) = Append(q \o Fill(v, m), v)
<1>. DEFINE F == Fill(v, m)
            G == Fill(v, m + 1)
            R == Append(F, v)
<1>1. F \in Seq(Slot) /\ Len(F) = m /\ \A k \in 1 .. m : F[k] = v
  BY FillType
<1>2. G \in Seq(Slot) /\ Len(G) = m + 1 /\ \A k \in 1 .. m + 1 : G[k] = v
  <2>1. m + 1 \in Nat
    OBVIOUS
  <2>. QED
    BY <2>1, FillType
<1>. HIDE DEF F, G
<1>3. R \in Seq(Slot) /\ Len(R) = m + 1 /\ \A k \in 1 .. m + 1 : R[k] = v
  <2>1. /\ R \in Seq(Slot) /\ Len(R) = Len(F) + 1 /\ R[Len(F) + 1] = v
        /\ \A k \in 1 .. Len(F) : R[k] = F[k]
    BY <1>1, AppendProperties
  <2>. HIDE DEF R
  <2>. QED
    BY <1>1, <2>1
<1>4. G = R
  <2>. HIDE DEF R
  <2>. QED
    BY <1>2, <1>3, SeqEqual
<1>5. <<v>> \in Seq(Slot)
  OBVIOUS
<1>6. R = F \o <<v>> /\ Append(q \o F, v) = (q \o F) \o <<v>> /\ q \o F \in Seq(Slot)
  <2>1. q \o F \in Seq(Slot)
    BY <1>1, ConcatProperties
  <2>. QED
    BY <1>1, <2>1, AppendIsConcat
<1>7. (q \o F) \o <<v>> = q \o (F \o <<v>>)
  BY <1>1, <1>5, ConcatAssociative
<1>8. q \o G = Append(q \o F, v)
  BY <1>4, <1>6, <1>7
<1>9. Len(q \o F) = Len(q) + m
  BY <1>1, ConcatProperties
<1>10. q \o Fill(v, 0) = q
  <2>1. Fill(v, 0) = <<>>
    BY DEF Fill
  <2>. QED
    BY <2>1, ConcatEmptySeq
<1>. QED
  BY <1>6, <1>8, <1>9, <1>10 DEF F, G

\* m codes from i on are those of naturals, or of eight bytes each.
Block(e, i, m, v) == \A k \in i .. i + m - 1 : e[k] = IF v = 0 THEN 1 ELSE 0

\* A block of codes is as many entries.
LEMMA HoldsFill ==
  ASSUME NEW d, NEW e, NEW b, NEW i, NEW q \in Seq(Slot), NEW v \in {0, 8}, NEW a \in Nat, NEW m \in Nat,
         Holds(d, b, i, q \o Fill(v, a)), \A k \in 0 .. i - 1 : e[k] = d[k],
         Block(e, i, m, v)
  PROVE  Holds(e, b, i + m, q \o Fill(v, a + m))
<1>. DEFINE T == {j \in Nat : j <= m => Holds(e, b, i + j, q \o Fill(v, a + j))}
<1>0. b \in Nat /\ i \in Nat /\ v \in Slot
  BY DEF Holds, Slot
<1>1. 0 \in T
  <2>1. Holds(e, b, i, q \o Fill(v, a))
    BY HoldsSame
  <2>2. i + 0 = i /\ a + 0 = a
    BY <1>0
  <2>. QED
    BY <2>1, <2>2
<1>2. ASSUME NEW j \in Nat, j \in T PROVE j + 1 \in T
  <2>. SUFFICES ASSUME j + 1 <= m PROVE Holds(e, b, i + (j + 1), q \o Fill(v, a + (j + 1)))
    OBVIOUS
  <2>1. Holds(e, b, i + j, q \o Fill(v, a + j))
    BY <1>2
  <2>2. i + j \in i .. i + m - 1 /\ i + (j + 1) = (i + j) + 1 /\ i + (j + 1) \in Nat
    BY <1>0
  <2>3. At(e, i + j, i + (j + 1), v)
    BY <2>2 DEF At, Block
  <2>4. \A k \in 0 .. (i + j) - 1 : e[k] = e[k]
    OBVIOUS
  <2>5. Holds(e, b, i + (j + 1), Append(q \o Fill(v, a + j), v))
    BY <1>0, <2>1, <2>2, <2>3, <2>4, HoldsAppend
  <2>6. a + j \in Nat /\ a + (j + 1) = (a + j) + 1
    OBVIOUS
  <2>7. q \o Fill(v, (a + j) + 1) = Append(q \o Fill(v, a + j), v)
    BY <1>0, <2>6, FillIs
  <2>. QED
    BY <2>5, <2>6, <2>7
<1>3. m \in T
  <2>. HIDE DEF T
  <2>. QED
    BY <1>1, <1>2, NatBySet
<1>. QED
  BY <1>3

LEMMA TotalFill ==
  ASSUME NEW q \in Seq(Slot), NEW v \in Slot, NEW m \in Nat
  PROVE  Abstract!Total(q \o Fill(v, m)) = Abstract!Total(q) + m * SizeOf(v)
<1>. DEFINE w == SizeOf(v)
            More(j) == j * w
            High(j) == Abstract!Total(q \o Fill(v, j))
            T == {j \in Nat : High(j) = Abstract!Total(q) + More(j)}
<1>0. w \in 1 .. 8 /\ Abstract!Total(q) \in Nat
  BY SizeType, TotalType
<1>1. /\ More(0) = 0
      /\ \A j \in Nat : More(j) \in Nat /\ More(j + 1) = More(j) + w
  <2>. HIDE DEF w
  <2>. QED
    BY <1>0
<1>2. /\ High(0) = Abstract!Total(q)
      /\ \A j \in Nat : High(j + 1) = High(j) + w
  <2>1. q \o Fill(v, 0) = q
    BY FillIs
  <2>2. ASSUME NEW j \in Nat PROVE High(j + 1) = High(j) + w
    <3>1. q \o Fill(v, j) \in Seq(Slot) /\ q \o Fill(v, j + 1) = Append(q \o Fill(v, j), v)
      BY FillIs
    <3>2. Abstract!Total(Append(q \o Fill(v, j), v)) = Abstract!Total(q \o Fill(v, j)) + w
      BY <3>1, TotalAppend
    <3>. QED
      BY <3>1, <3>2
  <2>. QED
    BY <2>1, <2>2
<1>. HIDE DEF w, More, High
<1>3. 0 \in T
  BY <1>0, <1>1, <1>2
<1>4. ASSUME NEW j \in Nat, j \in T PROVE j + 1 \in T
  <2>1. High(j) = Abstract!Total(q) + More(j)
    BY <1>4
  <2>. QED
    BY <1>0, <1>1, <1>2, <2>1
<1>5. m \in T
  <2>. HIDE DEF T
  <2>. QED
    BY <1>3, <1>4, NatBySet
<1>. QED
  BY <1>5 DEF w, More, High

\* The newest entry is read, and deleted, as it was added.
LEMMA EntryIs ==
  ASSUME NEW t, t \in Trackers, NEW i \in Nat, NEW v \in Slot, At(t.Data, i, t.Index, v)
  PROVE  /\ GetStackTrackerEntry(t) = Shown(v)
         /\ DelStackTrackerEntry(t) = [t EXCEPT !.Index = i, !.Status = t.Status]
<1>1. v \in 0 .. 8 /\ t.Index \in Int
  BY DEF Slot, Trackers
<1>2. CASE v = 0
  <2>1. t.Index = i + 1 /\ Code(t, t.Index - 1) = 1 /\ t.Index - 1 = i
    BY <1>2 DEF At, Code
  <2>2. GetStackTrackerEntry(t) = Shown(v)
    BY <1>2, <2>1 DEF GetStackTrackerEntry, Shown
  <2>3. ~ (Code(t, t.Index - 1) >= 2) /\ ~ (i < 0)
    BY <2>1
  <2>4. DelStackTrackerEntry(t) = [t EXCEPT !.Index = i, !.Status = t.Status]
    BY <2>1, <2>3, Zenon DEF DelStackTrackerEntry
  <2>. QED
    BY <2>2, <2>4
<1>3. CASE v = 8
  <2>1. t.Index = i + 1 /\ Code(t, t.Index - 1) = 0 /\ t.Index - 1 = i
    BY <1>3 DEF At, Code
  <2>2. GetStackTrackerEntry(t) = Shown(v)
    BY <1>3, <2>1 DEF GetStackTrackerEntry, Shown
  <2>3. ~ (Code(t, t.Index - 1) >= 2) /\ ~ (i < 0)
    BY <2>1
  <2>4. DelStackTrackerEntry(t) = [t EXCEPT !.Index = i, !.Status = t.Status]
    BY <2>1, <2>3, Zenon DEF DelStackTrackerEntry
  <2>. QED
    BY <2>2, <2>4
<1>4. CASE v \in 1 .. 7
  <2>1. /\ t.Index = i + 2 /\ t.Index - 1 = i + 1 /\ t.Index - 2 = i
        /\ Code(t, t.Index - 1) = 2 + v \div 4 /\ Code(t, t.Index - 2) = v % 4
    BY <1>4 DEF At, Code
  <2>2. 2 + v \div 4 >= 2 /\ 2 + v \div 4 # 1 /\ 4 * ((2 + v \div 4) % 2) + (v % 4) = v
    <3>1. CASE v < 4
      <4>1. v \div 4 = 0 /\ v % 4 = v
        BY <1>4, <3>1
      <4>. QED
        BY <1>4, <4>1
    <3>2. CASE v >= 4
      <4>1. v \div 4 = 1 /\ v % 4 = v - 4
        BY <1>4, <3>2
      <4>. QED
        BY <1>4, <4>1
    <3>. QED
      BY <1>4, <3>1, <3>2
  <2>3. GetStackTrackerEntry(t) = 4 * ((2 + v \div 4) % 2) + (v % 4)
    BY <2>1, <2>2, Zenon DEF GetStackTrackerEntry
  <2>4. Shown(v) = v
    BY <1>4 DEF Shown
  <2>5. Code(t, t.Index - 1) >= 2 /\ ~ (i < 0)
    BY <2>1, <2>2
  <2>6. DelStackTrackerEntry(t) = [t EXCEPT !.Index = i, !.Status = t.Status]
    BY <2>1, <2>5, Zenon DEF DelStackTrackerEntry
  <2>. QED
    BY <2>2, <2>3, <2>4, <2>6
<1>. QED
  BY <1>1, <1>2, <1>3, <1>4

\* There is no entry in front of the first one.
LEMMA NoEntry ==
  ASSUME NEW t, t \in Trackers, t.Index = 0
  PROVE  /\ GetStackTrackerEntry(t) = 0
         /\ DelStackTrackerEntry(t) = [t EXCEPT !.Index = -1, !.Status = "UNSUPPORTED"]
<1>1. Code(t, t.Index - 1) = 0 /\ t.Index - 1 = -1
  BY DEF Code
<1>2. GetStackTrackerEntry(t) = 0
  BY <1>1 DEF GetStackTrackerEntry
<1>3. ~ (Code(t, t.Index - 1) >= 2) /\ -1 < 0
  BY <1>1
<1>4. DelStackTrackerEntry(t) = [t EXCEPT !.Index = -1, !.Status = "UNSUPPORTED"]
  BY <1>1, <1>3, Zenon DEF DelStackTrackerEntry
<1>. QED
  BY <1>2, <1>4

\* f is built from elements before, p[i] for i; there is such a function.
Builds(f, b, top, p, e) ==
  f = [i \in b - 1 .. top |-> IF i <= b THEN <<>> ELSE Append(f[p[i]], e[i])]

\* Decoded is well defined: every slot ends behind where it begins.
LEMMA BuildsExist ==
  ASSUME NEW b \in Int, NEW n \in Nat, NEW p, NEW e,
         \A i \in Int : b < i => p[i] \in b - 1 .. i - 1
  PROVE  \E f : Builds(f, b, b + n, p, e)
<1>. DEFINE Sol(f, m) == f = [i \in b - 1 .. b + m |-> IF i <= b THEN <<>>
                                                      ELSE Append(f[p[i]], e[i])]
            T == {m \in Nat : \E f : Sol(f, m)}
<1>1. 0 \in T
  <2>. DEFINE f == [i \in b - 1 .. b + 0 |-> <<>>]
  <2>1. \A i \in b - 1 .. b + 0 : i <= b
    OBVIOUS
  <2>2. f = [i \in b - 1 .. b + 0 |-> IF i <= b THEN <<>> ELSE Append(f[p[i]], e[i])]
    BY <2>1
  <2>. QED
    BY <2>2
<1>2. ASSUME NEW m \in Nat, m \in T PROVE m + 1 \in T
  <2>1. PICK f : Sol(f, m)
    BY <1>2
  <2>2. \A i \in b - 1 .. b + m : f[i] = IF i <= b THEN <<>> ELSE Append(f[p[i]], e[i])
    BY <2>1
  <2>. DEFINE g == [i \in b - 1 .. b + (m + 1) |-> IF i = b + (m + 1) THEN Append(f[p[i]], e[i])
                                                  ELSE f[i]]
  <2>3. ASSUME NEW i \in b - 1 .. b + (m + 1)
        PROVE  g[i] = IF i <= b THEN <<>> ELSE Append(g[p[i]], e[i])
    <3>1. CASE i <= b
      <4>1. g[i] = f[i] /\ i \in b - 1 .. b + m
        BY <3>1
      <4>. QED
        BY <2>2, <3>1, <4>1
    <3>2. CASE b < i
      <4>1. p[i] \in b - 1 .. i - 1 /\ i \in Int
        BY <3>2
      <4>2. p[i] \in b - 1 .. b + (m + 1) /\ p[i] # b + (m + 1)
        BY <4>1
      <4>3. g[p[i]] = f[p[i]]
        BY <4>2
      <4>4. CASE i = b + (m + 1)
        <5>1. g[i] = Append(f[p[i]], e[i])
          BY <4>4
        <5>. HIDE DEF g
        <5>. QED
          BY <3>2, <4>3, <5>1
      <4>5. CASE i # b + (m + 1)
        <5>1. i \in b - 1 .. b + m
          BY <4>5
        <5>2. g[i] = f[i]
          BY <4>5
        <5>3. f[i] = Append(f[p[i]], e[i])
          <6>. HIDE DEF g
          <6>1. ~ (i <= b)
            BY <3>2
          <6>. QED
            BY <2>2, <5>1, <6>1
        <5>. HIDE DEF g
        <5>. QED
          BY <3>2, <4>3, <5>2, <5>3
      <4>. QED
        BY <4>4, <4>5
    <3>. QED
      BY <3>1, <3>2
  <2>4. Sol(g, m + 1)
    <3>1. \E h : h = g /\ h = [i \in b - 1 .. b + (m + 1) |-> h[i]]
      OBVIOUS
    <3>. QED
      BY <2>3, <3>1
  <2>. HIDE DEF g, Sol
  <2>. QED
    BY <2>4
<1>3. n \in T
  <2>. HIDE DEF T
  <2>. QED
    BY <1>1, <1>2, NatBySet
<1>. QED
  BY <1>3 DEF Builds

\* The slots that the codes are said to stand for are those that are decoded.
LEMMA DecodedIs ==
  ASSUME NEW t, t \in Trackers, NEW b, NEW top, NEW q, Holds(t.Data, b, top, q)
  PROVE  Decoded(t, b, top) = q
<1>. DEFINE at(i)   == [t EXCEPT !.Index = i]
            slot(i) == LET entry == GetStackTrackerEntry(at(i))
                       IN CASE entry = 8 -> 0 [] entry = 0 -> 8 [] OTHER -> entry
            IsSlots(f) == f = [i \in b - 1 .. top |->
                                 IF i <= b THEN <<>>
                                 ELSE Append(f[DelStackTrackerEntry(at(i)).Index], slot(i))]
            g == CHOOSE f : IsSlots(f)
            p == [i \in Int |-> IF i > b THEN DelStackTrackerEntry(at(i)).Index ELSE i]
            e == [i \in Int |-> slot(i)]
<1>1. /\ b \in Nat /\ top \in Nat /\ q \in Seq(Slot) /\ Len(q) \in Nat
      /\ top - b \in Nat
  BY HoldsBounds DEF Holds
<1>2. PICK pos \in [0 .. Len(q) -> Nat] : Places(t.Data, b, top, q, pos)
  BY DEF Holds
<1>3. ASSUME NEW i \in Int
      PROVE  at(i) \in Trackers /\ at(i).Index = i /\ at(i).Data = t.Data
  BY DEF Trackers
<1>4. ASSUME NEW i \in Int, b < i PROVE p[i] \in b - 1 .. i - 1
  <2>1. DelStackTrackerEntry(at(i)).Index \in {i - 1, i - 2}
    <3>. DEFINE x == at(i)
    <3>1. x \in Trackers /\ x.Index = i
      BY <1>3
    <3>. HIDE DEF x
    <3>2. DelStackTrackerEntry(x).Index \in {i - 1, i - 2}
      BY <3>1 DEF DelStackTrackerEntry, Trackers
    <3>. QED
      BY <3>2 DEF x
  <2>. HIDE DEF at
  <2>. QED
    BY <1>1, <1>4, <2>1
<1>. HIDE DEF at, slot
<1>5. \E f : IsSlots(f)
  <2>0. PICK n \in Nat : b + n = top
    <3>1. b + (top - b) = top
      BY <1>1
    <3>. QED
      BY <1>1, <3>1
  <2>2. PICK f : Builds(f, b, b + n, p, e)
    <3>1. \A i \in Int : b < i => p[i] \in b - 1 .. i - 1
      BY <1>4
    <3>2. b \in Int
      BY <1>1
    <3>. HIDE DEF p, e
    <3>. QED
      BY <3>1, <3>2, BuildsExist
  <2>3. f = [i \in b - 1 .. top |-> IF i <= b THEN <<>> ELSE Append(f[p[i]], e[i])]
    BY <2>0, <2>2, Zenon DEF Builds
  <2>4. \A i \in b - 1 .. top :
          (IF i <= b THEN <<>> ELSE Append(f[p[i]], e[i]))
            = IF i <= b THEN <<>> ELSE Append(f[DelStackTrackerEntry(at(i)).Index], slot(i))
    <3>1. ASSUME NEW i \in b - 1 .. top, ~ (i <= b)
          PROVE  p[i] = DelStackTrackerEntry(at(i)).Index /\ e[i] = slot(i)
      BY <1>1, <3>1
    <3>. HIDE DEF p, e
    <3>. QED
      BY <3>1
  <2>5. IsSlots(f)
    <3>. HIDE DEF p, e
    <3>. QED
      BY <2>3, <2>4
  <2>. QED
    BY <2>5
<1>6. IsSlots(g)
  <2>. HIDE DEF IsSlots
  <2>. QED
    BY <1>5
<1>7. Decoded(t, b, top) = g[top]
  BY Zenon DEF Decoded, at, slot
<1>8. \A i \in b - 1 .. top :
        g[i] = IF i <= b THEN <<>> ELSE Append(g[DelStackTrackerEntry(at(i)).Index], slot(i))
  <2>. HIDE DEF g
  <2>. QED
    BY <1>6
<1>. HIDE DEF g
<1>. DEFINE T == {k \in Nat : k <= Len(q) => g[pos[k]] = Prefix(q, k)}
<1>9. 0 \in T
  <2>1. pos[0] = b /\ b \in b - 1 .. top
    BY <1>1, <1>2 DEF Places
  <2>2. g[b] = <<>>
    BY <1>1, <1>8, <2>1
  <2>3. Prefix(q, 0) = <<>>
    BY SubSeqEmpty, 0 < 1 DEF Prefix
  <2>. QED
    BY <2>1, <2>2, <2>3
<1>10. ASSUME NEW k \in Nat, k \in T PROVE k + 1 \in T
  <2>. SUFFICES ASSUME k + 1 <= Len(q) PROVE g[pos[k + 1]] = Prefix(q, k + 1)
    OBVIOUS
  <2>1. /\ k + 1 \in 1 .. Len(q) /\ (k + 1) - 1 = k /\ k \in 0 .. Len(q) /\ k + 1 \in 0 .. Len(q)
        /\ k + 1 \in 1 .. k + 1
    BY <1>1
  <2>. DEFINE i == pos[k + 1]
  <2>2. At(t.Data, pos[k], i, q[k + 1]) /\ q[k + 1] \in Slot
    BY <1>1, <1>2, <2>1 DEF Places
  <2>3. pos[k] \in Nat /\ i \in Nat /\ i <= top /\ b <= pos[k]
    <3>1. pos[k] \in Nat /\ i \in Nat
      BY <2>1
    <3>2. i <= top
      BY <1>1, <1>2, <2>1, PlacesBelow
    <3>3. pos[k] - b \in k .. 2 * k
      BY <1>1, <1>2, <2>1, PlacesBounds
    <3>. QED
      BY <1>1, <3>1, <3>2, <3>3
  <2>. HIDE DEF i
  <2>4. b < i /\ i \in b - 1 .. top
    <3>1. i = pos[k] + 1 \/ i = pos[k] + 2
      BY <2>2 DEF At
    <3>. QED
      BY <1>1, <2>3, <3>1
  <2>5. /\ GetStackTrackerEntry(at(i)) = Shown(q[k + 1])
        /\ DelStackTrackerEntry(at(i)).Index = pos[k]
    <3>. DEFINE x == at(i)
    <3>1. x \in Trackers /\ x.Index = i /\ x.Data = t.Data
      BY <1>3, <2>3
    <3>. HIDE DEF x
    <3>2. /\ GetStackTrackerEntry(x) = Shown(q[k + 1])
          /\ DelStackTrackerEntry(x) = [x EXCEPT !.Index = pos[k], !.Status = x.Status]
      BY <2>2, <2>3, <3>1, EntryIs
    <3>3. DelStackTrackerEntry(x).Index = pos[k]
      BY <3>1, <3>2 DEF Trackers
    <3>. QED
      BY <3>2, <3>3 DEF x
  <2>6. slot(i) = q[k + 1]
    <3>1. q[k + 1] \in 0 .. 8
      BY <2>2 DEF Slot
    <3>2. slot(i) = CASE Shown(q[k + 1]) = 8 -> 0 [] Shown(q[k + 1]) = 0 -> 8
                      [] OTHER -> Shown(q[k + 1])
      BY <2>5 DEF slot
    <3>. QED
      BY <3>1, <3>2 DEF Shown
  <2>7. g[i] = Append(g[pos[k]], q[k + 1])
    <3>1. ~ (i <= b)
      BY <1>1, <2>3, <2>4
    <3>2. g[i] = Append(g[DelStackTrackerEntry(at(i)).Index], slot(i))
      BY <1>8, <2>4, <3>1
    <3>. QED
      BY <2>5, <2>6, <3>2
  <2>8. g[pos[k]] = Prefix(q, k)
    BY <1>10, <2>1
  <2>9. Prefix(q, k + 1) = Append(Prefix(q, k), q[k + 1])
    <3>1. Prefix(q, k + 1) = Prefix(q, (k + 1) - 1) \o <<q[k + 1]>>
      <4>1. 1 \in 1 .. Len(q) /\ k + 1 \in 1 .. Len(q)
        BY <1>1, <2>1
      <4>. QED
        BY <1>1, <4>1, SubSeqRecursiveSecond DEF Prefix
    <3>2. Prefix(q, k) \in Seq(Slot)
      BY <1>1, <2>1, HeightType
    <3>3. Append(Prefix(q, k), q[k + 1]) = Prefix(q, k) \o <<q[k + 1]>>
      BY <2>2, <3>2, AppendIsConcat
    <3>. QED
      BY <2>1, <3>1, <3>3
  <2>. QED
    BY <2>7, <2>8, <2>9 DEF i
<1>11. Len(q) \in T
  <2>. HIDE DEF T
  <2>. QED
    BY <1>1, <1>9, <1>10, NatBySet
<1>12. pos[Len(q)] = top /\ Prefix(q, Len(q)) = q
  BY <1>1, <1>2, SubSeqFull DEF Places, Prefix
<1>. QED
  BY <1>1, <1>7, <1>11, <1>12

-----------------------------------------------------------------------------
(* Additions.                                                               *)

\* t works, within the limit w, and its codes from b on stand for the slots in q.
Sound(t, b, q, w) == Buffered(t) /\ t.Size <= w /\ Holds(t.Data, b, t.Index, q)

\* What an operation that ends with the slots in q may make of t.
Result(u, t, b, q, w) ==
  \/ Ok(u) /\ Sound(u, b, q, w) /\ SameBelow(u, t, b)
  \/ ~ Ok(u) /\ Failed(u)

\* The limit leaves room for n slots.
Room(b, n, w) == 2 * (b + 2 * n) <= w

\* What follows from the soundness of a tracker.
LEMMA SoundIs ==
  ASSUME NEW t, NEW b, NEW q, NEW w, Sound(t, b, q, w)
  PROVE  /\ t \in Trackers /\ Ok(t) /\ t.Index \in Nat /\ t.Size \in Nat /\ b \in Nat
         /\ q \in Seq(Slot) /\ Len(q) \in Nat /\ t.Index - b \in Len(q) .. 2 * Len(q)
BY HoldsBounds DEF Sound, Buffered, Trackers, Holds

\* Codes that stay the same.
LEMMA SameBelowLess ==
  ASSUME NEW u, NEW t, NEW i \in Int, NEW b \in Int, b <= i, SameBelow(u, t, i)
  PROVE  SameBelow(u, t, b)
<1>1. \A k \in 0 .. b - 1 : k \in 0 .. i - 1
  OBVIOUS
<1>. QED
  BY <1>1 DEF SameBelow

LEMMA SameBelowBoth ==
  ASSUME NEW u, NEW v, NEW t, NEW b, SameBelow(u, v, b), SameBelow(v, t, b)
  PROVE  SameBelow(u, t, b)
BY DEF SameBelow

LEMMA ResultAfter ==
  ASSUME NEW u, NEW v, NEW t, NEW b, NEW q, NEW w, Result(u, v, b, q, w), SameBelow(v, t, b)
  PROVE  Result(u, t, b, q, w)
BY SameBelowBoth DEF Result

\* What is sound is left so by an addition that stands for the slots in r.
LEMMA SoundExtends ==
  ASSUME NEW t, NEW b, NEW q, NEW w \in Int, Sound(t, b, q, w), NEW u, Extends(u, t),
         NEW r, Holds(u.Data, b, u.Index, r), Room(b, Len(r), w)
  PROVE  Result(u, t, b, r, w)
<1>1. /\ t.Index \in Nat /\ t.Size \in Nat /\ b \in Nat /\ Len(q) \in Nat
      /\ t.Index - b \in Len(q) .. 2 * Len(q)
  BY SoundIs
<1>2. Buffered(u) /\ Ok(u) /\ u.Size \in Nat /\ u.Index \in Nat
  BY DEF Extends, Buffered, Trackers
<1>3. Len(r) \in Nat /\ u.Index - b \in Len(r) .. 2 * Len(r)
  BY HoldsBounds
<1>4. u.Size <= w
  <2>1. CASE u.Size <= t.Size
    BY <1>1, <1>2, <2>1 DEF Sound
  <2>2. CASE u.Size <= 2 * u.Index
    <3>1. 2 * u.Index <= 2 * (b + 2 * Len(r))
      BY <1>1, <1>2, <1>3
    <3>2. 2 * (b + 2 * Len(r)) <= w /\ 2 * (b + 2 * Len(r)) \in Int
      BY <1>1, <1>3 DEF Room
    <3>. QED
      BY <1>2, <2>2, <3>1, <3>2
  <2>. QED
    BY <2>1, <2>2 DEF Extends
<1>5. SameBelow(u, t, b)
  <2>1. b <= t.Index
    BY <1>1
  <2>. QED
    BY <1>1, <2>1, SameBelowLess DEF Extends
<1>. QED
  BY <1>2, <1>4, <1>5 DEF Result, Sound

\* One entry more.
LEMMA AddSlot ==
  ASSUME NEW t, NEW b, NEW q, NEW w \in Int, Sound(t, b, q, w), NEW v \in Slot,
         Room(b, Len(q) + 1, w), NEW u \in AddStackTrackerEntry(t, Shown(v))
  PROVE  Result(u, t, b, Append(q, v), w)
<1>1. Buffered(t) /\ Holds(t.Data, b, t.Index, q)
  BY DEF Sound
<1>2. \/ Failed(u) /\ ~ Ok(u)
      \/ Extends(u, t) /\ At(u.Data, t.Index, u.Index, v)
  BY <1>1, AddEntryIs
<1>3. ASSUME Extends(u, t), At(u.Data, t.Index, u.Index, v)
      PROVE  Result(u, t, b, Append(q, v), w)
  <2>1. u.Index \in Nat
    BY <1>3 DEF Extends, Buffered
  <2>2. \A k \in 0 .. t.Index - 1 : u.Data[k] = t.Data[k]
    BY <1>3 DEF Extends, SameBelow
  <2>3. Holds(u.Data, b, u.Index, Append(q, v))
    BY <1>1, <1>3, <2>1, <2>2, HoldsAppend
  <2>4. Len(Append(q, v)) = Len(q) + 1
    BY SoundIs, AppendProperties
  <2>. QED
    BY <1>3, <2>3, <2>4, SoundExtends
<1>. QED
  BY <1>2, <1>3 DEF Result

\* A block of entries more.
LEMMA AddSlots ==
  ASSUME NEW t, NEW b, NEW q \in Seq(Slot), NEW w \in Int, NEW v \in {0, 8}, NEW a \in Nat,
         Sound(t, b, q \o Fill(v, a), w), NEW count \in Nat, count > 0,
         Room(b, Len(q) + a + 4 * count, w),
         NEW u \in AddStackTrackerBytes(t, IF v = 0 THEN 1 ELSE 0, count)
  PROVE  Result(u, t, b, q \o Fill(v, a + 4 * count), w)
<1>. DEFINE code == IF v = 0 THEN 1 ELSE 0
<1>0. code \in 0 .. 3 /\ v \in Slot
  BY DEF Slot
<1>1. Buffered(t) /\ Holds(t.Data, b, t.Index, q \o Fill(v, a))
  BY DEF Sound
<1>2. \/ Failed(u) /\ ~ Ok(u)
      \/ /\ Extends(u, t) /\ u.Index = t.Index + 4 * count
         /\ \A i \in t.Index .. u.Index - 1 : u.Data[i] = code
  BY <1>0, <1>1, AddBlockIs
<1>3. ASSUME Extends(u, t), u.Index = t.Index + 4 * count,
             \A i \in t.Index .. u.Index - 1 : u.Data[i] = code
      PROVE  Result(u, t, b, q \o Fill(v, a + 4 * count), w)
  <2>1. \A k \in 0 .. t.Index - 1 : u.Data[k] = t.Data[k]
    BY <1>3 DEF Extends, SameBelow
  <2>2. 4 * count \in Nat /\ a + 4 * count \in Nat
    OBVIOUS
  <2>3. Holds(u.Data, b, t.Index + 4 * count, q \o Fill(v, a + 4 * count))
    <3>. DEFINE m == 4 * count
    <3>0. m \in Nat /\ u.Index = t.Index + m
      BY <1>3
    <3>. HIDE DEF m
    <3>1. Block(u.Data, t.Index, m, v)
      <4>1. t.Index .. t.Index + m - 1 = t.Index .. u.Index - 1
        <5>1. t.Index \in Nat
          BY SoundIs
        <5>. QED
          BY <3>0, <5>1
      <4>2. \A i \in t.Index .. t.Index + m - 1 : u.Data[i] = code
        BY <1>3, <4>1
      <4>. QED
        BY <4>2 DEF Block
    <3>2. Holds(u.Data, b, t.Index + m, q \o Fill(v, a + m))
      <4>. DEFINE d == t.Data
                  e == u.Data
                  i == t.Index
      <4>1. Holds(d, b, i, q \o Fill(v, a)) /\ Block(e, i, m, v) /\ m \in Nat
        BY <1>1, <3>0, <3>1
      <4>2. \A k \in 0 .. i - 1 : e[k] = d[k]
        BY <2>1
      <4>. HIDE DEF d, e, i
      <4>3. Holds(e, b, i + m, q \o Fill(v, a + m))
        BY <4>1, <4>2, HoldsFill
      <4>. QED
        BY <4>3 DEF d, e, i
    <3>. QED
      BY <3>2 DEF m
  <2>4. Len(q \o Fill(v, a + 4 * count)) = Len(q) + (a + 4 * count)
    BY <1>0, <2>2, FillIs
  <2>5. Room(b, Len(q \o Fill(v, a + 4 * count)), w)
    <3>1. Len(q) + (a + 4 * count) = Len(q) + a + 4 * count
      <4>1. Len(q) \in Nat
        OBVIOUS
      <4>. QED
        BY <2>2, <4>1
    <3>. QED
      BY <2>4, <3>1
  <2>. QED
    BY <1>3, <2>3, <2>5, SoundExtends
<1>. QED
  BY <1>2, <1>3 DEF Result

\* Arithmetic of a block of naturals.
LEMMA Blocks ==
  ASSUME NEW n \in Nat, NEW c \in 1 .. n, NEW a \in Nat, a + c = n, c >= 4
  PROVE  /\ c \div 4 \in Nat /\ c \div 4 > 0 /\ c % 4 \in 0 .. n /\ c % 4 < c
         /\ a + 4 * (c \div 4) = n - (c % 4)
<1>1. c = 4 * (c \div 4) + (c % 4) /\ c % 4 \in 0 .. 3 /\ c \div 4 \in Int
  OBVIOUS
<1>. DEFINE k == c \div 4
            r == c % 4
<1>. HIDE DEF k, r
<1>2. k \in Nat /\ k > 0 /\ r \in 0 .. n /\ r < c /\ a + 4 * k = n - r
  BY <1>1 DEF k, r
<1>. QED
  BY <1>2 DEF k, r

\* One iteration adds a natural, or as many blocks of four as there are.
LEMMA NaturalsAddedIs ==
  ASSUME NEW t, NEW b, NEW q \in Seq(Slot), NEW w \in Int, NEW n \in Nat,
         Room(b, Len(q) + n, w),
         NEW s \in [t : Trackers, units : 0 .. n],
         Result(s.t, t, b, q \o Fill(0, n - s.units), w),
         NEW o \in NaturalsAdded(s)
  PROVE  /\ o \in [t : Trackers, units : 0 .. n]
         /\ Result(o.t, t, b, q \o Fill(0, n - o.units), w)
         /\ Ok(o.t) => o.units = 0 \/ (Ok(s.t) /\ o.units < s.units)
<1>1. CASE s.units = 0 \/ ~ Ok(s.t)
  <2>1. o = s
    BY <1>1 DEF NaturalsAdded
  <2>. QED
    BY <1>1, <2>1
<1>2. CASE s.units # 0 /\ Ok(s.t)
  <2>. DEFINE c == s.units
              a == n - c
  <2>0. /\ c \in 1 .. n /\ a \in Nat /\ a + c = n /\ Len(q) \in Nat /\ 0 \in Slot
        /\ s.t \in Trackers /\ 0 \in {0, 8}
    BY <1>2 DEF Slot
  <2>1. Sound(s.t, b, q \o Fill(0, a), w) /\ SameBelow(s.t, t, b)
    BY <1>2 DEF Result
  <2>2. b \in Nat
    BY <2>1, SoundIs
  <2>3. CASE s.t.Index % 4 = 0 /\ c >= 4
    <3>1. PICK u \in AddStackTrackerBytes(s.t, 1, c \div 4) : o = [t |-> u, units |-> c % 4]
      BY <1>2, <2>3 DEF NaturalsAdded
    <3>. DEFINE count == c \div 4
    <3>2. count \in Nat /\ count > 0 /\ c % 4 \in 0 .. n /\ c % 4 < c /\ a + 4 * count = n - (c % 4)
      BY <2>0, <2>3, Blocks
    <3>. HIDE DEF a, c
    <3>3. Room(b, Len(q) + a + 4 * count, w)
      <4>1. Len(q) + a + 4 * count <= Len(q) + n
        BY <2>0, <3>2
      <4>2. Len(q) + a + 4 * count \in Nat
        BY <2>0, <3>2
      <4>. HIDE DEF count
      <4>. QED
        BY <2>0, <2>2, <4>1, <4>2, SMTT(20) DEF Room
    <3>4. u \in AddStackTrackerBytes(s.t, IF 0 = 0 THEN 1 ELSE 0, count)
      BY <3>1
    <3>. HIDE DEF count
    <3>5. Result(u, s.t, b, q \o Fill(0, a + 4 * count), w)
      BY <2>0, <2>1, <3>2, <3>3, <3>4, AddSlots
    <3>6. Result(u, t, b, q \o Fill(0, n - (c % 4)), w)
      BY <2>1, <3>2, <3>5, ResultAfter
    <3>7. u \in Trackers
      BY <3>6 DEF Result, Failed, Sound, Buffered
    <3>. QED
      BY <1>2, <3>1, <3>2, <3>6, <3>7 DEF c
  <2>4. CASE ~ (s.t.Index % 4 = 0 /\ c >= 4)
    <3>1. PICK u \in AddStackTrackerEntry(s.t, 8) : o = [t |-> u, units |-> c - 1]
      BY <1>2, <2>4 DEF NaturalsAdded
    <3>2. c - 1 \in 0 .. n /\ c - 1 < c /\ n - (c - 1) = a + 1
      BY <2>0
    <3>. HIDE DEF a, c
    <3>3. /\ Len(q \o Fill(0, a)) = Len(q) + a
          /\ q \o Fill(0, a + 1) = Append(q \o Fill(0, a), 0)
      BY <2>0, FillIs
    <3>4. Room(b, Len(q \o Fill(0, a)) + 1, w)
      <4>1. Len(q) + a + 1 <= Len(q) + n /\ Len(q) + a + 1 \in Nat
        BY <2>0
      <4>. QED
        BY <2>0, <2>2, <3>3, <4>1 DEF Room
    <3>5. u \in AddStackTrackerEntry(s.t, Shown(0))
      BY <3>1 DEF Shown
    <3>6. Result(u, s.t, b, q \o Fill(0, a + 1), w)
      BY <2>0, <2>1, <3>3, <3>4, <3>5, AddSlot
    <3>7. Result(u, t, b, q \o Fill(0, n - (c - 1)), w)
      BY <2>1, <3>2, <3>6, ResultAfter
    <3>8. u \in Trackers
      BY <3>7 DEF Result, Failed, Sound, Buffered
    <3>. QED
      BY <1>2, <3>1, <3>2, <3>7, <3>8 DEF c
  <2>. QED
    BY <2>3, <2>4
<1>. QED
  BY <1>1, <1>2

\* What may become of a sound tracker.
LEMMA ResultType ==
  ASSUME NEW u, NEW t, NEW b, NEW q, NEW w, Result(u, t, b, q, w)
  PROVE  u \in Trackers
BY DEF Result, Failed, Sound, Buffered

LEMMA ResultSelf ==
  ASSUME NEW t, NEW b, NEW q, NEW w, Sound(t, b, q, w)
  PROVE  Result(t, t, b, q, w)
BY DEF Result, Sound, Buffered, SameBelow

\* The loop adds the naturals, each in a slot of its own.
LEMMA AddNaturalsIs ==
  ASSUME NEW t, NEW b, NEW q \in Seq(Slot), NEW w \in Int, NEW n \in Nat,
         Sound(t, b, q, w), Room(b, Len(q) + n, w), NEW u \in AddNaturals(t, n)
  PROVE  Result(u, t, b, q \o Fill(0, n), w)
<1>. DEFINE Good(s) == Result(s.t, t, b, q \o Fill(0, n - s.units), w)
            S == {s \in [t : Trackers, units : 0 .. n] : Good(s)}
            x == {[t |-> t, units |-> n]}
            F == [s \in S |-> NaturalsAdded(s)]
            m == [s \in S |-> IF Ok(s.t) THEN s.units ELSE 0]
            IsLoop(f) == f = [k \in 0 .. n |-> IF k = 0 THEN {[t |-> t, units |-> n]}
                                               ELSE UNION {NaturalsAdded(s) : s \in f[k - 1]}]
            g == CHOOSE f : IsLoop(f)
<1>1. x \in SUBSET S
  <2>. DEFINE s == [t |-> t, units |-> n]
  <2>1. q \o Fill(0, n - n) = q
    <3>1. n - n = 0 /\ 0 \in Slot
      BY DEF Slot
    <3>. QED
      BY <3>1, FillIs
  <2>2. s.t = t /\ s.units = n /\ s \in [t : Trackers, units : 0 .. n]
    BY SoundIs
  <2>. HIDE DEF s
  <2>3. Good(s)
    BY <2>1, <2>2, ResultSelf
  <2>. QED
    BY <2>2, <2>3 DEF s
<1>2. ASSUME NEW s \in S, NEW o \in NaturalsAdded(s)
      PROVE  o \in S /\ (m[o] < m[s] \/ m[o] = 0) /\ m[s] \in Nat
  <2>1. s \in [t : Trackers, units : 0 .. n] /\ Good(s)
    OBVIOUS
  <2>2. /\ o \in [t : Trackers, units : 0 .. n] /\ Good(o)
        /\ Ok(o.t) => o.units = 0 \/ (Ok(s.t) /\ o.units < s.units)
    BY <2>1, NaturalsAddedIs
  <2>3. o \in S
    BY <2>2
  <2>. HIDE DEF S, Good
  <2>. QED
    BY <2>1, <2>2, <2>3
<1>3. F \in [S -> SUBSET S] /\ m \in [S -> Nat]
  <2>1. \A s \in S : NaturalsAdded(s) \in SUBSET S
    BY <1>2
  <2>2. \A s \in S : s.units \in Nat
    OBVIOUS
  <2>. HIDE DEF S
  <2>. QED
    BY <2>1, <2>2
<1>4. Starts(x, m, n) /\ Takes(S, F, m)
  <2>1. ASSUME NEW s \in x PROVE m[s] <= n
    <3>1. s \in S /\ s.units = n
      BY <1>1
    <3>. HIDE DEF S, x
    <3>. QED
      BY <3>1
  <2>2. ASSUME NEW s \in S, NEW o \in F[s] PROVE m[o] < m[s] \/ m[o] = 0
    <3>1. o \in NaturalsAdded(s)
      OBVIOUS
    <3>. HIDE DEF S, F, m
    <3>. QED
      BY <1>2, <3>1
  <2>. HIDE DEF S, x, F, m
  <2>. QED
    BY <2>1, <2>2 DEF Starts, Takes
<1>. HIDE DEF S, x, m
<1>5. PICK f \in [0 .. n -> SUBSET S] : Iterates(f, x, F, n)
  <2>. HIDE DEF F
  <2>. QED
    BY <1>1, <1>3, IteratesExist
<1>6. f[n] \in SUBSET S /\ NothingIn(f[n], m)
  <2>. HIDE DEF F
  <2>. QED
    BY <1>1, <1>3, <1>4, <1>5, IteratesEnd
<1>7. IsLoop(f)
  <2>1. ASSUME NEW k \in 0 .. n
        PROVE  f[k] = IF k = 0 THEN x ELSE UNION {NaturalsAdded(s) : s \in f[k - 1]}
    <3>1. CASE k = 0
      BY <1>5, <3>1 DEF Iterates
    <3>2. CASE k # 0
      <4>1. k \in 1 .. n /\ k - 1 \in 0 .. n
        BY <3>2
      <4>2. f[k] = UNION {F[s] : s \in f[k - 1]} /\ f[k - 1] \in SUBSET S
        <5>. HIDE DEF F
        <5>. QED
          BY <1>5, <4>1 DEF Iterates, Iterated
      <4>3. \A s \in f[k - 1] : F[s] = NaturalsAdded(s)
        BY <4>2
      <4>4. {F[s] : s \in f[k - 1]} = {NaturalsAdded(s) : s \in f[k - 1]}
        <5>. HIDE DEF F
        <5>. QED
          BY <4>3
      <4>. QED
        BY <3>2, <4>2, <4>4, Zenon
    <3>. QED
      BY <3>1, <3>2
  <2>. QED
    BY <2>1 DEF x
<1>8. IsLoop(g)
  <2>. HIDE DEF IsLoop
  <2>. QED
    BY <1>7
<1>9. AddNaturals(t, n) = {s.t : s \in g[n]}
  BY Zenon DEF AddNaturals
<1>10. \A k \in 0 .. n : k \in Nat => g[k] = f[k]
  <2>. DEFINE T == {k \in Nat : k <= n => g[k] = f[k]}
  <2>1. \A k \in 0 .. n : g[k] = IF k = 0 THEN x ELSE UNION {NaturalsAdded(s) : s \in g[k - 1]}
    <3>. HIDE DEF g
    <3>. QED
      BY <1>8 DEF x
  <2>2. \A k \in 0 .. n : f[k] = IF k = 0 THEN x ELSE UNION {NaturalsAdded(s) : s \in f[k - 1]}
    BY <1>7 DEF x
  <2>. HIDE DEF g
  <2>3. 0 \in T
    <3>1. 0 \in 0 .. n
      OBVIOUS
    <3>2. g[0] = x /\ f[0] = x
      BY <2>1, <2>2, <3>1, Zenon
    <3>. QED
      BY <3>2
  <2>4. ASSUME NEW k \in Nat, k \in T PROVE k + 1 \in T
    <3>. SUFFICES ASSUME k + 1 <= n PROVE g[k + 1] = f[k + 1]
      OBVIOUS
    <3>1. g[k] = f[k] /\ k + 1 \in 0 .. n /\ k + 1 # 0 /\ (k + 1) - 1 = k
      BY <2>4
    <3>2. /\ g[k + 1] = UNION {NaturalsAdded(s) : s \in g[(k + 1) - 1]}
          /\ f[k + 1] = UNION {NaturalsAdded(s) : s \in f[(k + 1) - 1]}
      BY <2>1, <2>2, <3>1, Zenon
    <3>. QED
      BY <3>1, <3>2, Zenon
  <2>. HIDE DEF T
  <2>5. \A k \in Nat : k \in T
    BY <2>3, <2>4, NatBySet
  <2>. QED
    BY <2>5 DEF T
<1>. HIDE DEF g, F
<1>11. PICK s \in f[n] : u = s.t
  <2>1. n \in 0 .. n
    OBVIOUS
  <2>. QED
    BY <1>9, <1>10, <2>1
<1>12. s \in S /\ m[s] = 0
  BY <1>6 DEF NothingIn
<1>13. s \in [t : Trackers, units : 0 .. n] /\ Good(s) /\ (Ok(s.t) => s.units = 0)
  BY <1>12 DEF S, m
<1>14. CASE Ok(s.t)
  <2>1. n - s.units = n
    BY <1>13, <1>14
  <2>. QED
    BY <1>11, <1>13, <2>1
<1>15. CASE ~ Ok(s.t)
  BY <1>11, <1>13, <1>15 DEF Result
<1>. QED
  BY <1>14, <1>15

\* The slots in q and c more bytes, which are not packed with them.
Consts(q, c) == (q \o Fill(8, c \div 8)) \o (IF c % 8 = 0 THEN <<>> ELSE <<c % 8>>)

\* The loop over c bytes is at s: units are left.
Left(s, t, b, q, c, w) ==
  \/ \E k \in Nat : c = 8 * k + s.units /\ Result(s.t, t, b, q \o Fill(8, k), w)
  \/ s.units = 0 /\ Result(s.t, t, b, Consts(q, c), w)

\* Arithmetic of a block of 32 bytes.
LEMMA BlocksOfBytes ==
  ASSUME NEW c \in Nat, NEW k \in Nat, NEW r \in Nat, c = 8 * k + r, r >= 32
  PROVE  /\ r \div 32 \in Nat /\ r \div 32 > 0 /\ r % 32 \in 0 .. c /\ r % 32 < r
         /\ c = 8 * (k + 4 * (r \div 32)) + (r % 32)
         /\ k + 4 * (r \div 32) \in Nat /\ k + 4 * (r \div 32) <= c
<1>1. r = 32 * (r \div 32) + (r % 32) /\ r % 32 \in 0 .. 31 /\ r \div 32 \in Int
  OBVIOUS
<1>. DEFINE x == r \div 32
            y == r % 32
<1>. HIDE DEF x, y
<1>2. /\ x \in Nat /\ x > 0 /\ y \in 0 .. c /\ y < r /\ c = 8 * (k + 4 * x) + y
      /\ k + 4 * x \in Nat /\ k + 4 * x <= c
  BY <1>1 DEF x, y
<1>. QED
  BY <1>2 DEF x, y

LEMMA RoomBelow ==
  ASSUME NEW b \in Nat, NEW n \in Nat, NEW m \in Nat, NEW w \in Int, n <= m, Room(b, m, w)
  PROVE  Room(b, n, w)
BY DEF Room

LEMMA DividedIs ==
  ASSUME NEW c \in Nat, NEW k \in Nat, NEW r \in 0 .. 7, c = 8 * k + r
  PROVE  c \div 8 = k /\ c % 8 = r
OBVIOUS

\* One iteration adds eight bytes, as many blocks of 32 as there are, or the rest.
LEMMA BytesAddedIs ==
  ASSUME NEW t, NEW b, NEW q \in Seq(Slot), NEW w \in Int, NEW c \in Nat,
         Room(b, Len(q) + c, w),
         NEW s \in [t : Trackers, units : 0 .. c], Left(s, t, b, q, c, w),
         NEW o \in BytesAdded(s)
  PROVE  /\ o \in [t : Trackers, units : 0 .. c] /\ Left(o, t, b, q, c, w)
         /\ Ok(o.t) => o.units = 0 \/ (Ok(s.t) /\ o.units < s.units)
<1>1. CASE s.units = 0 \/ ~ Ok(s.t)
  <2>1. o = s
    BY <1>1 DEF BytesAdded
  <2>. QED
    BY <1>1, <2>1
<1>2. CASE s.units # 0 /\ Ok(s.t)
  <2>1. PICK k \in Nat : c = 8 * k + s.units /\ Result(s.t, t, b, q \o Fill(8, k), w)
    BY <1>2 DEF Left
  <2>. DEFINE r == s.units
  <2>2. r \in 1 .. c /\ c = 8 * k + r /\ s.t \in Trackers /\ 8 \in Slot /\ 8 \in {0, 8}
        /\ Len(q) \in Nat
    BY <1>2, <2>1 DEF Slot
  <2>3. Sound(s.t, b, q \o Fill(8, k), w) /\ SameBelow(s.t, t, b)
    BY <1>2, <2>1 DEF Result
  <2>4. b \in Nat
    BY <2>3, SoundIs
  <2>5. /\ Len(q \o Fill(8, k)) = Len(q) + k /\ q \o Fill(8, k) \in Seq(Slot)
        /\ q \o Fill(8, k + 1) = Append(q \o Fill(8, k), 8)
    BY <2>2, FillIs
  <2>6. Room(b, Len(q \o Fill(8, k)) + 1, w)
    <3>1. Len(q) + k + 1 <= Len(q) + c /\ Len(q) + k + 1 \in Nat /\ Len(q) + c \in Nat
      BY <2>2
    <3>2. Room(b, Len(q) + k + 1, w)
      BY <2>4, <3>1, RoomBelow
    <3>. QED
      BY <2>5, <3>2
  <2>7. CASE r < 8
    <3>1. PICK u \in AddStackTrackerEntry(s.t, r) : o = [t |-> u, units |-> 0]
      BY <1>2, <2>7 DEF BytesAdded
    <3>0. r \in 1 .. 7 /\ r \in 0 .. 7
      <4>. HIDE DEF r
      <4>1. r \in Nat /\ r >= 1 /\ r < 8
        BY <2>2, <2>7 DEF r
      <4>. QED
        BY <4>1
    <3>. HIDE DEF r
    <3>2. r \in 1 .. 7 /\ r \in Slot /\ Shown(r) = r /\ c \div 8 = k /\ c % 8 = r
      <4>1. c \div 8 = k /\ c % 8 = r
        BY <2>2, <3>0, DividedIs
      <4>2. r \in Slot /\ Shown(r) = r
        BY <3>0 DEF Slot, Shown
      <4>. QED
        BY <3>0, <4>1, <4>2
    <3>3. Result(u, s.t, b, Append(q \o Fill(8, k), r), w)
      BY <2>3, <2>6, <3>1, <3>2, AddSlot
    <3>4. Append(q \o Fill(8, k), r) = Consts(q, c)
      <4>1. Append(q \o Fill(8, k), r) = (q \o Fill(8, k)) \o <<r>>
        BY <2>5, <3>2, AppendIsConcat
      <4>2. r # 0
        BY <3>2
      <4>. QED
        BY <3>2, <4>1, <4>2 DEF Consts
    <3>5. Result(u, t, b, Consts(q, c), w)
      BY <2>3, <3>3, <3>4, ResultAfter
    <3>6. u \in Trackers
      BY <3>5, ResultType
    <3>. QED
      BY <3>1, <3>5, <3>6 DEF Left
  <2>8. CASE r >= 32 /\ s.t.Index % 4 = 0
    <3>. DEFINE count == r \div 32
                j == k + 4 * count
    <3>1. PICK u \in AddStackTrackerBytes(s.t, 0, r \div 32) : o = [t |-> u, units |-> r % 32]
      <4>1. ~ (r < 8)
        BY <2>2, <2>8
      <4>. QED
        BY <1>2, <2>8, <4>1 DEF BytesAdded
    <3>2. /\ count \in Nat /\ count > 0 /\ r % 32 \in 0 .. c /\ r % 32 < r
          /\ c = 8 * j + (r % 32) /\ j \in Nat /\ j <= c
      <4>1. r \in Nat /\ r >= 32
        BY <2>2, <2>8
      <4>. HIDE DEF r
      <4>. QED
        BY <2>2, <4>1, BlocksOfBytes
    <3>3. u \in AddStackTrackerBytes(s.t, IF 8 = 0 THEN 1 ELSE 0, count)
      BY <3>1
    <3>. HIDE DEF r, count
    <3>4. Room(b, Len(q) + k + 4 * count, w)
      <4>1. Len(q) + k + 4 * count <= Len(q) + c /\ Len(q) + k + 4 * count \in Nat
        BY <2>2, <3>2
      <4>. QED
        BY <2>2, <2>4, <4>1, SMTT(20) DEF Room
    <3>5. Result(u, s.t, b, q \o Fill(8, j), w)
      BY <2>2, <2>3, <3>2, <3>3, <3>4, AddSlots
    <3>. HIDE DEF j
    <3>6. Result(u, t, b, q \o Fill(8, j), w)
      BY <2>3, <3>5, ResultAfter
    <3>7. u \in Trackers
      BY <3>6, ResultType
    <3>8. o.t = u /\ o.units = r % 32 /\ o \in [t : Trackers, units : 0 .. c]
      BY <3>1, <3>2, <3>7
    <3>9. Left(o, t, b, q, c, w)
      BY <3>2, <3>6, <3>8 DEF Left
    <3>. QED
      BY <1>2, <3>2, <3>8, <3>9 DEF r
  <2>9. CASE ~ (r < 8) /\ ~ (r >= 32 /\ s.t.Index % 4 = 0)
    <3>1. PICK u \in AddStackTrackerEntry(s.t, 0) : o = [t |-> u, units |-> r - 8]
      BY <1>2, <2>9 DEF BytesAdded
    <3>2. r - 8 \in 0 .. c /\ r - 8 < r /\ c = 8 * (k + 1) + (r - 8) /\ k + 1 \in Nat
      BY <2>2, <2>9
    <3>3. u \in AddStackTrackerEntry(s.t, Shown(8))
      BY <3>1 DEF Shown
    <3>. HIDE DEF r
    <3>4. Result(u, s.t, b, q \o Fill(8, k + 1), w)
      BY <2>2, <2>3, <2>5, <2>6, <3>3, AddSlot
    <3>5. Result(u, t, b, q \o Fill(8, k + 1), w)
      BY <2>3, <3>4, ResultAfter
    <3>6. u \in Trackers
      BY <3>5, ResultType
    <3>7. o.t = u /\ o.units = r - 8 /\ o \in [t : Trackers, units : 0 .. c]
      BY <3>1, <3>2, <3>6
    <3>8. Left(o, t, b, q, c, w)
      BY <3>2, <3>5, <3>7 DEF Left
    <3>. QED
      BY <1>2, <3>2, <3>7, <3>8 DEF r
  <2>. QED
    BY <2>7, <2>8, <2>9
<1>. QED
  BY <1>1, <1>2

\* What the loop over bytes ends with, when s of S leads to S and takes from m.
LEMMA BytesLoop ==
  ASSUME NEW t, NEW c \in Nat, NEW u \in AddBytes(t, c), NEW S, NEW m \in [S -> Nat],
         [t |-> t, units |-> c] \in S, m[[t |-> t, units |-> c]] <= c,
         \A s \in S : BytesAdded(s) \in SUBSET S,
         \A s \in S : \A o \in BytesAdded(s) : m[o] < m[s] \/ m[o] = 0
  PROVE  \E s \in S : m[s] = 0 /\ u = s.t
<1>. DEFINE x == {[t |-> t, units |-> c]}
            F == [s \in S |-> BytesAdded(s)]
            IsLoop(f) == f = [k \in 0 .. c |-> IF k = 0 THEN {[t |-> t, units |-> c]}
                                               ELSE UNION {BytesAdded(s) : s \in f[k - 1]}]
            g == CHOOSE f : IsLoop(f)
<1>1. x \in SUBSET S
  OBVIOUS
<1>3. F \in [S -> SUBSET S] /\ m \in [S -> Nat]
  OBVIOUS
<1>4. Starts(x, m, c) /\ Takes(S, F, m)
  <2>1. \A s \in x : m[s] <= c
    OBVIOUS
  <2>2. \A s \in S : \A o \in F[s] : m[o] < m[s] \/ m[o] = 0
    OBVIOUS
  <2>. HIDE DEF x, F
  <2>. QED
    BY <2>1, <2>2 DEF Starts, Takes
<1>. HIDE DEF x
<1>5. PICK f \in [0 .. c -> SUBSET S] : Iterates(f, x, F, c)
  <2>. HIDE DEF F
  <2>. QED
    BY <1>1, <1>3, IteratesExist
<1>6. f[c] \in SUBSET S /\ NothingIn(f[c], m)
  <2>. HIDE DEF F
  <2>. QED
    BY <1>1, <1>3, <1>4, <1>5, IteratesEnd
<1>7. IsLoop(f)
  <2>1. ASSUME NEW k \in 0 .. c
        PROVE  f[k] = IF k = 0 THEN x ELSE UNION {BytesAdded(s) : s \in f[k - 1]}
    <3>1. CASE k = 0
      BY <1>5, <3>1 DEF Iterates
    <3>2. CASE k # 0
      <4>1. k \in 1 .. c /\ k - 1 \in 0 .. c
        BY <3>2
      <4>2. f[k] = UNION {F[s] : s \in f[k - 1]} /\ f[k - 1] \in SUBSET S
        <5>. HIDE DEF F
        <5>. QED
          BY <1>5, <4>1 DEF Iterates, Iterated
      <4>3. \A s \in f[k - 1] : F[s] = BytesAdded(s)
        BY <4>2
      <4>4. {F[s] : s \in f[k - 1]} = {BytesAdded(s) : s \in f[k - 1]}
        <5>. HIDE DEF F
        <5>. QED
          BY <4>3
      <4>. QED
        BY <3>2, <4>2, <4>4, Zenon
    <3>. QED
      BY <3>1, <3>2
  <2>. QED
    BY <2>1 DEF x
<1>8. IsLoop(g)
  <2>. HIDE DEF IsLoop
  <2>. QED
    BY <1>7
<1>9. AddBytes(t, c) = {s.t : s \in g[c]}
  BY Zenon DEF AddBytes
<1>10. \A k \in 0 .. c : k \in Nat => g[k] = f[k]
  <2>. DEFINE T == {k \in Nat : k <= c => g[k] = f[k]}
  <2>1. \A k \in 0 .. c : g[k] = IF k = 0 THEN x ELSE UNION {BytesAdded(s) : s \in g[k - 1]}
    <3>. HIDE DEF g
    <3>. QED
      BY <1>8 DEF x
  <2>2. \A k \in 0 .. c : f[k] = IF k = 0 THEN x ELSE UNION {BytesAdded(s) : s \in f[k - 1]}
    BY <1>7 DEF x
  <2>. HIDE DEF g
  <2>3. 0 \in T
    <3>1. 0 \in 0 .. c
      OBVIOUS
    <3>2. g[0] = x /\ f[0] = x
      BY <2>1, <2>2, <3>1, Zenon
    <3>. QED
      BY <3>2
  <2>4. ASSUME NEW k \in Nat, k \in T PROVE k + 1 \in T
    <3>. SUFFICES ASSUME k + 1 <= c PROVE g[k + 1] = f[k + 1]
      OBVIOUS
    <3>1. g[k] = f[k] /\ k + 1 \in 0 .. c /\ k + 1 # 0 /\ (k + 1) - 1 = k
      BY <2>4
    <3>2. /\ g[k + 1] = UNION {BytesAdded(s) : s \in g[(k + 1) - 1]}
          /\ f[k + 1] = UNION {BytesAdded(s) : s \in f[(k + 1) - 1]}
      BY <2>1, <2>2, <3>1, Zenon
    <3>. QED
      BY <3>1, <3>2, Zenon
  <2>. HIDE DEF T
  <2>5. \A k \in Nat : k \in T
    BY <2>3, <2>4, NatBySet
  <2>. QED
    BY <2>5 DEF T
<1>. HIDE DEF g, F
<1>11. PICK s \in f[c] : u = s.t
  <2>1. c \in 0 .. c
    OBVIOUS
  <2>. QED
    BY <1>9, <1>10, <2>1
<1>12. s \in S /\ m[s] = 0
  BY <1>6 DEF NothingIn
<1>. QED
  BY <1>11, <1>12

\* The loop adds the bytes, in slots of eight and one of what is left.
LEMMA AddBytesIs ==
  ASSUME NEW t, NEW b, NEW q \in Seq(Slot), NEW w \in Int, NEW c \in Nat,
         Sound(t, b, q, w), Room(b, Len(q) + c, w), NEW u \in AddBytes(t, c)
  PROVE  Result(u, t, b, Consts(q, c), w)
<1>. DEFINE Good(s) == Left(s, t, b, q, c, w)
            S == {s \in [t : Trackers, units : 0 .. c] : Good(s)}
            m == [s \in S |-> IF Ok(s.t) THEN s.units ELSE 0]
            s0 == [t |-> t, units |-> c]
<1>1. s0 \in S /\ s0.units = c
  <2>1. q \o Fill(8, 0) = q
    <3>1. 0 \in Nat /\ 8 \in Slot
      BY DEF Slot
    <3>. QED
      BY <3>1, FillIs
  <2>2. s0.t = t /\ s0.units = c /\ s0 \in [t : Trackers, units : 0 .. c]
    BY SoundIs
  <2>. HIDE DEF s0
  <2>3. Result(s0.t, t, b, q \o Fill(8, 0), w) /\ c = 8 * 0 + s0.units /\ 0 \in Nat
    <3>1. Result(t, t, b, q, w)
      BY ResultSelf
    <3>2. Result(s0.t, t, b, q \o Fill(8, 0), w)
      BY <2>1, <2>2, <3>1
    <3>3. c = 8 * 0 + s0.units
      BY <2>2
    <3>. QED
      BY <3>2, <3>3
  <2>4. Good(s0)
    BY <2>3 DEF Left
  <2>. QED
    BY <2>2, <2>4
<1>2. ASSUME NEW s \in S, NEW o \in BytesAdded(s)
      PROVE  o \in S /\ (m[o] < m[s] \/ m[o] = 0) /\ m[s] \in Nat
  <2>1. s \in [t : Trackers, units : 0 .. c] /\ Good(s)
    OBVIOUS
  <2>2. /\ o \in [t : Trackers, units : 0 .. c] /\ Good(o)
        /\ Ok(o.t) => o.units = 0 \/ (Ok(s.t) /\ o.units < s.units)
    BY <2>1, BytesAddedIs
  <2>3. o \in S
    BY <2>2
  <2>. HIDE DEF S, Good
  <2>. QED
    BY <2>1, <2>2, <2>3
<1>3. m \in [S -> Nat] /\ m[s0] <= c
  <2>1. \A s \in S : s.units \in Nat
    OBVIOUS
  <2>. HIDE DEF S, s0
  <2>. QED
    BY <1>1, <2>1
<1>4. /\ \A s \in S : BytesAdded(s) \in SUBSET S
      /\ \A s \in S : \A o \in BytesAdded(s) : m[o] < m[s] \/ m[o] = 0
  <2>. HIDE DEF S, m
  <2>. QED
    BY <1>2
<1>11. PICK s \in S : m[s] = 0 /\ u = s.t
  <2>. HIDE DEF S, m
  <2>. QED
    BY <1>1, <1>3, <1>4, BytesLoop DEF s0
<1>13. s \in [t : Trackers, units : 0 .. c] /\ Good(s) /\ (Ok(s.t) => s.units = 0)
  BY <1>11
<1>14. CASE Ok(s.t)
  <2>1. s.units = 0
    BY <1>13, <1>14
  <2>2. CASE Result(s.t, t, b, Consts(q, c), w)
    BY <1>11, <2>2
  <2>3. CASE \E k \in Nat : c = 8 * k + s.units /\ Result(s.t, t, b, q \o Fill(8, k), w)
    <3>1. PICK k \in Nat : c = 8 * k /\ Result(s.t, t, b, q \o Fill(8, k), w)
      BY <2>1, <2>3
    <3>2. Consts(q, c) = q \o Fill(8, k)
      <4>1. c \div 8 = k /\ c % 8 = 0 /\ 8 \in Slot
        BY <3>1 DEF Slot
      <4>2. q \o Fill(8, k) \in Seq(Slot)
        BY <4>1, FillIs
      <4>. QED
        BY <4>1, <4>2, ConcatEmptySeq DEF Consts
    <3>. QED
      BY <1>11, <3>1, <3>2
  <2>. QED
    BY <1>13, <2>2, <2>3 DEF Left
<1>15. CASE ~ Ok(s.t)
  <2>1. Failed(s.t)
    BY <1>13, <1>15 DEF Left, Result
  <2>. QED
    BY <1>11, <1>15, <2>1 DEF Result
<1>. QED
  BY <1>14, <1>15


\* After a failure it adds nothing.
LEMMA AddBytesFailed ==
  ASSUME NEW t, NEW c \in Nat, ~ Ok(t), NEW u \in AddBytes(t, c)
  PROVE  u = t
<1>. DEFINE s0 == [t |-> t, units |-> c]
            S == {s0}
            m == [s \in S |-> 0]
<1>1. /\ m \in [S -> Nat] /\ s0 \in S /\ m[s0] <= c
  OBVIOUS
<1>2. BytesAdded(s0) = {s0}
  BY DEF BytesAdded
<1>3. /\ \A s \in S : BytesAdded(s) \in SUBSET S
      /\ \A s \in S : \A o \in BytesAdded(s) : m[o] < m[s] \/ m[o] = 0
  BY <1>2
<1>4. PICK s \in S : m[s] = 0 /\ u = s.t
  <2>. HIDE DEF S, m
  <2>. QED
    BY <1>1, <1>3, BytesLoop DEF s0
<1>. QED
  BY <1>4

\* Every slot is a byte at least.
LEMMA SlotsAreBytes ==
  ASSUME NEW q \in Seq(Slot)
  PROVE  Len(q) \in Nat /\ Len(q) <= Abstract!Total(q) /\ Abstract!Total(q) \in Nat
<1>. DEFINE T == {k \in Nat : k <= Len(q) => k <= Height(q, k)}
<1>0. Len(q) \in Nat /\ Prefix(q, Len(q)) = q /\ Abstract!Total(q) \in Nat
  BY SubSeqFull, TotalType DEF Prefix
<1>1. 0 \in T
  <2>1. 0 \in 0 .. Len(q)
    BY <1>0
  <2>. QED
    BY <2>1, HeightType
<1>2. ASSUME NEW k \in Nat, k \in T PROVE k + 1 \in T
  <2>. SUFFICES ASSUME k + 1 <= Len(q) PROVE k + 1 <= Height(q, k + 1)
    OBVIOUS
  <2>1. k <= Height(q, k) /\ k \in 0 .. Len(q) /\ k + 1 \in 0 .. Len(q) /\ k < k + 1
    BY <1>0, <1>2
  <2>2. Height(q, k) \in Nat /\ Height(q, k + 1) \in Nat
    BY <2>1, HeightType
  <2>3. Height(q, k) < Height(q, k + 1)
    BY <2>1, HeightGrows
  <2>. QED
    BY <2>1, <2>2, <2>3
<1>. HIDE DEF T
<1>3. \A k \in Nat : k \in T
  BY <1>1, <1>2, NatBySet
<1>4. Len(q) \in T
  BY <1>0, <1>3
<1>. QED
  BY <1>0, <1>4 DEF T, Height

\* Bytes packed into slots are as many.
LEMMA TotalConsts ==
  ASSUME NEW q \in Seq(Slot), NEW c \in Nat
  PROVE  /\ Consts(q, c) \in Seq(Slot)
         /\ Abstract!Total(Consts(q, c)) = Abstract!Total(q) + c
<1>1. /\ c \div 8 \in Nat /\ c % 8 \in 0 .. 7 /\ c = 8 * (c \div 8) + (c % 8)
  OBVIOUS
<1>. DEFINE k == c \div 8
            r == c % 8
            p == q \o Fill(8, k)
<1>2. 8 \in Slot /\ SizeOf(8) = 8
  BY DEF Slot, SizeOf
<1>. HIDE DEF k, r
<1>3. k \in Nat /\ r \in 0 .. 7 /\ c = 8 * k + r
  BY <1>1 DEF k, r
<1>4. p \in Seq(Slot) /\ Abstract!Total(p) = Abstract!Total(q) + k * 8
  <2>1. Abstract!Total(p) = Abstract!Total(q) + k * SizeOf(8)
    BY <1>2, <1>3, TotalFill
  <2>2. p \in Seq(Slot)
    BY <1>2, <1>3, FillIs
  <2>. HIDE DEF p
  <2>. QED
    BY <1>2, <2>1, <2>2
<1>5. Consts(q, c) = p \o (IF r = 0 THEN <<>> ELSE <<r>>)
  BY DEF Consts, k, r
<1>6. Abstract!Total(q) \in Nat
  BY TotalType
<1>. HIDE DEF p
<1>7. CASE r = 0
  <2>1. Consts(q, c) = p
    BY <1>4, <1>5, <1>7, ConcatEmptySeq
  <2>. QED
    BY <1>3, <1>4, <1>6, <1>7, <2>1
<1>8. CASE r # 0
  <2>1. r \in Slot /\ SizeOf(r) = r
    BY <1>3, <1>8 DEF Slot, SizeOf
  <2>2. Consts(q, c) = Append(p, r)
    BY <1>4, <1>5, <1>8, <2>1, AppendIsConcat
  <2>3. Append(p, r) \in Seq(Slot) /\ Abstract!Total(Append(p, r)) = Abstract!Total(p) + r
    BY <1>4, <2>1, TotalAppend
  <2>. QED
    <3>1. Abstract!Total(p) + r = Abstract!Total(q) + c
      BY <1>3, <1>4, <1>6
    <3>. QED
      BY <2>2, <2>3, <3>1
<1>. QED
  BY <1>7, <1>8

\* The abstract operation in these terms.
LEMMA AddConstsAre ==
  ASSUME NEW q \in Seq(Slot), NEW c \in Nat
  PROVE  /\ Abstract!AddConsts(<<>>, c) = Consts(<<>>, c)
         /\ Abstract!AddConsts(q, 0) = Consts(q, 0)
         /\ \A x \in Slot : Abstract!AddConsts(Append(q, x), c)
                              = IF c > 0 /\ x \in 1 .. 7 THEN Consts(q, c + x)
                                                         ELSE Consts(Append(q, x), c)
<1>1. ASSUME NEW s, NEW p, NEW d, NEW a,
             (c > 0 /\ s # <<>> /\ s[Len(s)] \in 1 .. 7) = FALSE
      PROVE  Abstract!AddConsts(s, c) = Consts(s, c)
  BY <1>1, Zenon DEF Abstract!AddConsts, Abstract!Last, Consts, Fill
<1>2. Abstract!AddConsts(<<>>, c) = Consts(<<>>, c)
  BY <1>1
<1>3. Abstract!AddConsts(q, 0) = Consts(q, 0)
  <2>1. (0 > 0) = FALSE
    OBVIOUS
  <2>. QED
    BY <2>1, Zenon DEF Abstract!AddConsts, Consts, Fill
<1>4. ASSUME NEW x \in Slot
      PROVE  Abstract!AddConsts(Append(q, x), c)
               = IF c > 0 /\ x \in 1 .. 7 THEN Consts(q, c + x) ELSE Consts(Append(q, x), c)
  <2>. DEFINE s == Append(q, x)
  <2>1. s # <<>> /\ s[Len(s)] = x /\ SubSeq(s, 1, Len(s) - 1) = q
    BY AppendPrefix, AppendProperties
  <2>. HIDE DEF s
  <2>2. CASE c > 0 /\ x \in 1 .. 7
    <3>1. (c > 0 /\ s # <<>> /\ s[Len(s)] \in 1 .. 7) = TRUE
      BY <2>1, <2>2
    <3>2. Abstract!AddConsts(s, c) = Consts(q, c + x)
      BY <2>1, <3>1, Zenon DEF Abstract!AddConsts, Abstract!Last, Abstract!Front, Consts, Fill
    <3>. QED
      BY <2>2, <3>2 DEF s
  <2>3. CASE ~ (c > 0 /\ x \in 1 .. 7)
    <3>1. (c > 0 /\ s # <<>> /\ s[Len(s)] \in 1 .. 7) = FALSE
      BY <2>1, <2>3
    <3>2. Abstract!AddConsts(s, c) = Consts(s, c)
      BY <1>1, <3>1
    <3>. QED
      BY <2>3, <3>2 DEF s
  <2>. QED
    BY <2>2, <2>3
<1>. QED
  BY <1>2, <1>3, <1>4

-----------------------------------------------------------------------------
\* What is in front of the codes from b on is not packed with them.
Whole(t, b) == b = 0 \/ GetStackTrackerEntry([t EXCEPT !.Index = b]) \in {0, 8}

\* What is in front of the codes from b on is left as it is.
LEMMA WholeSame ==
  ASSUME NEW u, u \in Trackers, NEW t, t \in Trackers, NEW b \in Nat,
         SameBelow(u, t, b), Whole(t, b)
  PROVE  Whole(u, b)
<1>. SUFFICES ASSUME b # 0 PROVE GetStackTrackerEntry([u EXCEPT !.Index = b]) \in {0, 8}
  BY DEF Whole
<1>. DEFINE v == [u EXCEPT !.Index = b]
            x == [t EXCEPT !.Index = b]
<1>1. /\ v.Index = b /\ x.Index = b
      /\ \A i : v.Data[i] = u.Data[i] /\ x.Data[i] = t.Data[i]
  BY DEF Trackers
<1>2. \A i \in 0 .. b - 1 : u.Data[i] = t.Data[i]
  BY DEF SameBelow
<1>3. GetStackTrackerEntry(x) \in {0, 8}
  BY DEF Whole
<1>. HIDE DEF v, x
<1>4. Code(v, b - 1) = Code(x, b - 1)
  <2>1. b - 1 \in 0 .. b - 1
    OBVIOUS
  <2>. QED
    BY <1>1, <1>2, <2>1 DEF Code
<1>5. Code(v, b - 2) = Code(x, b - 2)
  <2>1. b - 2 < 0 \/ b - 2 \in 0 .. b - 1
    OBVIOUS
  <2>. QED
    BY <1>1, <1>2, <2>1 DEF Code
<1>6. GetStackTrackerEntry(v) = GetStackTrackerEntry(x)
  BY <1>1, <1>4, <1>5, Zenon DEF GetStackTrackerEntry
<1>. QED
  BY <1>3, <1>6 DEF v

LEMMA NothingOpen ==
  ASSUME NEW t, NEW b, NEW w, Sound(t, b, <<>>, w), Whole(t, b)
  PROVE  GetStackTrackerEntry(t) \in {0, 8}
<1>1. t \in Trackers /\ t.Index = b
  BY SoundIs, HoldsOnlyNone DEF Sound
<1>2. CASE b = 0
  BY <1>1, <1>2, NoEntry
<1>3. CASE b # 0
  <2>1. [t EXCEPT !.Index = b] = t
    BY <1>1 DEF Trackers
  <2>. QED
    BY <1>3, <2>1 DEF Whole
<1>. QED
  BY <1>2, <1>3

\* The newest slot, and the tracker without it.
LEMMA NewestIs ==
  ASSUME NEW t, NEW b, NEW f \in Seq(Slot), NEW x \in Slot, NEW w \in Int,
         Sound(t, b, Append(f, x), w)
  PROVE  /\ GetStackTrackerEntry(t) = Shown(x)
         /\ Sound(DelStackTrackerEntry(t), b, f, w) /\ Ok(DelStackTrackerEntry(t))
         /\ SameBelow(DelStackTrackerEntry(t), t, b)
         /\ DelStackTrackerEntry(t).Index < t.Index
<1>1. Append(f, x) # <<>> /\ Holds(t.Data, b, t.Index, Append(f, x))
  BY AppendProperties DEF Sound
<1>2. PICK g \in Seq(Slot), y \in Slot, i \in Nat :
        Append(f, x) = Append(g, y) /\ Holds(t.Data, b, i, g) /\ At(t.Data, i, t.Index, y)
  <2>. DEFINE q == Append(f, x)
              d == t.Data
              top == t.Index
  <2>. HIDE DEF q, d, top
  <2>1. q # <<>> /\ Holds(d, b, top, q)
    BY <1>1 DEF q, d, top
  <2>2. \E g \in Seq(Slot), y \in Slot, i \in Nat :
          q = Append(g, y) /\ Holds(d, b, i, g) /\ At(d, i, top, y)
    BY <2>1, HoldsFront
  <2>. QED
    BY <2>2 DEF q, d, top
<1>3. g = f /\ y = x
  BY <1>2, AppendInjective
<1>4. t \in Trackers /\ t.Index \in Nat
  BY SoundIs
<1>. DEFINE v == [t EXCEPT !.Index = i, !.Status = t.Status]
<1>5. GetStackTrackerEntry(t) = Shown(x) /\ DelStackTrackerEntry(t) = v
  BY <1>2, <1>3, <1>4, EntryIs
<1>6. i < t.Index
  BY <1>2, <1>4 DEF At
<1>7. Buffered(v) /\ v.Size = t.Size /\ v.Index = i /\ v.Data = t.Data /\ Ok(v)
      /\ SameBelow(v, t, b)
  <2>1. Buffered(t)
    BY DEF Sound
  <2>2. v \in Trackers /\ Ok(v)
    <3>1. v \in Trackers
      <4>1. t \in Trackers /\ i \in Int /\ t.Status \in Statuses
        BY <1>4 DEF Trackers
      <4>2. [t EXCEPT !.Index = i] \in Trackers
        BY <4>1 DEF Trackers
      <4>3. v = [[t EXCEPT !.Index = i] EXCEPT !.Status = t.Status]
        BY <4>1 DEF Trackers
      <4>. QED
        BY <4>1, <4>2, <4>3 DEF Trackers
    <3>2. v.Status = t.Status
      BY <1>4 DEF Trackers
    <3>. QED
      BY <2>1, <3>1, <3>2 DEF Buffered, Ok
  <2>3. i \in 0 .. 4 * t.Size
    <3>1. t.Index <= 4 * t.Size /\ t.Size \in Nat
      BY <1>4, <2>1 DEF Buffered, Trackers
    <3>. QED
      BY <1>4, <1>6, <3>1
  <2>4. /\ v.Size = t.Size /\ v.Index = i /\ v.Data = t.Data /\ v.OrgIndex = t.OrgIndex
        /\ v.OrgStackPointer = t.OrgStackPointer /\ v.junk = t.junk
    BY <1>4 DEF Trackers
  <2>. HIDE DEF v
  <2>. QED
    BY <2>1, <2>2, <2>3, <2>4 DEF Buffered, SameBelow
<1>. HIDE DEF v
<1>. QED
  BY <1>2, <1>3, <1>5, <1>6, <1>7 DEF Sound

\* Constant bytes fill the newest slot first.
LEMMA AddConstsIs ==
  ASSUME NEW t, NEW b, NEW q \in Seq(Slot), NEW w \in Int, NEW c \in Nat,
         Sound(t, b, q, w), Whole(t, b), Room(b, Abstract!Total(q) + c, w),
         NEW u \in AddConsts(t, c)
  PROVE  Result(u, t, b, Abstract!AddConsts(q, c), w)
<1>. DEFINE last == GetStackTrackerEntry(t)
<1>0. b \in Nat /\ Ok(t)
  BY SoundIs
<1>1. ASSUME ~ (c > 0 /\ last \in 1 .. 7)
      PROVE  Result(u, t, b, Consts(q, c), w)
  <2>1. u \in AddBytes(t, c)
    BY <1>1 DEF AddConsts
  <2>2. Room(b, Len(q) + c, w)
    <3>1. /\ Len(q) + c \in Nat /\ Abstract!Total(q) + c \in Nat
          /\ Len(q) + c <= Abstract!Total(q) + c
      BY SlotsAreBytes
    <3>. QED
      BY <1>0, <3>1, RoomBelow
  <2>. QED
    BY <2>1, <2>2, AddBytesIs
<1>2. CASE q = <<>>
  <2>1. last \in {0, 8}
    BY <1>2, NothingOpen
  <2>2. Result(u, t, b, Consts(q, c), w)
    BY <1>1, <2>1
  <2>3. Abstract!AddConsts(q, c) = Consts(q, c)
    BY <1>2, AddConstsAre
  <2>. QED
    BY <2>2, <2>3
<1>3. CASE q # <<>>
  <2>1. PICK f \in Seq(Slot), x \in Slot : q = Append(f, x)
    BY <1>3, SequenceEmptyOrAppend
  <2>2. /\ last = Shown(x) /\ Sound(DelStackTrackerEntry(t), b, f, w)
        /\ SameBelow(DelStackTrackerEntry(t), t, b)
    BY <2>1, NewestIs
  <2>3. Abstract!AddConsts(q, c) = IF c > 0 /\ x \in 1 .. 7 THEN Consts(f, c + x)
                                                            ELSE Consts(q, c)
    BY <2>1, AddConstsAre
  <2>4. last \in 1 .. 7 <=> x \in 1 .. 7
    BY <2>2 DEF Shown, Slot
  <2>5. CASE c > 0 /\ x \in 1 .. 7
    <3>1. last = x /\ x \in Nat /\ c + x \in Nat /\ SizeOf(x) = x
      BY <2>2, <2>5, SMTT(20) DEF Shown, SizeOf
    <3>2. u \in AddBytes(DelStackTrackerEntry(t), c + x)
      BY <1>0, <2>4, <2>5, <3>1 DEF AddConsts
    <3>3. Room(b, Len(f) + (c + x), w)
      <4>1. /\ Len(f) \in Nat /\ Abstract!Total(f) \in Nat /\ Len(f) <= Abstract!Total(f)
            /\ Abstract!Total(q) = Abstract!Total(f) + x
        BY <2>1, <3>1, SlotsAreBytes, TotalAppend
      <4>2. /\ Len(f) + (c + x) \in Nat /\ Abstract!Total(q) + c \in Nat
            /\ Len(f) + (c + x) <= Abstract!Total(q) + c
        BY <3>1, <4>1
      <4>. QED
        BY <1>0, <4>2, RoomBelow
    <3>4. Result(u, DelStackTrackerEntry(t), b, Consts(f, c + x), w)
      BY <2>2, <3>1, <3>2, <3>3, AddBytesIs
    <3>. QED
      BY <2>2, <2>3, <2>5, <3>4, ResultAfter
  <2>6. CASE ~ (c > 0 /\ x \in 1 .. 7)
    BY <1>1, <2>3, <2>4, <2>6
  <2>. QED
    BY <2>5, <2>6
<1>. QED
  BY <1>2, <1>3

\* Pushes: n naturals, then c bytes.
LEMMA AddedIs ==
  ASSUME NEW t, NEW b, NEW q \in Seq(Slot), NEW w \in Int, NEW n \in Nat, NEW c \in Nat,
         Sound(t, b, q, w), Whole(t, b), Room(b, Abstract!Total(q) + 4 * n + c, w),
         NEW u \in UNION {AddConsts(v, c) : v \in AddNaturals(t, n)}
  PROVE  Result(u, t, b, Abstract!AddConsts(Abstract!AddNaturals(q, n), c), w)
<1>. DEFINE p == q \o Fill(0, n)
<1>0. b \in Nat /\ t \in Trackers /\ 0 \in Slot /\ SizeOf(0) = 4
  BY SoundIs DEF Slot, SizeOf
<1>1. PICK v \in AddNaturals(t, n) : u \in AddConsts(v, c)
  OBVIOUS
<1>2. p \in Seq(Slot) /\ Abstract!Total(p) = Abstract!Total(q) + 4 * n
  <2>1. Abstract!Total(p) = Abstract!Total(q) + n * SizeOf(0)
    BY <1>0, TotalFill
  <2>2. p \in Seq(Slot)
    BY <1>0, FillIs
  <2>3. n * SizeOf(0) = 4 * n
    BY <1>0
  <2>. QED
    BY <2>1, <2>2, <2>3
<1>3. Abstract!AddNaturals(q, n) = p
  BY Zenon DEF Abstract!AddNaturals, Abstract!NaturalSlot, Fill
<1>4. /\ Abstract!Total(q) \in Nat /\ Len(q) \in Nat /\ Len(q) <= Abstract!Total(q)
  BY SlotsAreBytes
<1>5. Result(v, t, b, p, w)
  <2>1. /\ Len(q) + n \in Nat /\ Abstract!Total(q) + 4 * n + c \in Nat
        /\ Len(q) + n <= Abstract!Total(q) + 4 * n + c
    BY <1>4
  <2>2. Room(b, Len(q) + n, w)
    BY <1>0, <2>1, RoomBelow
  <2>. QED
    BY <1>1, <2>2, AddNaturalsIs
<1>. HIDE DEF p
<1>6. CASE Ok(v)
  <2>1. Sound(v, b, p, w) /\ SameBelow(v, t, b) /\ v \in Trackers
    BY <1>5, <1>6, SoundIs DEF Result
  <2>2. Whole(v, b)
    BY <1>0, <2>1, WholeSame
  <2>3. Result(u, v, b, Abstract!AddConsts(p, c), w)
    BY <1>1, <1>2, <2>1, <2>2, AddConstsIs
  <2>. QED
    BY <1>3, <2>1, <2>3, ResultAfter
<1>7. CASE ~ Ok(v)
  <2>1. Failed(v)
    BY <1>5, <1>7 DEF Result
  <2>2. u \in AddBytes(v, c)
    BY <1>1, <1>7 DEF AddConsts
  <2>3. u = v
    BY <1>7, <2>2, AddBytesFailed
  <2>. QED
    BY <1>7, <2>1, <2>3 DEF Result
<1>. QED
  BY <1>6, <1>7

\* What is pushed is that much more.
LEMMA TotalAdded ==
  ASSUME NEW q \in Seq(Slot), NEW n \in Nat, NEW c \in Nat
  PROVE  /\ Abstract!AddConsts(Abstract!AddNaturals(q, n), c) \in Seq(Slot)
         /\ Abstract!Total(Abstract!AddConsts(Abstract!AddNaturals(q, n), c))
              = Abstract!Total(q) + 4 * n + c
<1>. DEFINE p == q \o Fill(0, n)
<1>0. 0 \in Slot /\ SizeOf(0) = 4
  BY DEF Slot, SizeOf
<1>1. p \in Seq(Slot) /\ Abstract!Total(p) = Abstract!Total(q) + 4 * n
  <2>1. Abstract!Total(p) = Abstract!Total(q) + n * SizeOf(0)
    BY <1>0, TotalFill
  <2>2. p \in Seq(Slot)
    BY <1>0, FillIs
  <2>3. n * SizeOf(0) = 4 * n
    BY <1>0
  <2>. QED
    BY <2>1, <2>2, <2>3
<1>2. Abstract!AddNaturals(q, n) = p
  BY Zenon DEF Abstract!AddNaturals, Abstract!NaturalSlot, Fill
<1>. HIDE DEF p
<1>3. /\ Abstract!AddConsts(p, c) \in Seq(Slot)
      /\ Abstract!Total(Abstract!AddConsts(p, c)) = Abstract!Total(p) + c
  <2>1. CASE p = <<>>
    <3>1. Abstract!AddConsts(p, c) = Consts(p, c)
      BY <2>1, AddConstsAre
    <3>. QED
      BY <1>1, <3>1, TotalConsts
  <2>2. CASE p # <<>>
    <3>1. PICK f \in Seq(Slot), x \in Slot : p = Append(f, x)
      BY <1>1, <2>2, SequenceEmptyOrAppend
    <3>2. Abstract!AddConsts(p, c) = IF c > 0 /\ x \in 1 .. 7 THEN Consts(f, c + x)
                                                              ELSE Consts(p, c)
      BY <3>1, AddConstsAre
    <3>3. CASE c > 0 /\ x \in 1 .. 7
      <4>1. c + x \in Nat /\ x \in Nat /\ SizeOf(x) = x
        BY <3>3 DEF SizeOf
      <4>2. /\ Consts(f, c + x) \in Seq(Slot) /\ Abstract!Total(f) \in Nat
            /\ Abstract!Total(Consts(f, c + x)) = Abstract!Total(f) + (c + x)
            /\ Abstract!Total(p) = Abstract!Total(f) + x
        BY <3>1, <4>1, TotalConsts, TotalAppend, TotalType
      <4>3. Abstract!Total(f) + (c + x) = (Abstract!Total(f) + x) + c
        BY <4>1, <4>2
      <4>. QED
        BY <3>2, <3>3, <4>2, <4>3
    <3>4. CASE ~ (c > 0 /\ x \in 1 .. 7)
      <4>1. Abstract!AddConsts(p, c) = Consts(p, c)
        BY <3>2, <3>4
      <4>. QED
        BY <1>1, <4>1, TotalConsts
    <3>. QED
      BY <3>3, <3>4
  <2>. QED
    BY <2>1, <2>2
<1>. QED
  BY <1>1, <1>2, <1>3

-----------------------------------------------------------------------------
(* Deletions: of fewer than four naturals and 32 bytes, entry by entry.     *)

\* There is no block to delete.
LEMMA NoBlock ==
  ASSUME NEW t, t \in Trackers, NEW units \in Nat, NEW size \in Nat, units < size, NEW code
  PROVE  DelBlocks(t, units, size, code) = [t |-> t, units |-> units]
<1>. DEFINE behind(k) == [t EXCEPT !.Index = @ - 4 * k]
            ends(k)   == units - k * size < size \/ ~ BlockIs(behind(k), code)
            K == {k \in 0 .. units \div size : ends(k)}
<1>1. units \div size = 0
  OBVIOUS
<1>2. ends(0)
  <2>1. 0 * size = 0 /\ units - 0 < size
    OBVIOUS
  <2>. QED
    BY <2>1
<1>3. K = {0}
  <2>. HIDE DEF ends
  <2>. QED
    BY <1>1, <1>2
<1>4. Min(K) = 0
  <2>1. K \in SUBSET Nat /\ K # {}
    BY <1>3
  <2>2. Min(K) \in K
    BY <2>1, MinIs
  <2>. QED
    BY <1>3, <2>2
<1>5. behind(0) = t
  BY DEF Trackers
<1>6. units - 0 * size = units
  OBVIOUS
<1>7. DelBlocks(t, units, size, code) = [t |-> behind(Min(K)), units |-> units - Min(K) * size]
  BY Zenon DEF DelBlocks
<1>. HIDE DEF K, behind
<1>. QED
  BY <1>4, <1>5, <1>6, <1>7

\* What the loop of Delete is about.
Deletes == [t : Trackers, n : 0 .. 3, c : 0 .. 31]
Due(s)  == 4 * s.n + s.c

\* Too few units for a block.
LEMMA NoBlocksDeleted ==
  ASSUME NEW s \in Deletes
  PROVE  BlocksDeleted(s) = s
<1>1. s.t \in Trackers /\ s.n \in Nat /\ s.c \in Nat /\ s.n < 4 /\ s.c < 32
  BY DEF Deletes
<1>2. /\ DelBlocks(s.t, s.c, 32, 0) = [t |-> s.t, units |-> s.c]
      /\ DelBlocks(s.t, s.n, 4, 1) = [t |-> s.t, units |-> s.n]
  BY <1>1, NoBlock
<1>. DEFINE consts == DelBlocks(s.t, s.c, 32, 0)
            blocks == DelBlocks(consts.t, s.n, 4, 1)
<1>3. consts.t = s.t /\ consts.units = s.c
  BY <1>2
<1>. HIDE DEF consts
<1>4. blocks = [t |-> s.t, units |-> s.n]
  BY <1>2, <1>3, Zenon
<1>5. blocks.t = s.t /\ blocks.units = s.n
  BY <1>4
<1>6. [t |-> s.t, n |-> s.n, c |-> s.c] = s
  BY DEF Deletes
<1>. HIDE DEF blocks
<1>7. BlocksDeleted(s)
        = IF s.t.Index % 4 = 0 THEN [t |-> blocks.t, n |-> blocks.units, c |-> consts.units] ELSE s
  BY Zenon DEF BlocksDeleted, consts, blocks
<1>. QED
  BY <1>3, <1>5, <1>6, <1>7

\* The loop is at s: from t, which stood for the slots in q, the bytes in r are taken.
Deleting(s, t, b, q, r, w) ==
  \/ /\ Ok(s.t) /\ SameBelow(s.t, t, b) /\ Due(s) <= r
     /\ \E p \in Seq(Slot) :
          /\ Sound(s.t, b, p, w)
          /\ Abstract!Total(p) + r = Abstract!Total(q) + Due(s)
          /\ r <= Abstract!Total(q) => Abstract!Drop(p, Due(s)) = Abstract!Drop(q, r)
  \/ ~ Ok(s.t) /\ Failed(s.t)
  \/ s.t.Status = "UNSUPPORTED" /\ r > Abstract!Total(q)

\* From the slots in p, z = d + y bytes are taken: d now, leaving the slots in f.
LEMMA DeletingOn ==
  ASSUME NEW s, NEW o, NEW t, NEW b, NEW q \in Seq(Slot), NEW r \in Nat, NEW w,
         NEW p \in Seq(Slot), NEW f \in Seq(Slot),
         Due(s) \in Nat, Due(o) \in Nat, Due(s) <= r, NEW d \in Nat, Due(o) + d = Due(s),
         Abstract!Total(p) + r = Abstract!Total(q) + Due(s),
         r <= Abstract!Total(q) => Abstract!Drop(p, Due(s)) = Abstract!Drop(q, r),
         Abstract!Total(f) + d = Abstract!Total(p),
         Due(s) <= Abstract!Total(p) => Abstract!Drop(f, Due(o)) = Abstract!Drop(p, Due(s)),
         NEW v, Result(o.t, v, b, f, w), SameBelow(v, t, b)
  PROVE  Deleting(o, t, b, q, r, w)
<1>1. Abstract!Total(p) \in Nat /\ Abstract!Total(q) \in Nat /\ Abstract!Total(f) \in Nat
  BY TotalType
<1>2. CASE Ok(o.t)
  <2>1. Sound(o.t, b, f, w) /\ SameBelow(o.t, t, b)
    BY <1>2, SameBelowBoth DEF Result
  <2>2. Due(o) <= r
    OBVIOUS
  <2>3. Abstract!Total(f) + r = Abstract!Total(q) + Due(o)
    <3>. DEFINE x == Abstract!Total(p)
                y == Abstract!Total(q)
                z == Abstract!Total(f)
                i == Due(o)
                j == Due(s)
    <3>1. /\ x \in Nat /\ y \in Nat /\ z \in Nat /\ d \in Nat /\ r \in Nat /\ i \in Nat
          /\ j \in Nat /\ i + d = j /\ x + r = y + j /\ z + d = x
      BY <1>1
    <3>. HIDE DEF x, y, z, i, j
    <3>2. z + r = y + i
      BY ONLY <3>1
    <3>. QED
      BY <3>2 DEF x, y, z, i, j
  <2>4. r <= Abstract!Total(q) => Due(s) <= Abstract!Total(p)
    BY <1>1, SMTT(20)
  <2>5. r <= Abstract!Total(q) => Abstract!Drop(f, Due(o)) = Abstract!Drop(q, r)
    BY <2>4
  <2>. QED
    BY <1>2, <2>1, <2>2, <2>3, <2>5 DEF Deleting
<1>3. CASE ~ Ok(o.t)
  BY <1>3 DEF Result, Deleting
<1>. QED
  BY <1>2, <1>3

\* The bytes that an entry is asked for, and the naturals left.
Borrowed(s, x) == x # 0 /\ s.c = 0
Asked(s, x)    == IF Borrowed(s, x) THEN 4 ELSE s.c
Left4(s, x)    == IF Borrowed(s, x) THEN s.n - 1 ELSE s.n

\* Arithmetic of a deletion.
LEMMA AskedIs ==
  ASSUME NEW s, NEW x \in Slot, s.n \in 0 .. 3, s.c \in 0 .. 31,
         ~ (s.n = 0 /\ s.c = 0), ~ (x = 0 /\ s.n > 0)
  PROVE  /\ Asked(s, x) \in 1 .. 31 /\ Left4(s, x) \in 0 .. 3
         /\ 4 * Left4(s, x) + Asked(s, x) = Due(s)
<1>1. CASE Borrowed(s, x)
  BY <1>1 DEF Borrowed, Asked, Left4, Due
<1>2. CASE ~ Borrowed(s, x)
  BY <1>2 DEF Borrowed, Asked, Left4, Due
<1>. QED
  BY <1>1, <1>2

LEMMA RestIs ==
  ASSUME NEW i \in 0 .. 3, NEW j \in 1 .. 31, NEW k \in 1 .. 8, j >= k
  PROVE  j - k \in 0 .. 31 /\ (4 * i + (j - k)) + k = 4 * i + j
OBVIOUS

LEMMA FourLess ==
  ASSUME NEW i \in 0 .. 3, NEW j \in 0 .. 31
  PROVE  (4 * (i - 1) + j) + 4 = 4 * i + j
OBVIOUS

\* One iteration takes the newest entry as a whole, or a part of it.
LEMMA TakenIs ==
  ASSUME NEW s \in Deletes, ~ Deleted(s), NEW b, NEW f \in Seq(Slot), NEW x \in Slot,
         NEW w \in Int, Sound(s.t, b, Append(f, x), w), Room(b, Len(Append(f, x)), w),
         NEW o \in EntryTaken(s)
  PROVE  /\ o \in Deletes
         /\ \/ Due(o) + SizeOf(x) = Due(s) /\ o.t = DelStackTrackerEntry(s.t)
            \/ \E d \in Nat :
                 /\ 0 < d /\ d < SizeOf(x) /\ Due(o) + d = Due(s)
                 /\ Result(o.t, DelStackTrackerEntry(s.t), b, Append(f, SizeOf(x) - d), w)
<1>. DEFINE v    == DelStackTrackerEntry(s.t)
            last == GetStackTrackerEntry(s.t)
            size == CASE last = 8 -> 4 [] last = 0 -> 8 [] OTHER -> last
            borrow == last # 8 /\ s.c = 0
            due  == IF borrow THEN 4 ELSE s.c
            left == IF borrow THEN s.n - 1 ELSE s.n
<1>1. s.t \in Trackers /\ s.n \in 0 .. 3 /\ s.c \in 0 .. 31 /\ Ok(s.t) /\ ~ (s.n = 0 /\ s.c = 0)
  BY DEF Deletes, Deleted
<1>2. last = Shown(x) /\ Sound(v, b, f, w) /\ Ok(v) /\ v \in Trackers
  BY NewestIs, SoundIs
<1>3. x \in 0 .. 8
  BY DEF Slot
<1>4. last = 8 <=> x = 0
  BY <1>2, <1>3 DEF Shown
<1>5. size = SizeOf(x) /\ SizeOf(x) \in 1 .. 8
  BY <1>2, <1>3 DEF Shown, SizeOf
<1>6. due = Asked(s, x) /\ left = Left4(s, x)
  BY <1>4 DEF Asked, Left4, Borrowed
<1>7. EntryTaken(s)
        = IF ~ Ok(v) THEN {[t |-> v, n |-> s.n, c |-> s.c]}
          ELSE IF last = 8 /\ s.n > 0 THEN {[t |-> v, n |-> s.n - 1, c |-> s.c]}
          ELSE IF due >= size THEN {[t |-> v, n |-> left, c |-> due - size]}
          ELSE {[t |-> u, n |-> left, c |-> 0] : u \in AddStackTrackerEntry(v, size - due)}
  BY Zenon DEF EntryTaken
<1>. HIDE DEF v, last, size, due, left
<1>8. CASE last = 8 /\ s.n > 0
  <2>1. o = [t |-> v, n |-> s.n - 1, c |-> s.c]
    BY <1>2, <1>7, <1>8
  <2>2. o \in Deletes /\ o.t = v /\ o.n = s.n - 1 /\ o.c = s.c
    BY <1>1, <1>2, <1>8, <2>1 DEF Deletes
  <2>3. Due(o) + 4 = Due(s) /\ SizeOf(x) = 4
    <3>1. SizeOf(x) = 4
      BY <1>4, <1>8 DEF SizeOf
    <3>2. (4 * (s.n - 1) + s.c) + 4 = 4 * s.n + s.c
      BY <1>1, FourLess
    <3>3. Due(o) = 4 * (s.n - 1) + s.c
      BY <2>2 DEF Due
    <3>. QED
      BY <3>1, <3>2, <3>3 DEF Due
  <2>. QED
    BY <2>2, <2>3 DEF v
<1>9. CASE ~ (last = 8 /\ s.n > 0)
  <2>1. due \in 1 .. 31 /\ left \in 0 .. 3 /\ 4 * left + due = Due(s)
    <3>1. ~ (x = 0 /\ s.n > 0)
      BY <1>4, <1>9
    <3>. QED
      BY <1>1, <1>6, <3>1, AskedIs
  <2>2. CASE due >= size
    <3>1. o = [t |-> v, n |-> left, c |-> due - size]
      BY <1>2, <1>7, <1>9, <2>2
    <3>2. due - size \in 0 .. 31 /\ (4 * left + (due - size)) + size = 4 * left + due
      BY <1>5, <2>1, <2>2, RestIs
    <3>3. o \in Deletes /\ o.t = v /\ o.n = left /\ o.c = due - size
      BY <1>2, <2>1, <3>1, <3>2 DEF Deletes
    <3>4. Due(o) + size = Due(s)
      <4>1. Due(o) = 4 * left + (due - size)
        BY <3>3 DEF Due
      <4>. QED
        BY <2>1, <3>2, <4>1
    <3>. QED
      BY <1>5, <3>3, <3>4 DEF v
  <2>3. CASE ~ (due >= size)
    <3>1. PICK u \in AddStackTrackerEntry(v, size - due) : o = [t |-> u, n |-> left, c |-> 0]
      BY <1>2, <1>7, <1>9, <2>3
    <3>2. size - due \in 1 .. 7 /\ due \in Nat /\ 0 < due /\ due < size
      BY <1>5, <2>1, <2>3
    <3>3. size - due \in Slot /\ Shown(size - due) = size - due
      <4>. DEFINE y == size - due
      <4>1. y \in 1 .. 7
        BY <3>2
      <4>. HIDE DEF y
      <4>2. y \in Slot /\ Shown(y) = y
        BY <4>1 DEF Slot, Shown
      <4>. QED
        BY <4>2 DEF y
    <3>4. Room(b, Len(f) + 1, w)
      BY AppendPrefix
    <3>5. Result(u, v, b, Append(f, size - due), w)
      BY <1>2, <3>1, <3>3, <3>4, AddSlot
    <3>6. u \in Trackers
      BY <3>5, ResultType
    <3>7. o \in Deletes /\ o.t = u /\ o.n = left /\ o.c = 0
      BY <2>1, <3>1, <3>6 DEF Deletes
    <3>8. Due(o) + due = Due(s)
      BY <2>1, <3>2, <3>7 DEF Due
    <3>9. Result(o.t, DelStackTrackerEntry(s.t), b, Append(f, SizeOf(x) - due), w)
      BY <1>5, <3>5, <3>7 DEF v
    <3>. QED
      BY <1>5, <3>2, <3>7, <3>8, <3>9
  <2>. QED
    BY <2>2, <2>3
<1>. QED
  BY <1>8, <1>9

\* The bytes that are due.
LEMMA DueType ==
  ASSUME NEW s \in Deletes
  PROVE  Due(s) \in Nat /\ (Due(s) = 0 <=> s.n = 0 /\ s.c = 0)
BY DEF Deletes, Due

\* One iteration.
LEMMA EntryDeletedIs ==
  ASSUME NEW s \in Deletes, NEW t, NEW b, NEW q \in Seq(Slot), NEW r \in Nat, NEW w \in Int,
         Room(b, Abstract!Total(q), w), b = 0 \/ r <= Abstract!Total(q),
         Deleting(s, t, b, q, r, w), NEW o \in EntryDeleted(s)
  PROVE  /\ o \in Deletes /\ Deleting(o, t, b, q, r, w)
         /\ Ok(o.t) => Due(o) = 0 \/ (Ok(s.t) /\ Due(o) < Due(s))
<1>0. /\ s.t \in Trackers /\ Due(s) \in Nat /\ (Due(s) = 0 <=> s.n = 0 /\ s.c = 0)
      /\ Abstract!Total(q) \in Nat
  BY DueType, TotalType DEF Deletes
<1>1. CASE Deleted(s)
  <2>1. o = s
    BY <1>1 DEF EntryDeleted
  <2>. QED
    BY <1>0, <1>1, <2>1 DEF Deleted
<1>2. CASE ~ Deleted(s)
  <2>1. o \in EntryTaken(s) /\ Ok(s.t) /\ Due(s) > 0
    BY <1>0, <1>2, NoBlocksDeleted DEF EntryDeleted, Deleted
  <2>2. /\ Due(s) <= r /\ SameBelow(s.t, t, b)
        /\ \E p \in Seq(Slot) :
             /\ Sound(s.t, b, p, w)
             /\ Abstract!Total(p) + r = Abstract!Total(q) + Due(s)
             /\ r <= Abstract!Total(q) => Abstract!Drop(p, Due(s)) = Abstract!Drop(q, r)
    BY <2>1 DEF Deleting, Ok
  <2>3. PICK p \in Seq(Slot) :
             /\ Sound(s.t, b, p, w)
             /\ Abstract!Total(p) + r = Abstract!Total(q) + Due(s)
             /\ r <= Abstract!Total(q) => Abstract!Drop(p, Due(s)) = Abstract!Drop(q, r)
    BY <2>2
  <2>4. Len(p) \in Nat /\ Abstract!Total(p) \in Nat /\ Len(p) <= Abstract!Total(p) /\ b \in Nat
    BY <2>3, SlotsAreBytes, SoundIs
  <2>. DEFINE v == DelStackTrackerEntry(s.t)
  <2>5. CASE p = <<>>
    <3>1. Abstract!Total(p) = 0
      BY <2>5, TotalEmpty
    <3>2. r > Abstract!Total(q)
      BY <1>0, <2>1, <2>3, <3>1
    <3>3. s.t.Index = 0
      <4>1. b = 0
        BY <1>0, <3>2
      <4>. QED
        BY <2>3, <2>5, <4>1, HoldsOnlyNone DEF Sound
    <3>4. v = [s.t EXCEPT !.Index = -1, !.Status = "UNSUPPORTED"]
      BY <1>0, <3>3, NoEntry
    <3>5. v \in Trackers /\ v.Status = "UNSUPPORTED" /\ ~ Ok(v)
      <4>1. s.t \in Trackers /\ -1 \in Int
        BY <1>0
      <4>2. [s.t EXCEPT !.Index = -1] \in Trackers
        BY <4>1 DEF Trackers
      <4>3. v = [[s.t EXCEPT !.Index = -1] EXCEPT !.Status = "UNSUPPORTED"]
        BY <3>4, <4>1 DEF Trackers
      <4>. DEFINE x == [s.t EXCEPT !.Index = -1]
      <4>. HIDE DEF v, x
      <4>4. v = [x EXCEPT !.Status = "UNSUPPORTED"] /\ x \in Trackers
        BY <4>2, <4>3 DEF x
      <4>5. v \in Trackers /\ v.Status = "UNSUPPORTED"
        BY <4>4 DEF Trackers, Statuses
      <4>. QED
        BY <4>5 DEF Ok
    <3>. HIDE DEF v
    <3>6. o = [t |-> v, n |-> s.n, c |-> s.c]
      BY <2>1, <3>5 DEF EntryTaken, v
    <3>7. o \in Deletes /\ o.t = v
      BY <3>5, <3>6 DEF Deletes
    <3>. QED
      BY <3>2, <3>5, <3>7 DEF Deleting
  <2>6. CASE p # <<>>
    <3>1. PICK f \in Seq(Slot), x \in Slot : p = Append(f, x)
      BY <2>6, SequenceEmptyOrAppend
    <3>2. Sound(v, b, f, w) /\ SameBelow(v, t, b)
      <4>1. Sound(v, b, f, w) /\ SameBelow(v, s.t, b)
        BY <2>3, <3>1, NewestIs
      <4>. QED
        BY <2>2, <4>1, SameBelowBoth
    <3>3. Room(b, Len(p), w)
      <4>1. Len(p) <= Abstract!Total(q)
        BY <1>0, <2>2, <2>3, <2>4
      <4>. QED
        BY <1>0, <2>4, <4>1, RoomBelow
    <3>4. /\ SizeOf(x) \in 1 .. 8 /\ Abstract!Total(f) \in Nat
          /\ Abstract!Total(p) = Abstract!Total(f) + SizeOf(x)
      BY <3>1, SizeType, TotalAppend, TotalType
    <3>5. /\ o \in Deletes
          /\ \/ Due(o) + SizeOf(x) = Due(s) /\ o.t = v
             \/ \E d \in Nat :
                  /\ 0 < d /\ d < SizeOf(x) /\ Due(o) + d = Due(s)
                  /\ Result(o.t, v, b, Append(f, SizeOf(x) - d), w)
      BY <1>2, <2>1, <2>3, <3>1, <3>3, TakenIs
    <3>. HIDE DEF v
    <3>6. Due(o) \in Nat
      BY <3>5, DueType
    <3>7. CASE Due(o) + SizeOf(x) = Due(s) /\ o.t = v
      <4>1. Result(o.t, v, b, f, w)
        BY <3>2, <3>7, ResultSelf
      <4>2. ASSUME Due(s) <= Abstract!Total(p)
            PROVE  Abstract!Drop(f, Due(o)) = Abstract!Drop(p, Due(s))
        <5>1. SizeOf(x) <= Due(s) /\ Due(s) - SizeOf(x) = Due(o)
          BY <3>4, <3>6, <3>7, SMTT(20)
        <5>2. Abstract!Drop(p, Due(s)) = Abstract!Drop(f, Due(s) - SizeOf(x))
          BY <1>0, <3>1, <4>2, <5>1, DropWhole
        <5>. QED
          BY <5>1, <5>2
      <4>3. Abstract!Total(f) + SizeOf(x) = Abstract!Total(p) /\ SizeOf(x) \in Nat
        BY <3>4
      <4>4. Deleting(o, t, b, q, r, w)
        BY <1>0, <2>2, <2>3, <3>2, <3>6, <3>7, <4>1, <4>2, <4>3, DeletingOn
      <4>5. Due(o) < Due(s)
        BY <3>4, <3>6, <3>7
      <4>. QED
        BY <2>1, <3>5, <4>4, <4>5
    <3>8. CASE \E d \in Nat :
                 /\ 0 < d /\ d < SizeOf(x) /\ Due(o) + d = Due(s)
                 /\ Result(o.t, v, b, Append(f, SizeOf(x) - d), w)
      <4>1. PICK d \in Nat : /\ 0 < d /\ d < SizeOf(x) /\ Due(o) + d = Due(s)
                             /\ Result(o.t, v, b, Append(f, SizeOf(x) - d), w)
        BY <3>8
      <4>. DEFINE y == SizeOf(x) - d
                  g == Append(f, y)
      <4>2. y \in 1 .. 7 /\ y + d = SizeOf(x)
        BY <3>4, <4>1, PartIs
      <4>. HIDE DEF y
      <4>3. y \in Slot /\ SizeOf(y) = y
        BY <4>2 DEF Slot, SizeOf
      <4>4. g \in Seq(Slot) /\ Abstract!Total(g) = Abstract!Total(f) + y
        BY <4>3, TotalAppend
      <4>5. ASSUME Due(s) <= Abstract!Total(p)
            PROVE  Abstract!Drop(g, Due(o)) = Abstract!Drop(p, Due(s))
        <5>1. d <= Due(s) /\ Due(s) - d = Due(o)
          BY <3>6, <4>1
        <5>2. Abstract!Drop(g, Due(s) - d) = Abstract!Drop(p, Due(s))
          BY <1>0, <3>1, <4>1, <4>5, <5>1, DropPieces DEF y
        <5>. QED
          BY <5>1, <5>2
      <4>6. Result(o.t, v, b, g, w)
        BY <4>1 DEF y
      <4>7. Abstract!Total(g) + d = Abstract!Total(p)
        BY <3>4, <4>2, <4>4
      <4>. HIDE DEF g
      <4>8. Deleting(o, t, b, q, r, w)
        BY <1>0, <2>2, <2>3, <3>2, <3>6, <4>1, <4>4, <4>5, <4>6, <4>7, DeletingOn
      <4>9. Due(o) < Due(s)
        BY <3>6, <4>1
      <4>. QED
        BY <2>1, <3>5, <4>8, <4>9
    <3>. QED
      BY <3>5, <3>7, <3>8
  <2>. QED
    BY <2>5, <2>6
<1>. QED
  BY <1>1, <1>2

\* What the loop of Delete ends with, when s of S leads to S and takes from m.
LEMMA DeleteLoop ==
  ASSUME NEW t, NEW n \in Nat, NEW c \in Nat, NEW u \in Delete(t, n, c),
         NEW S, NEW m \in [S -> Nat],
         [t |-> t, n |-> n, c |-> c] \in S, m[[t |-> t, n |-> n, c |-> c]] <= 4 * n + c,
         \A s \in S : EntryDeleted(s) \in SUBSET S,
         \A s \in S : \A o \in EntryDeleted(s) : m[o] < m[s] \/ m[o] = 0
  PROVE  \E s \in S : m[s] = 0 /\ u = s.t
<1>. DEFINE N == 4 * n + c
            x == {[t |-> t, n |-> n, c |-> c]}
            F == [s \in S |-> EntryDeleted(s)]
            IsLoop(f) == f = [k \in 0 .. N |-> IF k = 0 THEN {[t |-> t, n |-> n, c |-> c]}
                                               ELSE UNION {EntryDeleted(s) : s \in f[k - 1]}]
            g == CHOOSE f : IsLoop(f)
<1>0. N \in Nat
  OBVIOUS
<1>1. x \in SUBSET S
  OBVIOUS
<1>3. F \in [S -> SUBSET S] /\ m \in [S -> Nat]
  OBVIOUS
<1>4. Starts(x, m, N) /\ Takes(S, F, m)
  <2>1. \A s \in x : m[s] <= N
    OBVIOUS
  <2>2. \A s \in S : \A o \in F[s] : m[o] < m[s] \/ m[o] = 0
    OBVIOUS
  <2>. HIDE DEF x, F
  <2>. QED
    BY <2>1, <2>2 DEF Starts, Takes
<1>. HIDE DEF x, N
<1>5. PICK f \in [0 .. N -> SUBSET S] : Iterates(f, x, F, N)
  <2>. HIDE DEF F
  <2>. QED
    BY <1>0, <1>1, <1>3, IteratesExist
<1>6. f[N] \in SUBSET S /\ NothingIn(f[N], m)
  <2>. HIDE DEF F
  <2>. QED
    BY <1>0, <1>1, <1>3, <1>4, <1>5, IteratesEnd
<1>7. IsLoop(f)
  <2>1. ASSUME NEW k \in 0 .. N
        PROVE  f[k] = IF k = 0 THEN x ELSE UNION {EntryDeleted(s) : s \in f[k - 1]}
    <3>1. CASE k = 0
      BY <1>5, <3>1 DEF Iterates
    <3>2. CASE k # 0
      <4>1. k \in 1 .. N /\ k - 1 \in 0 .. N
        BY <1>0, <3>2
      <4>2. f[k] = UNION {F[s] : s \in f[k - 1]} /\ f[k - 1] \in SUBSET S
        <5>. HIDE DEF F
        <5>. QED
          BY <1>5, <4>1 DEF Iterates, Iterated
      <4>3. \A s \in f[k - 1] : F[s] = EntryDeleted(s)
        BY <4>2
      <4>4. {F[s] : s \in f[k - 1]} = {EntryDeleted(s) : s \in f[k - 1]}
        <5>. HIDE DEF F
        <5>. QED
          BY <4>3
      <4>. QED
        BY <3>2, <4>2, <4>4, Zenon
    <3>. QED
      BY <3>1, <3>2
  <2>. QED
    BY <2>1 DEF x
<1>8. IsLoop(g)
  <2>. HIDE DEF IsLoop
  <2>. QED
    BY <1>7
<1>9. Delete(t, n, c) = {s.t : s \in g[N]}
  BY Zenon DEF Delete, N
<1>10. \A k \in 0 .. N : k \in Nat => g[k] = f[k]
  <2>. DEFINE T == {k \in Nat : k <= N => g[k] = f[k]}
  <2>1. \A k \in 0 .. N : g[k] = IF k = 0 THEN x ELSE UNION {EntryDeleted(s) : s \in g[k - 1]}
    <3>. HIDE DEF g
    <3>. QED
      BY <1>8 DEF x
  <2>2. \A k \in 0 .. N : f[k] = IF k = 0 THEN x ELSE UNION {EntryDeleted(s) : s \in f[k - 1]}
    BY <1>7 DEF x
  <2>. HIDE DEF g
  <2>3. 0 \in T
    <3>1. 0 \in 0 .. N
      BY <1>0
    <3>2. g[0] = x /\ f[0] = x
      BY <2>1, <2>2, <3>1, Zenon
    <3>. QED
      BY <3>2
  <2>4. ASSUME NEW k \in Nat, k \in T PROVE k + 1 \in T
    <3>. SUFFICES ASSUME k + 1 <= N PROVE g[k + 1] = f[k + 1]
      OBVIOUS
    <3>1. g[k] = f[k] /\ k + 1 \in 0 .. N /\ k + 1 # 0 /\ (k + 1) - 1 = k
      BY <1>0, <2>4
    <3>2. /\ g[k + 1] = UNION {EntryDeleted(s) : s \in g[(k + 1) - 1]}
          /\ f[k + 1] = UNION {EntryDeleted(s) : s \in f[(k + 1) - 1]}
      BY <2>1, <2>2, <3>1, Zenon
    <3>. QED
      BY <3>1, <3>2, Zenon
  <2>. HIDE DEF T
  <2>5. \A k \in Nat : k \in T
    BY <2>3, <2>4, NatBySet
  <2>. QED
    BY <2>5 DEF T
<1>. HIDE DEF g, F
<1>11. PICK s \in f[N] : u = s.t
  <2>1. N \in 0 .. N
    BY <1>0
  <2>. QED
    BY <1>9, <1>10, <2>1
<1>12. s \in S /\ m[s] = 0
  BY <1>6 DEF NothingIn
<1>. QED
  BY <1>11, <1>12


\* Pops, of fewer than four naturals and 32 bytes: the slots that still fit are left,
\* and there is an underflow exactly when there is less.
LEMMA DeleteIs ==
  ASSUME NEW t, NEW b, NEW q \in Seq(Slot), NEW w \in Int, NEW n \in 0 .. 3, NEW c \in 0 .. 31,
         Sound(t, b, q, w), Room(b, Abstract!Total(q), w),
         b = 0 \/ 4 * n + c <= Abstract!Total(q), NEW u \in Delete(t, n, c)
  PROVE  \/ /\ Ok(u) /\ SameBelow(u, t, b) /\ 4 * n + c <= Abstract!Total(q)
            /\ Sound(u, b, Abstract!Drop(q, 4 * n + c), w)
            /\ Abstract!Drop(q, 4 * n + c) \in Seq(Slot)
            /\ Abstract!Total(Abstract!Drop(q, 4 * n + c)) + (4 * n + c) = Abstract!Total(q)
         \/ ~ Ok(u) /\ Failed(u)
         \/ u \in Trackers /\ u.Status = "UNSUPPORTED" /\ 4 * n + c > Abstract!Total(q)
<1>. DEFINE r == 4 * n + c
            S == {s \in Deletes : Deleting(s, t, b, q, r, w)}
            m == [s \in S |-> IF Ok(s.t) THEN Due(s) ELSE 0]
            s0 == [t |-> t, n |-> n, c |-> c]
<1>0. n \in Nat /\ c \in Nat /\ r \in Nat
  OBVIOUS
<1>1. s0 \in Deletes /\ s0.t = t /\ Due(s0) = r
  BY SoundIs DEF Deletes, Due
<1>. HIDE DEF s0
<1>2. s0 \in S
  <2>1. Ok(t) /\ SameBelow(t, t, b)
    BY SoundIs DEF SameBelow
  <2>2. Due(s0) <= r
    BY <1>0, <1>1
  <2>. HIDE DEF r
  <2>3. /\ Sound(s0.t, b, q, w) /\ Abstract!Total(q) + r = Abstract!Total(q) + Due(s0)
        /\ r <= Abstract!Total(q) => Abstract!Drop(q, Due(s0)) = Abstract!Drop(q, r)
    BY <1>1
  <2>. QED
    BY <1>1, <2>1, <2>2, <2>3 DEF Deleting
<1>3. ASSUME NEW s \in S, NEW o \in EntryDeleted(s)
      PROVE  o \in S /\ (m[o] < m[s] \/ m[o] = 0) /\ m[s] \in Nat
  <2>1. s \in Deletes /\ Deleting(s, t, b, q, r, w) /\ Due(s) \in Nat
    BY DueType
  <2>2. b = 0 \/ r <= Abstract!Total(q)
    OBVIOUS
  <2>. HIDE DEF r
  <2>3. /\ o \in Deletes /\ Deleting(o, t, b, q, r, w)
        /\ Ok(o.t) => Due(o) = 0 \/ (Ok(s.t) /\ Due(o) < Due(s))
    BY <1>0, <2>1, <2>2, EntryDeletedIs
  <2>4. o \in S
    BY <2>3
  <2>5. m[o] = (IF Ok(o.t) THEN Due(o) ELSE 0) /\ m[s] = (IF Ok(s.t) THEN Due(s) ELSE 0)
    BY <2>4
  <2>. HIDE DEF S, m
  <2>. QED
    BY <2>1, <2>3, <2>4, <2>5
<1>4. m \in [S -> Nat] /\ m[s0] <= r
  <2>1. \A s \in S : Due(s) \in Nat
    BY DueType
  <2>. HIDE DEF S, r
  <2>2. m \in [S -> Nat]
    BY <2>1
  <2>3. m[s0] = r \/ m[s0] = 0
    BY <1>1, <1>2
  <2>. QED
    BY <1>0, <2>2, <2>3
<1>5. /\ \A s \in S : EntryDeleted(s) \in SUBSET S
      /\ \A s \in S : \A o \in EntryDeleted(s) : m[o] < m[s] \/ m[o] = 0
  <2>. HIDE DEF S, m
  <2>. QED
    BY <1>3
<1>6. PICK s \in S : m[s] = 0 /\ u = s.t
  <2>. HIDE DEF S, m
  <2>. QED
    BY <1>0, <1>2, <1>4, <1>5, DeleteLoop DEF s0, r
<1>7. s \in Deletes /\ Deleting(s, t, b, q, r, w) /\ (Ok(s.t) => Due(s) = 0) /\ s.t \in Trackers
  BY <1>6 DEF Deletes
<1>. HIDE DEF r, S, m
<1>8. Abstract!Total(q) \in Nat
  BY TotalType
<1>9. CASE Ok(s.t)
  <2>1. /\ SameBelow(s.t, t, b) /\ Due(s) = 0
        /\ \E p \in Seq(Slot) :
             /\ Sound(s.t, b, p, w)
             /\ Abstract!Total(p) + r = Abstract!Total(q) + Due(s)
             /\ r <= Abstract!Total(q) => Abstract!Drop(p, Due(s)) = Abstract!Drop(q, r)
    BY <1>7, <1>9 DEF Deleting, Ok
  <2>2. PICK p \in Seq(Slot) :
             /\ Sound(s.t, b, p, w)
             /\ Abstract!Total(p) + r = Abstract!Total(q)
             /\ r <= Abstract!Total(q) => Abstract!Drop(p, 0) = Abstract!Drop(q, r)
    BY <1>8, <2>1
  <2>3. Abstract!Total(p) \in Nat /\ Abstract!Drop(p, 0) = p
    BY TotalType, DropNothing
  <2>4. r <= Abstract!Total(q)
    BY <1>0, <1>8, <2>2, <2>3
  <2>5. Abstract!Drop(q, r) = p
    BY <2>2, <2>3, <2>4
  <2>. QED
    BY <1>6, <1>9, <2>1, <2>2, <2>4, <2>5 DEF r
<1>10. CASE ~ Ok(s.t)
  <2>1. Failed(s.t) \/ (s.t.Status = "UNSUPPORTED" /\ r > Abstract!Total(q))
    BY <1>7, <1>10 DEF Deleting
  <2>. QED
    BY <1>6, <1>7, <1>10, <2>1 DEF r
<1>. QED
  BY <1>9, <1>10

\* What an update by n naturals and c bytes makes of t, which stood for the slots in q.
Followed(u, t, b, q, n, c, w) ==
  \/ /\ Ok(u) /\ SameBelow(u, t, b) /\ 4 * n + c <= Abstract!Total(q)
     /\ Sound(u, b, Abstract!Moved(q, n, c), w) /\ Abstract!Moved(q, n, c) \in Seq(Slot)
     /\ Abstract!Total(Abstract!Moved(q, n, c)) + (4 * n + c) = Abstract!Total(q)
  \/ ~ Ok(u) /\ Failed(u)
  \/ u \in Trackers /\ u.Status = "UNSUPPORTED" /\ 4 * n + c > Abstract!Total(q)

\* Moved by cases.
LEMMA MovedIs ==
  ASSUME NEW q \in Seq(Slot), NEW n \in Int, NEW c \in Int
  PROVE  /\ n <= 0 /\ c <= 0 =>
              Abstract!Moved(q, n, c) = Abstract!AddConsts(Abstract!AddNaturals(q, -n), -c)
         /\ ~ (n <= 0 /\ c <= 0) => Abstract!Moved(q, n, c) = Abstract!Drop(q, 4 * n + c)
         /\ n = 0 /\ c = 0 => Abstract!Moved(q, n, c) = q
<1>1. n <= 0 /\ c <= 0 =>
         Abstract!Moved(q, n, c) = Abstract!AddConsts(Abstract!AddNaturals(q, -n), -c)
  BY Zenon DEF Abstract!Moved
<1>2. ~ (n <= 0 /\ c <= 0) => Abstract!Moved(q, n, c) = Abstract!Drop(q, n * NATURAL + c)
  BY Zenon DEF Abstract!Moved
<1>3. n * NATURAL + c = 4 * n + c
  BY NaturalAssumption
<1>4. ASSUME n = 0, c = 0 PROVE Abstract!Moved(q, n, c) = q
  <2>1. 0 \in Slot /\ 8 \in Slot
    BY DEF Slot
  <2>2. Abstract!AddNaturals(q, 0) = q
    <3>1. Abstract!AddNaturals(q, 0) = q \o Fill(0, 0)
      BY Zenon DEF Abstract!AddNaturals, Abstract!NaturalSlot, Fill
    <3>. QED
      BY <2>1, <3>1, FillIs
  <2>3. Abstract!AddConsts(q, 0) = q
    <3>1. Abstract!AddConsts(q, 0) = Consts(q, 0)
      BY AddConstsAre
    <3>2. 0 \div 8 = 0 /\ 0 % 8 = 0
      OBVIOUS
    <3>3. q \o Fill(8, 0) = q
      BY <2>1, FillIs
    <3>4. Consts(q, 0) = q \o <<>>
      BY <3>2, <3>3 DEF Consts
    <3>. QED
      BY <3>1, <3>4, ConcatEmptySeq
  <2>4. -n = 0 /\ -c = 0 /\ n <= 0 /\ c <= 0
    <3>. DEFINE i == -n
                j == -c
    <3>1. n + i = 0 /\ i \in Int /\ c + j = 0 /\ j \in Int
      OBVIOUS
    <3>. HIDE DEF i, j
    <3>2. i = 0 /\ j = 0 /\ n <= 0 /\ c <= 0
      BY <1>4, <3>1
    <3>. QED
      BY <3>2 DEF i, j
  <2>. QED
    BY <1>1, <2>2, <2>3, <2>4
<1>. QED
  BY <1>1, <1>2, <1>3, <1>4

\* An update, but for one that deletes four naturals or 32 bytes and more.
LEMMA UpdateIs ==
  ASSUME NEW t, NEW b, NEW q \in Seq(Slot), NEW w \in Int, NEW n \in Int, NEW c \in Int,
         (n >= 0 /\ c >= 0) \/ (n <= 0 /\ c <= 0), n < 4, c < 32,
         Sound(t, b, q, w), Whole(t, b), Room(b, Abstract!Total(q), w),
         4 * n + c < 0 => Room(b, Abstract!Total(q) - (4 * n + c), w),
         b = 0 \/ 4 * n + c <= Abstract!Total(q), NEW u \in UpdateStackTracker(t, n, c)
  PROVE  Followed(u, t, b, q, n, c, w)
<1>0. Abstract!Total(q) \in Nat
  BY TotalType
<1>1. CASE n < 0 \/ c < 0
  <2>1. -n \in Nat /\ -c \in Nat /\ n <= 0 /\ c <= 0 /\ 4 * n + c < 0
    BY <1>1
  <2>2. u \in UNION {AddConsts(v, -c) : v \in AddNaturals(t, -n)}
    BY <1>1 DEF UpdateStackTracker
  <2>3. Room(b, Abstract!Total(q) + 4 * (-n) + (-c), w)
    <3>1. Abstract!Total(q) - (4 * n + c) = Abstract!Total(q) + 4 * (-n) + (-c)
      BY <1>0, <2>1
    <3>. QED
      BY <2>1, <3>1
  <2>. DEFINE p == Abstract!AddConsts(Abstract!AddNaturals(q, -n), -c)
  <2>4. Result(u, t, b, p, w)
    BY <2>1, <2>2, <2>3, AddedIs
  <2>5. p \in Seq(Slot) /\ Abstract!Total(p) = Abstract!Total(q) + 4 * (-n) + (-c)
    BY <2>1, TotalAdded
  <2>6. Abstract!Moved(q, n, c) = p
    BY <2>1, MovedIs
  <2>. HIDE DEF p
  <2>7. Abstract!Total(p) + (4 * n + c) = Abstract!Total(q) /\ 4 * n + c <= Abstract!Total(q)
    BY <1>0, <2>1, <2>5
  <2>. QED
    BY <2>4, <2>5, <2>6, <2>7 DEF Followed, Result
<1>2. CASE ~ (n < 0 \/ c < 0)
  <2>1. n \in 0 .. 3 /\ c \in 0 .. 31
    BY <1>2
  <2>2. u \in Delete(t, n, c)
    BY <1>2 DEF UpdateStackTracker
  <2>3. Abstract!Moved(q, n, c) = Abstract!Drop(q, 4 * n + c)
    <3>1. CASE n = 0 /\ c = 0
      <4>1. 4 * n + c = 0
        BY <3>1
      <4>. QED
        BY <3>1, <4>1, MovedIs, DropNothing
    <3>2. CASE ~ (n = 0 /\ c = 0)
      <4>1. ~ (n <= 0 /\ c <= 0)
        BY <2>1, <3>2
      <4>. QED
        BY <4>1, MovedIs
    <3>. QED
      BY <3>1, <3>2
  <2>. QED
    BY <2>1, <2>2, <2>3, DeleteIs DEF Followed
<1>. QED
  BY <1>1, <1>2

-----------------------------------------------------------------------------
(* States.                                                                  *)

RoundedUp(i) == 4 * ((i + 3) \div 4)

\* The index rounded up to the next byte of codes.
LEMMA RoundedUpIs == \A i \in Nat : RoundedUp(i) \in Nat /\ i <= RoundedUp(i) /\ RoundedUp(i) <= i + 3
BY DEF RoundedUp

LEMMA RoundedUpFits == ASSUME NEW i \in Nat, NEW n \in Nat, i <= 4 * n PROVE RoundedUp(i) <= 4 * n
<1>1. (i + 3) \div 4 <= n
  OBVIOUS
<1>. QED
  BY <1>1 DEF RoundedUp

\* Codes behind the index are forgotten, no others.
LEMMA ForgetIs ==
  ASSUME NEW t, Buffered(t)
  PROVE  /\ Buffered(Forget(t)) /\ Forget(t).Size = t.Size /\ Forget(t).Index = t.Index
         /\ SameBelow(Forget(t), t, t.Index) /\ SameBelow(Forget(t), t, t.OrgIndex)
<1>. DEFINE M   == Max({t.Index, t.OrgIndex})
            end == RoundedUp(M)
            d   == [i \in DOMAIN t.Data |-> IF i >= end THEN t.junk ELSE t.Data[i]]
            v   == [t EXCEPT !.Data = d]
<1>1. /\ t \in Trackers /\ Ok(t) /\ t.Size \in Nat /\ t.Index \in 0 .. 4 * t.Size
      /\ t.OrgIndex \in 0 .. 4 * t.Size /\ t.Data \in [0 .. 4 * t.Size - 1 -> 0 .. 3]
      /\ t.junk \in 0 .. 3 /\ t.Size >= 4
  BY BufferedIs DEF Buffered, Trackers, Buffer
<1>2. M \in Nat /\ t.Index <= M /\ t.OrgIndex <= M
  <2>. DEFINE S == {t.Index, t.OrgIndex}
              n == 4 * t.Size
  <2>3. n \in Nat /\ t.Index \in Nat /\ t.OrgIndex \in Nat
    BY <1>1
  <2>4. S \in SUBSET (0 .. n) /\ S # {} /\ S \in SUBSET Nat
    <3>1. t.Index \in 0 .. n /\ t.OrgIndex \in 0 .. n
      BY <1>1
    <3>. HIDE DEF n
    <3>. QED
      BY <2>3, <3>1
  <2>5. t.Index \in S /\ t.OrgIndex \in S
    OBVIOUS
  <2>. HIDE DEF S, n
  <2>6. Max(S) \in S /\ \A x \in S : x <= Max(S)
    BY <2>3, <2>4, MaxIs
  <2>7. Max(S) \in Nat /\ t.Index <= Max(S) /\ t.OrgIndex <= Max(S)
    BY <2>4, <2>5, <2>6
  <2>. QED
    BY <2>7 DEF S
<1>. HIDE DEF M
<1>3. end \in Nat /\ t.Index <= end /\ t.OrgIndex <= end
  <2>1. end \in Nat /\ M <= end
    BY <1>2, RoundedUpIs
  <2>. HIDE DEF end
  <2>. QED
    BY <1>1, <1>2, <2>1
<1>4. Forget(t) = v
  BY <1>1, Zenon DEF Forget, M, RoundedUp
<1>. HIDE DEF end
<1>5. d \in Buffer(t.Size) /\ \A k \in 0 .. 4 * t.Size - 1 : k < end => d[k] = t.Data[k]
  BY <1>1, <1>3 DEF Buffer
<1>. HIDE DEF d
<1>6. /\ v \in Trackers /\ v.Data = d /\ v.Size = t.Size /\ v.Index = t.Index
      /\ v.OrgIndex = t.OrgIndex /\ v.OrgStackPointer = t.OrgStackPointer /\ v.junk = t.junk
      /\ v.Status = t.Status
  <2>1. d \in Buffers
    BY <1>1, <1>5 DEF Buffers
  <2>. QED
    BY <1>1, <2>1 DEF Trackers
<1>. HIDE DEF v
<1>7. Buffered(v)
  BY <1>1, <1>5, <1>6 DEF Buffered, Ok
<1>8. /\ \A k \in 0 .. t.Index - 1 : v.Data[k] = t.Data[k]
      /\ \A k \in 0 .. t.OrgIndex - 1 : v.Data[k] = t.Data[k]
  <2>1. \A k \in 0 .. t.Index - 1 : k \in 0 .. 4 * t.Size - 1 /\ k < end
    BY <1>1, <1>3
  <2>2. \A k \in 0 .. t.OrgIndex - 1 : k \in 0 .. 4 * t.Size - 1 /\ k < end
    BY <1>1, <1>3
  <2>. QED
    BY <1>5, <1>6, <2>1, <2>2
<1>. QED
  BY <1>4, <1>6, <1>7, <1>8 DEF SameBelow

\* R0 is r, on the stack the program was given: it has put there the slots in q.
AtHome(t, r, q, w) ==
  /\ t.OrgIndex = 0 /\ q \in Seq(Slot) /\ Sound(t, 0, q, w)
  /\ r \in Int /\ r >= Lowest /\ Abstract!Total(q) + r = Top

\* R0 is r, on another stack; the slots in h are left on the first one.
Abroad(t, r, h, q, w) ==
  /\ t.OrgIndex > 0 /\ q \in Seq(Slot) /\ h \in Seq(Slot)
  /\ Sound(t, RoundedUp(t.OrgIndex), q, w) /\ Whole(t, RoundedUp(t.OrgIndex))
  /\ Holds(t.Data, 0, t.OrgIndex, h)
  /\ t.OrgStackPointer >= Lowest /\ Abstract!Total(h) + t.OrgStackPointer = Top
  /\ r \in Int /\ r >= Foreign - ForeignSize /\ Abstract!Total(q) + r = Foreign

\* w is above any size that the program can make the buffer have.
Wide(w) ==
  /\ w \in Int /\ STACK_TRACKER_SIZE <= w
  /\ 4 * (Top - Lowest + ForeignSize) + 6 <= w

\* Codes behind the index do not count.
LEMMA SoundAfterForget ==
  ASSUME NEW t, NEW b, NEW q, NEW w, Sound(t, b, q, w)
  PROVE  Sound(Forget(t), b, q, w) /\ SameBelow(Forget(t), t, b)
<1>1. t.Index \in Nat /\ b \in Nat /\ b <= t.Index
  BY SoundIs
<1>2. /\ Buffered(Forget(t)) /\ Forget(t).Size = t.Size /\ Forget(t).Index = t.Index
      /\ SameBelow(Forget(t), t, t.Index)
  BY ForgetIs DEF Sound
<1>3. Holds(Forget(t).Data, b, t.Index, q)
  BY <1>2, HoldsSame DEF Sound, SameBelow
<1>. QED
  BY <1>1, <1>2, <1>3, SameBelowLess DEF Sound

\* The addresses of both stacks.
LEMMA AddressesAre ==
  /\ Top \in Int /\ Lowest \in Int /\ Foreign \in Int /\ ForeignSize \in Nat
  /\ STACK_TRACKER_SIZE \in Nat /\ STACK_TRACKER_SIZE >= 4 /\ Lowest + 24 <= Top
  /\ StackPool \in Int /\ Lowest >= StackPool
BY TrackerSize, AddressAssumption

\* On its own stack: an update that does not go below the stack.
LEMMA HomeMoved ==
  ASSUME NEW t, NEW r, NEW q, NEW w, AtHome(t, r, q, w), Wide(w), NEW n \in Int, NEW c \in Int,
         (n >= 0 /\ c >= 0) \/ (n <= 0 /\ c <= 0), n < 4, c < 32, r + (4 * n + c) >= Lowest,
         NEW u \in UpdateStackTracker(t, n, c)
  PROVE  \/ /\ Ok(u) /\ 4 * n + c <= Abstract!Total(q)
            /\ AtHome(Forget(u), r + (4 * n + c), Abstract!Moved(q, n, c), w)
         \/ ~ Ok(u) /\ Failed(u)
         \/ u \in Trackers /\ u.Status = "UNSUPPORTED" /\ 4 * n + c > Abstract!Total(q)
<1>. DEFINE total == Abstract!Total(q)
            due   == 4 * n + c
            p     == Abstract!Moved(q, n, c)
<1>1. /\ t.OrgIndex = 0 /\ q \in Seq(Slot) /\ Sound(t, 0, q, w) /\ r \in Int /\ r >= Lowest
      /\ total + r = Top /\ total \in Nat /\ due \in Int
  BY TotalType DEF AtHome
<1>2. /\ w \in Int /\ 4 * (Top - Lowest + ForeignSize) + 6 <= w
      /\ Top \in Int /\ Lowest \in Int /\ ForeignSize \in Nat
  BY AddressesAre DEF Wide
<1>3. Whole(t, 0)
  BY DEF Whole
<1>. HIDE DEF total, due
<1>4. Room(0, total, w)
  BY <1>1, <1>2 DEF Room
<1>5. ASSUME due < 0 PROVE Room(0, total - due, w)
  <2>1. r + due >= Lowest
    BY DEF due
  <2>. QED
    BY <1>1, <1>2, <2>1 DEF Room
<1>6. Followed(u, t, 0, q, n, c, w)
  BY <1>1, <1>2, <1>3, <1>4, <1>5, UpdateIs DEF total, due
<1>7. CASE /\ Ok(u) /\ SameBelow(u, t, 0) /\ due <= total
           /\ Sound(u, 0, p, w) /\ p \in Seq(Slot) /\ Abstract!Total(p) + due = total
  <2>1. Sound(Forget(u), 0, p, w) /\ SameBelow(Forget(u), u, 0)
    BY <1>7, SoundAfterForget
  <2>2. Forget(u).OrgIndex = 0
    BY <1>1, <1>7, <2>1 DEF SameBelow
  <2>3. Abstract!Total(p) \in Nat
    BY <1>7, TotalType
  <2>4. r + due >= Lowest /\ r + due \in Int
    BY <1>1 DEF due
  <2>5. Abstract!Total(p) + (r + due) = Top
    BY <1>1, <1>7, <2>3
  <2>. QED
    BY <1>7, <2>1, <2>2, <2>4, <2>5 DEF AtHome, due, total
<1>. QED
  BY <1>6, <1>7 DEF Followed, due, total

\* On another stack: an update that stays there.
LEMMA AbroadMoved ==
  ASSUME NEW t, NEW r, NEW h, NEW q, NEW w, Abroad(t, r, h, q, w), Wide(w),
         NEW n \in Int, NEW c \in Int,
         (n >= 0 /\ c >= 0) \/ (n <= 0 /\ c <= 0), n < 4, c < 32,
         r + (4 * n + c) >= Foreign - ForeignSize, r + (4 * n + c) <= Foreign,
         NEW u \in UpdateStackTracker(t, n, c)
  PROVE  \/ /\ Ok(u) /\ 4 * n + c <= Abstract!Total(q)
            /\ Abroad(Forget(u), r + (4 * n + c), h, Abstract!Moved(q, n, c), w)
            /\ Forget(u).OrgStackPointer = t.OrgStackPointer
         \/ ~ Ok(u) /\ Failed(u)
<1>. DEFINE total == Abstract!Total(q)
            due   == 4 * n + c
            p     == Abstract!Moved(q, n, c)
            b     == RoundedUp(t.OrgIndex)
<1>1. /\ t.OrgIndex > 0 /\ q \in Seq(Slot) /\ h \in Seq(Slot) /\ Sound(t, b, q, w) /\ Whole(t, b)
      /\ Holds(t.Data, 0, t.OrgIndex, h) /\ t.OrgStackPointer >= Lowest
      /\ Abstract!Total(h) + t.OrgStackPointer = Top /\ t.OrgStackPointer \in Int
      /\ r \in Int /\ r >= Foreign - ForeignSize
      /\ total + r = Foreign /\ total \in Nat /\ due \in Int
  <2>1. Sound(t, b, q, w) /\ t \in Trackers
    BY SoundIs DEF Abroad
  <2>2. t.OrgStackPointer \in Int
    BY <2>1 DEF Trackers
  <2>. QED
    BY <2>2, TotalType DEF Abroad
<1>2. /\ w \in Int /\ 4 * (Top - Lowest + ForeignSize) + 6 <= w
      /\ Top \in Int /\ Lowest \in Int /\ ForeignSize \in Nat /\ Foreign \in Int
  BY AddressesAre DEF Wide
<1>3. /\ t.OrgIndex \in Nat /\ b \in Nat /\ t.OrgIndex <= b /\ b <= 2 * (Top - Lowest) + 3
  <2>1. t.OrgIndex \in Nat /\ Len(h) \in Nat /\ t.OrgIndex <= 2 * Len(h)
    BY <1>1, HoldsBounds
  <2>2. Abstract!Total(h) \in Nat /\ Len(h) <= Abstract!Total(h)
    BY <1>1, SlotsAreBytes
  <2>3. Abstract!Total(h) <= Top - Lowest
    <3>1. /\ t.OrgStackPointer \in Int /\ t.OrgStackPointer >= Lowest /\ Top \in Int
          /\ Lowest \in Int /\ Abstract!Total(h) + t.OrgStackPointer = Top
          /\ Abstract!Total(h) \in Nat
      BY <1>1, <1>2, <2>2
    <3>. QED
      BY ONLY <3>1
  <2>4. t.OrgIndex <= 2 * (Top - Lowest)
    BY <1>2, <2>1, <2>2, <2>3
  <2>5. b \in Nat /\ t.OrgIndex <= b /\ b <= t.OrgIndex + 3
    BY <2>1, RoundedUpIs
  <2>. HIDE DEF b
  <2>. QED
    BY <1>2, <2>1, <2>4, <2>5
<1>. HIDE DEF total, due, b
<1>4. ASSUME NEW m \in Int, m <= ForeignSize PROVE Room(b, m, w)
  BY <1>2, <1>3, <1>4 DEF Room
<1>5. Room(b, total, w)
  <2>1. total <= ForeignSize
    BY <1>1, <1>2
  <2>. QED
    BY <1>1, <1>4, <2>1
<1>6. ASSUME due < 0 PROVE Room(b, total - due, w)
  <2>1. r + due >= Foreign - ForeignSize
    BY DEF due
  <2>2. total - due <= ForeignSize /\ total - due \in Int
    BY <1>1, <1>2, <2>1
  <2>. QED
    BY <1>4, <2>2
<1>7. due <= total
  <2>1. r + due <= Foreign
    BY DEF due
  <2>. QED
    BY <1>1, <1>2, <2>1
<1>8. Followed(u, t, b, q, n, c, w)
  <2>1. 4 * n + c <= Abstract!Total(q)
    BY <1>7 DEF due, total
  <2>2. 4 * n + c < 0 => Room(b, Abstract!Total(q) - (4 * n + c), w)
    BY <1>6 DEF due, total
  <2>3. Room(b, Abstract!Total(q), w)
    BY <1>5 DEF total
  <2>. QED
    BY <1>1, <1>2, <2>1, <2>2, <2>3, UpdateIs
<1>9. CASE /\ Ok(u) /\ SameBelow(u, t, b) /\ due <= total
           /\ Sound(u, b, p, w) /\ p \in Seq(Slot) /\ Abstract!Total(p) + due = total
  <2>. DEFINE v == Forget(u)
  <2>1. Sound(v, b, p, w) /\ SameBelow(v, u, b)
    BY <1>9, SoundAfterForget
  <2>. HIDE DEF v
  <2>2. SameBelow(v, t, b) /\ v \in Trackers /\ t \in Trackers
    BY <1>1, <1>9, <2>1, SameBelowBoth, SoundIs
  <2>3. /\ v.OrgIndex = t.OrgIndex /\ v.OrgStackPointer = t.OrgStackPointer
        /\ \A k \in 0 .. t.OrgIndex - 1 : v.Data[k] = t.Data[k]
    <3>1. \A k \in 0 .. t.OrgIndex - 1 : k \in 0 .. b - 1
      BY <1>3
    <3>. QED
      BY <2>2, <3>1 DEF SameBelow
  <2>4. Whole(v, b)
    BY <1>1, <1>3, <2>2, WholeSame
  <2>5. Holds(v.Data, 0, t.OrgIndex, h)
    BY <1>1, <2>3, HoldsSame
  <2>6. Abstract!Total(p) \in Nat
    BY <1>9, TotalType
  <2>7. r + due \in Int /\ r + due >= Foreign - ForeignSize
    BY <1>1 DEF due
  <2>8. Abstract!Total(p) + (r + due) = Foreign
    <3>1. /\ Abstract!Total(p) \in Nat /\ r \in Int /\ due \in Int /\ total \in Nat
          /\ Abstract!Total(p) + due = total /\ total + r = Foreign
      BY <1>1, <1>9, <2>6
    <3>. QED
      BY ONLY <3>1
  <2>9. Abroad(v, r + due, h, p, w)
    BY <1>1, <1>9, <2>1, <2>3, <2>4, <2>5, <2>7, <2>8 DEF Abroad, b
  <2>. QED
    BY <1>7, <1>9, <2>3, <2>9 DEF v, due, total
<1>10. ~ (u \in Trackers /\ u.Status = "UNSUPPORTED" /\ due > total)
  BY <1>1, <1>7
<1>. QED
  BY <1>8, <1>9, <1>10 DEF Followed, due, total

\* An entry depends on the codes and the index alone.
LEMMA EntrySame ==
  ASSUME NEW t, NEW u, t.Index = u.Index, t.Data = u.Data
  PROVE  GetStackTrackerEntry(t) = GetStackTrackerEntry(u)
BY Zenon DEF GetStackTrackerEntry, Code

\* The tracker when R0, with the value r, is set to an address outside the pool.
Parted(t, r) == [t EXCEPT !.OrgIndex = t.Index, !.OrgStackPointer = r,
                        !.Index = RoundedUp(t.Index)]

\* R0 leaves its stack: what is on it stays, and the other one is empty.
LEMMA WentAbroad ==
  ASSUME NEW t, NEW r, NEW q, NEW w, AtHome(t, r, q, w), t.Index > 0,
         GetStackTrackerEntry([t EXCEPT !.Index = RoundedUp(t.Index)]) \in {0, 8}
  PROVE  /\ Ok(Parted(t, r)) /\ Abroad(Forget(Parted(t, r)), Foreign, q, <<>>, w)
         /\ Forget(Parted(t, r)).OrgStackPointer = r
<1>. DEFINE b == RoundedUp(t.Index)
            u == Parted(t, r)
<1>1. /\ t.OrgIndex = 0 /\ q \in Seq(Slot) /\ Sound(t, 0, q, w) /\ r \in Int /\ r >= Lowest
      /\ Abstract!Total(q) + r = Top /\ Buffered(t) /\ t.Size <= w
      /\ Holds(t.Data, 0, t.Index, q)
  BY DEF AtHome, Sound
<1>2. /\ t \in Trackers /\ t.Index \in Nat /\ t.Size \in Nat /\ t.Index <= 4 * t.Size
      /\ t.Size >= 4 /\ t.Size >= STACK_TRACKER_SIZE /\ Ok(t) /\ t.Data \in Buffer(t.Size)
  BY <1>1, BufferedIs DEF Buffered, Trackers
<1>3. b \in Nat /\ t.Index <= b /\ b <= 4 * t.Size
  BY <1>2, RoundedUpIs, RoundedUpFits
<1>. HIDE DEF b
<1>4. u = [t EXCEPT !.OrgIndex = t.Index, !.OrgStackPointer = r, !.Index = b]
  BY DEF b, Parted
<1>. HIDE DEF u
<1>5. /\ u \in Trackers /\ u.Data = t.Data /\ u.Size = t.Size /\ u.Index = b
      /\ u.OrgIndex = t.Index /\ u.OrgStackPointer = r /\ u.junk = t.junk /\ u.Status = t.Status
  <2>0. t.Index \in Nat /\ r \in Int /\ b \in Int /\ t \in Trackers
    BY <1>1, <1>2, <1>3
  <2>. DEFINE x == [t EXCEPT !.OrgIndex = t.Index]
              y == [x EXCEPT !.OrgStackPointer = r]
  <2>1. x \in Trackers
    BY <2>0 DEF Trackers
  <2>2. y \in Trackers
    <3>. HIDE DEF x
    <3>. QED
      BY <2>0, <2>1 DEF Trackers
  <2>3. u = [y EXCEPT !.Index = b]
    BY <1>4, <2>0 DEF Trackers
  <2>4. u \in Trackers
    <3>. HIDE DEF y
    <3>. QED
      BY <2>0, <2>2, <2>3 DEF Trackers
  <2>5. /\ u.Data = t.Data /\ u.Size = t.Size /\ u.Index = b
        /\ u.OrgIndex = t.Index /\ u.OrgStackPointer = r /\ u.junk = t.junk /\ u.Status = t.Status
    BY <1>4, <2>0 DEF Trackers
  <2>. QED
    BY <2>4, <2>5
<1>6. Buffered(u) /\ Ok(u)
  BY TrackerSize, <1>2, <1>3, <1>5 DEF Buffered, Ok
<1>7. Sound(u, b, <<>>, w)
  BY <1>1, <1>3, <1>5, <1>6, HoldsNone DEF Sound
<1>8. GetStackTrackerEntry([u EXCEPT !.Index = b]) \in {0, 8}
  <2>. DEFINE x == [t EXCEPT !.Index = b]
              y == [u EXCEPT !.Index = b]
  <2>1. x.Index = y.Index /\ x.Data = y.Data
    BY <1>2, <1>5 DEF Trackers
  <2>2. GetStackTrackerEntry(x) \in {0, 8}
    BY DEF b
  <2>. HIDE DEF x, y
  <2>3. GetStackTrackerEntry(y) \in {0, 8}
    BY <2>1, <2>2, EntrySame
  <2>. QED
    BY <2>3 DEF y
<1>9. Whole(u, b)
  BY <1>8 DEF Whole
<1>. DEFINE v == Forget(u)
<1>10. Sound(v, b, <<>>, w) /\ SameBelow(v, u, b) /\ v \in Trackers
  BY <1>7, SoundAfterForget, SoundIs
<1>. HIDE DEF v
<1>11. Whole(v, b)
  BY <1>3, <1>5, <1>9, <1>10, WholeSame
<1>12. Holds(v.Data, 0, t.Index, q)
  <2>1. \A k \in 0 .. t.Index - 1 : k \in 0 .. b - 1
    BY <1>2, <1>3
  <2>2. \A k \in 0 .. t.Index - 1 : v.Data[k] = t.Data[k]
    BY <1>5, <1>10, <2>1 DEF SameBelow
  <2>. QED
    BY <1>1, <2>2, HoldsSame
<1>13. v.OrgIndex = t.Index /\ v.OrgStackPointer = r
  BY <1>5, <1>10 DEF SameBelow
<1>14. <<>> \in Seq(Slot) /\ Abstract!Total(<<>>) = 0
  BY TotalEmpty
<1>15. Foreign >= Foreign - ForeignSize /\ 0 + Foreign = Foreign /\ Foreign \in Int
  BY AddressesAre
<1>16. Abroad(v, Foreign, q, <<>>, w)
  BY <1>1, <1>10, <1>11, <1>12, <1>13, <1>14, <1>15 DEF Abroad, b
<1>. QED
  BY <1>6, <1>13, <1>16 DEF u, v

\* R0 comes back to its stack, and finds there what it left.
LEMMA CameBack ==
  ASSUME NEW t, NEW r, NEW h, NEW q, NEW w, Abroad(t, r, h, q, w)
  PROVE  AtHome([t EXCEPT !.Index = t.OrgIndex, !.OrgIndex = 0], t.OrgStackPointer, h, w)
<1>. DEFINE u == [t EXCEPT !.Index = t.OrgIndex, !.OrgIndex = 0]
<1>1. /\ Buffered(t) /\ t.Size <= w /\ Holds(t.Data, 0, t.OrgIndex, h) /\ h \in Seq(Slot)
      /\ t.OrgStackPointer >= Lowest /\ Abstract!Total(h) + t.OrgStackPointer = Top
  BY DEF Abroad, Sound
<1>2. /\ t \in Trackers /\ Ok(t) /\ t.OrgIndex \in 0 .. 4 * t.Size /\ t.Size >= STACK_TRACKER_SIZE
      /\ t.Data \in Buffer(t.Size) /\ t.OrgStackPointer \in Int /\ t.Size \in Nat
  BY <1>1, BufferedIs DEF Buffered, Trackers
<1>3. t.OrgIndex \in Int /\ 0 \in Nat
  BY <1>2
<1>4. /\ u \in Trackers /\ u.Data = t.Data /\ u.Size = t.Size /\ u.Index = t.OrgIndex
      /\ u.OrgIndex = 0 /\ u.Status = t.Status
  BY <1>2, <1>3 DEF Trackers
<1>. HIDE DEF u
<1>5. 0 \in 0 .. 4 * t.Size
  BY <1>2
<1>6. Buffered(u)
  BY <1>2, <1>4, <1>5 DEF Buffered, Ok
<1>7. AtHome(u, t.OrgStackPointer, h, w)
  BY <1>1, <1>2, <1>4, <1>6 DEF AtHome, Sound
<1>. QED
  BY <1>7 DEF u

\* What a program is entered with.
LEMMA Begun ==
  ASSUME NEW w, Wide(w), NEW junk \in Unwritten
  PROVE  AtHome(AllocateStackTracker(junk), Top - Entry, Abstract!Entered, w)
<1>. DEFINE t == AllocateStackTracker(junk)
            d == [i \in 0 .. 4 * STACK_TRACKER_SIZE - 1 |->
                    IF i < 4 THEN <<0, 0, 1, 1>>[i + 1] ELSE junk]
            n == STACK_TRACKER_SIZE
<1>1. n \in Nat /\ n >= 4 /\ junk \in 0 .. 3
  BY AddressesAre, AddressAssumption
<1>2. /\ t.Data = d /\ t.Size = n /\ t.Index = 4 /\ t.OrgIndex = 0 /\ t.OrgStackPointer = 0
      /\ t.junk = junk /\ t.Status = "SUCCESS"
      /\ t = [Data |-> d, Size |-> n, Index |-> 4, OrgIndex |-> 0, OrgStackPointer |-> 0,
              junk |-> junk, Status |-> "SUCCESS"]
  BY DEF AllocateStackTracker
<1>3. d \in Buffer(n) /\ d[0] = 0 /\ d[1] = 0 /\ d[2] = 1 /\ d[3] = 1
  <2>1. \A i \in 0 .. 4 * n - 1 : i < 4 => <<0, 0, 1, 1>>[i + 1] \in 0 .. 3
    BY <1>1
  <2>. HIDE DEF n
  <2>2. /\ 0 \in 0 .. 4 * n - 1 /\ 1 \in 0 .. 4 * n - 1 /\ 2 \in 0 .. 4 * n - 1
        /\ 3 \in 0 .. 4 * n - 1
    BY <1>1
  <2>3. d = [i \in 0 .. 4 * n - 1 |-> IF i < 4 THEN <<0, 0, 1, 1>>[i + 1] ELSE junk]
    BY DEF n
  <2>4. <<0, 0, 1, 1>>[0 + 1] = 0 /\ <<0, 0, 1, 1>>[1 + 1] = 0 /\ <<0, 0, 1, 1>>[2 + 1] = 1
        /\ <<0, 0, 1, 1>>[3 + 1] = 1
    OBVIOUS
  <2>. HIDE DEF d
  <2>5. d[0] = 0 /\ d[1] = 0 /\ d[2] = 1 /\ d[3] = 1
    BY <2>2, <2>3, <2>4
  <2>6. d \in Buffer(n)
    BY <1>1, <2>1, <2>3 DEF Buffer
  <2>. QED
    BY <2>5, <2>6
<1>. HIDE DEF t, d, n
<1>4. Buffered(t)
  <2>1. d \in Buffers
    BY <1>1, <1>3 DEF Buffers
  <2>2. t \in Trackers
    BY <1>1, <1>2, <2>1 DEF Trackers, Statuses
  <2>3. 4 \in 0 .. 4 * n /\ 0 \in 0 .. 4 * n
    BY <1>1
  <2>. QED
    BY <1>1, <1>2, <1>3, <2>2, <2>3 DEF Buffered, Ok, n
<1>. DEFINE q1 == Append(<<>>, 8)
            q2 == Append(q1, 8)
            q3 == Append(q2, 0)
            q4 == Append(q3, 0)
<1>5. 0 \in Slot /\ 8 \in Slot /\ SizeOf(0) = 4 /\ SizeOf(8) = 8 /\ <<>> \in Seq(Slot)
  BY DEF Slot, SizeOf
<1>6. Holds(d, 0, 4, q4)
  <2>. HIDE DEF q1, q2, q3, q4
  <2>1. Holds(d, 0, 0, <<>>)
    BY HoldsNone
  <2>2. At(d, 0, 1, 8) /\ At(d, 1, 2, 8) /\ At(d, 2, 3, 0) /\ At(d, 3, 4, 0)
    BY <1>3 DEF At
  <2>3. Holds(d, 0, 1, q1)
    BY <1>5, <2>1, <2>2, HoldsAppend DEF q1
  <2>4. Holds(d, 0, 2, q2)
    BY <1>5, <2>2, <2>3, HoldsAppend DEF q2
  <2>5. Holds(d, 0, 3, q3)
    BY <1>5, <2>2, <2>4, HoldsAppend DEF q3
  <2>. QED
    BY <1>5, <2>2, <2>5, HoldsAppend DEF q4
<1>7. q4 \in Seq(Slot) /\ Abstract!Total(q4) = 24
  <2>1. q1 \in Seq(Slot) /\ q2 \in Seq(Slot) /\ q3 \in Seq(Slot) /\ q4 \in Seq(Slot)
    BY <1>5
  <2>. HIDE DEF q1, q2, q3, q4
  <2>2. Abstract!Total(q1) = 8
    <3>1. Abstract!Total(q1) = 0 + 8
      BY <1>5, TotalAppend, TotalEmpty DEF q1
    <3>. QED
      BY <3>1
  <2>3. Abstract!Total(q2) = 16
    <3>1. Abstract!Total(q2) = 8 + 8
      BY <1>5, <2>1, <2>2, TotalAppend DEF q2
    <3>. QED
      BY <3>1
  <2>4. Abstract!Total(q3) = 20
    <3>1. Abstract!Total(q3) = 16 + 4
      BY <1>5, <2>1, <2>3, TotalAppend DEF q3
    <3>. QED
      BY <3>1
  <2>5. Abstract!Total(q4) = 24
    <3>1. Abstract!Total(q4) = 20 + 4
      BY <1>5, <2>1, <2>4, TotalAppend DEF q4
    <3>. QED
      BY <3>1
  <2>. QED
    BY <2>1, <2>5
<1>8. Abstract!Entered = q4
  <2>1. Abstract!Entered = <<8, 8, 0, 0>>
    BY Zenon DEF Abstract!Entered, Abstract!NaturalSlot
  <2>. QED
    BY <2>1
<1>9. Entry = 24
  BY NaturalAssumption DEF Entry
<1>. HIDE DEF q4
<1>10. Top - Entry \in Int /\ Top - Entry >= Lowest /\ 24 + (Top - Entry) = Top
  BY <1>9, AddressesAre
<1>11. n <= w
  BY DEF Wide, n
<1>12. Sound(t, 0, q4, w)
  BY <1>2, <1>4, <1>6, <1>11 DEF Sound
<1>. QED
  BY <1>2, <1>7, <1>8, <1>10, <1>12 DEF AtHome, t

SlotsIn(t, status) ==
  IF status = "SUCCESS"
  THEN Decoded(t, IF t.OrgIndex # 0 THEN RoundedUp(t.OrgIndex) ELSE 0, t.Index)
  ELSE <<>>

HomeIn(t, status) ==
  IF t.OrgIndex # 0 /\ status = "SUCCESS"
  THEN [Slots |-> Decoded(t, 0, t.OrgIndex), R0 |-> t.OrgStackPointer]
  ELSE [Slots |-> <<>>, R0 |-> 0]

\* Slots and Home, as functions of the tracker.
LEMMA Views ==
  /\ Slots = SlotsIn(tracker, Status) /\ Slots' = SlotsIn(tracker', Status')
  /\ Home = HomeIn(tracker, Status) /\ Home' = HomeIn(tracker', Status')
BY Zenon DEF Slots, Home, Base, IsAway, SlotsIn, HomeIn, RoundedUp

\* What the states of the invariant look like in StackSlots.
LEMMA SeenHome ==
  ASSUME NEW t, NEW r, NEW q, NEW w, AtHome(t, r, q, w)
  PROVE  SlotsIn(t, "SUCCESS") = q /\ HomeIn(t, "SUCCESS") = Abstract!NoHome
<1>1. t.OrgIndex = 0 /\ Holds(t.Data, 0, t.Index, q) /\ t \in Trackers
  BY SoundIs DEF AtHome, Sound
<1>2. Decoded(t, 0, t.Index) = q
  BY <1>1, DecodedIs
<1>. QED
  BY <1>1, <1>2 DEF SlotsIn, HomeIn, Abstract!NoHome

LEMMA SeenAbroad ==
  ASSUME NEW t, NEW r, NEW h, NEW q, NEW w, Abroad(t, r, h, q, w)
  PROVE  /\ SlotsIn(t, "SUCCESS") = q
         /\ HomeIn(t, "SUCCESS") = [Slots |-> h, R0 |-> t.OrgStackPointer]
         /\ HomeIn(t, "SUCCESS") # Abstract!NoHome
<1>1. /\ t.OrgIndex # 0 /\ t \in Trackers
      /\ Holds(t.Data, RoundedUp(t.OrgIndex), t.Index, q) /\ Holds(t.Data, 0, t.OrgIndex, h)
  <2>1. Sound(t, RoundedUp(t.OrgIndex), q, w) /\ t.OrgIndex > 0 /\ Holds(t.Data, 0, t.OrgIndex, h)
    BY DEF Abroad
  <2>2. t \in Trackers
    BY <2>1, SoundIs
  <2>3. t.OrgIndex \in Nat
    BY <2>2 DEF Trackers
  <2>. QED
    BY <2>1, <2>2, <2>3 DEF Sound
<1>2. Decoded(t, RoundedUp(t.OrgIndex), t.Index) = q /\ Decoded(t, 0, t.OrgIndex) = h
  BY <1>1, DecodedIs
<1>3. h # <<>>
  BY <1>1, HoldsOnlyNone
<1>4. HomeIn(t, "SUCCESS") = [Slots |-> h, R0 |-> t.OrgStackPointer]
  BY <1>1, <1>2 DEF HomeIn
<1>5. HomeIn(t, "SUCCESS").Slots = h /\ Abstract!NoHome.Slots = <<>>
  BY <1>4 DEF Abstract!NoHome
<1>6. SlotsIn(t, "SUCCESS") = q
  BY <1>1, <1>2 DEF SlotsIn
<1>. QED
  BY <1>3, <1>4, <1>5, <1>6

LEMMA SeenNothing ==
  ASSUME NEW t, NEW status, status # "SUCCESS"
  PROVE  SlotsIn(t, status) = <<>> /\ HomeIn(t, status) = Abstract!NoHome
BY DEF SlotsIn, HomeIn, Abstract!NoHome

\* While the updates have succeeded, the codes stand for the slots on the stack R0 is on.
Tracked(w) ==
  /\ Status \in Statuses
  /\ Status = "SUCCESS" =>
       \/ \E q \in Seq(Slot) : AtHome(tracker, Gpr0, q, w)
       \/ \E h \in Seq(Slot), q \in Seq(Slot) : Abroad(tracker, Gpr0, h, q, w)

\* No update deletes four naturals or 32 bytes at once.
BelowBlocks ==
  /\ \A u \in Updates : u[1] < 4 /\ u[2] < 32
  /\ \A a \in Addresses : a - Lowest < 32

\* What an update may ask for.
LEMMA UpdatesAre ==
  ASSUME BelowBlocks, NEW u \in Updates
  PROVE  /\ u[1] \in Int /\ u[2] \in Int /\ u[1] < 4 /\ u[2] < 32
         /\ (u[1] >= 0 /\ u[2] >= 0) \/ (u[1] <= 0 /\ u[2] <= 0)
         /\ u[1] * NATURAL = 4 * u[1]
<1>1. u \in Int \X Int
  BY UpdatesAssumption
<1>2. u[1] \in Int /\ u[2] \in Int
  BY <1>1
<1>. QED
  BY <1>2, UpdatesAssumption, NaturalAssumption DEF BelowBlocks

\* How an update that ends with a success, and one that does not, look in StackSlots.
LEMMA FollowedHome ==
  ASSUME NEW w, Status' = "SUCCESS", NEW s, NEW n, NEW c,
         NEW q, AtHome(tracker', Gpr0', q, w), q = Abstract!Moved(s, n, c),
         n * NATURAL + c <= Abstract!Total(s)
  PROVE  Tracked(w)' /\ Abstract!Follow(s, n, c, Abstract!NoHome)
<1>1. Slots' = q /\ Home' = Abstract!NoHome
  BY Views, SeenHome
<1>2. q \in Seq(Slot) /\ Status' \in Statuses
  BY DEF AtHome, Statuses
<1>3. Tracked(w)'
  BY <1>2 DEF Tracked
<1>. QED
  BY <1>1, <1>3 DEF Abstract!Follow

LEMMA FollowedAbroad ==
  ASSUME NEW w, Status' = "SUCCESS", NEW s, NEW n, NEW c, NEW home,
         NEW h, NEW q, Abroad(tracker', Gpr0', h, q, w), q = Abstract!Moved(s, n, c),
         home = [Slots |-> h, R0 |-> tracker'.OrgStackPointer],
         n * NATURAL + c <= Abstract!Total(s)
  PROVE  Tracked(w)' /\ Abstract!Follow(s, n, c, home)
<1>1. Slots' = q /\ Home' = home
  BY Views, SeenAbroad
<1>2. q \in Seq(Slot) /\ h \in Seq(Slot) /\ Status' \in Statuses
  BY DEF Abroad, Statuses
<1>3. Tracked(w)'
  BY <1>2 DEF Tracked
<1>. QED
  BY <1>1, <1>3 DEF Abstract!Follow

LEMMA FollowedNot ==
  ASSUME NEW w, NEW s, NEW n, NEW c, NEW home,
         \/ Status' = "OUT_OF_RESOURCES"
         \/ Status' = "UNSUPPORTED" /\ n * NATURAL + c > Abstract!Total(s)
  PROVE  Tracked(w)' /\ Abstract!Follow(s, n, c, home)
<1>1. Status' # "SUCCESS" /\ Status' \in Statuses
  BY DEF Statuses
<1>2. Slots' = <<>> /\ Home' = Abstract!NoHome
  BY <1>1, Views, SeenNothing
<1>. QED
  BY <1>1, <1>2 DEF Abstract!Follow, Tracked

\* R0 is moved by a known amount.
LEMMA MoveStep ==
  ASSUME NEW w, Wide(w), BelowBlocks, Tracked(w), Status = "SUCCESS", NEW u \in Updates,
         WithinStack(Gpr0 + u[1] * NATURAL + u[2]),
         Updated(UpdateStackTracker(tracker, u[1], u[2])),
         Gpr0' \in {Gpr0, Gpr0 + u[1] * NATURAL + u[2]},
         Status' = "SUCCESS" => Gpr0' = Gpr0 + u[1] * NATURAL + u[2]
  PROVE  Tracked(w)' /\ Abstract!Move(u[1], u[2])
<1>. DEFINE n == u[1]
            c == u[2]
            a == Gpr0 + n * NATURAL + c
<1>1. /\ n \in Int /\ c \in Int /\ n < 4 /\ c < 32 /\ n * NATURAL = 4 * n
      /\ (n >= 0 /\ c >= 0) \/ (n <= 0 /\ c <= 0)
  BY UpdatesAre
<1>2. PICK t \in UpdateStackTracker(tracker, n, c) : tracker' = Forget(t) /\ Status' = t.Status
  BY DEF Updated
<1>3. WithinStack(a) /\ Gpr0' \in {Gpr0, a} /\ (Status' = "SUCCESS" => Gpr0' = a)
  OBVIOUS
<1>4. SUFFICES Tracked(w)' /\ Abstract!Follow(Slots, n, c, Home)
  BY <1>3 DEF Abstract!Move
<1>. HIDE DEF n, c
<1>5. ASSUME NEW q \in Seq(Slot), AtHome(tracker, Gpr0, q, w)
      PROVE  Tracked(w)' /\ Abstract!Follow(Slots, n, c, Home)
  <2>1. Slots = q /\ Home = Abstract!NoHome
    BY <1>5, Views, SeenHome
  <2>2. Gpr0 \in Int /\ tracker.OrgIndex = 0
    BY <1>5 DEF AtHome
  <2>3. a = Gpr0 + (4 * n + c)
    BY <1>1, <2>2
  <2>4. a >= Lowest
    <3>1. a \in Lowest .. Top - Entry \/ a > Top
      BY <1>3, <2>2 DEF WithinStack, IsAway
    <3>2. a \in Int
      BY <1>1, <2>2, <2>3
    <3>. HIDE DEF a
    <3>. QED
      BY <3>1, <3>2, AddressesAre
  <2>5. \/ /\ Ok(t) /\ 4 * n + c <= Abstract!Total(q)
           /\ AtHome(Forget(t), Gpr0 + (4 * n + c), Abstract!Moved(q, n, c), w)
        \/ ~ Ok(t) /\ Failed(t)
        \/ t \in Trackers /\ t.Status = "UNSUPPORTED" /\ 4 * n + c > Abstract!Total(q)
    BY <1>1, <1>2, <1>5, <2>3, <2>4, HomeMoved
  <2>6. n * NATURAL + c = 4 * n + c
    BY <1>1
  <2>. HIDE DEF a
  <2>7. CASE /\ Ok(t) /\ 4 * n + c <= Abstract!Total(q)
             /\ AtHome(Forget(t), Gpr0 + (4 * n + c), Abstract!Moved(q, n, c), w)
    <3>1. Status' = "SUCCESS" /\ Gpr0' = a
      BY <1>2, <1>3, <2>7 DEF Ok
    <3>2. AtHome(tracker', Gpr0', Abstract!Moved(q, n, c), w)
      BY <1>2, <2>3, <2>7, <3>1
    <3>. QED
      BY <2>1, <2>6, <2>7, <3>1, <3>2, FollowedHome
  <2>8. CASE ~ Ok(t) /\ Failed(t)
    <3>1. Status' = "OUT_OF_RESOURCES"
      BY <1>2, <2>8 DEF Failed
    <3>. QED
      BY <3>1, FollowedNot
  <2>9. CASE t.Status = "UNSUPPORTED" /\ 4 * n + c > Abstract!Total(q)
    BY <1>2, <2>1, <2>6, <2>9, FollowedNot
  <2>. QED
    BY <2>5, <2>7, <2>8, <2>9
<1>6. ASSUME NEW h \in Seq(Slot), NEW q \in Seq(Slot), Abroad(tracker, Gpr0, h, q, w)
      PROVE  Tracked(w)' /\ Abstract!Follow(Slots, n, c, Home)
  <2>1. Slots = q /\ Home = [Slots |-> h, R0 |-> tracker.OrgStackPointer]
    BY <1>6, Views, SeenAbroad
  <2>2. Gpr0 \in Int /\ tracker.OrgIndex # 0
    <3>1. Sound(tracker, RoundedUp(tracker.OrgIndex), q, w) /\ tracker.OrgIndex > 0 /\ Gpr0 \in Int
      BY <1>6 DEF Abroad
    <3>2. tracker \in Trackers
      BY <3>1, SoundIs
    <3>3. tracker.OrgIndex \in Nat
      BY <3>2 DEF Trackers
    <3>. QED
      BY <3>1, <3>3
  <2>3. a = Gpr0 + (4 * n + c) /\ a \in Int
    BY <1>1, <2>2
  <2>. HIDE DEF a
  <2>4. a >= Foreign - ForeignSize /\ a <= Foreign
    <3>1. a \in Foreign - ForeignSize .. Foreign
      BY <1>3, <2>2 DEF WithinStack, IsAway
    <3>. QED
      BY <3>1, AddressesAre
  <2>5. \/ /\ Ok(t) /\ 4 * n + c <= Abstract!Total(q)
           /\ Abroad(Forget(t), Gpr0 + (4 * n + c), h, Abstract!Moved(q, n, c), w)
           /\ Forget(t).OrgStackPointer = tracker.OrgStackPointer
        \/ ~ Ok(t) /\ Failed(t)
    BY <1>1, <1>2, <1>6, <2>3, <2>4, AbroadMoved
  <2>6. n * NATURAL + c = 4 * n + c
    BY <1>1
  <2>7. CASE /\ Ok(t) /\ 4 * n + c <= Abstract!Total(q)
             /\ Abroad(Forget(t), Gpr0 + (4 * n + c), h, Abstract!Moved(q, n, c), w)
             /\ Forget(t).OrgStackPointer = tracker.OrgStackPointer
    <3>1. Status' = "SUCCESS" /\ Gpr0' = a
      BY <1>2, <1>3, <2>7 DEF Ok
    <3>2. Abroad(tracker', Gpr0', h, Abstract!Moved(q, n, c), w)
      BY <1>2, <2>3, <2>7, <3>1
    <3>3. tracker'.OrgStackPointer = tracker.OrgStackPointer
      BY <1>2, <2>7
    <3>. QED
      BY <2>1, <2>6, <2>7, <3>1, <3>2, <3>3, FollowedAbroad
  <2>8. CASE ~ Ok(t) /\ Failed(t)
    <3>1. Status' = "OUT_OF_RESOURCES"
      BY <1>2, <2>8 DEF Failed
    <3>. QED
      BY <3>1, FollowedNot
  <2>. QED
    BY <2>5, <2>7, <2>8
<1>. QED
  BY <1>5, <1>6 DEF Tracked

\* R0 is set to an address.
LEMMA SetStep ==
  ASSUME NEW w, Wide(w), BelowBlocks, Apart, Tracked(w),
         NEW a \in Addresses \cup {Foreign}, SetR0(a)
  PROVE  Tracked(w)' /\ Abstract!SetR0(a)
<1>1. Status = "SUCCESS" /\ (~ InPool(a) => ~ IsAway /\ Separated)
  BY DEF SetR0
<1>2. PICK t \in UpdateStackTrackerFromDelta(tracker, a) :
        tracker' = Forget(t) /\ Status' = t.Status
  BY DEF SetR0, Updated
<1>3. Gpr0' \in {Gpr0, a} /\ (Status' = "SUCCESS" => Gpr0' = a)
  BY DEF SetR0
<1>4. InPool(a) <=> Abstract!InPool(a)
  BY Zenon DEF InPool, Abstract!InPool
<1>5. /\ a \in Int
      /\ InPool(a) => a - Lowest < 32 /\ a >= Lowest
      /\ ~ InPool(a) => a = Foreign
  <2>1. CASE a \in Addresses
    <3>1. a \in Lowest .. StackPool + STACK_POOL_SIZE - 1 /\ a - Lowest < 32
      BY <2>1, AddressAssumption DEF BelowBlocks
    <3>2. InPool(a) /\ a \in Int /\ a >= Lowest
      BY <3>1, AddressesAre, PoolAssumption DEF InPool
    <3>. QED
      BY <3>1, <3>2
  <2>2. CASE a = Foreign
    <3>1. ~ InPool(a)
      BY <2>2, AddressAssumption DEF InPool
    <3>. QED
      BY <2>2, <3>1, AddressesAre
  <2>. QED
    BY <2>1, <2>2
<1>6. Lowest \in Int
  BY AddressesAre
<1>7. ASSUME NEW v, NEW r, NEW q, AtHome(v, r, q, w), InPool(a),
             t \in UpdateStackTracker(v, 0, a - r)
      PROVE  Tracked(w)' /\ Abstract!Follow(q, 0, a - r, Abstract!NoHome)
  <2>. DEFINE c == a - r
  <2>1. /\ r \in Int /\ r >= Lowest /\ q \in Seq(Slot)
    BY <1>7 DEF AtHome
  <2>2. c \in Int /\ c < 32 /\ r + (4 * 0 + c) = a /\ 4 * 0 + c = c /\ (c >= 0 \/ c <= 0)
    BY <1>5, <1>6, <1>7, <2>1
  <2>3. t \in UpdateStackTracker(v, 0, c)
    BY <1>7
  <2>. HIDE DEF c
  <2>4. \/ /\ Ok(t) /\ c <= Abstract!Total(q)
           /\ AtHome(Forget(t), a, Abstract!Moved(q, 0, c), w)
        \/ ~ Ok(t) /\ Failed(t)
        \/ t \in Trackers /\ t.Status = "UNSUPPORTED" /\ c > Abstract!Total(q)
    <3>1. r + (4 * 0 + c) >= Lowest /\ 0 \in Int /\ 0 < 4
      BY <1>5, <1>7, <2>2
    <3>2. (0 >= 0 /\ c >= 0) \/ (0 <= 0 /\ c <= 0)
      BY <2>2
    <3>3. \/ /\ Ok(t) /\ 4 * 0 + c <= Abstract!Total(q)
             /\ AtHome(Forget(t), r + (4 * 0 + c), Abstract!Moved(q, 0, c), w)
          \/ ~ Ok(t) /\ Failed(t)
          \/ t \in Trackers /\ t.Status = "UNSUPPORTED" /\ 4 * 0 + c > Abstract!Total(q)
      BY <1>7, <2>2, <2>3, <3>1, <3>2, HomeMoved
    <3>. QED
      BY <2>2, <3>3
  <2>5. 0 * NATURAL + c = c
    <3>1. 0 * NATURAL = 0
      BY NaturalAssumption
    <3>. QED
      BY <2>2, <3>1
  <2>6. CASE /\ Ok(t) /\ c <= Abstract!Total(q)
             /\ AtHome(Forget(t), a, Abstract!Moved(q, 0, c), w)
    <3>1. Status' = "SUCCESS" /\ Gpr0' = a
      BY <1>2, <1>3, <2>6 DEF Ok
    <3>2. AtHome(tracker', Gpr0', Abstract!Moved(q, 0, c), w)
      BY <1>2, <2>6, <3>1
    <3>. QED
      BY <2>5, <2>6, <3>1, <3>2, FollowedHome DEF c
  <2>7. CASE ~ Ok(t) /\ Failed(t)
    <3>1. Status' = "OUT_OF_RESOURCES"
      BY <1>2, <2>7 DEF Failed
    <3>. QED
      BY <3>1, FollowedNot
  <2>8. CASE t.Status = "UNSUPPORTED" /\ c > Abstract!Total(q)
    BY <1>2, <2>5, <2>8, FollowedNot DEF c
  <2>. QED
    BY <2>4, <2>6, <2>7, <2>8
<1>8. ASSUME NEW q \in Seq(Slot), AtHome(tracker, Gpr0, q, w)
      PROVE  Tracked(w)' /\ Abstract!SetR0(a)
  <2>1. /\ Slots = q /\ Home = Abstract!NoHome /\ tracker.OrgIndex = 0
        /\ ~ Abstract!IsAway
    BY <1>1, <1>8, Views, SeenHome DEF AtHome, Abstract!IsAway
  <2>2. CASE InPool(a)
    <3>1. t \in UpdateStackTracker(tracker, 0, a - Gpr0)
      BY <1>2, <2>1, <2>2 DEF UpdateStackTrackerFromDelta
    <3>2. Tracked(w)' /\ Abstract!Follow(q, 0, a - Gpr0, Abstract!NoHome)
      BY <1>7, <1>8, <2>2, <3>1
    <3>. QED
      BY <1>1, <1>3, <1>4, <2>1, <2>2, <3>2 DEF Abstract!SetR0
  <2>3. CASE ~ InPool(a)
    <3>1. t = Parted(tracker, Gpr0)
      BY <1>2, <2>1, <2>3 DEF UpdateStackTrackerFromDelta, RoundedUp, Parted
    <3>2. /\ tracker.Index > 0
          /\ GetStackTrackerEntry([tracker EXCEPT !.Index = RoundedUp(tracker.Index)]) \in {0, 8}
      BY <1>1, <2>3 DEF Separated, Realigned, RoundedUp
    <3>3. /\ Ok(t) /\ Abroad(Forget(t), Foreign, q, <<>>, w)
          /\ Forget(t).OrgStackPointer = Gpr0
      BY <1>8, <3>1, <3>2, WentAbroad
    <3>4. Status' = "SUCCESS" /\ Gpr0' = Foreign
      BY <1>2, <1>3, <1>5, <2>3, <3>3 DEF Ok
    <3>5. Abroad(tracker', Gpr0', q, <<>>, w) /\ tracker'.OrgStackPointer = Gpr0
      BY <1>2, <3>3, <3>4
    <3>6. Slots' = <<>> /\ Home' = [Slots |-> q, R0 |-> Gpr0]
      BY <3>4, <3>5, Views, SeenAbroad
    <3>7. Tracked(w)'
      <4>1. <<>> \in Seq(Slot) /\ q \in Seq(Slot)
        OBVIOUS
      <4>. QED
        BY <3>4, <3>5, <4>1 DEF Tracked, Statuses
    <3>. QED
      BY <1>1, <1>3, <1>4, <2>1, <2>3, <3>4, <3>6, <3>7 DEF Abstract!SetR0
  <2>. QED
    BY <2>2, <2>3
<1>9. ASSUME NEW h \in Seq(Slot), NEW q \in Seq(Slot), Abroad(tracker, Gpr0, h, q, w)
      PROVE  Tracked(w)' /\ Abstract!SetR0(a)
  <2>1. /\ Home = [Slots |-> h, R0 |-> tracker.OrgStackPointer] /\ Abstract!IsAway
        /\ tracker.OrgIndex # 0
    <3>1. /\ Home = [Slots |-> h, R0 |-> tracker.OrgStackPointer] /\ Abstract!IsAway
      BY <1>1, <1>9, Views, SeenAbroad DEF Abstract!IsAway
    <3>2. Sound(tracker, RoundedUp(tracker.OrgIndex), q, w) /\ tracker.OrgIndex > 0
      BY <1>9 DEF Abroad
    <3>3. tracker.OrgIndex \in Nat
      BY <3>2, SoundIs DEF Trackers
    <3>. QED
      BY <3>1, <3>2, <3>3
  <2>2. InPool(a)
    BY <1>1, <2>1 DEF IsAway
  <2>. DEFINE v == [tracker EXCEPT !.Index = tracker.OrgIndex, !.OrgIndex = 0]
  <2>3. t \in UpdateStackTracker(v, 0, a - tracker.OrgStackPointer)
    BY <1>2, <2>1 DEF UpdateStackTrackerFromDelta
  <2>4. AtHome(v, tracker.OrgStackPointer, h, w)
    BY <1>9, CameBack
  <2>. HIDE DEF v
  <2>5. Tracked(w)' /\ Abstract!Follow(h, 0, a - tracker.OrgStackPointer, Abstract!NoHome)
    BY <1>7, <2>2, <2>3, <2>4
  <2>6. Home.Slots = h /\ Home.R0 = tracker.OrgStackPointer
    BY <2>1
  <2>. QED
    BY <1>1, <1>3, <1>4, <2>1, <2>2, <2>5, <2>6 DEF Abstract!SetR0
<1>. QED
  BY <1>1, <1>8, <1>9 DEF Tracked

\* A program returns, and the next one begins with what every program is entered with.
LEMMA BeginStep ==
  ASSUME NEW w, Wide(w), Init
  PROVE  Tracked(w) /\ Abstract!Init
<1>1. PICK junk \in Unwritten : tracker = AllocateStackTracker(junk)
  BY DEF Init
<1>2. AtHome(tracker, Gpr0, Abstract!Entered, w)
  BY <1>1, Begun DEF Init
<1>3. /\ Slots = Abstract!Entered /\ Home = Abstract!NoHome
      /\ Abstract!Entered \in Seq(Slot) /\ Abstract!Total(Abstract!Entered) + Gpr0 = Top
  BY <1>2, Views, SeenHome DEF AtHome, Init
<1>4. Abstract!Total(Abstract!Entered) \in Nat /\ Gpr0 \in Int /\ Top \in Int
  BY <1>2, <1>3, TotalType, AddressesAre DEF AtHome
<1>5. Gpr0 = Top - Abstract!Total(Abstract!Entered)
  BY <1>3, <1>4
<1>6. Tracked(w)
  BY <1>2, <1>3 DEF Tracked, Statuses, Init
<1>. QED
  BY <1>3, <1>5, <1>6 DEF Abstract!Init, Init

LEMMA ReturnStep ==
  ASSUME NEW w, Wide(w), Return
  PROVE  Tracked(w)' /\ Abstract!Return
<1>1. PICK junk \in Unwritten : tracker' = AllocateStackTracker(junk)
  BY DEF Return
<1>2. AtHome(tracker', Gpr0', Abstract!Entered, w)
  BY <1>1, Begun DEF Return
<1>3. /\ Slots' = Abstract!Entered /\ Home' = Abstract!NoHome
      /\ Abstract!Entered \in Seq(Slot) /\ Abstract!Total(Abstract!Entered) + Gpr0' = Top
  BY <1>2, Views, SeenHome DEF AtHome, Return
<1>4. Abstract!Total(Abstract!Entered) \in Nat /\ Gpr0' \in Int /\ Top \in Int
  BY <1>2, <1>3, TotalType, AddressesAre DEF AtHome
<1>5. Gpr0' = Top - Abstract!Total(Abstract!Entered)
  BY <1>3, <1>4
<1>6. Tracked(w)'
  BY <1>2, <1>3 DEF Tracked, Statuses, Return
<1>. QED
  BY <1>3, <1>5, <1>6 DEF Abstract!Return, Abstract!Init, Return

\* Every step preserves the invariant and is a step of StackSlots or none.
LEMMA NextStep ==
  ASSUME NEW w, Wide(w), BelowBlocks, Apart, Tracked(w), [Next]_vars
  PROVE  Tracked(w)' /\ [Abstract!Next]_(Abstract!vars)
<1>1. ASSUME NEW u \in Updates, PushOrPop(u[1], u[2])
      PROVE  Tracked(w)' /\ Abstract!Move(u[1], u[2])
  <2>1. /\ Status = "SUCCESS" /\ WithinStack(Gpr0 + u[1] * NATURAL + u[2])
        /\ Updated(UpdateStackTracker(tracker, u[1], u[2]))
        /\ Gpr0' = Gpr0 + u[1] * NATURAL + u[2]
    BY <1>1 DEF PushOrPop
  <2>. QED
    BY <2>1, MoveStep
<1>2. ASSUME NEW u \in Updates, MoveR0(u[1], u[2])
      PROVE  Tracked(w)' /\ Abstract!Move(u[1], u[2])
  <2>1. /\ Status = "SUCCESS" /\ WithinStack(Gpr0 + u[1] * NATURAL + u[2])
        /\ Updated(UpdateStackTracker(tracker, u[1], u[2]))
        /\ Gpr0' \in {Gpr0, Gpr0 + u[1] * NATURAL + u[2]}
        /\ Status' = "SUCCESS" => Gpr0' = Gpr0 + u[1] * NATURAL + u[2]
    BY <1>2 DEF MoveR0
  <2>. QED
    BY <2>1, MoveStep
<1>3. CASE UNCHANGED vars
  <2>1. tracker' = tracker /\ Gpr0' = Gpr0 /\ Status' = Status
    BY <1>3 DEF vars
  <2>2. Slots' = Slots /\ Home' = Home
    BY <2>1, Views
  <2>3. Tracked(w)'
    BY <2>1 DEF Tracked
  <2>. QED
    BY <2>1, <2>2, <2>3 DEF Abstract!vars
<1>4. ASSUME NEW a \in Addresses \cup {Foreign}, SetR0(a)
      PROVE  Tracked(w)' /\ Abstract!SetR0(a)
  BY <1>4, SetStep
<1>5. CASE Return
  BY <1>5, ReturnStep DEF Abstract!Next
<1>6. CASE Next
  <2>1. \/ \E u \in Updates : PushOrPop(u[1], u[2])
        \/ \E u \in Updates : MoveR0(u[1], u[2])
        \/ \E a \in Addresses \cup {Foreign} : SetR0(a)
        \/ Return
    BY <1>6 DEF Next
  <2>2. \/ Tracked(w)' /\ \E u \in Updates : Abstract!Move(u[1], u[2])
        \/ Tracked(w)' /\ \E a \in Addresses \cup {Foreign} : Abstract!SetR0(a)
        \/ Tracked(w)' /\ Abstract!Next
    BY <2>1, <1>1, <1>2, <1>4, <1>5, ReturnStep DEF Abstract!Next
  <2>. QED
    BY <2>2 DEF Abstract!Next
<1>. QED
  BY <1>3, <1>6

\* A natural and eight bytes have one code each.
LEMMA AtWhole ==
  ASSUME NEW d, NEW i, NEW j, NEW v \in {0, 8}, At(d, i, j, v)
  PROVE  j = i + 1 /\ d[i] = IF v = 8 THEN 0 ELSE 1
BY DEF At

\* The newest slots, as far as they are whole, have one code each.
LEMMA NewestPlaces ==
  ASSUME NEW d, NEW b \in Nat, NEW top \in Nat, NEW q \in Seq(Slot),
         NEW pos \in [0 .. Len(q) -> Nat], Places(d, b, top, q, pos),
         NEW p \in Nat, p < Len(q), \A k \in 0 .. p : q[Len(q) - k] \in {0, 8}
  PROVE  /\ top - 1 - p \in Nat
         /\ d[top - 1 - p] = IF q[Len(q) - p] = 8 THEN 0 ELSE 1
<1>. DEFINE n == Len(q)
            T == {k \in Nat : k <= p => pos[n - k] = top - k}
<1>0. n \in Nat
  OBVIOUS
<1>1. 0 \in T
  BY <1>0 DEF Places
<1>2. ASSUME NEW k \in Nat, k \in T PROVE k + 1 \in T
  <2>. SUFFICES ASSUME k + 1 <= p PROVE pos[n - (k + 1)] = top - (k + 1)
    OBVIOUS
  <2>1. /\ n - k \in 1 .. n /\ (n - k) - 1 = n - (k + 1) /\ k \in 0 .. p
        /\ n - k \in 0 .. n /\ n - (k + 1) \in 0 .. n
    BY <1>0
  <2>2. At(d, pos[n - (k + 1)], pos[n - k], q[n - k]) /\ q[n - k] \in {0, 8}
    BY <2>1 DEF Places
  <2>3. pos[n - (k + 1)] \in Nat
    BY <2>1
  <2>5. pos[n - k] = pos[n - (k + 1)] + 1
    BY <2>2, AtWhole
  <2>4. pos[n - k] = top - k
    BY <1>2, <2>1
  <2>. DEFINE x == pos[n - (k + 1)]
  <2>6. x \in Nat /\ top - k = x + 1
    BY <2>3, <2>4, <2>5
  <2>. HIDE DEF x
  <2>7. x = top - (k + 1)
    BY <2>6
  <2>. QED
    BY <2>7 DEF x
<1>3. p \in T
  <2>. HIDE DEF T
  <2>. QED
    BY <1>1, <1>2, NatBySet
<1>4. pos[n - p] = top - p
  BY <1>3
<1>5. n - p \in 1 .. n /\ n - p \in 0 .. n /\ (n - p) - 1 \in 0 .. n /\ p \in 0 .. p
  BY <1>0
<1>6. At(d, pos[(n - p) - 1], pos[n - p], q[n - p]) /\ q[n - p] \in {0, 8}
  BY <1>5 DEF Places
<1>7. /\ pos[n - p] = pos[(n - p) - 1] + 1
      /\ d[pos[(n - p) - 1]] = IF q[n - p] = 8 THEN 0 ELSE 1
  BY <1>6, AtWhole
<1>8. pos[(n - p) - 1] \in Nat
  BY <1>5
<1>9. pos[(n - p) - 1] = top - 1 - p
  BY <1>4, <1>7, <1>8, SMTT(20)
<1>. QED
  BY <1>7, <1>8, <1>9

\* A native call finds the newest slots, as far as they are whole.
LEMMA LayoutIs ==
  ASSUME NEW t, NEW b, NEW q, NEW w, Sound(t, b, q, w),
         NEW p \in 0 .. 15, p < Len(q), \A k \in 0 .. p : q[Len(q) - k] \in {0, 8}
  PROVE  p \in GetArgLayout(t) <=> q[Len(q) - p] = 8
<1>1. /\ t.Index \in Nat /\ b \in Nat /\ q \in Seq(Slot) /\ Holds(t.Data, b, t.Index, q)
  BY SoundIs DEF Sound
<1>0. p \in Nat /\ p \in 0 .. p
  OBVIOUS
<1>2. PICK pos \in [0 .. Len(q) -> Nat] : Places(t.Data, b, t.Index, q, pos)
  BY <1>1 DEF Holds
<1>. DEFINE i == t.Index - 1 - p
<1>3. i \in Nat /\ t.Data[i] = IF q[Len(q) - p] = 8 THEN 0 ELSE 1
  BY <1>0, <1>1, <1>2, NewestPlaces
<1>. HIDE DEF i
<1>4. Code(t, i) = (IF q[Len(q) - p] = 8 THEN 0 ELSE 1) /\ i > -4
  BY <1>3 DEF Code
<1>5. p \in GetArgLayout(t) <=> Code(t, i) % 2 = 0
  BY <1>4 DEF GetArgLayout, i
<1>6. 0 % 2 = 0 /\ 1 % 2 = 1
  OBVIOUS
<1>. QED
  BY <1>4, <1>5, <1>6

\* What the invariant says of the state.
LEMMA TrackedIs ==
  ASSUME NEW w, Tracked(w), Status = "SUCCESS"
  PROVE  \E b, q : Sound(tracker, b, q, w) /\ Slots = q
<1>1. CASE \E q \in Seq(Slot) : AtHome(tracker, Gpr0, q, w)
  BY <1>1, Views, SeenHome DEF AtHome
<1>2. CASE \E h \in Seq(Slot), q \in Seq(Slot) : Abroad(tracker, Gpr0, h, q, w)
  BY <1>2, Views, SeenAbroad DEF Abroad
<1>. QED
  BY <1>1, <1>2 DEF Tracked

\* What the invariant implies of a state.
LEMMA TrackedSize ==
  ASSUME NEW w, Tracked(w)
  PROVE  Status = "SUCCESS" => tracker.Size <= w
BY TrackedIs DEF Sound

LEMMA TrackedType ==
  ASSUME NEW w, Tracked(w)
  PROVE  TypeOK
<1>1. ASSUME Status = "SUCCESS"
      PROVE  /\ tracker.Size \in Nat /\ tracker.Size >= STACK_TRACKER_SIZE
             /\ tracker.Data \in [0 .. 4 * tracker.Size - 1 -> 0 .. 3]
             /\ tracker.Index \in 0 .. 4 * tracker.Size
             /\ tracker.OrgIndex \in 0 .. 4 * tracker.Size
  <2>1. Buffered(tracker)
    BY <1>1, TrackedIs DEF Sound
  <2>. QED
    BY <2>1 DEF Buffered, Buffer, Trackers
<1>2. Status \in Statuses
  BY DEF Tracked
<1>. QED
  BY <1>1, <1>2 DEF TypeOK, Statuses

LEMMA TrackedLayout ==
  ASSUME NEW w, Tracked(w)
  PROVE  LayoutOfSlots
<1>. DEFINE slot(p) == Slots[Len(Slots) - p]
            whole(p) == p < Len(Slots) /\ \A q \in 0 .. p : slot(q) \in {0, 8}
<1>1. ASSUME NEW p \in 0 .. 15, whole(p) PROVE p \in GetArgLayout(tracker) <=> slot(p) = 8
  <2>1. CASE Status = "SUCCESS"
    <3>1. PICK b, q : Sound(tracker, b, q, w) /\ Slots = q
      BY <2>1, TrackedIs
    <3>. QED
      BY <1>1, <3>1, LayoutIs
  <2>2. CASE Status # "SUCCESS"
    <3>1. Slots = <<>>
      BY <2>2, Views, SeenNothing
    <3>2. Len(Slots) = 0 /\ p >= 0
      BY <3>1
    <3>. QED
      BY <1>1, <3>2
  <2>. QED
    BY <2>1, <2>2
<1>. HIDE DEF slot
<1>. QED
  BY <1>1, Zenon DEF LayoutOfSlots, slot

LEMMA TrackedHeight ==
  ASSUME NEW w, Tracked(w)
  PROVE  HeightTracked
<1>. SUFFICES ASSUME Status = "SUCCESS", ~ IsAway PROVE Abstract!Total(Slots) = Top - Gpr0
  BY DEF HeightTracked
<1>1. CASE \E q \in Seq(Slot) : AtHome(tracker, Gpr0, q, w)
  <2>1. PICK q \in Seq(Slot) : AtHome(tracker, Gpr0, q, w)
    BY <1>1
  <2>2. Slots = q /\ Gpr0 \in Int /\ Abstract!Total(q) + Gpr0 = Top
    BY <2>1, Views, SeenHome DEF AtHome
  <2>3. Abstract!Total(q) \in Nat
    BY TotalType
  <2>. QED
    BY <2>2, <2>3
<1>2. CASE \E h \in Seq(Slot), q \in Seq(Slot) : Abroad(tracker, Gpr0, h, q, w)
  <2>1. PICK h, q : Sound(tracker, RoundedUp(tracker.OrgIndex), q, w) /\ tracker.OrgIndex > 0
    BY <1>2 DEF Abroad
  <2>2. tracker.OrgIndex \in Nat
    BY <2>1, SoundIs DEF Trackers
  <2>. QED
    BY <2>1, <2>2 DEF IsAway
<1>. QED
  BY <1>1, <1>2 DEF Tracked

-----------------------------------------------------------------------------
(* Theorems.  BelowBlocks keeps out the deletion of whole bytes of codes,   *)
(* which goes by the wrong byte, and Apart the switches of stacks after     *)
(* which codes of one stack are packed with those of the other.             *)

\* A size that is above any the buffer gets, and a program with so few bytes on its
\* stacks that this is below the limit.
Widest == STACK_TRACKER_SIZE + 4 * (Top - Lowest + ForeignSize) + 6
Small  == 4 * (Top - Lowest + ForeignSize) + 6 <= STACK_TRACKER_SIZE_MAX

\* There is such a size, and the invariant with it is inductive.
LEMMA WidestIs == Wide(Widest)
<1>. DEFINE m == Top - Lowest + ForeignSize
<1>1. m \in Nat /\ STACK_TRACKER_SIZE \in Nat
  BY AddressesAre
<1>. HIDE DEF m
<1>2. STACK_TRACKER_SIZE + 4 * m + 6 \in Int /\ STACK_TRACKER_SIZE <= STACK_TRACKER_SIZE + 4 * m + 6
      /\ 4 * m + 6 <= STACK_TRACKER_SIZE + 4 * m + 6
  BY <1>1
<1>. QED
  BY <1>2 DEF Wide, Widest, m

LEMMA TrackedAlways ==
  ASSUME NEW w, Wide(w), BelowBlocks, Apart
  PROVE  (Init => Tracked(w)) /\ (Tracked(w) /\ [Next]_vars => Tracked(w)')
BY BeginStep, NextStep

\* The invariant: until an update fails, the codes between the base and the index of
\* the tracker stand for the slots between R0 and the top of the stack it is on, the
\* codes below for those it left, and the buffer is no larger than these need.
THEOREM SlotsTracked ==
  ASSUME NEW CONSTANT w, Wide(w), BelowBlocks, Apart
  PROVE  Spec => []Tracked(w)
BY TrackedAlways, PTL DEF Spec

\* The tracker is a buffer of two-bit codes that never shrinks, and both its indexes
\* stay inside it.
THEOREM TypeCorrect ==
  ASSUME BelowBlocks, Apart
  PROVE  Spec => []TypeOK
<1>1. (Init => Tracked(Widest)) /\ (Tracked(Widest) /\ [Next]_vars => Tracked(Widest)')
  BY TrackedAlways, WidestIs
<1>2. Tracked(Widest) => TypeOK
  BY TrackedType
<1>. QED
  BY <1>1, <1>2, PTL DEF Spec

\* GetArgLayout gives a native call 64-bit arguments exactly where eight constant
\* bytes were pushed, as far as the newest slots are whole.
THEOREM LayoutFollows ==
  ASSUME BelowBlocks, Apart
  PROVE  Spec => []LayoutOfSlots
<1>1. (Init => Tracked(Widest)) /\ (Tracked(Widest) /\ [Next]_vars => Tracked(Widest)')
  BY TrackedAlways, WidestIs
<1>2. Tracked(Widest) => LayoutOfSlots
  BY TrackedLayout
<1>. QED
  BY <1>1, <1>2, PTL DEF Spec

\* The slots are as many bytes as lie between R0 and the top: what the deletion of
\* blocks violates is kept by everything else.
THEOREM HeightFollows ==
  ASSUME BelowBlocks, Apart
  PROVE  Spec => []HeightTracked
<1>1. (Init => Tracked(Widest)) /\ (Tracked(Widest) /\ [Next]_vars => Tracked(Widest)')
  BY TrackedAlways, WidestIs
<1>2. Tracked(Widest) => HeightTracked
  BY TrackedHeight
<1>. QED
  BY <1>1, <1>2, PTL DEF Spec

\* The two assertions about STACK_TRACKER_SIZE_MAX hold in programs that use about a
\* thirty-second of the stack.  Two codes a byte, of which four fill a byte of the
\* buffer, would allow more: but AddStackTrackerBytes compares codes with bytes.
THEOREM SizeKept ==
  ASSUME BelowBlocks, Apart, Small
  PROVE  Spec => []SizeBelowLimit
<1>. DEFINE w == STACK_TRACKER_SIZE_MAX
<1>1. Wide(w)
  <2>1. w \in Int /\ STACK_TRACKER_SIZE <= w
    BY PoolAssumption DEF STACK_TRACKER_SIZE, STACK_TRACKER_SIZE_MAX
  <2>. QED
    BY <2>1 DEF Wide, Small
<1>. HIDE DEF w
<1>2. (Init => Tracked(w)) /\ (Tracked(w) /\ [Next]_vars => Tracked(w)')
  BY <1>1, TrackedAlways
<1>3. Tracked(w) => SizeBelowLimit
  BY TrackedSize DEF SizeBelowLimit, w
<1>. QED
  BY <1>2, <1>3, PTL DEF Spec

\* The tracker implements StackSlots: a step of the interpreter on the packed codes
\* is a step on the slots they stand for.
THEOREM SlotsImplemented ==
  ASSUME BelowBlocks, Apart
  PROVE  Spec => ImplementsSlots
<1>. DEFINE w == Widest
<1>1. Wide(w)
  BY WidestIs
<1>. HIDE DEF w
<1>2. (Init => Tracked(w)) /\ (Tracked(w) /\ [Next]_vars => Tracked(w)')
  BY <1>1, TrackedAlways
<1>3. Init => Abstract!Init
  BY <1>1, BeginStep
<1>4. Tracked(w) /\ [Next]_vars => [Abstract!Next]_(Abstract!vars)
  BY <1>1, NextStep
<1>. QED
  BY <1>2, <1>3, <1>4, PTL DEF Spec, ImplementsSlots, Abstract!Spec
===============================================================================
