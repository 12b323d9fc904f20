--------------------------- MODULE PageTablesProofs -------------------------
(* For tables of any size, any number of pages for them and any requests:  *)
(* the translation tables stay a tree, a call that works its way through   *)
(* them neither leaves them nor loses one of them (IInv); what the         *)
(* processor finds in them is a flat map, and what it has cached stays     *)
(* true (MapInv); and every step is one of AddressMap, or leaves the map   *)
(* as it is.                                                               *)
EXTENDS PageTables, FiniteSetTheorems, TLAPS

\* The indices at which a table of this level leads to another one.
Linked(T, t, level) == {i \in Indices(level) : IsTable(level, T[t][i])}

\* The tables of each level, and the entries that lead to them.
Second(T) == {T[Root][i].addr : i \in Linked(T, Root, 1)}
Third(T)  == UNION {{T[t][i].addr : i \in Linked(T, t, 2)} : t \in Second(T)}

OfLevel(T, level) == IF level = 1 THEN {Root}
                     ELSE IF level = 2 THEN Second(T) ELSE Third(T)

LinksOf(T) ==
  {<<Root, i>> : i \in Linked(T, Root, 1)}
    \union UNION {{<<t, i>> : i \in Linked(T, t, 2)} : t \in Second(T)}

Target(T, l) == T[l[1]][l[2]].addr

\* Each table is the target of one entry.
Tree(T) ==
  /\ {Target(T, l) : l \in LinksOf(T)} = DOMAIN T \ {Root}
  /\ \A l, k \in LinksOf(T) : Target(T, l) = Target(T, k) => l = k
  /\ IsFiniteSet(LinksOf(T))
  /\ Cardinality(LinksOf(T)) = Cardinality(DOMAIN T) - 1

-----------------------------------------------------------------------------
(* Sizes and indices.                                                      *)
LEMMA Sizes ==
  /\ Level = {1, 2, 3} /\ RootTableLevel = 1
  /\ \A level \in Level : /\ BlockEntrySize(level) \in Nat \ {0}
                          /\ EntryCount(level) \in Nat \ {0}
                          /\ 0 \in Indices(level)
  /\ Indices(2) = Indices(3)
  /\ BlockEntrySize(3) = 1
  /\ BlockEntrySize(2) <= BlockEntrySize(1)
  /\ BlockEntrySize(3) <= BlockEntrySize(2)
  /\ PageCount = RootTableEntryCount * BlockEntrySize(1)
  /\ PageCount \in Nat \ {0}
<1>1. Level = {1, 2, 3} /\ RootTableLevel = 1
  BY DEF Level, RootTableLevel
<1>2. /\ TT_ENTRY_COUNT \in Nat /\ TT_ENTRY_COUNT >= 2
      /\ RootTableEntryCount \in Nat /\ RootTableEntryCount >= 1
  BY CountsAssumption
<1>3. ASSUME NEW m \in Nat, NEW n \in Nat, m >= 1, n >= 1
      PROVE  m * n \in Nat /\ m * n >= n
  BY <1>3
<1>4. TT_ENTRY_COUNT * TT_ENTRY_COUNT \in Nat
        /\ TT_ENTRY_COUNT * TT_ENTRY_COUNT >= TT_ENTRY_COUNT
  BY <1>2, <1>3
<1>5. /\ BlockEntrySize(1) = TT_ENTRY_COUNT * TT_ENTRY_COUNT
      /\ BlockEntrySize(2) = TT_ENTRY_COUNT
      /\ BlockEntrySize(3) = 1
  BY DEF BlockEntrySize
<1>6. /\ EntryCount(1) = RootTableEntryCount
      /\ EntryCount(2) = TT_ENTRY_COUNT
      /\ EntryCount(3) = TT_ENTRY_COUNT
  BY DEF EntryCount, RootTableLevel
<1>7. \A level \in Level : /\ BlockEntrySize(level) \in Nat \ {0}
                           /\ EntryCount(level) \in Nat \ {0}
  BY <1>1, <1>2, <1>4, <1>5, <1>6
<1>8. \A level \in Level : 0 \in Indices(level)
  BY <1>7 DEF Indices
<1>9. Indices(2) = Indices(3)
  BY <1>6 DEF Indices
<1>10. PageCount = RootTableEntryCount * BlockEntrySize(1)
  BY DEF PageCount, RootTableLevel
<1>11. PageCount \in Nat \ {0}
  <2>1. BlockEntrySize(1) \in Nat /\ BlockEntrySize(1) >= 1
    BY <1>1, <1>7
  <2>2. QED BY <1>2, <1>3, <1>10, <2>1
<1>12. QED
  BY <1>1, <1>2, <1>4, <1>5, <1>7, <1>8, <1>9, <1>10, <1>11

(* An address has an index in the table of each level, and a block.        *)
LEMMA IndexInTable ==
  ASSUME NEW level \in Level, NEW p \in Nat
  PROVE  /\ IndexAt(level, p) \in Indices(level)
         /\ BlockEntryAddress(level, p) \in 0 .. p
<1>1. BlockEntrySize(level) \in Nat \ {0} /\ EntryCount(level) \in Nat \ {0}
  BY Sizes
<1>2. ASSUME NEW m \in Nat, NEW n \in Nat \ {0}
      PROVE  m % n \in 0 .. n - 1 /\ m % n \in 0 .. m /\ m \div n \in Nat
  BY <1>2
<1>3. p \div BlockEntrySize(level) \in Nat /\ p % BlockEntrySize(level) \in 0 .. p
  BY <1>1, <1>2, Zenon
<1>4. IndexAt(level, p) \in Indices(level)
  BY <1>1, <1>2, <1>3, Zenon DEF IndexAt, Indices
<1>5. BlockEntryAddress(level, p) \in 0 .. p
  BY <1>3 DEF BlockEntryAddress
<1>6. QED BY <1>4, <1>5

-----------------------------------------------------------------------------
(* Blocks: pages of one block have the same indices, and conversely.       *)
(* Division with remainder.                                                *)
LEMMA DivMod ==
  ASSUME NEW m \in Nat, NEW n \in Nat \ {0}
  PROVE  /\ m \div n \in Nat
         /\ m % n \in 0 .. n - 1
         /\ m = n * (m \div n) + (m % n)
OBVIOUS

(* Products grow with their factors.                                       *)
LEMMA TimesMonotone ==
  ASSUME NEW n \in Nat, NEW a \in Nat, NEW b \in Nat, a <= b
  PROVE  /\ n * a \in Nat
         /\ n * a <= n * b
         /\ n * (a + 1) = n * a + n
OBVIOUS

(* A quotient and a remainder in its range are those of the division.      *)
LEMMA DivModUnique ==
  ASSUME NEW m \in Nat, NEW n \in Nat \ {0}, NEW q \in Nat, NEW r \in 0 .. n - 1,
         m = n * q + r
  PROVE  m \div n = q /\ m % n = r
<1> DEFINE d == m \div n
           e == m % n
<1>1. d \in Nat /\ e \in 0 .. n - 1 /\ m = n * d + e
  BY DivMod
<1> HIDE DEF d, e
<1>2. ~(q < d)
  <2> SUFFICES ASSUME q < d PROVE FALSE
    OBVIOUS
  <2>1. n * (q + 1) <= n * d /\ n * (q + 1) = n * q + n /\ n * q \in Nat
    BY <1>1, TimesMonotone
  <2>2. n * d \in Nat
    BY <1>1, TimesMonotone
  <2>3. QED BY <1>1, <2>1, <2>2
<1>3. ~(d < q)
  <2> SUFFICES ASSUME d < q PROVE FALSE
    OBVIOUS
  <2>1. n * (d + 1) <= n * q /\ n * (d + 1) = n * d + n /\ n * d \in Nat
    BY <1>1, TimesMonotone
  <2>2. n * q \in Nat
    BY <1>1, TimesMonotone
  <2>3. QED BY <1>1, <2>1, <2>2
<1>4. d = q
  BY <1>1, <1>2, <1>3
<1>5. e = r
  <2>1. n * q \in Nat
    BY TimesMonotone
  <2>2. QED BY <1>1, <1>4, <2>1
<1>6. QED BY <1>4, <1>5 DEF d, e

(* The blocks of n * k pages consist of n blocks of k pages.               *)
LEMMA DivDiv ==
  ASSUME NEW m \in Nat, NEW n \in Nat \ {0}, NEW k \in Nat \ {0}
  PROVE  /\ n * k \in Nat \ {0}
         /\ m \div (n * k) = (m \div k) \div n
         /\ m % (n * k) = k * ((m \div k) % n) + (m % k)
<1> DEFINE a  == m \div k
           r1 == m % k
           b  == a \div n
           r2 == a % n
<1>1. a \in Nat /\ r1 \in 0 .. k - 1 /\ m = k * a + r1
  BY DivMod
<1> HIDE DEF a, r1
<1>2. b \in Nat /\ r2 \in 0 .. n - 1 /\ a = n * b + r2
  BY <1>1, DivMod
<1> HIDE DEF b, r2
<1>3. m = (n * k) * b + (k * r2 + r1)
  <2>1. k * (n * b + r2) = (n * k) * b + k * r2
    BY <1>2
  <2>2. QED BY <1>1, <1>2, <2>1
<1>4. n * k \in Nat \ {0}
  OBVIOUS
<1>5. k * r2 + r1 \in 0 .. n * k - 1
  <2>1. /\ k * r2 \in Nat /\ k * (r2 + 1) <= k * n /\ k * (r2 + 1) = k * r2 + k
    BY <1>2, TimesMonotone
  <2>2. k * n = n * k
    OBVIOUS
  <2>3. QED BY <1>1, <1>4, <2>1, <2>2
<1>6. m \div (n * k) = b /\ m % (n * k) = k * r2 + r1
  BY <1>2, <1>3, <1>4, <1>5, DivModUnique
<1>7. QED BY <1>4, <1>6 DEF a, b, r1, r2

\* The number of the block of this level that a page is in.
Block(level, p) == p \div BlockEntrySize(level)

\* A table entry of this level leads to a table of this many blocks.
LEMMA BlockSizes ==
  /\ TT_ENTRY_COUNT \in Nat \ {0}
  /\ RootTableEntryCount \in Nat \ {0}
  /\ \A level \in {1, 2} : /\ BlockEntrySize(level)
                                = TT_ENTRY_COUNT * BlockEntrySize(level + 1)
                           /\ EntryCount(level + 1) = TT_ENTRY_COUNT
  /\ EntryCount(1) = RootTableEntryCount
<1>1. TT_ENTRY_COUNT \in Nat \ {0} /\ RootTableEntryCount \in Nat \ {0}
  BY CountsAssumption
<1>2. /\ BlockEntrySize(1) = TT_ENTRY_COUNT * TT_ENTRY_COUNT
      /\ BlockEntrySize(2) = TT_ENTRY_COUNT
      /\ BlockEntrySize(3) = 1
      /\ TT_ENTRY_COUNT * 1 = TT_ENTRY_COUNT
  BY <1>1 DEF BlockEntrySize
<1>3. /\ EntryCount(1) = RootTableEntryCount
      /\ EntryCount(2) = TT_ENTRY_COUNT
      /\ EntryCount(3) = TT_ENTRY_COUNT
  BY DEF EntryCount, RootTableLevel
<1>4. QED BY <1>1, <1>2, <1>3

(* The block a page is in, at each level.                                  *)
LEMMA BlockOfPage ==
  ASSUME NEW level \in Level, NEW p \in Nat
  PROVE  /\ Block(level, p) \in Nat
         /\ p % BlockEntrySize(level) \in 0 .. BlockEntrySize(level) - 1
         /\ BlockEntryAddress(level, p) = BlockEntrySize(level) * Block(level, p)
         /\ BlockEntryAddress(level, p) \in Nat
         /\ BlockEntryAddress(level, p) + (p % BlockEntrySize(level)) = p
<1>1. BlockEntrySize(level) \in Nat \ {0}
  BY Sizes
<1>2. ASSUME NEW n \in Nat \ {0}
      PROVE  /\ p \div n \in Nat /\ p % n \in 0 .. n - 1
             /\ p - (p % n) = n * (p \div n)
             /\ p - (p % n) \in Nat
             /\ (p - (p % n)) + (p % n) = p
  <2> DEFINE a == p \div n
             r == p % n
  <2>1. a \in Nat /\ r \in 0 .. n - 1 /\ p = n * a + r
    BY DivMod
  <2>2. n * a \in Nat
    BY <2>1
  <2> HIDE DEF a, r
  <2>3. p - r = n * a /\ (p - r) + r = p
    BY <2>1, <2>2
  <2>4. QED BY <2>1, <2>2, <2>3 DEF a, r
<1>3. QED BY <1>1, <1>2, Zenon DEF Block, BlockEntryAddress

(* A page's indices are the digits of its block's number.                  *)
LEMMA IndexOfPage ==
  ASSUME NEW p \in Pages
  PROVE  /\ IndexAt(1, p) = Block(1, p)
         /\ \A level \in {1, 2} :
              /\ IndexAt(level + 1, p) \in 0 .. TT_ENTRY_COUNT - 1
              /\ Block(level + 1, p)
                   = TT_ENTRY_COUNT * Block(level, p) + IndexAt(level + 1, p)
<1>1. p \in Nat /\ p < PageCount /\ PageCount \in Nat
  BY Sizes DEF Pages
<1>2. /\ Level = {1, 2, 3}
      /\ \A level \in Level : BlockEntrySize(level) \in Nat \ {0}
  BY Sizes
<1>3. IndexAt(1, p) = Block(1, p)
  <2> DEFINE b == Block(1, p)
             n == BlockEntrySize(1)
  <2>1. b \in Nat /\ p = n * b + (p % n) /\ p % n \in 0 .. n - 1 /\ n \in Nat \ {0}
    BY <1>1, <1>2, DivMod DEF Block
  <2>2. PageCount = RootTableEntryCount * n /\ RootTableEntryCount \in Nat \ {0}
    BY Sizes, BlockSizes
  <2> HIDE DEF b, n
  <2>3. b < RootTableEntryCount
    <3> SUFFICES ASSUME RootTableEntryCount <= b PROVE FALSE
      BY <2>1, <2>2
    <3>1. n * RootTableEntryCount <= n * b /\ n * b \in Nat
      BY <2>1, <2>2, TimesMonotone
    <3>2. n * RootTableEntryCount = RootTableEntryCount * n
      BY <2>1, <2>2
    <3>3. p % n >= 0 /\ p % n \in Int
      BY <2>1
    <3>4. p >= n * b
      BY <2>1, <3>1, <3>3
    <3>5. QED BY <1>1, <2>2, <3>1, <3>2, <3>4
  <2>4. b % RootTableEntryCount = b
    <3>1. b = RootTableEntryCount * 0 + b /\ b \in 0 .. RootTableEntryCount - 1
      BY <2>1, <2>2, <2>3
    <3>2. 0 \in Nat
      OBVIOUS
    <3>3. QED BY <2>1, <2>2, <3>1, <3>2, DivModUnique
  <2>5. IndexAt(1, p) = b % RootTableEntryCount
    BY BlockSizes, Zenon DEF IndexAt, b, Block
  <2>6. QED BY <2>4, <2>5 DEF b
<1>4. ASSUME NEW level \in {1, 2}
      PROVE  /\ IndexAt(level + 1, p) \in 0 .. TT_ENTRY_COUNT - 1
             /\ Block(level + 1, p)
                  = TT_ENTRY_COUNT * Block(level, p) + IndexAt(level + 1, p)
  <2> DEFINE k == BlockEntrySize(level + 1)
             n == TT_ENTRY_COUNT
             c == p \div k
  <2>1. k \in Nat \ {0} /\ n \in Nat \ {0} /\ BlockEntrySize(level) = n * k
    <3>1. level + 1 \in Level
      BY <1>2
    <3>2. QED BY <1>2, <3>1, BlockSizes
  <2>2. IndexAt(level + 1, p) = c % n
    BY BlockSizes, Zenon DEF IndexAt
  <2> HIDE DEF k, n
  <2>3. Block(level, p) = c \div n
    <3>1. p \div (n * k) = (p \div k) \div n
      BY <1>1, <2>1, DivDiv
    <3>2. QED BY <2>1, <3>1, Zenon DEF Block
  <2>4. Block(level + 1, p) = c
    BY DEF Block, k
  <2>5. c \in Nat
    BY <1>1, <2>1, DivMod
  <2> HIDE DEF c
  <2>6. c % n \in 0 .. n - 1 /\ c = n * (c \div n) + (c % n)
    BY <2>1, <2>5, DivMod
  <2>7. QED BY <2>2, <2>3, <2>4, <2>6, Zenon DEF n
<1>5. QED BY <1>3, <1>4

\* The pages agree on the way to the entries of this level.
SameBlock(level, p, q) ==
  \A k \in Level : k <= level => IndexAt(k, p) = IndexAt(k, q)

(* Pages of one block are those with the same indices down to its level.   *)
LEMMA SameBlockNumber ==
  ASSUME NEW level \in Level, NEW p \in Pages, NEW q \in Pages
  PROVE  SameBlock(level, p, q) <=> Block(level, p) = Block(level, q)
<1>1. Level = {1, 2, 3} /\ p \in Nat /\ q \in Nat
  BY Sizes DEF Pages
<1>2. /\ IndexAt(1, p) = Block(1, p)
      /\ IndexAt(1, q) = Block(1, q)
  BY IndexOfPage
<1>3. ASSUME NEW k \in {1, 2}
      PROVE  Block(k + 1, p) = Block(k + 1, q) <=>
               Block(k, p) = Block(k, q) /\ IndexAt(k + 1, p) = IndexAt(k + 1, q)
  <2>1. TT_ENTRY_COUNT \in Nat \ {0}
    BY BlockSizes
  <2>2. ASSUME NEW m \in Nat, NEW n \in Nat \ {0}, NEW a \in Nat, NEW b \in Nat,
               NEW i \in 0 .. n - 1, NEW j \in 0 .. n - 1,
               n * a + i = n * b + j
        PROVE  a = b /\ i = j
    <3>1. n * a \in Nat /\ n * a + i \in Nat
      OBVIOUS
    <3>2. (n * a + i) \div n = a /\ (n * a + i) % n = i
      BY <3>1, DivModUnique
    <3>3. (n * a + i) \div n = b /\ (n * a + i) % n = j
      BY <2>2, <3>1, DivModUnique
    <3>4. QED BY <3>2, <3>3
  <2>3. k \in Level
    BY <1>1
  <2>4. Block(k, p) \in Nat /\ Block(k, q) \in Nat
    BY <1>1, <2>3, BlockOfPage
  <2>5. /\ IndexAt(k + 1, p) \in 0 .. TT_ENTRY_COUNT - 1
        /\ Block(k + 1, p) = TT_ENTRY_COUNT * Block(k, p) + IndexAt(k + 1, p)
        /\ IndexAt(k + 1, q) \in 0 .. TT_ENTRY_COUNT - 1
        /\ Block(k + 1, q) = TT_ENTRY_COUNT * Block(k, q) + IndexAt(k + 1, q)
    BY IndexOfPage
  <2>6. ASSUME Block(k + 1, p) = Block(k + 1, q)
        PROVE  Block(k, p) = Block(k, q) /\ IndexAt(k + 1, p) = IndexAt(k + 1, q)
    <3> DEFINE n == TT_ENTRY_COUNT
               a == Block(k, p)
               b == Block(k, q)
               i == IndexAt(k + 1, p)
               j == IndexAt(k + 1, q)
    <3>1. /\ n \in Nat \ {0} /\ a \in Nat /\ b \in Nat
          /\ i \in 0 .. n - 1 /\ j \in 0 .. n - 1
          /\ n * a + i = n * b + j
      BY <2>1, <2>4, <2>5, <2>6, Zenon
    <3> HIDE DEF n, a, b, i, j
    <3>2. a = b /\ i = j
      BY <2>2, <3>1
    <3>3. QED BY <3>2 DEF a, b, i, j
  <2>7. ASSUME Block(k, p) = Block(k, q) /\ IndexAt(k + 1, p) = IndexAt(k + 1, q)
        PROVE  Block(k + 1, p) = Block(k + 1, q)
    BY <2>5, <2>7, Zenon
  <2>8. QED BY <2>6, <2>7
<1>4. CASE level = 1
  BY <1>1, <1>2, <1>4 DEF SameBlock
<1>5. CASE level = 2
  <2>1. SameBlock(2, p, q) <=> IndexAt(1, p) = IndexAt(1, q) /\ IndexAt(2, p) = IndexAt(2, q)
    BY <1>1 DEF SameBlock
  <2>2. Block(2, p) = Block(2, q) <=>
          Block(1, p) = Block(1, q) /\ IndexAt(2, p) = IndexAt(2, q)
    BY <1>3
  <2>3. QED BY <1>2, <1>5, <2>1, <2>2
<1>6. CASE level = 3
  <2>1. SameBlock(3, p, q) <=> /\ IndexAt(1, p) = IndexAt(1, q)
                               /\ IndexAt(2, p) = IndexAt(2, q)
                               /\ IndexAt(3, p) = IndexAt(3, q)
    BY <1>1 DEF SameBlock
  <2>2. Block(2, p) = Block(2, q) <=>
          Block(1, p) = Block(1, q) /\ IndexAt(2, p) = IndexAt(2, q)
    BY <1>3
  <2>3. Block(3, p) = Block(3, q) <=>
          Block(2, p) = Block(2, q) /\ IndexAt(3, p) = IndexAt(3, q)
    BY <1>3
  <2>4. QED BY <1>2, <1>6, <2>1, <2>2, <2>3
<1>7. QED BY <1>1, <1>4, <1>5, <1>6

(* ... and those with the same block address.                              *)
LEMMA SameBlockAddress ==
  ASSUME NEW level \in Level, NEW p \in Pages, NEW q \in Pages
  PROVE  SameBlock(level, p, q) <=>
           BlockEntryAddress(level, p) = BlockEntryAddress(level, q)
<1>1. p \in Nat /\ q \in Nat
  BY Sizes DEF Pages
<1>2. BlockEntrySize(level) \in Nat \ {0}
  BY Sizes
<1>3. /\ Block(level, p) \in Nat /\ Block(level, q) \in Nat
      /\ BlockEntryAddress(level, p) = BlockEntrySize(level) * Block(level, p)
      /\ BlockEntryAddress(level, q) = BlockEntrySize(level) * Block(level, q)
  BY <1>1, BlockOfPage
<1>4. ASSUME NEW n \in Nat \ {0}, NEW a \in Nat, NEW b \in Nat, n * a = n * b
      PROVE  a = b
  <2>1. n * a = n * a + 0 /\ n * a = n * b + 0 /\ 0 \in 0 .. n - 1 /\ n * a \in Nat
    BY <1>4
  <2>2. (n * a) \div n = a /\ (n * a) \div n = b
    BY <2>1, DivModUnique
  <2>3. QED BY <2>2
<1>5. BlockEntryAddress(level, p) = BlockEntryAddress(level, q) <=>
        Block(level, p) = Block(level, q)
  BY <1>2, <1>3, <1>4, Zenon
<1>6. QED BY <1>5, SameBlockNumber

\* A page that a block of this level can start with.
Aligned(level, s) == s % BlockEntrySize(level) = 0

(* The block that starts with a page consists of the pages after it.       *)
LEMMA AlignedBlock ==
  ASSUME NEW level \in Level, NEW s \in Pages, NEW p \in Pages, Aligned(level, s)
  PROVE  /\ BlockEntryAddress(level, s) = s
         /\ SameBlock(level, p, s) <=> p \in s .. s + BlockEntrySize(level) - 1
<1> DEFINE n == BlockEntrySize(level)
<1>1. p \in Nat /\ s \in Nat /\ n \in Nat \ {0}
  BY Sizes DEF Pages
<1>2. /\ Block(level, s) \in Nat /\ Block(level, p) \in Nat
      /\ BlockEntryAddress(level, s) = n * Block(level, s)
      /\ BlockEntryAddress(level, s) + (s % n) = s
      /\ BlockEntryAddress(level, p) = n * Block(level, p)
      /\ BlockEntryAddress(level, p) + (p % n) = p
      /\ BlockEntryAddress(level, p) \in Nat /\ BlockEntryAddress(level, s) \in Nat
      /\ p % n \in 0 .. n - 1
  BY <1>1, BlockOfPage
<1>3. s % n = 0
  BY DEF Aligned
<1> HIDE DEF n
<1>4. BlockEntryAddress(level, s) = s
  BY <1>2, <1>3
<1>5. ASSUME SameBlock(level, p, s) PROVE p \in s .. s + n - 1
  <2>1. BlockEntryAddress(level, p) = s
    BY <1>4, <1>5, SameBlockAddress
  <2>2. QED BY <1>1, <1>2, <2>1
<1>6. ASSUME p \in s .. s + n - 1 PROVE SameBlock(level, p, s)
  <2> DEFINE a == Block(level, s)
  <2>1. a \in Nat /\ s = n * a
    BY <1>2, <1>4
  <2> HIDE DEF a
  <2>2. p - s \in 0 .. n - 1 /\ p = n * a + (p - s)
    BY <1>1, <1>6, <2>1
  <2>3. p \div n = a
    BY <1>1, <2>1, <2>2, DivModUnique
  <2>4. Block(level, p) = Block(level, s)
    BY <2>3 DEF Block, a, n
  <2>5. QED BY <2>4, SameBlockNumber
<1>7. QED BY <1>4, <1>5, <1>6 DEF n

(* Where a large block starts a smaller one does.                          *)
LEMMA AlignedFiner ==
  ASSUME NEW level \in {1, 2}, NEW s \in Nat, Aligned(level, s)
  PROVE  Aligned(level + 1, s)
<1> DEFINE n == TT_ENTRY_COUNT
           k == BlockEntrySize(level + 1)
<1>1. Level = {1, 2, 3}
  BY Sizes
<1>2. n \in Nat \ {0} /\ k \in Nat \ {0} /\ BlockEntrySize(level) = n * k
  BY <1>1, BlockSizes, Sizes
<1> HIDE DEF n, k
<1>3. s % (n * k) = 0
  BY <1>2 DEF Aligned
<1>4. s % (n * k) = k * ((s \div k) % n) + (s % k)
  BY <1>2, DivDiv
<1>5. s \div k \in Nat /\ s % k \in 0 .. k - 1
  BY <1>2, DivMod
<1>6. (s \div k) % n \in 0 .. n - 1
  BY <1>2, <1>5, DivMod
<1> DEFINE r == s % k
           t == (s \div k) % n
<1>7. t \in Nat /\ r \in Nat /\ k * t + r = 0
  BY <1>2, <1>3, <1>4, <1>5, <1>6
<1> HIDE DEF r, t
<1>8. k * t \in Nat
  BY <1>2, <1>7
<1>9. r = 0
  BY <1>7, <1>8
<1>10. QED BY <1>9 DEF r, k, Aligned

(* The block behind another one has the next index of the same table.      *)
LEMMA NextBlock ==
  ASSUME NEW level \in Level, NEW s \in Pages, Aligned(level, s),
         s + BlockEntrySize(level) \in Pages,
         IndexAt(level, s) + 1 \in Indices(level)
  PROVE  LET next == s + BlockEntrySize(level)
         IN /\ Aligned(level, next)
            /\ IndexAt(level, next) = IndexAt(level, s) + 1
            /\ \A k \in Level : k < level => IndexAt(k, next) = IndexAt(k, s)
<1> DEFINE n    == BlockEntrySize(level)
           next == s + n
           a    == Block(level, s)
<1>1. /\ s \in Nat /\ n \in Nat \ {0} /\ next \in Pages /\ next \in Nat
      /\ Level = {1, 2, 3}
  BY Sizes DEF Pages
<1>2. a \in Nat /\ s = n * a
  <2>1. /\ a \in Nat /\ BlockEntryAddress(level, s) = n * a
    BY <1>1, BlockOfPage
  <2>2. QED BY <2>1, AlignedBlock
<1>3. next \div n = a + 1 /\ next % n = 0
  <2> HIDE DEF a, n
  <2>1. next = n * (a + 1) + 0
    BY <1>1, <1>2, TimesMonotone
  <2>2. a + 1 \in Nat /\ 0 \in 0 .. n - 1
    BY <1>1, <1>2
  <2> HIDE DEF next
  <2>3. QED BY <1>1, <2>1, <2>2, DivModUnique
<1>4. Block(level, next) = a + 1 /\ Aligned(level, next)
  BY <1>3 DEF Block, Aligned
<1> HIDE DEF next, a
<1>5. CASE level = 1
  <2>1. IndexAt(1, next) = Block(1, next) /\ IndexAt(1, s) = Block(1, s)
    BY <1>1, IndexOfPage
  <2>2. QED BY <1>1, <1>4, <1>5, <2>1 DEF a, next
<1>6. CASE level # 1
  <2>1. PICK k \in {1, 2} : level = k + 1
    BY <1>1, <1>6
  <2> DEFINE c == TT_ENTRY_COUNT
             i == IndexAt(level, s)
  <2>2. c \in Nat \ {0} /\ EntryCount(level) = c
    BY <2>1, BlockSizes
  <2>3. k \in Level /\ Block(k, s) \in Nat /\ Block(k, next) \in Nat
    BY <1>1, BlockOfPage
  <2>4. /\ i \in 0 .. c - 1 /\ a = c * Block(k, s) + i
        /\ IndexAt(level, next) \in 0 .. c - 1
        /\ a + 1 = c * Block(k, next) + IndexAt(level, next)
    BY <1>1, <1>4, <2>1, IndexOfPage DEF a
  <2>5. i + 1 \in 0 .. c - 1
    BY <2>2 DEF Indices
  <2>6. a + 1 = c * Block(k, s) + (i + 1)
    <3> DEFINE x == c * Block(k, s)
    <3>1. x \in Nat
      BY <2>2, <2>3
    <3>2. a = x + i /\ i \in Int
      BY <2>4
    <3> HIDE DEF x
    <3>3. a + 1 = x + (i + 1)
      BY <1>2, <3>1, <3>2
    <3>4. QED BY <3>3 DEF x
  <2>7. a + 1 \in Nat
    BY <1>2
  <2>8. /\ (a + 1) \div c = Block(k, s) /\ (a + 1) % c = i + 1
        /\ (a + 1) \div c = Block(k, next) /\ (a + 1) % c = IndexAt(level, next)
    <3> DEFINE m == a + 1
               j == i + 1
               h == IndexAt(level, next)
    <3>1. m \in Nat /\ j \in 0 .. c - 1 /\ h \in 0 .. c - 1
          /\ m = c * Block(k, s) + j /\ m = c * Block(k, next) + h
      BY <2>4, <2>5, <2>6, <2>7
    <3> HIDE DEF m, j, h, c
    <3>2. QED BY <2>2, <2>3, <3>1, DivModUnique DEF m, j, h
  <2>9. SameBlock(k, next, s)
    BY <1>1, <2>3, <2>8, SameBlockNumber
  <2>10. \A l \in Level : l < level => IndexAt(l, next) = IndexAt(l, s)
    BY <1>1, <2>1, <2>9 DEF SameBlock
  <2>11. QED BY <1>4, <2>8, <2>10 DEF next
<1>7. QED BY <1>5, <1>6

(* The pages of one smaller block of a block that is split.                *)
LEMMA SplitAddress ==
  ASSUME NEW level \in {1, 2}, NEW p \in Pages
  PROVE  /\ IndexAt(level + 1, p) \in Indices(level + 1)
         /\ BlockEntryAddress(level, p)
              + IndexAt(level + 1, p) * BlockEntrySize(level + 1)
              = BlockEntryAddress(level + 1, p)
<1> DEFINE n == TT_ENTRY_COUNT
           k == BlockEntrySize(level + 1)
           a == Block(level, p)
           b == Block(level + 1, p)
           i == IndexAt(level + 1, p)
<1>1. Level = {1, 2, 3} /\ p \in Nat
  BY Sizes DEF Pages
<1>2. n \in Nat \ {0} /\ k \in Nat \ {0} /\ BlockEntrySize(level) = n * k
  BY <1>1, BlockSizes, Sizes
<1>3. /\ a \in Nat /\ BlockEntryAddress(level, p) = (n * k) * a
      /\ b \in Nat /\ BlockEntryAddress(level + 1, p) = k * b
  <2>1. level \in Level /\ level + 1 \in Level
    BY <1>1
  <2>2. a \in Nat /\ BlockEntryAddress(level, p) = BlockEntrySize(level) * a
    BY <1>1, <2>1, BlockOfPage
  <2>3. b \in Nat /\ BlockEntryAddress(level + 1, p) = k * b
    BY <1>1, <2>1, BlockOfPage
  <2>4. QED BY <1>2, <2>2, <2>3, Zenon
<1>4. i \in 0 .. n - 1 /\ b = n * a + i
  BY IndexOfPage
<1>5. EntryCount(level + 1) = n
  BY BlockSizes
<1>6. i \in Indices(level + 1)
  BY <1>4, <1>5 DEF Indices
<1> HIDE DEF n, k, a, b, i
<1>7. i \in Nat
  BY <1>2, <1>4
<1>8. (n * k) * a + i * k = k * (n * a + i)
  BY <1>2, <1>3, <1>7
<1>9. BlockEntryAddress(level, p) + i * k = BlockEntryAddress(level + 1, p)
  BY <1>3, <1>4, <1>8
<1>10. BlockEntryAddress(level, p)
         + IndexAt(level + 1, p) * BlockEntrySize(level + 1)
         = BlockEntryAddress(level + 1, p)
  BY <1>9, Zenon DEF i, k
<1>11. QED BY <1>6, <1>10, Zenon DEF i

(* The block to change fits the region and can start where it does.        *)
LEMMA TargetFits ==
  ASSUME NEW s \in Nat, NEW n \in Nat \ {0}
  PROVE  /\ TargetLevel(s, n) \in Level
         /\ BlockEntrySize(TargetLevel(s, n)) <= n
         /\ Aligned(TargetLevel(s, n), s)
<1> DEFINE aligned(level) == (IF s = 0 THEN n ELSE s) % BlockEntrySize(level) = 0
           fits(level)    == BlockEntrySize(level) <= n
           Good(level)    == aligned(level) /\ fits(level)
<1>1. Good(3)
  BY Sizes
<1> HIDE DEF Good
<1>2. \E level \in Level : Good(level) /\ \A l \in Level : Good(l) => level <= l
  <2>1. CASE Good(1)
    BY <2>1, Sizes
  <2>2. CASE ~Good(1) /\ Good(2)
    BY <2>2, Sizes
  <2>3. CASE ~Good(1) /\ ~Good(2)
    BY <1>1, <2>3, Sizes
  <2>4. QED BY <2>1, <2>2, <2>3
<1> DEFINE Best(level) == /\ aligned(level)
                          /\ fits(level)
                          /\ \A l \in Level : aligned(l) /\ fits(l) => level <= l
<1>3. \E level \in Level : Best(level)
  BY <1>2 DEF Good
<1>4. TargetLevel(s, n) = CHOOSE level \in Level : Best(level)
  BY Zenon DEF TargetLevel
<1> HIDE DEF Best
<1>5. TargetLevel(s, n) \in Level /\ Best(TargetLevel(s, n))
  BY <1>3, <1>4, Zenon
<1>6. Aligned(TargetLevel(s, n), s)
  <2>1. CASE s = 0
    <3>1. BlockEntrySize(TargetLevel(s, n)) \in Nat \ {0}
      BY <1>5, Sizes
    <3>2. ASSUME NEW k \in Nat \ {0} PROVE 0 % k = 0
      <4>1. 0 = k * 0 + 0 /\ 0 \in 0 .. k - 1 /\ 0 \in Nat
        OBVIOUS
      <4>2. QED BY <4>1, DivModUnique
    <3>3. QED BY <2>1, <3>1, <3>2, Zenon DEF Aligned
  <2>2. CASE s # 0
    BY <1>5, <2>2 DEF Best, Aligned
  <2>3. QED BY <2>1, <2>2
<1>7. QED BY <1>5, <1>6 DEF Best

-----------------------------------------------------------------------------
(* The links of a table, and where they lead.                              *)
LEMMA LinkCases ==
  ASSUME NEW T, NEW l
  PROVE  l \in LinksOf(T) <=>
           \E level \in {1, 2} : \E t \in OfLevel(T, level) :
             \E i \in Linked(T, t, level) : l = <<t, i>>
BY DEF LinksOf, OfLevel

(* The targets are the tables of the two lower levels.                     *)
LEMMA Targets ==
  ASSUME NEW T
  PROVE  {Target(T, l) : l \in LinksOf(T)} = Second(T) \union Third(T)
<1>1. ASSUME NEW l \in LinksOf(T)
      PROVE  Target(T, l) \in Second(T) \union Third(T)
  <2>1. CASE \E i \in Linked(T, Root, 1) : l = <<Root, i>>
    BY <2>1 DEF Target, Second
  <2>2. CASE \E t \in Second(T) : \E i \in Linked(T, t, 2) : l = <<t, i>>
    BY <2>2 DEF Target, Third
  <2>3. QED BY <2>1, <2>2 DEF LinksOf
<1>2. ASSUME NEW a \in Second(T)
      PROVE  \E l \in LinksOf(T) : a = Target(T, l)
  <2>1. PICK i \in Linked(T, Root, 1) : a = T[Root][i].addr
    BY DEF Second
  <2>2. <<Root, i>> \in LinksOf(T) /\ Target(T, <<Root, i>>) = a
    BY <2>1 DEF LinksOf, Target
  <2>3. QED BY <2>2
<1>3. ASSUME NEW a \in Third(T)
      PROVE  \E l \in LinksOf(T) : a = Target(T, l)
  <2>1. PICK t \in Second(T) : \E i \in Linked(T, t, 2) : a = T[t][i].addr
    BY DEF Third
  <2>2. PICK i \in Linked(T, t, 2) : a = T[t][i].addr
    BY <2>1
  <2>3. <<t, i>> \in LinksOf(T) /\ Target(T, <<t, i>>) = a
    BY <2>2 DEF LinksOf, Target
  <2>4. QED BY <2>3
<1>4. QED BY <1>1, <1>2, <1>3

(* In a tree the tables of the three levels are different ones.            *)
LEMMA LevelsDiffer ==
  ASSUME NEW T, Tree(T)
  PROVE  /\ Second(T) \subseteq DOMAIN T \ {Root}
         /\ Third(T) \subseteq DOMAIN T \ {Root}
         /\ Second(T) \intersect Third(T) = {}
<1>1. /\ Second(T) \subseteq DOMAIN T \ {Root}
      /\ Third(T) \subseteq DOMAIN T \ {Root}
  BY Targets DEF Tree
<1>2. ASSUME NEW a \in Second(T), a \in Third(T)
      PROVE  FALSE
  <2>1. PICK i \in Linked(T, Root, 1) : a = T[Root][i].addr
    BY DEF Second
  <2>2. PICK t \in Second(T) : \E j \in Linked(T, t, 2) : a = T[t][j].addr
    BY <1>2 DEF Third
  <2>3. PICK j \in Linked(T, t, 2) : a = T[t][j].addr
    BY <2>2
  <2>4. <<Root, i>> \in LinksOf(T) /\ Target(T, <<Root, i>>) = a
    BY <2>1 DEF LinksOf, Target
  <2>5. <<t, j>> \in LinksOf(T) /\ Target(T, <<t, j>>) = a
    BY <2>3 DEF LinksOf, Target
  <2>6. <<Root, i>> = <<t, j>>
    BY <2>4, <2>5 DEF Tree
  <2>7. t = Root
    BY <2>6
  <2>8. QED BY <1>1, <2>7
<1>3. QED BY <1>1, <1>2

\* The entries agree on whether they lead to a table, and to which.
SameLink(level, d, e) ==
  /\ IsTable(level, d) <=> IsTable(level, e)
  /\ IsTable(level, d) => d.addr = e.addr

(* Stores to entries that lead to no table, before and after, leave the    *)
(* tree as it is.                                                          *)
LEMMA SameLinks ==
  ASSUME NEW T, NEW U, DOMAIN U = DOMAIN T,
         \A i \in Indices(1) : SameLink(1, T[Root][i], U[Root][i]),
         \A t \in Second(T) : \A i \in Indices(2) : SameLink(2, T[t][i], U[t][i])
  PROVE  /\ Second(U) = Second(T) /\ Third(U) = Third(T)
         /\ Tree(T) => Tree(U)
<1>1. Linked(U, Root, 1) = Linked(T, Root, 1)
  BY DEF Linked, SameLink
<1>2. \A i \in Linked(T, Root, 1) : U[Root][i].addr = T[Root][i].addr
  BY DEF Linked, SameLink
<1>3. Second(U) = Second(T)
  BY <1>1, <1>2 DEF Second
<1>4. \A t \in Second(T) : Linked(U, t, 2) = Linked(T, t, 2)
  BY DEF Linked, SameLink
<1>5. \A t \in Second(T) : \A i \in Linked(T, t, 2) : U[t][i].addr = T[t][i].addr
  BY DEF Linked, SameLink
<1>6. \A t \in Second(T) :
        {U[t][i].addr : i \in Linked(U, t, 2)} = {T[t][i].addr : i \in Linked(T, t, 2)}
  BY <1>4, <1>5
<1>7. Third(U) = Third(T)
  <2> DEFINE A(t) == {U[t][i].addr : i \in Linked(U, t, 2)}
             B(t) == {T[t][i].addr : i \in Linked(T, t, 2)}
  <2>1. Third(U) = UNION {A(t) : t \in Second(T)}
    BY <1>3, Zenon DEF Third
  <2>2. Third(T) = UNION {B(t) : t \in Second(T)}
    BY Zenon DEF Third
  <2>3. \A t \in Second(T) : A(t) = B(t)
    BY <1>6, Zenon
  <2> HIDE DEF A, B
  <2>4. QED BY <2>1, <2>2, <2>3
<1>8. LinksOf(U) = LinksOf(T)
  BY <1>1, <1>3, <1>4 DEF LinksOf
<1>9. ASSUME NEW l \in LinksOf(T)
      PROVE  Target(U, l) = Target(T, l)
  <2>1. CASE \E i \in Linked(T, Root, 1) : l = <<Root, i>>
    BY <1>2, <2>1 DEF Target
  <2>2. CASE \E t \in Second(T) : \E i \in Linked(T, t, 2) : l = <<t, i>>
    BY <1>5, <2>2 DEF Target
  <2>3. QED BY <2>1, <2>2 DEF LinksOf
<1>10. Tree(T) => Tree(U)
  BY <1>8, <1>9 DEF Tree
<1>11. QED BY <1>3, <1>7, <1>10

\* What AddTable stores: a table without links, and one link to it.
Adds(T, U, level, t, i, new) ==
  /\ level \in {1, 2} /\ t \in OfLevel(T, level) /\ i \in Indices(level)
  /\ ~IsTable(level, T[t][i])
  /\ new \notin DOMAIN T /\ DOMAIN U = DOMAIN T \union {new}
  /\ IsTable(level, U[t][i]) /\ U[t][i].addr = new
  /\ level = 1 => \A j \in Indices(2) : ~IsTable(2, U[new][j])
  /\ \A j \in Indices(level) \ {i} : U[t][j] = T[t][j]
  /\ \A s \in DOMAIN T \ {t} : U[s] = T[s]

(* The tree with one more table has one more link, and no other changes.   *)
LEMMA LinksAdded ==
  ASSUME NEW T, NEW U, NEW level, NEW t, NEW i, NEW new,
         Tree(T), Root \in DOMAIN T, Adds(T, U, level, t, i, new)
  PROVE  /\ LinksOf(U) = LinksOf(T) \union {<<t, i>>}
         /\ <<t, i>> \notin LinksOf(T)
         /\ Second(T) \subseteq Second(U)
         /\ new \in OfLevel(U, level + 1)
<1>1. /\ Second(T) \subseteq DOMAIN T \ {Root}
      /\ Third(T) \subseteq DOMAIN T \ {Root}
      /\ Second(T) \intersect Third(T) = {}
  BY LevelsDiffer
<1>2. CASE level = 1
  <2>1. t = Root /\ i \in Indices(1) /\ ~IsTable(1, T[Root][i])
    BY <1>2 DEF Adds, OfLevel
  <2>2. \A j \in Indices(1) \ {i} : U[Root][j] = T[Root][j]
    BY <1>2, <2>1 DEF Adds
  <2>3. IsTable(1, U[Root][i]) /\ U[Root][i].addr = new
    BY <1>2, <2>1 DEF Adds
  <2>4. Linked(U, Root, 1) = Linked(T, Root, 1) \union {i}
    BY <2>1, <2>2, <2>3 DEF Linked
  <2>5. i \notin Linked(T, Root, 1)
    BY <2>1 DEF Linked
  <2>6. \A j \in Linked(T, Root, 1) : U[Root][j].addr = T[Root][j].addr
    BY <2>2, <2>5 DEF Linked
  <2>7. Second(U) = Second(T) \union {new}
    BY <2>3, <2>4, <2>6 DEF Second
  <2>8. \A s \in Second(T) : Linked(U, s, 2) = Linked(T, s, 2)
    BY <1>1, <2>1 DEF Linked, Adds
  <2>9. Linked(U, new, 2) = {}
    BY <1>2 DEF Linked, Adds
  <2>10. LinksOf(U) = LinksOf(T) \union {<<t, i>>}
    <3> DEFINE R(V, I) == {<<Root, j>> : j \in I}
               F(V, s) == {<<s, j>> : j \in Linked(V, s, 2)}
    <3>1. /\ LinksOf(U) = R(U, Linked(U, Root, 1)) \union UNION {F(U, s) : s \in Second(U)}
          /\ LinksOf(T) = R(T, Linked(T, Root, 1)) \union UNION {F(T, s) : s \in Second(T)}
      BY Zenon DEF LinksOf
    <3>2. R(U, Linked(U, Root, 1)) = R(T, Linked(T, Root, 1)) \union {<<t, i>>}
      BY <2>1, <2>4
    <3>3. \A s \in Second(T) : F(U, s) = F(T, s)
      BY <2>8
    <3>4. F(U, new) = {}
      BY <2>9
    <3> HIDE DEF R, F
    <3>5. UNION {F(U, s) : s \in Second(U)} = UNION {F(T, s) : s \in Second(T)}
      BY <2>7, <3>3, <3>4
    <3>6. QED BY <3>1, <3>2, <3>5
  <2>11. <<t, i>> \notin LinksOf(T)
    BY <1>1, <2>1, <2>5 DEF LinksOf
  <2>12. new \in OfLevel(U, level + 1)
    BY <1>2, <2>7 DEF OfLevel
  <2>13. QED BY <2>7, <2>10, <2>11, <2>12
<1>3. CASE level = 2
  <2>1. t \in Second(T) /\ i \in Indices(2) /\ ~IsTable(2, T[t][i])
    BY <1>3 DEF Adds, OfLevel
  <2>2. t # Root /\ t \in DOMAIN T
    BY <1>1, <2>1
  <2>3. \A j : U[Root][j] = T[Root][j]
    BY <2>2 DEF Adds
  <2>4. Linked(U, Root, 1) = Linked(T, Root, 1)
    BY <2>3 DEF Linked
  <2>5. Second(U) = Second(T)
    BY <2>3, <2>4 DEF Second
  <2>6. \A s \in Second(T) \ {t} : Linked(U, s, 2) = Linked(T, s, 2)
    BY <1>1 DEF Linked, Adds
  <2>7. IsTable(2, U[t][i]) /\ U[t][i].addr = new
    BY <1>3 DEF Adds
  <2>8. \A j \in Indices(2) \ {i} : U[t][j] = T[t][j]
    BY <1>3 DEF Adds
  <2>9. Linked(U, t, 2) = Linked(T, t, 2) \union {i} /\ i \notin Linked(T, t, 2)
    BY <2>1, <2>7, <2>8 DEF Linked
  <2>10. LinksOf(U) = LinksOf(T) \union {<<t, i>>}
    <3> DEFINE R(I) == {<<Root, j>> : j \in I}
               F(V, s) == {<<s, j>> : j \in Linked(V, s, 2)}
    <3>1. /\ LinksOf(U) = R(Linked(U, Root, 1)) \union UNION {F(U, s) : s \in Second(U)}
          /\ LinksOf(T) = R(Linked(T, Root, 1)) \union UNION {F(T, s) : s \in Second(T)}
      BY Zenon DEF LinksOf
    <3>2. F(U, t) = F(T, t) \union {<<t, i>>}
      BY <2>9
    <3>3. \A s \in Second(T) \ {t} : F(U, s) = F(T, s)
      BY <2>6
    <3> HIDE DEF R, F
    <3>4. UNION {F(U, s) : s \in Second(T)}
            = (UNION {F(T, s) : s \in Second(T)}) \union {<<t, i>>}
      BY <2>1, <3>2, <3>3
    <3>5. QED BY <2>4, <2>5, <3>1, <3>4
  <2>11. <<t, i>> \notin LinksOf(T)
    BY <2>2, <2>9 DEF LinksOf
  <2>12. new \in OfLevel(U, level + 1)
    <3>1. new \in Third(U)
      <4> DEFINE E(s) == {U[s][j].addr : j \in Linked(U, s, 2)}
      <4>1. new \in E(t)
        BY <2>7, <2>9
      <4>2. Third(U) = UNION {E(s) : s \in Second(U)}
        BY Zenon DEF Third
      <4> HIDE DEF E
      <4>3. QED BY <2>1, <2>5, <4>1, <4>2
    <3>2. OfLevel(U, 3) = Third(U)
      BY DEF OfLevel
    <3>3. level + 1 = 3
      BY <1>3
    <3>4. QED BY <3>1, <3>2, <3>3, Zenon
  <2>13. QED BY <2>5, <2>10, <2>11, <2>12
<1>4. QED BY <1>2, <1>3 DEF Adds

(* A link is an entry of a table of the tree.                              *)
LEMMA LinkOfTree ==
  ASSUME NEW T, Tree(T), Root \in DOMAIN T, NEW l \in LinksOf(T)
  PROVE  /\ l = <<l[1], l[2]>> /\ l[1] \in DOMAIN T
         /\ \/ l[1] = Root /\ l[2] \in Indices(1)
            \/ l[1] \in Second(T) /\ l[2] \in Indices(2)
<1>1. Second(T) \subseteq DOMAIN T
  BY LevelsDiffer
<1>2. CASE \E i \in Linked(T, Root, 1) : l = <<Root, i>>
  BY <1>2 DEF Linked
<1>3. CASE \E t \in Second(T) : \E i \in Linked(T, t, 2) : l = <<t, i>>
  BY <1>1, <1>3 DEF Linked
<1>4. QED BY <1>2, <1>3 DEF LinksOf

(* The tree with one more table is a tree.                                 *)
LEMMA TreeGrows ==
  ASSUME NEW T, NEW U, NEW level, NEW t, NEW i, NEW new,
         Tree(T), Root \in DOMAIN T, IsFiniteSet(DOMAIN T),
         Adds(T, U, level, t, i, new)
  PROVE  Tree(U)
<1>1. LinksOf(U) = LinksOf(T) \union {<<t, i>>} /\ <<t, i>> \notin LinksOf(T)
  BY LinksAdded
<1>2. Target(U, <<t, i>>) = new
  BY DEF Target, Adds
<1>3. ASSUME NEW l \in LinksOf(T)
      PROVE  Target(U, l) = Target(T, l) /\ Target(T, l) \in DOMAIN T
  <2>1. /\ l = <<l[1], l[2]>> /\ l[1] \in DOMAIN T /\ l # <<t, i>>
        /\ \/ l[1] = Root /\ l[2] \in Indices(1)
           \/ l[1] \in Second(T) /\ l[2] \in Indices(2)
    BY <1>1, LinkOfTree
  <2>2. U[l[1]][l[2]] = T[l[1]][l[2]]
    <3>1. CASE l[1] # t
      BY <2>1, <3>1 DEF Adds
    <3>2. CASE l[1] = t
      <4>1. l[2] # i
        BY <2>1, <3>2
      <4>2. Root \notin Second(T)
        BY LevelsDiffer
      <4>3. l[2] \in Indices(level)
        BY <2>1, <3>2, <4>2 DEF Adds, OfLevel
      <4>4. QED BY <3>2, <4>1, <4>3 DEF Adds
    <3>3. QED BY <3>1, <3>2
  <2>3. Target(T, l) \in DOMAIN T
    BY DEF Tree
  <2>4. QED BY <2>2, <2>3 DEF Target
<1>4. new \notin DOMAIN T /\ DOMAIN U = DOMAIN T \union {new}
  BY DEF Adds
<1>5. {Target(U, l) : l \in LinksOf(U)} = DOMAIN U \ {Root}
  <2>1. {Target(U, l) : l \in LinksOf(U)}
          = {Target(T, l) : l \in LinksOf(T)} \union {new}
    BY <1>1, <1>2, <1>3
  <2>2. new # Root
    BY <1>4
  <2>3. QED BY <1>4, <2>1, <2>2 DEF Tree
<1>6. ASSUME NEW l \in LinksOf(U), NEW k \in LinksOf(U), Target(U, l) = Target(U, k)
      PROVE  l = k
  BY <1>1, <1>2, <1>3, <1>4, <1>6 DEF Tree
<1>7. /\ IsFiniteSet(LinksOf(U))
      /\ Cardinality(LinksOf(U)) = Cardinality(LinksOf(T)) + 1
  BY <1>1, FS_AddElement DEF Tree
<1>8. Cardinality(DOMAIN U) = Cardinality(DOMAIN T) + 1
  BY <1>4, FS_AddElement
<1>9. Cardinality(DOMAIN T) \in Nat
  BY FS_CardinalityType
<1>10. Cardinality(LinksOf(U)) = Cardinality(DOMAIN U) - 1
  BY <1>7, <1>8, <1>9 DEF Tree
<1>11. QED BY <1>5, <1>6, <1>7, <1>10 DEF Tree

-----------------------------------------------------------------------------
\* Where a call is: the table it has reached is one of the level it is at,
\* and the entry it will store to leads to no table.
PathInv ==
  /\ (pc = "walk" => /\ IndexLevel <= PageLevel
                     /\ TranslationTable \in OfLevel(tables, IndexLevel)
                     /\ BlockEntry = 0)
  /\ (pc \in {"fill", "set", "update"} =>
        /\ IndexLevel = PageLevel
        /\ TranslationTable \in OfLevel(tables, PageLevel)
        /\ ~IsTable(PageLevel, tables[TranslationTable][BlockEntry]))
  /\ (pc # "idle" => BlockEntrySize(PageLevel) <= RegionLength)

IInv == TypeOK /\ Tree(tables) /\ PathInv

(* The tables of the model's definition of links are those of Tree.        *)
LEMMA TreeIsLinkedOnce == Tree(tables) => EveryTableIsLinkedOnce
<1> SUFFICES ASSUME Tree(tables)
             PROVE  EveryTableIsLinkedOnce
  OBVIOUS
<1>1. Links = LinksOf(tables)
  <2> DEFINE R    == {<<Root, i>> : i \in Linked(tables, Root, 1)}
             F(t) == {<<t, i>> : i \in Linked(tables, t, 2)}
             G(l) == tables[l[1]][l[2]].addr
  <2>1. Links = R \union UNION {F(t) : t \in {G(l) : l \in R} \intersect DOMAIN tables}
    BY Zenon DEF Links, Linked
  <2>2. {G(l) : l \in R} = Second(tables)
    <3> DEFINE a(i) == tables[Root][i].addr
    <3>1. /\ \A i \in Linked(tables, Root, 1) :
               <<Root, i>> \in R /\ G(<<Root, i>>) = a(i)
          /\ \A l \in R : \E i \in Linked(tables, Root, 1) : l = <<Root, i>>
      OBVIOUS
    <3>2. Second(tables) = {a(i) : i \in Linked(tables, Root, 1)}
      BY Zenon DEF Second
    <3> HIDE DEF R, G, a
    <3>3. QED BY <3>1, <3>2
  <2>3. LinksOf(tables) = R \union UNION {F(t) : t \in Second(tables)}
    BY Zenon DEF LinksOf
  <2> HIDE DEF R, F
  <2>4. {G(l) : l \in R} \intersect DOMAIN tables = Second(tables)
    BY <2>2, LevelsDiffer
  <2>5. QED BY <2>1, <2>3, <2>4, Zenon
<1>2. \A l : tables[l[1]][l[2]].addr = Target(tables, l)
  BY DEF Target
<1>3. QED BY <1>1, <1>2 DEF Tree, EveryTableIsLinkedOnce

(* The tables a call can reach.                                            *)
LEMMA TableOfLevel ==
  ASSUME TypeOK, Tree(tables), NEW level \in Level,
         NEW t \in OfLevel(tables, level)
  PROVE  /\ t \in DOMAIN tables
         /\ tables[t] \in [Indices(level) -> Entry]
         /\ level # 1 => t # Root
<1>1. /\ Second(tables) \subseteq DOMAIN tables \ {Root}
      /\ Third(tables) \subseteq DOMAIN tables \ {Root}
  BY LevelsDiffer
<1>2. Root \in DOMAIN tables
  BY CountsAssumption DEF TypeOK, Root
<1>3. /\ tables[Root] \in [Indices(1) -> Entry]
      /\ \A u \in DOMAIN tables \ {Root} : /\ tables[u] \in [Indices(2) -> Entry]
                                          /\ tables[u] \in [Indices(3) -> Entry]
  BY Sizes DEF TypeOK
<1>4. CASE level = 1
  BY <1>2, <1>3, <1>4 DEF OfLevel
<1>5. CASE level = 2
  BY <1>1, <1>3, <1>5 DEF OfLevel
<1>6. CASE level = 3
  BY <1>1, <1>3, <1>6 DEF OfLevel
<1>7. QED BY <1>4, <1>5, <1>6, Sizes

(* What the first store makes of an entry: one that leads to no table.     *)
LEMMA MaskedEntry ==
  ASSUME NEW e \in Entry, NEW r \in Requests, NEW level \in Level
  PROVE  /\ Masked(e, r) \in Entry
         /\ ~IsTable(level, e) => ~IsTable(level, Masked(e, r))
<1> DEFINE u == Masked(e, r)
<1>1. /\ u.bits = IF "bits" \in BlockEntryMask(r) THEN e.bits ELSE 0
      /\ u.addr = 0
      /\ u.type = IF "type" \in BlockEntryMask(r) THEN e.type ELSE "Device"
      /\ u = [bits |-> u.bits, addr |-> u.addr, type |-> u.type, af |-> u.af,
              ro |-> u.ro, xn |-> u.xn]
  BY DEF Masked, TT_TYPE_INVALID
<1>2. u.af \in BOOLEAN /\ u.ro \in BOOLEAN /\ u.xn \in BOOLEAN
  BY DEF Masked, Entry
<1> HIDE DEF u
<1>3. e.bits \in {0, 1, 3} /\ e.type \in Types
  BY DEF Entry
<1>4. u \in Entry
  BY <1>1, <1>2, <1>3, TypesAssumption DEF Entry
<1>5. ~IsTable(level, e) => ~IsTable(level, u)
  BY <1>1, <1>3 DEF IsTable, TT_TYPE_TABLE_ENTRY
<1>6. QED BY <1>4, <1>5 DEF u

(* What the second store makes of it: a block.                             *)
LEMMA OredEntry ==
  ASSUME NEW e \in Entry, NEW r \in Requests, NEW p \in Nat, NEW level \in Level
  PROVE  /\ Ored(e, r, p, level) \in Entry
         /\ ~IsTable(level, e) => ~IsTable(level, Ored(e, r, p, level))
<1>1. r.type # "none" => r.type \in Types
  BY RequestsAssumption
<1>2. BlockType(level) \in {1, 3} /\ (level # 3 => BlockType(level) = 1)
  BY DEF BlockType, TT_TYPE_BLOCK_ENTRY, TT_TYPE_BLOCK_ENTRY_LEVEL3
<1> DEFINE u == Ored(e, r, p, level)
<1>3. /\ u.bits = IF e.bits > BlockType(level) THEN e.bits ELSE BlockType(level)
      /\ u.addr = p
      /\ u.type = IF r.type = "none" THEN e.type ELSE r.type
      /\ u = [bits |-> u.bits, addr |-> u.addr, type |-> u.type, af |-> u.af,
              ro |-> u.ro, xn |-> u.xn]
  BY DEF Ored
<1>4. u.af \in BOOLEAN /\ u.ro \in BOOLEAN /\ u.xn \in BOOLEAN
  BY DEF Ored
<1> HIDE DEF u
<1>5. e.bits \in {0, 1, 3} /\ e.type \in Types
  BY DEF Entry
<1>6. u.bits \in {0, 1, 3} /\ u.type \in Types /\ u.addr \in Nat
  BY <1>1, <1>2, <1>3, <1>5
<1>7. u \in Entry
  BY <1>3, <1>4, <1>6 DEF Entry
<1>8. ~IsTable(level, e) => ~IsTable(level, u)
  BY <1>2, <1>3, <1>5 DEF IsTable, TT_TYPE_TABLE_ENTRY
<1>9. QED BY <1>7, <1>8 DEF u

-----------------------------------------------------------------------------
\* What type correctness says of the variables other than the tables.
PathOK ==
  /\ mmu \in {"off", "on", "failed"}
  /\ freed \subseteq {Root}
  /\ (cached # NotCached =>
        cached \in [level : Level, page : Pages, entry : Entry])
  /\ request \in Requests
  /\ pc \in {"idle", "walk", "fill", "set", "update"}
  /\ RegionStart \in 0 .. PageCount
  /\ RegionLength \in 0 .. PageCount - RegionStart
  /\ IndexLevel \in Level
  /\ PageLevel \in Level
  /\ BlockEntry \in Indices(PageLevel)
  /\ status \in {"none", "EFI_SUCCESS", "EFI_OUT_OF_RESOURCES"}
  /\ calls \in 0 .. MaxCalls

TablesOK ==
  /\ DOMAIN tables \in {1 .. n : n \in 1 .. MaxTables}
  /\ tables[Root] \in [Indices(RootTableLevel) -> Entry]
  /\ \A t \in DOMAIN tables \ {Root} : tables[t] \in [Indices(3) -> Entry]

(* The type invariant by its parts.                                        *)
LEMMA TypeParts == TypeOK <=> TablesOK /\ PathOK /\ TranslationTable \in DOMAIN tables
BY DEF TypeOK, TablesOK, PathOK

(* The root is there from the start.                                       *)
LEMMA RootExists == TablesOK => Root \in DOMAIN tables
BY CountsAssumption DEF TablesOK, Root

(* The library's first call finds the empty root.                          *)
LEMMA InitEstablishes == Init => IInv
<1> SUFFICES ASSUME Init
             PROVE  IInv
  OBVIOUS
<1>1. TablesOK
  <2>1. DOMAIN tables = {1} /\ tables[Root] = ZeroTable(1)
    BY DEF Init, Root, RootTableLevel
  <2>2. {1} = 1 .. 1 /\ 1 \in 1 .. MaxTables
    BY CountsAssumption
  <2>3. ZeroEntry \in Entry
    BY TypesAssumption DEF ZeroEntry, Entry, TT_TYPE_INVALID
  <2>4. QED BY <2>1, <2>2, <2>3 DEF TablesOK, ZeroTable, Root, RootTableLevel
<1>2. PathOK
  BY Sizes, CountsAssumption DEF Init, PathOK
<1>3. TranslationTable \in DOMAIN tables
  BY DEF Init
<1>4. Tree(tables)
  <2>1. Linked(tables, Root, 1) = {}
    BY DEF Init, Linked, ZeroTable, ZeroEntry, IsTable, RootTableLevel,
           TT_TYPE_INVALID, TT_TYPE_TABLE_ENTRY
  <2>2. LinksOf(tables) = {}
    BY <2>1 DEF LinksOf, Second
  <2>3. DOMAIN tables = {Root}
    BY DEF Init
  <2>4. /\ IsFiniteSet({}) /\ Cardinality({}) = 0
        /\ Cardinality({Root}) = 1
    BY FS_EmptySet, FS_Singleton
  <2>5. QED BY <2>2, <2>3, <2>4 DEF Tree
<1>5. PathInv
  BY DEF Init, PathInv
<1>6. QED BY <1>1, <1>2, <1>3, <1>4, <1>5, TypeParts DEF IInv

(* A call, and the rest of one, begins with the root and a block that      *)
(* fits.                                                                   *)
LEMMA WalkStarts ==
  ASSUME NEW s \in Nat, NEW n \in Nat \ {0}, StartWalk(s, n), RegionLength' = n
  PROVE  /\ pc' = "walk"
         /\ IndexLevel' \in Level /\ PageLevel' \in Level
         /\ BlockEntry' \in Indices(PageLevel')
         /\ TranslationTable' = Root
         /\ PathInv'
<1>1. TargetLevel(s, n) \in Level /\ BlockEntrySize(TargetLevel(s, n)) <= n
  BY TargetFits
<1>2. /\ pc' = "walk" /\ IndexLevel' = 1 /\ PageLevel' = TargetLevel(s, n)
      /\ TranslationTable' = Root /\ BlockEntry' = 0
  BY Sizes DEF StartWalk
<1>3. 1 <= PageLevel'
  BY <1>1, <1>2, Sizes
<1>4. PathInv'
  BY <1>1, <1>2, <1>3 DEF PathInv, OfLevel
<1>5. QED BY <1>1, <1>2, <1>4, Sizes

(* A call begins.                                                          *)
LEMMA CallStep ==
  ASSUME IInv, NEW r \in Requests, NEW s \in Pages, NEW n \in 1 .. PageCount,
         UpdateRegionMapping(r, s, n)
  PROVE  IInv'
<1>1. /\ UNCHANGED <<tables, mmu, freed, cached, status>> /\ request' = r
      /\ RegionStart' = s /\ RegionLength' = n /\ s + n <= PageCount
      /\ calls < MaxCalls /\ calls' = calls + 1 /\ StartWalk(s, n)
  BY DEF UpdateRegionMapping
<1>2. PageCount \in Nat
  BY Sizes
<1>3. s \in Nat /\ n \in Nat \ {0}
  BY <1>2 DEF Pages
<1>4. /\ pc' = "walk" /\ IndexLevel' \in Level /\ PageLevel' \in Level
      /\ BlockEntry' \in Indices(PageLevel') /\ TranslationTable' = Root /\ PathInv'
  BY <1>1, <1>3, WalkStarts
<1>5. TablesOK' /\ Tree(tables')
  BY <1>1, TypeParts DEF IInv, TablesOK
<1>6. TranslationTable' \in DOMAIN tables'
  BY <1>4, <1>5, RootExists, <1>1, TypeParts DEF IInv
<1>7. /\ RegionStart' \in 0 .. PageCount
      /\ RegionLength' \in 0 .. PageCount - RegionStart'
  BY <1>1, <1>2, <1>3
<1>8. calls' \in 0 .. MaxCalls
  BY <1>1, TypeParts, CountsAssumption DEF IInv, PathOK
<1>9. PathOK'
  BY <1>1, <1>4, <1>7, <1>8, TypeParts DEF IInv, PathOK
<1>10. TypeOK'
  BY <1>5, <1>6, <1>9 DEF TypeOK, TablesOK, PathOK
<1>11. QED BY <1>4, <1>5, <1>10 DEF IInv

(* The walk goes on in a table of the next level.                          *)
LEMMA NextTableStep ==
  ASSUME IInv, GoToNextTable
  PROVE  IInv'
<1>1. TypeOK /\ Tree(tables) /\ PathInv /\ pc = "walk"
  BY DEF IInv, GoToNextTable
<1>2. /\ IndexLevel \in Level /\ PageLevel \in Level /\ IndexLevel <= PageLevel
      /\ TranslationTable \in OfLevel(tables, IndexLevel) /\ BlockEntry = 0
      /\ RegionStart \in Nat /\ BlockEntrySize(PageLevel) <= RegionLength
      /\ RegionLength \in Int
  BY <1>1, Sizes DEF TypeOK, PathInv
<1> DEFINE i == IndexAt(IndexLevel, RegionStart)
<1>3. i \in Indices(IndexLevel)
  BY <1>2, IndexInTable
<1>4. /\ IsTable(IndexLevel, tables[TranslationTable][i])
      /\ TranslationTable' = tables[TranslationTable][i].addr
      /\ IndexLevel' = IndexLevel + 1
      /\ PageLevel' = IF IndexLevel = PageLevel THEN PageLevel + 1 ELSE PageLevel
      /\ UNCHANGED <<tables, mmu, freed, cached, request, pc, regionVars, BlockEntry,
                     status, calls>>
  BY DEF GoToNextTable, WalkEntry
<1> HIDE DEF i
<1>5. IndexLevel \in {1, 2}
  BY <1>2, <1>4, Sizes DEF IsTable
<1>6. i \in Linked(tables, TranslationTable, IndexLevel)
  BY <1>3, <1>4 DEF Linked
<1>7. TranslationTable' \in OfLevel(tables, IndexLevel + 1)
  <2>1. CASE IndexLevel = 1
    <3>1. TranslationTable = Root
      BY <1>2, <2>1 DEF OfLevel
    <3>2. TranslationTable' \in Second(tables)
      BY <1>4, <1>6, <2>1, <3>1 DEF Second
    <3>3. OfLevel(tables, 2) = Second(tables) /\ IndexLevel + 1 = 2
      BY <2>1 DEF OfLevel
    <3>4. QED BY <3>2, <3>3
  <2>2. CASE IndexLevel = 2
    <3>1. TranslationTable \in Second(tables)
      BY <1>2, <2>2 DEF OfLevel
    <3> DEFINE E(t) == {tables[t][j].addr : j \in Linked(tables, t, 2)}
    <3>2. TranslationTable' \in E(TranslationTable)
      BY <1>4, <1>6, <2>2
    <3>3. Third(tables) = UNION {E(t) : t \in Second(tables)}
      BY Zenon DEF Third
    <3> HIDE DEF E
    <3>4. TranslationTable' \in Third(tables)
      BY <3>1, <3>2, <3>3
    <3>5. OfLevel(tables, 3) = Third(tables) /\ IndexLevel + 1 = 3
      BY <2>2 DEF OfLevel
    <3>6. QED BY <3>4, <3>5
  <2>3. QED BY <1>5, <2>1, <2>2
<1>8. /\ IndexLevel' \in Level /\ PageLevel' \in Level /\ IndexLevel' <= PageLevel'
      /\ BlockEntrySize(PageLevel') <= BlockEntrySize(PageLevel)
  BY <1>2, <1>4, <1>5, Sizes
<1>9. TranslationTable' \in DOMAIN tables'
  BY <1>1, <1>4, <1>7, <1>8, TableOfLevel
<1>10. BlockEntry' \in Indices(PageLevel')
  BY <1>2, <1>4, <1>8, Sizes
<1>11. PathOK' /\ TablesOK'
  BY <1>1, <1>4, <1>8, <1>10, TypeParts DEF PathOK, TablesOK, regionVars
<1>12. BlockEntrySize(PageLevel') <= RegionLength'
  <2>1. BlockEntrySize(PageLevel') \in Nat /\ BlockEntrySize(PageLevel) \in Nat
    BY <1>2, <1>8, Sizes
  <2>2. RegionLength' = RegionLength
    BY <1>4 DEF regionVars
  <2>3. QED BY <1>2, <1>8, <2>1, <2>2
<1>13. PathInv'
  BY <1>1, <1>2, <1>4, <1>7, <1>8, <1>12 DEF PathInv
<1>14. TypeOK'
  BY <1>9, <1>11 DEF TypeOK, TablesOK, PathOK
<1>15. QED BY <1>1, <1>4, <1>13, <1>14 DEF IInv

\* What AddTable stores in the place of the walk's entry.
Extended(content, new) ==
  [t \in DOMAIN tables \union {new} |->
     IF t = new THEN content
     ELSE IF t = TranslationTable
       THEN [tables[t] EXCEPT ![IndexAt(IndexLevel, RegionStart)] = TableEntry(new)]
     ELSE tables[t]]

(* The table is added in the place of the walk's entry, and to it only.     *)
LEMMA AddTableAdds ==
  ASSUME IInv, pc = "walk", IndexLevel # PageLevel,
         ~IsTable(IndexLevel, WalkEntry),
         NEW content,
         IndexLevel = 1 => \A j \in Indices(2) : ~IsTable(2, content[j]),
         AddTable(content)
  PROVE  /\ IndexLevel \in {1, 2} /\ IndexLevel' = IndexLevel + 1
         /\ Root \in DOMAIN tables /\ IsFiniteSet(DOMAIN tables)
         /\ TranslationTable' \in 1 .. MaxTables
         /\ DOMAIN tables' = 1 .. TranslationTable'
         /\ tables'[TranslationTable'] = content
         /\ tables'[TranslationTable] \in [Indices(IndexLevel) -> Entry]
         /\ \A s \in DOMAIN tables \ {TranslationTable} : tables'[s] = tables[s]
         /\ Adds(tables, tables', IndexLevel, TranslationTable,
                 IndexAt(IndexLevel, RegionStart), TranslationTable')
         /\ UNCHANGED <<mmu, freed, cached, request, pc, regionVars, PageLevel, BlockEntry,
                        status, calls>>
<1>1. TypeOK /\ Tree(tables) /\ PathInv /\ TablesOK /\ PathOK
  BY TypeParts DEF IInv
<1>2. /\ IndexLevel \in Level /\ PageLevel \in Level /\ IndexLevel <= PageLevel
      /\ TranslationTable \in OfLevel(tables, IndexLevel)
      /\ RegionStart \in Nat
  BY <1>1, Sizes DEF TypeOK, PathInv
<1>3. IndexLevel \in {1, 2}
  BY <1>2, Sizes
<1> DEFINE new == Cardinality(DOMAIN tables) + 1
           i   == IndexAt(IndexLevel, RegionStart)
           t   == TranslationTable
<1>4. /\ new <= MaxTables /\ tables' = Extended(content, new)
      /\ TranslationTable' = new /\ IndexLevel' = IndexLevel + 1
      /\ UNCHANGED <<mmu, freed, cached, request, pc, regionVars, PageLevel, BlockEntry,
                     status, calls>>
  BY Zenon DEF AddTable, Extended
<1>5. PICK n \in 1 .. MaxTables : DOMAIN tables = 1 .. n
  BY <1>1 DEF TablesOK
<1>6. /\ n \in Nat /\ n >= 1 /\ MaxTables \in Nat
      /\ IsFiniteSet(DOMAIN tables) /\ new = n + 1
  <2>1. n \in Nat /\ n >= 1 /\ MaxTables \in Nat
    BY CountsAssumption
  <2>2. /\ IsFiniteSet(1 .. n)
        /\ Cardinality(1 .. n) = IF 1 > n THEN 0 ELSE n - 1 + 1
    BY <2>1, FS_Interval
  <2>3. QED BY <1>5, <2>1, <2>2
<1> HIDE DEF new
<1>7. /\ new \notin DOMAIN tables /\ Root \in DOMAIN tables
      /\ 1 .. new = DOMAIN tables \union {new} /\ new \in 1 .. MaxTables
  BY <1>4, <1>5, <1>6 DEF Root
<1>8. /\ i \in Indices(IndexLevel) /\ t \in DOMAIN tables
      /\ tables[t] \in [Indices(IndexLevel) -> Entry]
  BY <1>1, <1>2, IndexInTable, TableOfLevel
<1> HIDE DEF i
<1>9. TableEntry(new) \in Entry
      /\ TableEntry(new).addr = new /\ IsTable(IndexLevel, TableEntry(new))
  <2>1. ZeroEntry \in Entry
    BY TypesAssumption DEF ZeroEntry, Entry, TT_TYPE_INVALID
  <2>2. new \in Nat
    BY <1>6
  <2>3. /\ TableEntry(new) \in Entry
        /\ TableEntry(new).addr = new /\ TableEntry(new).bits = 3
    <3>1. PICK e \in Entry : e = ZeroEntry
      BY <2>1
    <3> DEFINE u == [e EXCEPT !.bits = 3, !.addr = new]
    <3>2. u \in Entry /\ u.addr = new /\ u.bits = 3
      BY <2>2 DEF Entry
    <3>3. TableEntry(new) = u
      BY <3>1, Zenon DEF TableEntry, TT_TYPE_TABLE_ENTRY
    <3> HIDE DEF u
    <3>4. QED BY <3>2, <3>3
  <2>4. QED BY <1>3, <2>3 DEF IsTable, TT_TYPE_TABLE_ENTRY
<1>10. /\ DOMAIN tables' = DOMAIN tables \union {new}
       /\ tables'[new] = content
       /\ tables'[t] = [tables[t] EXCEPT ![i] = TableEntry(new)]
       /\ \A s \in DOMAIN tables \ {t} : tables'[s] = tables[s]
  BY <1>4, <1>7, <1>8 DEF Extended, i
<1>11. Adds(tables, tables', IndexLevel, t, i, new)
  <2>1. tables'[t][i] = TableEntry(new)
    BY <1>8, <1>10
  <2>2. \A j \in Indices(IndexLevel) \ {i} : tables'[t][j] = tables[t][j]
    BY <1>8, <1>10
  <2>3. ~IsTable(IndexLevel, tables[t][i])
    BY DEF WalkEntry, i
  <2>4. QED
    BY <1>2, <1>3, <1>7, <1>8, <1>9, <1>10, <2>1, <2>2, <2>3 DEF Adds
<1>12. tables'[t] \in [Indices(IndexLevel) -> Entry]
  BY <1>8, <1>9, <1>10
<1>13. QED BY <1>3, <1>4, <1>6, <1>7, <1>10, <1>11, <1>12 DEF i

(* A table with no links of its own takes the place of an entry that is    *)
(* not one.                                                                *)
LEMMA AddTableStep ==
  ASSUME IInv, pc = "walk", IndexLevel # PageLevel,
         ~IsTable(IndexLevel, WalkEntry),
         NEW content, content \in [Indices(IndexLevel + 1) -> Entry],
         IndexLevel = 1 => \A j \in Indices(2) : ~IsTable(2, content[j]),
         AddTable(content)
  PROVE  IInv'
<1> DEFINE new == TranslationTable'
           i   == IndexAt(IndexLevel, RegionStart)
           t   == TranslationTable
<1>1. /\ TypeOK /\ Tree(tables) /\ PathInv /\ TablesOK /\ PathOK
      /\ IndexLevel <= PageLevel /\ PageLevel \in Level /\ BlockEntry = 0
      /\ BlockEntrySize(PageLevel) <= RegionLength
      /\ t \in OfLevel(tables, IndexLevel)
  BY TypeParts DEF IInv, PathInv, PathOK
<1>2. /\ IndexLevel \in {1, 2} /\ IndexLevel' = IndexLevel + 1
      /\ Root \in DOMAIN tables /\ IsFiniteSet(DOMAIN tables)
      /\ new \in 1 .. MaxTables /\ DOMAIN tables' = 1 .. new
      /\ tables'[new] = content
      /\ tables'[t] \in [Indices(IndexLevel) -> Entry]
      /\ \A s \in DOMAIN tables \ {t} : tables'[s] = tables[s]
      /\ Adds(tables, tables', IndexLevel, t, i, new)
      /\ UNCHANGED <<mmu, freed, cached, request, pc, regionVars, PageLevel, BlockEntry,
                     status, calls>>
  BY AddTableAdds
<1>3. /\ IndexLevel \in Level /\ IndexLevel + 1 \in Level
      /\ IndexLevel + 1 <= PageLevel
  BY <1>1, <1>2, Sizes
<1>4. /\ t \in DOMAIN tables /\ (IndexLevel # 1 => t # Root)
      /\ (IndexLevel = 1 => t = Root)
  BY <1>1, <1>3, TableOfLevel DEF OfLevel
<1> HIDE DEF i, new
<1>5. Tree(tables')
  BY <1>1, <1>2, TreeGrows
<1>6. new \in OfLevel(tables', IndexLevel + 1)
  BY <1>1, <1>2, LinksAdded
<1>7. TablesOK'
  <2>1. DOMAIN tables' \in {1 .. m : m \in 1 .. MaxTables}
    BY <1>2
  <2>2. Indices(IndexLevel + 1) = Indices(3)
    <3>1. CASE IndexLevel = 1
      BY <3>1, Sizes
    <3>2. CASE IndexLevel = 2
      BY <3>2, Sizes
    <3>3. QED BY <1>2, <3>1, <3>2
  <2>3. tables'[new] \in [Indices(3) -> Entry]
    BY <1>2, <2>2
  <2>4. tables'[Root] \in [Indices(RootTableLevel) -> Entry]
    <3>1. CASE t = Root
      BY <1>2, <1>4, <3>1, Sizes
    <3>2. CASE t # Root
      BY <1>1, <1>2, <3>2 DEF TablesOK
    <3>3. QED BY <3>1, <3>2
  <2>5. ASSUME NEW s \in DOMAIN tables' \ {Root}
        PROVE  tables'[s] \in [Indices(3) -> Entry]
    <3>1. CASE s = new
      BY <2>3, <3>1
    <3>2. CASE s = t
      BY <1>2, <1>4, <2>5, <3>2, Sizes
    <3>3. CASE s # new /\ s # t
      <4>1. s \in DOMAIN tables
        BY <1>2, <2>5, <3>3 DEF Adds
      <4>2. QED BY <1>1, <1>2, <2>5, <3>3, <4>1 DEF TablesOK
    <3>4. QED BY <3>1, <3>2, <3>3
  <2>6. QED BY <2>1, <2>4, <2>5 DEF TablesOK
<1>8. PathOK'
  BY <1>1, <1>2, <1>3 DEF PathOK, regionVars
<1>9. PathInv'
  <2>1. RegionLength' = RegionLength
    BY <1>2 DEF regionVars
  <2>2. QED BY <1>1, <1>2, <1>3, <1>6, <2>1 DEF PathInv, new
<1>10. TypeOK'
  <2>1. TranslationTable' \in DOMAIN tables'
    BY <1>2, CountsAssumption DEF new
  <2>2. QED BY <1>7, <1>8, <2>1 DEF TypeOK, TablesOK, PathOK
<1>11. QED BY <1>5, <1>9, <1>10 DEF IInv

(* A block is split into a table of the smaller blocks it consists of.     *)
LEMMA SplitStep ==
  ASSUME IInv, SplitBlock
  PROVE  IInv'
<1> DEFINE content == SplitOf(WalkEntry, IndexLevel)
           i       == IndexAt(IndexLevel, RegionStart)
<1>1. TypeOK /\ Tree(tables) /\ PathInv /\ pc = "walk"
  BY DEF IInv, SplitBlock
<1>2. /\ IndexLevel \in Level /\ PageLevel \in Level /\ IndexLevel <= PageLevel
      /\ TranslationTable \in OfLevel(tables, IndexLevel) /\ RegionStart \in Nat
  BY <1>1, Sizes DEF TypeOK, PathInv
<1>3. /\ IndexLevel # PageLevel /\ WalkEntry.bits = 1 /\ AddTable(content)
  BY DEF SplitBlock, TT_TYPE_BLOCK_ENTRY
<1>4. IndexLevel \in {1, 2} /\ IndexLevel + 1 \in Level
  BY <1>2, <1>3, Sizes
<1>5. WalkEntry \in Entry
  <2>1. tables[TranslationTable] \in [Indices(IndexLevel) -> Entry]
    BY <1>1, <1>2, TableOfLevel
  <2>2. i \in Indices(IndexLevel)
    BY <1>2, IndexInTable
  <2>3. QED BY <2>1, <2>2 DEF WalkEntry
<1>6. ~IsTable(IndexLevel, WalkEntry)
  BY <1>3 DEF IsTable, TT_TYPE_TABLE_ENTRY
<1> DEFINE b  == BlockType(IndexLevel + 1)
           a0 == BlockEntryAddress(IndexLevel, RegionStart)
           sz == BlockEntrySize(IndexLevel + 1)
<1>7. b \in {1, 3} /\ (IndexLevel + 1 # 3 => b = 1)
  BY DEF BlockType, TT_TYPE_BLOCK_ENTRY, TT_TYPE_BLOCK_ENTRY_LEVEL3
<1>8. a0 \in Nat /\ sz \in Nat
  BY <1>2, <1>4, IndexInTable, Sizes
<1>9. \A j \in Indices(IndexLevel + 1) : a0 + j * sz \in Nat
  <2>1. \A j \in Indices(IndexLevel + 1) : j \in Nat
    BY <1>4, Sizes DEF Indices
  <2> HIDE DEF a0, sz
  <2>2. QED BY <1>8, <2>1
<1> DEFINE Smaller(j) == [WalkEntry EXCEPT !.bits = b, !.addr = a0 + j * sz]
<1>10. content = [j \in Indices(IndexLevel + 1) |-> Smaller(j)]
  BY Zenon DEF SplitOf
<1>11. \A j \in Indices(IndexLevel + 1) : Smaller(j) \in Entry /\ Smaller(j).bits = b
  <2> HIDE DEF a0, sz, b
  <2>1. ASSUME NEW e \in Entry, NEW a \in Nat
        PROVE  /\ [e EXCEPT !.bits = b, !.addr = a] \in Entry
               /\ [e EXCEPT !.bits = b, !.addr = a].bits = b
    BY <1>7 DEF Entry
  <2>2. QED BY <1>5, <1>9, <2>1, Zenon
<1> HIDE DEF content, Smaller, b
<1>12. content \in [Indices(IndexLevel + 1) -> Entry]
  BY <1>10, <1>11
<1>13. IndexLevel = 1 => \A j \in Indices(2) : ~IsTable(2, content[j])
  BY <1>7, <1>10, <1>11 DEF IsTable, TT_TYPE_TABLE_ENTRY
<1>14. QED BY <1>1, <1>3, <1>6, <1>12, <1>13, AddTableStep

(* A table of nothing takes the place of an entry that maps nothing.       *)
LEMMA NewTableStep ==
  ASSUME IInv, NewTable
  PROVE  IInv'
<1> DEFINE content == ZeroTable(IndexLevel + 1)
<1>1. pc = "walk" /\ IndexLevel # PageLevel /\ AddTable(content)
  BY DEF NewTable
<1>2. ~IsTable(IndexLevel, WalkEntry)
  BY DEF NewTable, IsTable, TT_TYPE_TABLE_ENTRY, TT_TYPE_INVALID
<1>3. ZeroEntry \in Entry /\ ~IsTable(2, ZeroEntry)
  BY TypesAssumption DEF ZeroEntry, Entry, IsTable, TT_TYPE_INVALID,
     TT_TYPE_TABLE_ENTRY
<1>4. content \in [Indices(IndexLevel + 1) -> Entry]
  BY <1>3 DEF ZeroTable
<1>5. IndexLevel = 1 => \A j \in Indices(2) : ~IsTable(2, content[j])
  BY <1>3 DEF ZeroTable
<1>6. QED BY <1>1, <1>2, <1>4, <1>5, AddTableStep

(* A store to an entry that leads to no table, before or after.            *)
LEMMA StoreKeepsTree ==
  ASSUME TypeOK, Tree(tables), NEW level \in Level,
         NEW t \in OfLevel(tables, level), NEW i \in Indices(level), NEW e \in Entry,
         ~IsTable(level, tables[t][i]), ~IsTable(level, e),
         tables' = [tables EXCEPT ![t][i] = e]
  PROVE  /\ TablesOK' /\ Tree(tables') /\ DOMAIN tables' = DOMAIN tables
         /\ \A k \in Level : OfLevel(tables', k) = OfLevel(tables, k)
<1>1. /\ t \in DOMAIN tables /\ tables[t] \in [Indices(level) -> Entry]
      /\ (level # 1 => t # Root)
  BY TableOfLevel
<1>2. /\ DOMAIN tables' = DOMAIN tables
      /\ tables'[t] = [tables[t] EXCEPT ![i] = e]
      /\ \A s \in DOMAIN tables \ {t} : tables'[s] = tables[s]
  BY <1>1
<1>3. tables'[t] \in [Indices(level) -> Entry]
  BY <1>1, <1>2
<1>4. tables'[t][i] = e /\ \A j \in Indices(level) \ {i} : tables'[t][j] = tables[t][j]
  BY <1>1, <1>2
<1>5. TablesOK'
  <2>1. level = 1 => t = Root
    BY DEF OfLevel
  <2>2. TablesOK
    BY TypeParts
  <2>3. tables'[Root] \in [Indices(RootTableLevel) -> Entry]
    <3>1. CASE t = Root
      BY <1>1, <1>3, <3>1, Sizes
    <3>2. CASE t # Root
      BY <1>2, <2>2, <3>2, RootExists DEF TablesOK
    <3>3. QED BY <3>1, <3>2
  <2>4. ASSUME NEW s \in DOMAIN tables' \ {Root}
        PROVE  tables'[s] \in [Indices(3) -> Entry]
    <3>1. CASE s = t
      <4>1. level \in {2, 3}
        BY <2>1, <2>4, <3>1, Sizes
      <4>2. Indices(level) = Indices(3)
        BY <4>1, Sizes
      <4>3. QED BY <1>3, <3>1, <4>2
    <3>2. CASE s # t
      BY <1>2, <2>2, <2>4, <3>2 DEF TablesOK
    <3>3. QED BY <3>1, <3>2
  <2>5. QED BY <1>2, <2>2, <2>3, <2>4 DEF TablesOK
<1>6. /\ Second(tables) \subseteq DOMAIN tables \ {Root}
      /\ Third(tables) \subseteq DOMAIN tables \ {Root}
      /\ Second(tables) \intersect Third(tables) = {}
  BY LevelsDiffer
<1>7. Root \in DOMAIN tables
  BY RootExists, TypeParts
<1>8. ASSUME NEW j \in Indices(1)
      PROVE  SameLink(1, tables[Root][j], tables'[Root][j])
  <2>1. CASE t = Root
    <3>1. level = 1
      BY <1>1, <2>1
    <3>2. QED BY <1>4, <2>1, <3>1 DEF SameLink
  <2>2. CASE t # Root
    BY <1>2, <1>7, <2>2 DEF SameLink
  <2>3. QED BY <2>1, <2>2
<1>9. ASSUME NEW s \in Second(tables), NEW j \in Indices(2)
      PROVE  SameLink(2, tables[s][j], tables'[s][j])
  <2>1. CASE s = t
    <3>1. level = 2
      BY <1>6, <2>1, Sizes DEF OfLevel
    <3>2. QED BY <1>4, <2>1, <3>1 DEF SameLink
  <2>2. CASE s # t
    BY <1>2, <1>6, <2>2 DEF SameLink
  <2>3. QED BY <2>1, <2>2
<1>10. /\ Second(tables') = Second(tables) /\ Third(tables') = Third(tables)
       /\ Tree(tables')
  <2>1. PICK U : U = tables'
    OBVIOUS
  <2>2. DOMAIN U = DOMAIN tables
    BY <1>2, <2>1
  <2>3. \A j \in Indices(1) : SameLink(1, tables[Root][j], U[Root][j])
    BY <1>8, <2>1, Zenon
  <2>4. \A s \in Second(tables) : \A j \in Indices(2) : SameLink(2, tables[s][j], U[s][j])
    BY <1>9, <2>1, Zenon
  <2>5. /\ Second(U) = Second(tables) /\ Third(U) = Third(tables)
        /\ Tree(U)
    BY <2>2, <2>3, <2>4, SameLinks, Zenon
  <2>6. QED BY <2>1, <2>5, Zenon
<1>11. \A k \in Level : OfLevel(tables', k) = OfLevel(tables, k)
  BY <1>10 DEF OfLevel
<1>12. QED BY <1>2, <1>5, <1>10, <1>11

(* The TLB forgets, or keeps what it had.                                  *)
LEMMA InvalidatedOK ==
  ASSUME PathOK, NEW p
  PROVE  Invalidate(cached, p) # NotCached =>
           Invalidate(cached, p) \in [level : Level, page : Pages, entry : Entry]
BY DEF Invalidate, PathOK

\* Where a call is that changes an entry.
FillPoint ==
  /\ TypeOK /\ Tree(tables) /\ PathInv /\ PathOK
  /\ PageLevel \in Level /\ IndexLevel = PageLevel
  /\ TranslationTable \in OfLevel(tables, PageLevel)
  /\ TranslationTable \in DOMAIN tables
  /\ tables[TranslationTable] \in [Indices(PageLevel) -> Entry]
  /\ BlockEntry \in Indices(PageLevel)
  /\ tables[TranslationTable][BlockEntry] \in Entry
  /\ ~IsTable(PageLevel, tables[TranslationTable][BlockEntry])
  /\ request \in Requests
  /\ RegionStart \in Nat

(* It is at an entry of a table of its level, which leads to no table.     *)
LEMMA AtFillPoint == IInv /\ pc \in {"fill", "set", "update"} => FillPoint
<1> SUFFICES ASSUME IInv, pc \in {"fill", "set", "update"}
             PROVE  FillPoint
  OBVIOUS
<1>1. TypeOK /\ Tree(tables) /\ PathInv /\ PathOK
  BY TypeParts DEF IInv
<1>2. /\ PageLevel \in Level /\ IndexLevel = PageLevel
      /\ TranslationTable \in OfLevel(tables, PageLevel)
      /\ BlockEntry \in Indices(PageLevel)
      /\ ~IsTable(PageLevel, tables[TranslationTable][BlockEntry])
      /\ request \in Requests
  BY <1>1 DEF PathInv, PathOK
<1>3. RegionStart \in Nat
  BY <1>1, Sizes DEF PathOK
<1>4. /\ TranslationTable \in DOMAIN tables
      /\ tables[TranslationTable] \in [Indices(PageLevel) -> Entry]
  BY <1>1, <1>2, TableOfLevel
<1>5. tables[TranslationTable][BlockEntry] \in Entry
  BY <1>2, <1>4
<1>6. QED BY <1>1, <1>2, <1>3, <1>4, <1>5 DEF FillPoint

(* A store to the entry the call has reached.                              *)
LEMMA StoreStep ==
  ASSUME IInv, pc \in {"fill", "set"}, NEW e \in Entry, ~IsTable(PageLevel, e),
         tables' = [tables EXCEPT ![TranslationTable][BlockEntry] = e],
         pc' \in {"set", "update"},
         UNCHANGED <<mmu, freed, cached, request, regionVars, walkVars, status, calls>>
  PROVE  IInv'
<1>1. FillPoint
  BY AtFillPoint
<1>2. /\ TablesOK' /\ Tree(tables') /\ DOMAIN tables' = DOMAIN tables
      /\ \A k \in Level : OfLevel(tables', k) = OfLevel(tables, k)
  BY <1>1, StoreKeepsTree DEF FillPoint
<1>3. tables'[TranslationTable][BlockEntry] = e
  BY <1>1 DEF FillPoint
<1>4. PathOK' /\ TranslationTable' \in DOMAIN tables'
  BY <1>1, <1>2 DEF FillPoint, PathOK, regionVars, walkVars
<1>5. PathInv'
  BY <1>1, <1>2, <1>3 DEF FillPoint, PathInv, regionVars, walkVars
<1>6. TypeOK'
  BY <1>2, <1>4 DEF TypeOK, TablesOK, PathOK
<1>7. QED BY <1>2, <1>5, <1>6 DEF IInv

(* The entry is masked.                                                    *)
LEMMA MaskStep ==
  ASSUME IInv, MaskEntry
  PROVE  IInv'
<1> DEFINE e == Masked(tables[TranslationTable][BlockEntry], request)
<1>1. FillPoint
  BY AtFillPoint DEF MaskEntry
<1>2. e \in Entry /\ ~IsTable(PageLevel, e)
  BY <1>1, MaskedEntry DEF FillPoint
<1>3. /\ pc = "fill" /\ pc' = "set"
      /\ tables' = [tables EXCEPT ![TranslationTable][BlockEntry] = e]
      /\ UNCHANGED <<mmu, freed, cached, request, regionVars, walkVars, status, calls>>
  BY DEF MaskEntry
<1> HIDE DEF e
<1>4. QED BY <1>2, <1>3, StoreStep

(* The entry is set.                                                       *)
LEMMA SetStep ==
  ASSUME IInv, SetEntry
  PROVE  IInv'
<1> DEFINE e == Ored(tables[TranslationTable][BlockEntry], request, RegionStart,
                     PageLevel)
<1>1. FillPoint
  BY AtFillPoint DEF SetEntry
<1>2. e \in Entry /\ ~IsTable(PageLevel, e)
  BY <1>1, OredEntry DEF FillPoint
<1>3. /\ pc = "set" /\ pc' = "update"
      /\ tables' = [tables EXCEPT ![TranslationTable][BlockEntry] = e]
      /\ UNCHANGED <<mmu, freed, cached, request, regionVars, walkVars, status, calls>>
  BY DEF SetEntry, Settled
<1> HIDE DEF e
<1>4. QED BY <1>2, <1>3, StoreStep

(* The entry's change ends, and the call goes on behind it or is done.     *)
LEMMA UpdateStep ==
  ASSUME IInv, UpdateEntry
  PROVE  IInv'
<1> DEFINE size == BlockEntrySize(PageLevel)
           left == RegionLength - size
           next == BlockEntry + 1
<1>1. TypeOK /\ Tree(tables) /\ PathInv /\ PathOK /\ TablesOK /\ pc = "update"
  BY TypeParts DEF IInv, UpdateEntry
<1>2. /\ PageLevel \in Level /\ IndexLevel = PageLevel
      /\ TranslationTable \in OfLevel(tables, PageLevel)
      /\ BlockEntry \in Indices(PageLevel)
  BY <1>1 DEF PathInv, PathOK
<1>3. /\ RegionStart \in Nat /\ RegionLength \in Nat /\ size \in Nat \ {0}
      /\ size <= RegionLength /\ RegionStart + RegionLength <= PageCount
      /\ PageCount \in Nat
  <2>1. PageCount \in Nat /\ size \in Nat \ {0}
    BY <1>2, Sizes
  <2>2. size <= RegionLength
    BY <1>1 DEF PathInv
  <2>3. RegionStart \in 0 .. PageCount /\ RegionLength \in 0 .. PageCount - RegionStart
    BY <1>1 DEF PathOK
  <2> HIDE DEF size
  <2>4. QED BY <2>1, <2>2, <2>3
<1>4. /\ cached' = Invalidate(cached, RegionStart)
      /\ RegionStart' = RegionStart + size /\ RegionLength' = left
      /\ UNCHANGED <<tables, mmu, freed, request, calls>>
  BY DEF UpdateEntry
<1>5. \/ left = 0 /\ Returns("EFI_SUCCESS")
      \/ /\ left # 0 /\ UNCHANGED status
         /\ left >= size /\ next <= LastBlockEntry /\ ~NextIsTable(next)
         /\ BlockEntry' = next /\ pc' = "fill"
         /\ UNCHANGED <<IndexLevel, PageLevel, TranslationTable>>
      \/ left # 0 /\ UNCHANGED status /\ StartWalk(RegionStart + size, left)
  BY Zenon DEF UpdateEntry
<1>7. TablesOK' /\ Tree(tables')
  BY <1>1, <1>4 DEF TablesOK
<1>8. Root \in DOMAIN tables /\ TranslationTable \in DOMAIN tables
  BY <1>1, RootExists, TypeParts
<1>9. /\ RegionStart' \in 0 .. PageCount
      /\ RegionLength' \in 0 .. PageCount - RegionStart'
      /\ left \in Nat /\ RegionStart + size \in Nat
  <2> HIDE DEF size
  <2>1. QED BY <1>3, <1>4
<1>10. cached' # NotCached => cached' \in [level : Level, page : Pages, entry : Entry]
  BY <1>1, <1>4, InvalidatedOK
<1>11. ASSUME /\ pc' \in {"idle", "walk", "fill"}
              /\ IndexLevel' \in Level /\ PageLevel' \in Level
              /\ BlockEntry' \in Indices(PageLevel')
              /\ status' \in {"none", "EFI_SUCCESS", "EFI_OUT_OF_RESOURCES"}
              /\ TranslationTable' \in DOMAIN tables /\ PathInv'
       PROVE  IInv'
  <2>1. PathOK'
    BY <1>1, <1>4, <1>9, <1>10, <1>11 DEF PathOK
  <2>2. TypeOK'
    BY <1>4, <1>7, <1>11, <2>1 DEF TypeOK, TablesOK, PathOK
  <2>3. QED BY <1>7, <1>11, <2>2 DEF IInv
<1>12. CASE left = 0 /\ Returns("EFI_SUCCESS")
  <2>1. /\ pc' = "idle" /\ status' = "EFI_SUCCESS" /\ IndexLevel' = 1
        /\ PageLevel' = 1 /\ TranslationTable' = Root /\ BlockEntry' = 0
    BY <1>12, Sizes DEF Returns
  <2>2. PathInv'
    BY <2>1 DEF PathInv
  <2>3. QED BY <1>8, <1>11, <2>1, <2>2, Sizes
<1>13. CASE /\ left # 0 /\ UNCHANGED status
            /\ left >= size /\ next <= LastBlockEntry /\ ~NextIsTable(next)
            /\ BlockEntry' = next /\ pc' = "fill"
            /\ UNCHANGED <<IndexLevel, PageLevel, TranslationTable>>
  <2>1. next \in Indices(PageLevel)
    <3>1. EntryCount(PageLevel) \in Nat /\ BlockEntry \in 0 .. EntryCount(PageLevel) - 1
      BY <1>2, Sizes DEF Indices
    <3>2. next <= EntryCount(PageLevel) - 1
      BY <1>13 DEF LastBlockEntry
    <3>3. next \in 0 .. EntryCount(PageLevel) - 1
      BY <3>1, <3>2
    <3>4. QED BY <3>3 DEF Indices
  <2>2. ~IsTable(PageLevel, tables[TranslationTable][next])
    BY <1>13 DEF NextIsTable
  <2>3. PathInv'
    BY <1>1, <1>2, <1>4, <1>13, <2>2 DEF PathInv
  <2>4. /\ status' \in {"none", "EFI_SUCCESS", "EFI_OUT_OF_RESOURCES"}
        /\ IndexLevel' \in Level /\ PageLevel' \in Level
        /\ BlockEntry' \in Indices(PageLevel') /\ pc' = "fill"
        /\ TranslationTable' \in DOMAIN tables
    BY <1>1, <1>2, <1>8, <1>13, <2>1 DEF PathOK
  <2>5. QED BY <1>11, <2>3, <2>4
<1>14. CASE left # 0 /\ UNCHANGED status /\ StartWalk(RegionStart + size, left)
  <2>1. left \in Nat \ {0} /\ RegionLength' = left
    BY <1>4, <1>9, <1>14
  <2> HIDE DEF left, size
  <2>2. /\ pc' = "walk" /\ IndexLevel' \in Level /\ PageLevel' \in Level
        /\ BlockEntry' \in Indices(PageLevel') /\ TranslationTable' = Root
        /\ PathInv'
    BY <1>9, <1>14, <2>1, WalkStarts
  <2>3. status' \in {"none", "EFI_SUCCESS", "EFI_OUT_OF_RESOURCES"}
    BY <1>1, <1>14 DEF PathOK
  <2>4. QED BY <1>8, <1>11, <2>2, <2>3
<1>15. QED BY <1>5, <1>12, <1>13, <1>14

(* The pages for tables have run out, and the call gives up.               *)
LEMMA OutOfPagesStep ==
  ASSUME IInv, AllocatePagesFails
  PROVE  IInv'
<1>1. /\ pc' = "idle" /\ status' = "EFI_OUT_OF_RESOURCES" /\ IndexLevel' = 1
      /\ PageLevel' = 1 /\ TranslationTable' = Root /\ BlockEntry' = 0
      /\ mmu' \in {mmu, "failed"} /\ freed' \in {freed, {Root}}
      /\ UNCHANGED <<tables, cached, request, regionVars, calls>>
  BY Sizes DEF AllocatePagesFails, Returns, FREE_TRANSLATION_TABLE
<1>2. TablesOK' /\ Tree(tables')
  BY <1>1, TypeParts DEF IInv, TablesOK
<1>3. PathOK'
  BY <1>1, TypeParts, Sizes DEF IInv, PathOK, regionVars
<1>4. TranslationTable' \in DOMAIN tables'
  BY <1>1, RootExists, TypeParts DEF IInv
<1>5. PathInv'
  BY <1>1 DEF PathInv
<1>6. TypeOK'
  BY <1>2, <1>3, <1>4 DEF TypeOK, TablesOK, PathOK
<1>7. QED BY <1>2, <1>5, <1>6 DEF IInv

(* The walk has reached the block it looked for.                           *)
LEMMA FoundStep ==
  ASSUME IInv, FoundEntry
  PROVE  IInv'
<1>1. TablesOK /\ PathOK /\ Tree(tables) /\ PathInv /\ pc = "walk"
      /\ TranslationTable \in DOMAIN tables
  BY TypeParts DEF IInv, FoundEntry
<1> DEFINE i == IndexAt(IndexLevel, RegionStart)
<1>2. /\ pc' = "fill" /\ BlockEntry' = i /\ IndexLevel = PageLevel
      /\ ~IsTable(IndexLevel, tables[TranslationTable][i])
      /\ UNCHANGED <<tables, mmu, freed, cached, request, regionVars, IndexLevel,
                     PageLevel, TranslationTable, status, calls>>
  BY DEF FoundEntry, WalkEntry
<1>3. i \in Indices(PageLevel)
  <2>1. RegionStart \in Nat /\ IndexLevel \in Level
    BY <1>1, Sizes DEF PathOK
  <2>2. QED BY <1>2, <2>1, IndexInTable
<1> HIDE DEF i
<1>4. TablesOK' /\ Tree(tables') /\ TranslationTable' \in DOMAIN tables'
  BY <1>1, <1>2 DEF TablesOK
<1>5. PathOK'
  BY <1>1, <1>2, <1>3 DEF PathOK, regionVars
<1>6. PathInv'
  BY <1>1, <1>2 DEF PathInv, regionVars
<1>7. TypeOK'
  BY <1>4, <1>5 DEF TypeOK, TablesOK, PathOK
<1>8. QED BY <1>4, <1>6, <1>7 DEF IInv

(* What the processor's table walk ends at.                                *)
LEMMA LeafIsEntry ==
  ASSUME IInv, NEW p \in Pages
  PROVE  Leaf(p).level \in Level /\ Leaf(p).entry \in Entry
<1> DEFINE at(level, t) == [level |-> level, entry |-> tables[t][IndexAt(level, p)]]
           l1 == at(1, Root)
           l2 == at(2, l1.entry.addr)
           l3 == at(3, l2.entry.addr)
<1>1. TypeOK /\ Tree(tables) /\ p \in Nat
  BY Sizes DEF IInv, Pages
<1>2. ASSUME NEW level \in Level, NEW t \in OfLevel(tables, level)
      PROVE  /\ tables[t][IndexAt(level, p)] \in Entry
             /\ IsTable(level, tables[t][IndexAt(level, p)]) =>
                  IndexAt(level, p) \in Linked(tables, t, level)
  <2>1. IndexAt(level, p) \in Indices(level)
    BY <1>1, IndexInTable
  <2>2. tables[t] \in [Indices(level) -> Entry]
    BY <1>1, TableOfLevel
  <2>3. QED BY <2>1, <2>2 DEF Linked
<1>3. Root \in OfLevel(tables, 1)
  BY DEF OfLevel
<1>4. l1.entry \in Entry /\ l1.level \in Level
  BY <1>2, <1>3, Sizes
<1>5. IsTable(1, l1.entry) => l1.entry.addr \in OfLevel(tables, 2)
  BY <1>2, <1>3, Sizes DEF OfLevel, Second
<1>6. IsTable(1, l1.entry) => l2.entry \in Entry /\ l2.level \in Level
  BY <1>2, <1>5, Sizes
<1>7. IsTable(1, l1.entry) /\ IsTable(2, l2.entry) =>
        l2.entry.addr \in OfLevel(tables, 3)
  BY <1>2, <1>5, Sizes DEF OfLevel, Third
<1>8. IsTable(1, l1.entry) /\ IsTable(2, l2.entry) =>
        l3.entry \in Entry /\ l3.level \in Level
  BY <1>2, <1>7, Sizes
<1>9. Leaf(p) \in {l1, l2, l3} /\ (Leaf(p) = l1 \/ IsTable(1, l1.entry))
        /\ (Leaf(p) \in {l1, l2} \/ IsTable(2, l2.entry))
  BY Zenon DEF Leaf, LeafIn
<1> HIDE DEF l1, l2, l3
<1>10. QED BY <1>4, <1>6, <1>8, <1>9

(* The processor caches a translation.                                     *)
LEMMA CacheStep ==
  ASSUME IInv, NEW p \in Pages, CpuCaches(p)
  PROVE  IInv'
<1>1. /\ cached' = [level |-> Leaf(p).level,
                    page  |-> BlockEntryAddress(Leaf(p).level, p),
                    entry |-> Leaf(p).entry]
      /\ UNCHANGED <<tables, mmu, freed, request, pc, regionVars, walkVars, status, calls>>
  BY DEF CpuCaches
<1>2. Leaf(p).level \in Level /\ Leaf(p).entry \in Entry
  BY LeafIsEntry
<1>3. PageCount \in Nat /\ p \in Nat /\ p <= PageCount - 1
  BY Sizes DEF Pages
<1>4. BlockEntryAddress(Leaf(p).level, p) \in Pages
  <2>1. BlockEntryAddress(Leaf(p).level, p) \in 0 .. p
    BY <1>2, <1>3, IndexInTable
  <2>2. QED BY <1>3, <2>1 DEF Pages
<1>5. cached' \in [level : Level, page : Pages, entry : Entry]
  BY <1>1, <1>2, <1>4
<1>6. PathOK' /\ TablesOK' /\ Tree(tables') /\ TranslationTable' \in DOMAIN tables'
  BY <1>1, <1>5, TypeParts DEF IInv, PathOK, TablesOK, regionVars, walkVars
<1>7. PathInv'
  BY <1>1 DEF IInv, PathInv, regionVars, walkVars
<1>8. TypeOK'
  BY <1>6 DEF TypeOK, TablesOK, PathOK
<1>9. QED BY <1>6, <1>7, <1>8 DEF IInv

(* The MMU is switched on.                                                 *)
LEMMA EnableStep ==
  ASSUME IInv, ArmEnableMmu
  PROVE  IInv'
<1>1. /\ mmu' = "on"
      /\ UNCHANGED <<tables, freed, cached, request, pc, regionVars, walkVars, status,
                     calls>>
  BY DEF ArmEnableMmu
<1>2. PathOK' /\ TablesOK' /\ Tree(tables') /\ TranslationTable' \in DOMAIN tables'
  BY <1>1, TypeParts DEF IInv, PathOK, TablesOK, regionVars, walkVars
<1>3. PathInv'
  BY <1>1 DEF IInv, PathInv, regionVars, walkVars
<1>4. TypeOK'
  BY <1>2 DEF TypeOK, TablesOK, PathOK
<1>5. QED BY <1>2, <1>3, <1>4 DEF IInv

(* Nothing happens.                                                        *)
LEMMA StutterStep ==
  ASSUME IInv, UNCHANGED vars
  PROVE  IInv'
<1>1. PathOK' /\ TablesOK' /\ Tree(tables') /\ TranslationTable' \in DOMAIN tables'
  BY TypeParts DEF IInv, PathOK, TablesOK, vars, regionVars, walkVars
<1>2. PathInv'
  BY DEF IInv, PathInv, vars, regionVars, walkVars
<1>3. TypeOK'
  BY <1>1 DEF TypeOK, TablesOK, PathOK
<1>4. QED BY <1>1, <1>2, <1>3 DEF IInv

(* Every step keeps the tables a tree and the call in it.                  *)
LEMMA InvInductive == IInv /\ [Next]_vars => IInv'
<1> SUFFICES ASSUME IInv, [Next]_vars
             PROVE  IInv'
  OBVIOUS
<1>1. CASE \E r \in Requests, s \in Pages, n \in 1 .. PageCount :
             UpdateRegionMapping(r, s, n)
  BY <1>1, CallStep
<1>2. CASE GoToNextTable
  BY <1>2, NextTableStep
<1>3. CASE SplitBlock
  BY <1>3, SplitStep
<1>4. CASE NewTable
  BY <1>4, NewTableStep
<1>5. CASE AllocatePagesFails
  BY <1>5, OutOfPagesStep
<1>6. CASE FoundEntry
  BY <1>6, FoundStep
<1>7. CASE MaskEntry
  BY <1>7, MaskStep
<1>8. CASE SetEntry
  BY <1>8, SetStep
<1>9. CASE UpdateEntry
  BY <1>9, UpdateStep
<1>10. CASE ArmEnableMmu
  BY <1>10, EnableStep
<1>11. CASE \E p \in Pages : CpuCaches(p)
  BY <1>11, CacheStep
<1>12. CASE UNCHANGED vars
  BY <1>12, StutterStep
<1>13. QED
  BY <1>1, <1>2, <1>3, <1>4, <1>5, <1>6, <1>7, <1>8, <1>9, <1>10, <1>11, <1>12
  DEF Next, Walk, Fill

(* The tree and the call's path are right in every behaviour.              *)
LEMMA InvHolds == Spec => []IInv
BY InitEstablishes, InvInductive, PTL DEF Spec

(* Every table a call reaches is one of the pages it has allocated, every  *)
(* index is one of its table, and the region left to change stays inside   *)
(* the address space, for tables of any size.                              *)
THEOREM TypeCorrect == Spec => []TypeOK
<1>1. IInv => TypeOK
  BY DEF IInv
<1>2. QED BY <1>1, InvHolds, PTL

(* No table is lost or used twice: every table but the root is the target  *)
(* of one entry and of one only, whatever regions are changed in whatever  *)
(* order, also by a call that runs out of pages for tables half way, until *)
(* ArmConfigureMmu itself fails and gives back the root, and only the root.*)
THEOREM TablesAreLinkedOnce == Spec => []EveryTableIsLinkedOnce
<1>1. IInv => EveryTableIsLinkedOnce
  BY TreeIsLinkedOnce DEF IInv
<1>2. QED BY <1>1, InvHolds, PTL

-----------------------------------------------------------------------------
(* The processor's way to a page.                                          *)
\* The processor's way to a page through the tables T: the table of each
\* level, its entry, and whether the walk gets there.
TableAt(T, level, p) ==
  IF level = 1 THEN Root
  ELSE IF level = 2 THEN T[Root][IndexAt(1, p)].addr
  ELSE T[T[Root][IndexAt(1, p)].addr][IndexAt(2, p)].addr

EntryAt(T, level, p) == T[TableAt(T, level, p)][IndexAt(level, p)]

Reaches(T, level, p) ==
  \A k \in Level : k < level => IsTable(k, EntryAt(T, k, p))

EndsAt(T, level, p) == Reaches(T, level, p) /\ ~IsTable(level, EntryAt(T, level, p))

(* The way of a page, level by level.                                      *)
LEMMA Path ==
  ASSUME NEW T, NEW p
  PROVE  /\ TableAt(T, 1, p) = Root
         /\ TableAt(T, 2, p) = EntryAt(T, 1, p).addr
         /\ TableAt(T, 3, p) = EntryAt(T, 2, p).addr
         /\ Reaches(T, 1, p)
         /\ Reaches(T, 2, p) <=> IsTable(1, EntryAt(T, 1, p))
         /\ Reaches(T, 3, p) <=> IsTable(1, EntryAt(T, 1, p)) /\ IsTable(2, EntryAt(T, 2, p))
<1>1. Level = {1, 2, 3}
  BY Sizes
<1>2. /\ TableAt(T, 1, p) = Root
      /\ TableAt(T, 2, p) = EntryAt(T, 1, p).addr
      /\ TableAt(T, 3, p) = EntryAt(T, 2, p).addr
  BY DEF TableAt, EntryAt
<1>3. QED BY <1>1, <1>2 DEF Reaches

(* The walk ends at one level, with the entry it finds there.              *)
LEMMA LeafAt ==
  ASSUME NEW T, NEW p, NEW level \in Level, EndsAt(T, level, p)
  PROVE  LeafIn(T, p) = [level |-> level, entry |-> EntryAt(T, level, p)]
<1>1. Level = {1, 2, 3}
  BY Sizes
<1> DEFINE at(l, t) == [level |-> l, entry |-> T[t][IndexAt(l, p)]]
           l1 == at(1, Root)
           l2 == at(2, l1.entry.addr)
           l3 == at(3, l2.entry.addr)
           is(l) == [level |-> l, entry |-> EntryAt(T, l, p)]
<1>2. l1 = is(1) /\ l2 = is(2) /\ l3 = is(3)
  BY Path DEF EntryAt
<1>3. LeafIn(T, p) = IF ~IsTable(1, l1.entry) THEN l1
                     ELSE IF ~IsTable(2, l2.entry) THEN l2 ELSE l3
  BY Zenon DEF LeafIn
<1>4. \A l \in Level : is(l).entry = EntryAt(T, l, p)
  OBVIOUS
<1> HIDE DEF l1, l2, l3, is
<1>5. LeafIn(T, p) = IF ~IsTable(1, EntryAt(T, 1, p)) THEN is(1)
                     ELSE IF ~IsTable(2, EntryAt(T, 2, p)) THEN is(2) ELSE is(3)
  BY <1>1, <1>2, <1>3, <1>4
<1>6. ~IsTable(3, EntryAt(T, 3, p))
  BY DEF IsTable
<1>7. LeafIn(T, p) = is(level)
  BY <1>1, <1>5, Path DEF EndsAt
<1>8. QED BY <1>7 DEF is

(* Every page has an entry its translation ends at.                        *)
LEMMA LeafExists ==
  ASSUME NEW T, NEW p
  PROVE  \E level \in Level : EndsAt(T, level, p)
<1>1. ~IsTable(3, EntryAt(T, 3, p)) /\ 1 \in Level /\ 2 \in Level /\ 3 \in Level
  BY Sizes DEF IsTable
<1>2. QED BY <1>1, Path DEF EndsAt

\* The pages agree on the way to the tables of this level.
SamePath(level, p, q) ==
  \A k \in Level : k < level => IndexAt(k, p) = IndexAt(k, q)

(* Two pages are in one block where their indices agree down to its level. *)
LEMMA BlockOnPath ==
  ASSUME NEW level \in Level, NEW p, NEW q
  PROVE  /\ SameBlock(level, p, q) <=>
              SamePath(level, p, q) /\ IndexAt(level, p) = IndexAt(level, q)
         /\ SameBlock(level, p, q) <=> SameBlock(level, q, p)
         /\ \A k \in Level : k <= level /\ SameBlock(level, p, q) => SameBlock(k, p, q)
BY Sizes DEF SameBlock, SamePath

(* The table the walk of a page gets to is one of its level.               *)
LEMMA PathInTree ==
  ASSUME NEW T, NEW level \in Level, NEW p \in Pages, Reaches(T, level, p)
  PROVE  TableAt(T, level, p) \in OfLevel(T, level)
<1>1. Level = {1, 2, 3} /\ p \in Nat
  BY Sizes DEF Pages
<1>2. \A k \in Level : IndexAt(k, p) \in Indices(k)
  BY <1>1, IndexInTable
<1>3. CASE level = 1
  BY <1>3, Path DEF OfLevel
<1>4. ASSUME IsTable(1, EntryAt(T, 1, p))
      PROVE  TableAt(T, 2, p) \in Second(T)
  <2>1. IndexAt(1, p) \in Linked(T, Root, 1)
    BY <1>1, <1>2, <1>4, Path DEF EntryAt, Linked
  <2>2. TableAt(T, 2, p) = T[Root][IndexAt(1, p)].addr
    BY Path DEF EntryAt
  <2>3. QED BY <2>1, <2>2 DEF Second
<1>5. CASE level = 2
  BY <1>4, <1>5, Path DEF OfLevel
<1>6. CASE level = 3
  <2> DEFINE E(t) == {T[t][j].addr : j \in Linked(T, t, 2)}
             t == TableAt(T, 2, p)
  <2>1. t \in Second(T) /\ IsTable(2, EntryAt(T, 2, p))
    BY <1>4, <1>6, Path
  <2>2. IndexAt(2, p) \in Linked(T, t, 2)
    BY <1>1, <1>2, <2>1 DEF EntryAt, Linked
  <2>3. TableAt(T, 3, p) = T[t][IndexAt(2, p)].addr
    BY Path DEF EntryAt
  <2>4. TableAt(T, 3, p) \in E(t)
    BY <2>2, <2>3
  <2>5. Third(T) = UNION {E(u) : u \in Second(T)}
    BY Zenon DEF Third
  <2> HIDE DEF E, t
  <2>6. TableAt(T, 3, p) \in Third(T)
    BY <2>1, <2>4, <2>5
  <2>7. OfLevel(T, 3) = Third(T)
    BY DEF OfLevel
  <2>8. QED BY <1>6, <2>6, <2>7
<1>7. QED BY <1>1, <1>3, <1>5, <1>6

(* Pages of one path have their tables in common ...                       *)
LEMMA PathShared ==
  ASSUME NEW T, NEW level \in Level, NEW p, NEW q, SamePath(level, p, q)
  PROVE  /\ TableAt(T, level, p) = TableAt(T, level, q)
         /\ Reaches(T, level, p) <=> Reaches(T, level, q)
<1>1. Level = {1, 2, 3}
  BY Sizes
<1>2. CASE level = 1
  BY <1>2, Path
<1>3. CASE level = 2
  <2>1. EntryAt(T, 1, p) = EntryAt(T, 1, q)
    BY <1>1, <1>3, Path DEF EntryAt, SamePath
  <2>2. QED BY <1>3, <2>1, Path
<1>4. CASE level = 3
  <2>1. EntryAt(T, 1, p) = EntryAt(T, 1, q)
    BY <1>1, <1>4, Path DEF EntryAt, SamePath
  <2>2. EntryAt(T, 2, p) = EntryAt(T, 2, q)
    BY <1>1, <1>4, <2>1, Path DEF EntryAt, SamePath
  <2>3. QED BY <1>4, <2>1, <2>2, Path
<1>5. QED BY <1>1, <1>2, <1>3, <1>4

(* ... and in a tree no others do.                                         *)
LEMMA PathUnique ==
  ASSUME NEW T, Tree(T), NEW level \in Level, NEW p \in Pages, NEW q \in Pages,
         Reaches(T, level, p), Reaches(T, level, q),
         TableAt(T, level, p) = TableAt(T, level, q)
  PROVE  SamePath(level, p, q)
<1>1. Level = {1, 2, 3} /\ p \in Nat /\ q \in Nat
  BY Sizes DEF Pages
<1>2. ASSUME NEW k \in {1, 2}, NEW r \in Pages, Reaches(T, k + 1, r)
      PROVE  /\ <<TableAt(T, k, r), IndexAt(k, r)>> \in LinksOf(T)
             /\ Target(T, <<TableAt(T, k, r), IndexAt(k, r)>>) = TableAt(T, k + 1, r)
  <2>1. Reaches(T, k, r) /\ k \in Level /\ IsTable(k, EntryAt(T, k, r))
    BY <1>1, <1>2 DEF Reaches
  <2>2. TableAt(T, k, r) \in OfLevel(T, k)
    BY <2>1, PathInTree
  <2>3. IndexAt(k, r) \in Linked(T, TableAt(T, k, r), k)
    <3>1. r \in Nat
      BY Sizes DEF Pages
    <3>2. QED BY <2>1, <3>1, IndexInTable DEF Linked, EntryAt
  <2>4. <<TableAt(T, k, r), IndexAt(k, r)>> \in LinksOf(T)
    BY <2>2, <2>3, LinkCases
  <2>5. TableAt(T, k + 1, r) = EntryAt(T, k, r).addr
    BY <1>2, Path
  <2>6. QED BY <2>4, <2>5 DEF Target, EntryAt
<1>3. ASSUME NEW k \in {1, 2}, Reaches(T, k + 1, p), Reaches(T, k + 1, q),
             TableAt(T, k + 1, p) = TableAt(T, k + 1, q)
      PROVE  /\ TableAt(T, k, p) = TableAt(T, k, q) /\ IndexAt(k, p) = IndexAt(k, q)
             /\ Reaches(T, k, p) /\ Reaches(T, k, q)
  <2> DEFINE l == <<TableAt(T, k, p), IndexAt(k, p)>>
             m == <<TableAt(T, k, q), IndexAt(k, q)>>
  <2>1. /\ l \in LinksOf(T) /\ m \in LinksOf(T) /\ Target(T, l) = Target(T, m)
    BY <1>2, <1>3
  <2>2. l = m
    <3> HIDE DEF l, m
    <3>1. QED BY <2>1 DEF Tree
  <2>3. QED BY <1>1, <1>3, <2>2 DEF Reaches
<1>4. CASE level = 1
  BY <1>1, <1>4 DEF SamePath
<1>5. CASE level = 2
  <2>1. IndexAt(1, p) = IndexAt(1, q)
    BY <1>3, <1>5
  <2>2. QED BY <1>1, <1>5, <2>1 DEF SamePath
<1>6. CASE level = 3
  <2>1. /\ IndexAt(2, p) = IndexAt(2, q) /\ TableAt(T, 2, p) = TableAt(T, 2, q)
        /\ Reaches(T, 2, p) /\ Reaches(T, 2, q)
    BY <1>3, <1>6
  <2>2. IndexAt(1, p) = IndexAt(1, q)
    BY <1>3, <2>1
  <2>3. QED BY <1>1, <1>6, <2>1, <2>2 DEF SamePath
<1>7. QED BY <1>1, <1>4, <1>5, <1>6

(* No table is met at two levels.                                          *)
LEMMA LevelUnique ==
  ASSUME NEW T, Tree(T), NEW k \in Level, NEW l \in Level,
         NEW t \in OfLevel(T, k), t \in OfLevel(T, l)
  PROVE  k = l
<1>1. /\ Root \notin Second(T) /\ Root \notin Third(T)
      /\ Second(T) \intersect Third(T) = {}
  BY LevelsDiffer
<1>2. QED BY <1>1, Sizes DEF OfLevel

(* Pages of one block of the walk's last level end at the same entry.      *)
LEMMA LeafShared ==
  ASSUME NEW T, NEW level \in Level, NEW p, NEW q, EndsAt(T, level, p),
         SameBlock(level, p, q)
  PROVE  EndsAt(T, level, q) /\ LeafIn(T, q) = LeafIn(T, p)
<1>1. SamePath(level, p, q) /\ IndexAt(level, p) = IndexAt(level, q)
  BY BlockOnPath
<1>2. /\ TableAt(T, level, p) = TableAt(T, level, q)
      /\ Reaches(T, level, q)
  BY <1>1, PathShared DEF EndsAt
<1>3. EntryAt(T, level, p) = EntryAt(T, level, q)
  BY <1>1, <1>2 DEF EntryAt
<1>4. EndsAt(T, level, q)
  BY <1>2, <1>3 DEF EndsAt
<1>5. QED BY <1>3, <1>4, LeafAt

-----------------------------------------------------------------------------
\* U differs from T in the entry of this level for page s only.
Stores(T, U, level, s) ==
  \A k \in Level : \A t \in OfLevel(T, k) : \A j \in Indices(k) :
    t # TableAt(T, level, s) \/ j # IndexAt(level, s) => U[t][j] = T[t][j]

(* An entry on the way to a page stays, unless it is the one stored to.    *)
LEMMA EntryStays ==
  ASSUME NEW T, Tree(T), NEW U, NEW level \in Level, NEW s \in Pages,
         Reaches(T, level, s), Stores(T, U, level, s),
         NEW k \in Level, NEW p \in Pages, Reaches(T, k, p),
         ~(k = level /\ SameBlock(level, p, s))
  PROVE  U[TableAt(T, k, p)][IndexAt(k, p)] = EntryAt(T, k, p)
<1> DEFINE t == TableAt(T, k, p)
<1>1. t \in OfLevel(T, k) /\ TableAt(T, level, s) \in OfLevel(T, level)
  BY PathInTree
<1>2. IndexAt(k, p) \in Indices(k)
  <2>1. p \in Nat
    BY Sizes DEF Pages
  <2>2. QED BY <2>1, IndexInTable
<1>3. ASSUME t = TableAt(T, level, s), IndexAt(k, p) = IndexAt(level, s)
      PROVE  FALSE
  <2>1. k = level
    BY <1>1, <1>3, LevelUnique
  <2>2. SamePath(level, p, s)
    BY <1>3, <2>1, PathUnique
  <2>3. SameBlock(level, p, s)
    BY <1>3, <2>1, <2>2, BlockOnPath
  <2>4. QED BY <2>1, <2>3
<1>4. QED BY <1>1, <1>2, <1>3 DEF Stores, EntryAt

(* The way to a page stays as far as the entry stored to.                  *)
LEMMA PathStays ==
  ASSUME NEW T, Tree(T), NEW U, NEW level \in Level, NEW s \in Pages,
         Reaches(T, level, s), Stores(T, U, level, s),
         NEW k \in Level, NEW p \in Pages, Reaches(T, k, p),
         k <= level \/ ~SameBlock(level, p, s)
  PROVE  TableAt(U, k, p) = TableAt(T, k, p) /\ Reaches(U, k, p)
<1>1. Level = {1, 2, 3}
  BY Sizes
<1>2. ASSUME NEW l \in {1, 2}, l < k, TableAt(U, l, p) = TableAt(T, l, p)
      PROVE  EntryAt(U, l, p) = EntryAt(T, l, p) /\ IsTable(l, EntryAt(U, l, p))
  <2>1. l \in Level /\ Reaches(T, l, p) /\ IsTable(l, EntryAt(T, l, p))
    BY <1>1, <1>2 DEF Reaches
  <2>2. ~(l = level /\ SameBlock(level, p, s))
    BY <1>1, <1>2
  <2>3. U[TableAt(T, l, p)][IndexAt(l, p)] = EntryAt(T, l, p)
    BY <2>1, <2>2, EntryStays
  <2>4. QED BY <1>2, <2>1, <2>3 DEF EntryAt
<1>3. CASE k = 1
  BY <1>3, Path
<1>4. CASE k = 2
  <2>1. EntryAt(U, 1, p) = EntryAt(T, 1, p) /\ IsTable(1, EntryAt(U, 1, p))
    BY <1>2, <1>4, Path
  <2>2. QED BY <1>4, <2>1, Path
<1>5. CASE k = 3
  <2>1. EntryAt(U, 1, p) = EntryAt(T, 1, p) /\ IsTable(1, EntryAt(U, 1, p))
    BY <1>2, <1>5, Path
  <2>2. EntryAt(U, 2, p) = EntryAt(T, 2, p) /\ IsTable(2, EntryAt(U, 2, p))
    BY <1>2, <1>5, <2>1, Path
  <2>3. QED BY <1>5, <2>1, <2>2, Path
<1>6. QED BY <1>1, <1>3, <1>4, <1>5

(* A store does not change what the walk finds for a page outside the      *)
(* block of the entry ...                                                  *)
LEMMA LeafStays ==
  ASSUME NEW T, Tree(T), NEW U, NEW level \in Level, NEW s \in Pages,
         Reaches(T, level, s), Stores(T, U, level, s),
         NEW p \in Pages, ~SameBlock(level, p, s)
  PROVE  LeafIn(U, p) = LeafIn(T, p)
<1>1. PICK k \in Level : EndsAt(T, k, p)
  BY LeafExists
<1>2. Reaches(T, k, p)
  BY <1>1 DEF EndsAt
<1>3. TableAt(U, k, p) = TableAt(T, k, p) /\ Reaches(U, k, p)
  BY <1>2, PathStays
<1>4. U[TableAt(T, k, p)][IndexAt(k, p)] = EntryAt(T, k, p)
  BY <1>2, EntryStays
<1>5. EntryAt(U, k, p) = EntryAt(T, k, p)
  BY <1>3, <1>4 DEF EntryAt
<1>6. EndsAt(U, k, p)
  BY <1>1, <1>3, <1>5 DEF EndsAt
<1>7. QED BY <1>1, <1>5, <1>6, LeafAt

(* ... and inside it the walk gets as far as before, and to what is stored.*)
LEMMA LeafChanges ==
  ASSUME NEW T, Tree(T), NEW U, NEW level \in Level, NEW s \in Pages,
         EndsAt(T, level, s), Stores(T, U, level, s),
         NEW p \in Pages, SameBlock(level, p, s)
  PROVE  /\ LeafIn(T, p) = [level |-> level, entry |-> EntryAt(T, level, s)]
         /\ Reaches(U, level, p)
         /\ EntryAt(U, level, p) = U[TableAt(T, level, s)][IndexAt(level, s)]
<1>1. EndsAt(T, level, p) /\ LeafIn(T, p) = LeafIn(T, s)
  BY LeafShared, BlockOnPath
<1>2. LeafIn(T, p) = [level |-> level, entry |-> EntryAt(T, level, s)]
  BY <1>1, LeafAt
<1>3. Reaches(T, level, p) /\ Reaches(T, level, s)
  BY <1>1 DEF EndsAt
<1>4. TableAt(U, level, p) = TableAt(T, level, p) /\ Reaches(U, level, p)
  <2>1. level <= level
    BY Sizes
  <2>2. QED BY <1>3, <2>1, PathStays
<1>5. IndexAt(level, p) = IndexAt(level, s) /\ TableAt(T, level, p) = TableAt(T, level, s)
  BY BlockOnPath, PathShared
<1>6. QED BY <1>2, <1>4, <1>5 DEF EntryAt

(* An added table is a store to the entry it takes the place of ...        *)
LEMMA AddingStores ==
  ASSUME NEW T, NEW U, NEW level, NEW i, NEW new, NEW s \in Pages,
         Tree(T), Root \in DOMAIN T, Reaches(T, level, s), i = IndexAt(level, s),
         Adds(T, U, level, TableAt(T, level, s), i, new)
  PROVE  Stores(T, U, level, s)
<1> DEFINE t == TableAt(T, level, s)
<1>1. level \in Level /\ t \in OfLevel(T, level)
  BY Sizes DEF Adds
<1>2. SUFFICES ASSUME NEW k \in Level, NEW a \in OfLevel(T, k), NEW j \in Indices(k),
                      a # t \/ j # i
               PROVE  U[a][j] = T[a][j]
  BY DEF Stores
<1>3. a \in DOMAIN T
  BY LevelsDiffer, Sizes DEF OfLevel
<1>4. CASE a # t
  BY <1>3, <1>4 DEF Adds
<1>5. CASE a = t
  <2>1. k = level
    BY <1>1, <1>5, LevelUnique
  <2>2. j \in Indices(level) \ {i}
    BY <1>2, <1>5, <2>1
  <2>3. QED BY <1>5, <2>2 DEF Adds
<1>6. QED BY <1>4, <1>5

(* ... after which the walk of a page of that block ends in the new table. *)
LEMMA LeafAdded ==
  ASSUME NEW T, NEW U, NEW level, NEW new, NEW s \in Pages,
         Tree(T), Root \in DOMAIN T, Reaches(T, level, s),
         Adds(T, U, level, TableAt(T, level, s), IndexAt(level, s), new),
         NEW p \in Pages
  PROVE  /\ SameBlock(level, p, s) =>
              /\ LeafIn(T, p) = [level |-> level, entry |-> EntryAt(T, level, s)]
              /\ LeafIn(U, p) = [level |-> level + 1,
                                 entry |-> U[new][IndexAt(level + 1, p)]]
              /\ TableAt(U, level + 1, p) = new
              /\ Reaches(U, level + 1, p)
         /\ ~SameBlock(level, p, s) => LeafIn(U, p) = LeafIn(T, p)
<1> DEFINE t == TableAt(T, level, s)
           i == IndexAt(level, s)
<1>1. Stores(T, U, level, s)
  BY AddingStores
<1>2. /\ level \in {1, 2} /\ level \in Level /\ level + 1 \in Level
      /\ ~IsTable(level, T[t][i]) /\ IsTable(level, U[t][i]) /\ U[t][i].addr = new
      /\ (level = 1 => \A j \in Indices(2) : ~IsTable(2, U[new][j]))
  BY Sizes DEF Adds
<1>3. EndsAt(T, level, s)
  BY <1>2 DEF EndsAt, EntryAt
<1>4. ASSUME SameBlock(level, p, s)
      PROVE  /\ LeafIn(T, p) = [level |-> level, entry |-> EntryAt(T, level, s)]
             /\ LeafIn(U, p) = [level |-> level + 1,
                                entry |-> U[new][IndexAt(level + 1, p)]]
             /\ TableAt(U, level + 1, p) = new
             /\ Reaches(U, level + 1, p)
  <2>1. /\ LeafIn(T, p) = [level |-> level, entry |-> EntryAt(T, level, s)]
        /\ Reaches(U, level, p)
        /\ EntryAt(U, level, p) = U[t][i]
    BY <1>1, <1>2, <1>3, <1>4, LeafChanges
  <2> HIDE DEF t, i
  <2>2. IsTable(level, EntryAt(U, level, p)) /\ EntryAt(U, level, p).addr = new
    BY <1>2, <2>1
  <2>3. TableAt(U, level + 1, p) = new /\ Reaches(U, level + 1, p)
    BY <1>2, <2>1, <2>2, Path
  <2>4. EntryAt(U, level + 1, p) = U[new][IndexAt(level + 1, p)]
    BY <2>3 DEF EntryAt
  <2>5. IndexAt(level + 1, p) \in Indices(level + 1)
    BY <1>2, IndexInTable, Sizes DEF Pages
  <2>6. ~IsTable(level + 1, EntryAt(U, level + 1, p))
    <3>1. CASE level = 1
      BY <1>2, <2>4, <2>5, <3>1
    <3>2. CASE level = 2
      BY <3>2 DEF IsTable
    <3>3. QED BY <1>2, <3>1, <3>2
  <2>7. EndsAt(U, level + 1, p)
    BY <2>3, <2>6 DEF EndsAt
  <2>8. LeafIn(U, p) = [level |-> level + 1, entry |-> EntryAt(U, level + 1, p)]
    BY <1>2, <2>7, LeafAt
  <2>9. QED BY <2>1, <2>3, <2>4, <2>8
<1>5. ASSUME ~SameBlock(level, p, s) PROVE LeafIn(U, p) = LeafIn(T, p)
  BY <1>1, <1>2, <1>5, LeafStays
<1>6. QED BY <1>4, <1>5

-----------------------------------------------------------------------------
\* The call is on the way to the first page of what is left of its region,
\* and the block it looks for there starts with that page.
PathOfRegion ==
  pc # "idle" =>
    /\ RegionStart \in Pages
    /\ Reaches(tables, IndexLevel, RegionStart)
    /\ TableAt(tables, IndexLevel, RegionStart) = TranslationTable
    /\ Aligned(PageLevel, RegionStart)
    /\ pc # "walk" => BlockEntry = IndexAt(PageLevel, RegionStart)

\* A block maps its pages to themselves; an invalid entry is not accessible.
FlatLeaf(leaf, p) ==
  /\ leaf.entry.bits = TT_TYPE_INVALID => ~leaf.entry.af
  /\ leaf.entry.bits # TT_TYPE_INVALID =>
       leaf.entry.addr = BlockEntryAddress(leaf.level, p)

FlatMap == \A p \in Pages : FlatLeaf(LeafIn(Settled, p), p)

SameAttributes(d, e) ==
  d.type = e.type /\ d.af = e.af /\ d.ro = e.ro /\ d.xn = e.xn

\* What the TLB holds is what the tables say.
CachedLeaf(c, leaf) ==
  /\ c.entry.addr = c.page
  /\ leaf.entry.bits # TT_TYPE_INVALID
  /\ SameAttributes(leaf.entry, c.entry)

\* It holds no smaller block than the tables have, and the tables say the same
\* of all of its pages but those of the entry under change.
CacheInv ==
  cached # NotCached =>
    \A p \in Pages : BlockEntryAddress(cached.level, p) = cached.page =>
      /\ LeafIn(tables, p).level >= cached.level
      /\ ~Changing(p) => CachedLeaf(cached, LeafIn(tables, p))

MapInv == IInv /\ PathOfRegion /\ FlatMap /\ CacheInv

(* Between the two stores to an entry `Settled' is ahead of the tables.     *)
LEMMA SettledIs ==
  /\ pc # "set" => Settled = tables
  /\ pc' # "set" => Settled' = tables'
BY DEF Settled

(* What is left of the region is in the address space.                     *)
LEMMA RegionInPages ==
  ASSUME IInv, pc # "idle"
  PROVE  RegionStart \in Pages /\ RegionLength \in Nat \ {0}
         /\ PageLevel \in Level /\ IndexLevel \in Level /\ request \in Requests
         /\ BlockEntrySize(PageLevel) \in Nat \ {0}
         /\ BlockEntrySize(PageLevel) <= RegionLength
         /\ RegionStart + RegionLength <= PageCount
         /\ PageCount \in Nat /\ RegionStart \in Nat
<1> DEFINE size == BlockEntrySize(PageLevel)
<1>1. /\ RegionStart \in 0 .. PageCount /\ RegionLength \in 0 .. PageCount - RegionStart
      /\ PageLevel \in Level /\ IndexLevel \in Level /\ request \in Requests
  BY DEF IInv, TypeOK
<1>2. size \in Nat \ {0} /\ size <= RegionLength /\ PageCount \in Nat
  BY <1>1, Sizes DEF IInv, PathInv
<1> HIDE DEF size
<1>3. RegionStart \in Pages /\ RegionLength \in Nat \ {0}
        /\ RegionStart + RegionLength <= PageCount /\ RegionStart \in Nat
  BY <1>1, <1>2 DEF Pages
<1>4. QED BY <1>1, <1>2, <1>3 DEF size

(* Nothing has been mapped.                                                *)
LEMMA MapInit == Init => MapInv
<1> SUFFICES ASSUME Init
             PROVE  MapInv
  OBVIOUS
<1>1. IInv
  BY InitEstablishes
<1>2. PathOfRegion /\ CacheInv /\ Settled = tables
  BY DEF Init, PathOfRegion, CacheInv, Settled
<1>3. ASSUME NEW p \in Pages
      PROVE  FlatLeaf(LeafIn(tables, p), p)
  <2>1. IndexAt(1, p) \in Indices(1)
    BY IndexInTable, Sizes DEF Pages
  <2>2. EntryAt(tables, 1, p) = ZeroEntry
    BY <2>1, Path DEF Init, ZeroTable, EntryAt, RootTableLevel
  <2>3. ~IsTable(1, ZeroEntry) /\ ZeroEntry.bits = TT_TYPE_INVALID /\ ZeroEntry.af = FALSE
    BY DEF ZeroEntry, IsTable, TT_TYPE_INVALID, TT_TYPE_TABLE_ENTRY
  <2>4. EndsAt(tables, 1, p)
    BY <2>2, <2>3, Path DEF EndsAt
  <2>5. LeafIn(tables, p) = [level |-> 1, entry |-> ZeroEntry]
    BY <2>2, <2>4, LeafAt, Sizes
  <2>6. QED BY <2>3, <2>5 DEF FlatLeaf
<1>4. QED BY <1>1, <1>2, <1>3 DEF MapInv, FlatMap

(* Steps that store to no table while no entry is under change.            *)
LEMMA SameTables ==
  ASSUME FlatMap, CacheInv, UNCHANGED <<tables, cached>>,
         pc \notin {"set", "update"}, pc' \notin {"set", "update"}
  PROVE  FlatMap' /\ CacheInv'
<1>1. Settled = tables /\ Settled' = tables'
  BY SettledIs
<1>2. \A p : ~Changing(p) /\ ~Changing(p)'
  BY DEF Changing, EntryChanges
<1>3. FlatMap'
  BY <1>1 DEF FlatMap
<1>4. CacheInv'
  BY <1>2 DEF CacheInv
<1>5. QED BY <1>3, <1>4

(* A call, and the rest of one, begins on the way to its first page.       *)
LEMMA PathStarts ==
  ASSUME NEW s \in Pages, NEW n \in Nat \ {0}, StartWalk(s, n), RegionStart' = s
  PROVE  PathOfRegion'
<1>1. s \in Nat
  BY Sizes DEF Pages
<1>2. Aligned(TargetLevel(s, n), s)
  BY <1>1, TargetFits
<1>3. /\ pc' = "walk" /\ IndexLevel' = 1 /\ PageLevel' = TargetLevel(s, n)
      /\ TranslationTable' = Root
  BY Sizes DEF StartWalk
<1>4. Reaches(tables', 1, s) /\ TableAt(tables', 1, s) = Root
  BY Path
<1>5. QED BY <1>2, <1>3, <1>4 DEF PathOfRegion, Aligned

(* What a table that takes the place of an entry changes for the           *)
(* processor: in the block of that entry the new table's entries count.    *)
LEMMA AddTableLeaves ==
  ASSUME MapInv, pc = "walk", IndexLevel # PageLevel,
         ~IsTable(IndexLevel, WalkEntry),
         NEW content,
         IndexLevel = 1 => \A j \in Indices(2) : ~IsTable(2, content[j]),
         AddTable(content)
  PROVE  /\ IndexLevel \in {1, 2}
         /\ UNCHANGED <<mmu, freed, cached, request, pc, regionVars, PageLevel, BlockEntry,
                        status, calls>>
         /\ RegionStart \in Pages
         /\ PathOfRegion'
         /\ \A p \in Pages :
              /\ SameBlock(IndexLevel, p, RegionStart) =>
                   /\ LeafIn(tables, p) = [level |-> IndexLevel, entry |-> WalkEntry]
                   /\ LeafIn(tables', p)
                        = [level |-> IndexLevel + 1,
                           entry |-> content[IndexAt(IndexLevel + 1, p)]]
              /\ ~SameBlock(IndexLevel, p, RegionStart) =>
                   LeafIn(tables', p) = LeafIn(tables, p)
<1> DEFINE s == RegionStart
           l == IndexLevel
           new == TranslationTable'
<1>1. /\ IInv /\ Tree(tables) /\ s \in Pages /\ Reaches(tables, l, s)
      /\ TableAt(tables, l, s) = TranslationTable
      /\ Aligned(PageLevel, s)
  BY DEF MapInv, IInv, PathOfRegion
<1>2. /\ l \in {1, 2} /\ IndexLevel' = l + 1 /\ Root \in DOMAIN tables
      /\ tables'[new] = content
      /\ Adds(tables, tables', l, TranslationTable, IndexAt(l, s), new)
      /\ UNCHANGED <<mmu, freed, cached, request, pc, regionVars, PageLevel, BlockEntry,
                     status, calls>>
  BY <1>1, AddTableAdds
<1>3. EntryAt(tables, l, s) = WalkEntry
  BY <1>1 DEF EntryAt, WalkEntry
<1>4. l \in Level
  BY <1>2, Sizes
<1>5. ASSUME NEW p \in Pages
      PROVE  /\ SameBlock(l, p, s) =>
                  /\ LeafIn(tables, p) = [level |-> l, entry |-> WalkEntry]
                  /\ LeafIn(tables', p)
                       = [level |-> l + 1, entry |-> content[IndexAt(l + 1, p)]]
                  /\ TableAt(tables', l + 1, p) = new
                  /\ Reaches(tables', l + 1, p)
             /\ ~SameBlock(l, p, s) => LeafIn(tables', p) = LeafIn(tables, p)
  BY <1>1, <1>2, <1>3, LeafAdded
<1>6. SameBlock(l, s, s)
  BY DEF SameBlock
<1>7. TableAt(tables', l + 1, s) = new /\ Reaches(tables', l + 1, s)
  BY <1>1, <1>5, <1>6
<1>8. PathOfRegion'
  BY <1>1, <1>2, <1>7 DEF PathOfRegion, regionVars
<1>9. QED BY <1>1, <1>2, <1>5, <1>8

(* A block and the smaller blocks it is split into map the same pages.     *)
LEMMA SplitLeaves ==
  ASSUME MapInv, SplitBlock
  PROVE  /\ UNCHANGED <<mmu, freed, cached, request, pc, regionVars, status, calls>>
         /\ PathOfRegion'
         /\ IndexLevel \in {1, 2}
         /\ \A p \in Pages :
              \/ LeafIn(tables', p) = LeafIn(tables, p)
              \/ /\ LeafIn(tables, p).level = IndexLevel
                 /\ LeafIn(tables', p).level = IndexLevel + 1
                 /\ SameAttributes(LeafIn(tables', p).entry, LeafIn(tables, p).entry)
                 /\ LeafIn(tables, p).entry.bits = TT_TYPE_BLOCK_ENTRY
                 /\ LeafIn(tables', p).entry.bits # TT_TYPE_INVALID
                 /\ LeafIn(tables', p).entry.addr = BlockEntryAddress(IndexLevel + 1, p)
<1> DEFINE s == RegionStart
           l == IndexLevel
           e == WalkEntry
           b == BlockType(l + 1)
           content == SplitOf(e, l)
<1>1. /\ pc = "walk" /\ l # PageLevel /\ e.bits = TT_TYPE_BLOCK_ENTRY
      /\ AddTable(content)
  BY DEF SplitBlock
<1>2. ~IsTable(l, e)
  BY <1>1 DEF IsTable, TT_TYPE_TABLE_ENTRY, TT_TYPE_BLOCK_ENTRY
<1>3. /\ IInv /\ l \in Level /\ PageLevel \in Level /\ l <= PageLevel /\ s \in Pages
      /\ TranslationTable \in OfLevel(tables, l)
  BY <1>1 DEF MapInv, IInv, TypeOK, PathInv, PathOfRegion
<1>4. l \in {1, 2}
  BY <1>1, <1>3, Sizes
<1>5. e \in Entry
  <2>1. tables[TranslationTable] \in [Indices(l) -> Entry]
    BY <1>3, TableOfLevel DEF IInv
  <2>2. IndexAt(l, s) \in Indices(l)
    BY <1>3, IndexInTable, Sizes DEF Pages
  <2>3. QED BY <2>1, <2>2 DEF WalkEntry
<1>6. b \in {1, 3} /\ (l + 1 # 3 => b = 1)
  BY DEF BlockType, TT_TYPE_BLOCK_ENTRY, TT_TYPE_BLOCK_ENTRY_LEVEL3
<1> DEFINE Smaller(i) == [e EXCEPT !.bits = b,
                                   !.addr = BlockEntryAddress(l, s) + i * BlockEntrySize(l + 1)]
<1>7. content = [i \in Indices(l + 1) |-> Smaller(i)]
  BY Zenon DEF SplitOf
<1>8. ASSUME NEW a
      PROVE  LET u == [e EXCEPT !.bits = b, !.addr = a]
             IN u.bits = b /\ u.addr = a /\ SameAttributes(u, e)
  <2> HIDE DEF e, b
  <2>1. QED BY <1>5 DEF Entry, SameAttributes
<1>9. \A i \in Indices(l + 1) :
        /\ content[i].bits = b /\ SameAttributes(content[i], e)
        /\ content[i].addr = BlockEntryAddress(l, s) + i * BlockEntrySize(l + 1)
  <2> HIDE DEF e, b, content
  <2>1. QED BY <1>7, <1>8
<1> HIDE DEF content, b, e
<1>10. l = 1 => \A j \in Indices(2) : ~IsTable(2, content[j])
  BY <1>6, <1>9 DEF IsTable, TT_TYPE_TABLE_ENTRY
<1>11. /\ UNCHANGED <<mmu, freed, cached, request, pc, regionVars, PageLevel, BlockEntry,
                      status, calls>>
       /\ PathOfRegion'
       /\ \A p \in Pages :
            /\ SameBlock(l, p, s) =>
                 /\ LeafIn(tables, p) = [level |-> l, entry |-> e]
                 /\ LeafIn(tables', p)
                      = [level |-> l + 1, entry |-> content[IndexAt(l + 1, p)]]
            /\ ~SameBlock(l, p, s) => LeafIn(tables', p) = LeafIn(tables, p)
  BY <1>1, <1>2, <1>10, AddTableLeaves DEF e
<1>12. ASSUME NEW p \in Pages, SameBlock(l, p, s)
       PROVE  /\ LeafIn(tables, p).level = l /\ LeafIn(tables', p).level = l + 1
              /\ SameAttributes(LeafIn(tables', p).entry, LeafIn(tables, p).entry)
              /\ LeafIn(tables, p).entry.bits = TT_TYPE_BLOCK_ENTRY
              /\ LeafIn(tables', p).entry.bits # TT_TYPE_INVALID
              /\ LeafIn(tables', p).entry.addr = BlockEntryAddress(l + 1, p)
  <2> DEFINE i == IndexAt(l + 1, p)
  <2>1. LeafIn(tables, p) = [level |-> l, entry |-> e]
        /\ LeafIn(tables', p) = [level |-> l + 1, entry |-> content[i]]
    BY <1>11, <1>12
  <2>2. /\ i \in Indices(l + 1)
        /\ BlockEntryAddress(l, p) + i * BlockEntrySize(l + 1)
             = BlockEntryAddress(l + 1, p)
    BY <1>4, SplitAddress
  <2>3. BlockEntryAddress(l, p) = BlockEntryAddress(l, s)
    BY <1>3, <1>12, SameBlockAddress
  <2> HIDE DEF i
  <2>4. /\ content[i].bits = b /\ SameAttributes(content[i], e)
        /\ content[i].addr = BlockEntryAddress(l + 1, p)
    BY <1>9, <2>2, <2>3, Zenon
  <2>5. QED BY <1>1, <1>6, <2>1, <2>4 DEF TT_TYPE_INVALID, e
<1>13. QED BY <1>4, <1>11, <1>12

(* A new table of nothing maps as little as the invalid entry it replaces. *)
LEMMA NewTableLeaves ==
  ASSUME MapInv, NewTable
  PROVE  /\ UNCHANGED <<mmu, freed, cached, request, pc, regionVars, status, calls>>
         /\ PathOfRegion'
         /\ IndexLevel \in {1, 2}
         /\ \A p \in Pages :
              \/ LeafIn(tables', p) = LeafIn(tables, p)
              \/ /\ LeafIn(tables, p).entry.bits = TT_TYPE_INVALID
                 /\ LeafIn(tables', p).entry = ZeroEntry
<1> DEFINE s == RegionStart
           l == IndexLevel
           content == ZeroTable(l + 1)
<1>1. /\ pc = "walk" /\ l # PageLevel /\ WalkEntry.bits = TT_TYPE_INVALID
      /\ AddTable(content)
  BY DEF NewTable
<1>2. ~IsTable(l, WalkEntry) /\ ~IsTable(2, ZeroEntry)
  BY <1>1 DEF IsTable, TT_TYPE_TABLE_ENTRY, TT_TYPE_INVALID, ZeroEntry
<1>3. l = 1 => \A j \in Indices(2) : ~IsTable(2, content[j])
  BY <1>2 DEF ZeroTable
<1> HIDE DEF content
<1>4. /\ UNCHANGED <<mmu, freed, cached, request, pc, regionVars, PageLevel, BlockEntry,
                     status, calls>>
      /\ PathOfRegion' /\ l \in {1, 2}
      /\ \A p \in Pages :
           /\ SameBlock(l, p, s) =>
                /\ LeafIn(tables, p) = [level |-> l, entry |-> WalkEntry]
                /\ LeafIn(tables', p)
                     = [level |-> l + 1, entry |-> content[IndexAt(l + 1, p)]]
           /\ ~SameBlock(l, p, s) => LeafIn(tables', p) = LeafIn(tables, p)
  BY <1>1, <1>2, <1>3, AddTableLeaves
<1>5. ASSUME NEW p \in Pages, SameBlock(l, p, s)
      PROVE  /\ LeafIn(tables, p).entry.bits = TT_TYPE_INVALID
             /\ LeafIn(tables', p).entry = ZeroEntry
  <2>1. IndexAt(l + 1, p) \in Indices(l + 1)
    BY <1>4, IndexInTable, Sizes DEF Pages
  <2>2. content[IndexAt(l + 1, p)] = ZeroEntry
    BY <2>1 DEF content, ZeroTable
  <2>3. QED BY <1>1, <1>4, <1>5, <2>2
<1>6. QED BY <1>4, <1>5

(* An entry that is stored to is what the walk finds for the pages of its  *)
(* block, before and after.                                                *)
StoredAs(U, u) ==
  /\ TableAt(U, PageLevel, RegionStart) = TranslationTable
  /\ Reaches(U, PageLevel, RegionStart)
  /\ \A p \in Pages :
       /\ SameBlock(PageLevel, p, RegionStart) =>
            /\ LeafIn(tables, p) =
                 [level |-> PageLevel,
                  entry |-> tables[TranslationTable][BlockEntry]]
            /\ LeafIn(U, p) = [level |-> PageLevel, entry |-> u]
       /\ ~SameBlock(PageLevel, p, RegionStart) =>
            LeafIn(U, p) = LeafIn(tables, p)

LEMMA StoreLeaves ==
  ASSUME IInv, PathOfRegion, pc \in {"fill", "set", "update"},
         NEW u, ~IsTable(PageLevel, u),
         NEW U, U = [tables EXCEPT ![TranslationTable][BlockEntry] = u]
  PROVE  StoredAs(U, u)
<1> DEFINE s == RegionStart
           l == PageLevel
           t == TranslationTable
           i == BlockEntry
           e == tables[t][i]
<1>1. Tree(tables) /\ TypeOK /\ FillPoint
  BY AtFillPoint DEF IInv
<1>2. /\ s \in Pages /\ Reaches(tables, l, s) /\ TableAt(tables, l, s) = t
      /\ i = IndexAt(l, s) /\ ~IsTable(l, e) /\ t \in OfLevel(tables, l)
      /\ l \in Level /\ i \in Indices(l)
      /\ t \in DOMAIN tables /\ tables[t] \in [Indices(l) -> Entry]
  BY <1>1 DEF FillPoint, PathOfRegion
<1>3. /\ U[t][i] = u
      /\ \A j \in Indices(l) \ {i} : U[t][j] = tables[t][j]
      /\ \A a \in DOMAIN tables \ {t} : U[a] = tables[a]
  BY <1>2
<1> HIDE DEF e
<1>4. Stores(tables, U, l, s)
  <2>1. SUFFICES ASSUME NEW k \in Level, NEW a \in OfLevel(tables, k),
                        NEW j \in Indices(k), a # t \/ j # i
                 PROVE  U[a][j] = tables[a][j]
    BY <1>2 DEF Stores
  <2>2. a \in DOMAIN tables
    BY <1>1, TableOfLevel
  <2>3. CASE a # t
    BY <1>3, <2>2, <2>3
  <2>4. CASE a = t
    <3>1. k = l
      BY <1>1, <1>2, <2>4, LevelUnique
    <3>2. QED BY <1>3, <2>1, <2>4, <3>1
  <2>5. QED BY <2>3, <2>4
<1>5. EndsAt(tables, l, s) /\ EntryAt(tables, l, s) = e
  BY <1>2 DEF EndsAt, EntryAt, e
<1>6. SameBlock(l, s, s) /\ l <= l
  BY <1>2, Sizes DEF SameBlock
<1>7. TableAt(U, l, s) = t /\ Reaches(U, l, s)
  <2>1. TableAt(U, l, s) = TableAt(tables, l, s) /\ Reaches(U, l, s)
    BY <1>1, <1>2, <1>4, <1>6, PathStays
  <2>2. QED BY <1>2, <2>1
<1>8. ASSUME NEW p \in Pages, SameBlock(l, p, s)
      PROVE  /\ LeafIn(tables, p) = [level |-> l, entry |-> e]
             /\ LeafIn(U, p) = [level |-> l, entry |-> u]
  <2>1. /\ LeafIn(tables, p) = [level |-> l, entry |-> e]
        /\ Reaches(U, l, p)
        /\ EntryAt(U, l, p) = U[t][i]
    <3>1. Tree(tables) /\ l \in Level /\ s \in Pages
      BY <1>1, <1>2
    <3>2. /\ LeafIn(tables, p) = [level |-> l, entry |-> EntryAt(tables, l, s)]
          /\ Reaches(U, l, p)
          /\ EntryAt(U, l, p) = U[TableAt(tables, l, s)][IndexAt(l, s)]
      BY ONLY <1>4, <1>5, <1>8, <3>1, LeafChanges
    <3>3. QED BY <1>2, <1>5, <3>2
  <2>2. EndsAt(U, l, p)
    BY <1>3, <2>1 DEF EndsAt
  <2>3. LeafIn(U, p) = [level |-> l, entry |-> u]
    BY <1>2, <1>3, <2>1, <2>2, LeafAt
  <2>4. QED BY <2>1, <2>3
<1>9. ASSUME NEW p \in Pages, ~SameBlock(l, p, s)
      PROVE  LeafIn(U, p) = LeafIn(tables, p)
  BY <1>1, <1>2, <1>4, <1>9, LeafStays
<1>10. QED BY <1>7, <1>8, <1>9 DEF StoredAs, e

(* A page is under change when it is in the block the call has reached.    *)
LEMMA ChangingBlock ==
  ASSUME IInv, PathOfRegion, pc # "idle", NEW p \in Pages
  PROVE  BlockEntryAddress(PageLevel, p) = RegionStart
           <=> SameBlock(PageLevel, p, RegionStart)
<1>1. /\ RegionStart \in Pages /\ Aligned(PageLevel, RegionStart)
      /\ PageLevel \in Level
  BY DEF PathOfRegion, IInv, TypeOK
<1>2. BlockEntryAddress(PageLevel, RegionStart) = RegionStart
  BY <1>1, AlignedBlock
<1>3. QED BY <1>1, <1>2, SameBlockAddress

(* After the second store the walk finds the entry the call asked for, and *)
(* for all other pages what it finds now.                                  *)
LEMMA SettledLeaf ==
  ASSUME IInv, PathOfRegion, NEW p \in Pages
  PROVE  /\ ~Changing(p) => LeafIn(Settled, p) = LeafIn(tables, p)
         /\ LeafIn(Settled, p).level \in Level
         /\ LeafIn(Settled, p).entry \in Entry
         /\ LeafIn(tables, p).level \in Level
         /\ LeafIn(tables, p).entry \in Entry
<1>1. LeafIn(tables, p).level \in Level /\ LeafIn(tables, p).entry \in Entry
  BY LeafIsEntry DEF Leaf
<1>2. CASE pc # "set"
  BY <1>1, <1>2, SettledIs
<1>3. CASE pc = "set"
  <2> DEFINE u == Ored(tables[TranslationTable][BlockEntry], request, RegionStart,
                       PageLevel)
  <2>1. FillPoint
    BY <1>3, AtFillPoint
  <2>2. u \in Entry /\ ~IsTable(PageLevel, u) /\ PageLevel \in Level
    BY <2>1, OredEntry DEF FillPoint
  <2>3. Settled = [tables EXCEPT ![TranslationTable][BlockEntry] = u]
    BY <1>3 DEF Settled
  <2> HIDE DEF u
  <2>4. /\ SameBlock(PageLevel, p, RegionStart) =>
             LeafIn(Settled, p) = [level |-> PageLevel, entry |-> u]
        /\ ~SameBlock(PageLevel, p, RegionStart) =>
             LeafIn(Settled, p) = LeafIn(tables, p)
    <3>1. StoredAs(Settled, u)
      BY <1>3, <2>2, <2>3, StoreLeaves
    <3>2. QED BY <3>1 DEF StoredAs
  <2>5. ~Changing(p) => ~SameBlock(PageLevel, p, RegionStart)
    BY <1>3, ChangingBlock DEF Changing, EntryChanges
  <2>6. QED BY <1>1, <2>2, <2>4, <2>5
<1>4. QED BY <1>2, <1>3

\* What the two stores make of an entry.
Updated(e, r, p, level) == Ored(Masked(e, r), r, p, level)

(* The masking store: where the call is, and what the walk finds now and   *)
(* when the entry is settled.                                              *)
LEMMA MaskLeaves ==
  ASSUME MapInv, MaskEntry
  PROVE  LET e == tables[TranslationTable][BlockEntry]
         IN /\ e \in Entry /\ Settled = tables
            /\ TableAt(tables', PageLevel, RegionStart) = TranslationTable
            /\ Reaches(tables', PageLevel, RegionStart)
            /\ \A p \in Pages :
                 /\ SameBlock(PageLevel, p, RegionStart) =>
                      /\ LeafIn(tables, p) = [level |-> PageLevel, entry |-> e]
                      /\ LeafIn(tables', p).level = PageLevel
                      /\ LeafIn(Settled', p)
                           = [level |-> PageLevel,
                              entry |-> Updated(e, request, RegionStart, PageLevel)]
                 /\ ~SameBlock(PageLevel, p, RegionStart) =>
                      /\ LeafIn(tables', p) = LeafIn(tables, p)
                      /\ LeafIn(Settled', p) = LeafIn(tables, p)
<1> DEFINE e == tables[TranslationTable][BlockEntry]
           m == Masked(e, request)
           u == Updated(e, request, RegionStart, PageLevel)
<1>1. /\ IInv /\ PathOfRegion /\ pc = "fill" /\ pc' = "set"
      /\ tables' = [tables EXCEPT ![TranslationTable][BlockEntry] = m]
      /\ UNCHANGED <<request, RegionStart, PageLevel, TranslationTable, BlockEntry>>
  BY DEF MapInv, MaskEntry, regionVars, walkVars
<1>2. FillPoint /\ Settled = tables
  BY <1>1, AtFillPoint, SettledIs
<1>3. e \in Entry /\ m \in Entry /\ ~IsTable(PageLevel, m)
  BY <1>2, MaskedEntry DEF FillPoint
<1> HIDE DEF m
<1>4. ~IsTable(PageLevel, u)
  BY <1>2, <1>3, OredEntry DEF FillPoint, Updated, m
<1>5. Settled' = [tables EXCEPT ![TranslationTable][BlockEntry] = u]
  <2>1. Settled' = [tables' EXCEPT ![TranslationTable][BlockEntry] =
                      Ored(tables'[TranslationTable][BlockEntry], request, RegionStart,
                           PageLevel)]
    BY <1>1 DEF Settled
  <2>2. tables'[TranslationTable][BlockEntry] = m
    BY <1>1, <1>2 DEF FillPoint
  <2>3. Settled' = [tables' EXCEPT ![TranslationTable][BlockEntry] = u]
    BY <2>1, <2>2 DEF Updated, m
  <2> HIDE DEF u
  <2>4. QED BY <1>1, <1>2, <2>3 DEF FillPoint
<1> HIDE DEF u, e
<1>6. /\ TableAt(tables', PageLevel, RegionStart) = TranslationTable
      /\ Reaches(tables', PageLevel, RegionStart)
      /\ \A p \in Pages :
           /\ SameBlock(PageLevel, p, RegionStart) =>
                /\ LeafIn(tables, p) = [level |-> PageLevel, entry |-> e]
                /\ LeafIn(tables', p) = [level |-> PageLevel, entry |-> m]
           /\ ~SameBlock(PageLevel, p, RegionStart) =>
                LeafIn(tables', p) = LeafIn(tables, p)
  <2>1. PICK U : U = tables'
    OBVIOUS
  <2>2. /\ TableAt(U, PageLevel, RegionStart) = TranslationTable
        /\ Reaches(U, PageLevel, RegionStart)
        /\ \A p \in Pages :
             /\ SameBlock(PageLevel, p, RegionStart) =>
                  /\ LeafIn(tables, p) = [level |-> PageLevel, entry |-> e]
                  /\ LeafIn(U, p) = [level |-> PageLevel, entry |-> m]
             /\ ~SameBlock(PageLevel, p, RegionStart) =>
                  LeafIn(U, p) = LeafIn(tables, p)
    <3>1. /\ IInv /\ PathOfRegion /\ pc \in {"fill", "set", "update"}
          /\ ~IsTable(PageLevel, m)
          /\ U = [tables EXCEPT ![TranslationTable][BlockEntry] = m]
      BY <1>1, <1>3, <2>1
    <3>2. StoredAs(U, m)
      BY <3>1, StoreLeaves
    <3>3. QED BY <3>2 DEF StoredAs, e
  <2>3. QED BY <2>1, <2>2
<1>7. \A p \in Pages :
        /\ SameBlock(PageLevel, p, RegionStart) =>
             LeafIn(Settled', p) = [level |-> PageLevel, entry |-> u]
        /\ ~SameBlock(PageLevel, p, RegionStart) =>
             LeafIn(Settled', p) = LeafIn(tables, p)
  <2>1. PICK U : U = Settled'
    OBVIOUS
  <2>2. \A p \in Pages :
          /\ SameBlock(PageLevel, p, RegionStart) =>
               LeafIn(U, p) = [level |-> PageLevel, entry |-> u]
          /\ ~SameBlock(PageLevel, p, RegionStart) =>
               LeafIn(U, p) = LeafIn(tables, p)
    <3>1. /\ IInv /\ PathOfRegion /\ pc \in {"fill", "set", "update"}
          /\ ~IsTable(PageLevel, u)
          /\ U = [tables EXCEPT ![TranslationTable][BlockEntry] = u]
      BY <1>1, <1>4, <1>5, <2>1
    <3>2. StoredAs(U, u)
      BY <3>1, StoreLeaves
    <3>3. QED BY <3>2 DEF StoredAs
  <2>3. QED BY <2>1, <2>2
<1>8. QED BY <1>2, <1>3, <1>6, <1>7 DEF e, u

(* The second store: the tables are settled.                               *)
LEMMA SetLeaves ==
  ASSUME MapInv, SetEntry
  PROVE  /\ Settled' = Settled /\ tables' = Settled
         /\ TableAt(tables', PageLevel, RegionStart) = TranslationTable
         /\ Reaches(tables', PageLevel, RegionStart)
         /\ \A p \in Pages :
              /\ LeafIn(tables', p).level = LeafIn(tables, p).level
              /\ ~SameBlock(PageLevel, p, RegionStart) =>
                   LeafIn(tables', p) = LeafIn(tables, p)
<1> DEFINE u == Ored(tables[TranslationTable][BlockEntry], request, RegionStart,
                     PageLevel)
<1>1. IInv /\ PathOfRegion /\ pc = "set" /\ pc' = "update" /\ tables' = Settled
  BY DEF MapInv, SetEntry
<1>2. Settled' = Settled
  BY <1>1, SettledIs
<1>3. FillPoint
  BY <1>1, AtFillPoint
<1>4. ~IsTable(PageLevel, u)
  BY <1>3, OredEntry DEF FillPoint
<1>5. tables' = [tables EXCEPT ![TranslationTable][BlockEntry] = u]
  BY <1>1 DEF Settled
<1> HIDE DEF u
<1>6. /\ TableAt(tables', PageLevel, RegionStart) = TranslationTable
      /\ Reaches(tables', PageLevel, RegionStart)
      /\ \A p \in Pages :
           /\ SameBlock(PageLevel, p, RegionStart) =>
                /\ LeafIn(tables, p)
                     = [level |-> PageLevel,
                        entry |-> tables[TranslationTable][BlockEntry]]
                /\ LeafIn(tables', p) = [level |-> PageLevel, entry |-> u]
           /\ ~SameBlock(PageLevel, p, RegionStart) =>
                LeafIn(tables', p) = LeafIn(tables, p)
  <2>1. PICK U : U = tables'
    OBVIOUS
  <2>2. /\ TableAt(U, PageLevel, RegionStart) = TranslationTable
        /\ Reaches(U, PageLevel, RegionStart)
        /\ \A p \in Pages :
             /\ SameBlock(PageLevel, p, RegionStart) =>
                  /\ LeafIn(tables, p)
                       = [level |-> PageLevel,
                          entry |-> tables[TranslationTable][BlockEntry]]
                  /\ LeafIn(U, p) = [level |-> PageLevel, entry |-> u]
             /\ ~SameBlock(PageLevel, p, RegionStart) =>
                  LeafIn(U, p) = LeafIn(tables, p)
    <3>1. /\ IInv /\ PathOfRegion /\ pc \in {"fill", "set", "update"}
          /\ ~IsTable(PageLevel, u)
          /\ U = [tables EXCEPT ![TranslationTable][BlockEntry] = u]
      BY <1>1, <1>4, <1>5, <2>1
    <3>2. StoredAs(U, u)
      BY <3>1, StoreLeaves
    <3>3. QED BY <3>2 DEF StoredAs
  <2>3. QED BY <2>1, <2>2
<1>7. \A p \in Pages : LeafIn(tables', p).level = LeafIn(tables, p).level
  BY <1>6
<1>8. QED BY <1>1, <1>2, <1>6, <1>7

(* The walk goes on in the table of the next level of the same page.       *)
LEMMA NextTablePath ==
  ASSUME MapInv, GoToNextTable
  PROVE  PathOfRegion'
<1> DEFINE s == RegionStart
           l == IndexLevel
<1>1. /\ pc = "walk" /\ IsTable(l, WalkEntry)
      /\ TranslationTable' = WalkEntry.addr /\ IndexLevel' = l + 1
      /\ PageLevel' = IF l = PageLevel THEN PageLevel + 1 ELSE PageLevel
      /\ UNCHANGED <<tables, pc, RegionStart, BlockEntry>>
  BY DEF GoToNextTable, regionVars
<1>2. /\ IInv /\ s \in Pages /\ Reaches(tables, l, s) /\ Aligned(PageLevel, s)
      /\ TableAt(tables, l, s) = TranslationTable
  BY <1>1 DEF MapInv, PathOfRegion
<1>3. l \in Level /\ PageLevel \in Level /\ l <= PageLevel /\ s \in Nat
  BY <1>1, <1>2, Sizes DEF IInv, TypeOK, PathInv, Pages
<1>4. l \in {1, 2}
  BY <1>1, <1>3, Sizes DEF IsTable
<1>5. EntryAt(tables, l, s) = WalkEntry
  BY <1>2 DEF EntryAt, WalkEntry
<1>6. Reaches(tables, l + 1, s) /\ TableAt(tables, l + 1, s) = WalkEntry.addr
  BY <1>1, <1>2, <1>4, <1>5, Path
<1>7. Aligned(PageLevel', s)
  <2>1. CASE l = PageLevel
    BY <1>1, <1>2, <1>3, <1>4, <2>1, AlignedFiner
  <2>2. CASE l # PageLevel
    BY <1>1, <1>2, <2>2
  <2>3. QED BY <2>1, <2>2
<1>8. QED BY <1>1, <1>2, <1>6, <1>7 DEF PathOfRegion, Aligned

(* A block that is split keeps its pages where they are, and what the TLB  *)
(* holds stays true.                                                       *)
LEMMA SplitMap ==
  ASSUME MapInv, SplitBlock
  PROVE  PathOfRegion' /\ FlatMap' /\ CacheInv'
<1>0. /\ pc = "walk" /\ pc' = "walk" /\ Settled = tables /\ Settled' = tables'
      /\ \A p : ~Changing(p) /\ ~Changing(p)'
  BY SplitLeaves, SettledIs DEF SplitBlock, Changing, EntryChanges
<1>1. /\ UNCHANGED cached /\ PathOfRegion' /\ IndexLevel \in {1, 2}
      /\ \A p \in Pages :
           \/ LeafIn(tables', p) = LeafIn(tables, p)
           \/ /\ LeafIn(tables, p).level = IndexLevel
              /\ LeafIn(tables', p).level = IndexLevel + 1
              /\ SameAttributes(LeafIn(tables', p).entry, LeafIn(tables, p).entry)
              /\ LeafIn(tables, p).entry.bits = TT_TYPE_BLOCK_ENTRY
              /\ LeafIn(tables', p).entry.bits # TT_TYPE_INVALID
              /\ LeafIn(tables', p).entry.addr = BlockEntryAddress(IndexLevel + 1, p)
  BY SplitLeaves
<1>2. ASSUME NEW p \in Pages
      PROVE  FlatLeaf(LeafIn(tables', p), p)
  <2>1. FlatLeaf(LeafIn(tables, p), p)
    BY <1>0 DEF MapInv, FlatMap
  <2>2. QED BY <1>1, <2>1 DEF FlatLeaf
<1>3. ASSUME cached # NotCached, NEW p \in Pages,
             BlockEntryAddress(cached.level, p) = cached.page
      PROVE  /\ LeafIn(tables', p).level >= cached.level
             /\ CachedLeaf(cached, LeafIn(tables', p))
  <2>1. LeafIn(tables, p).level >= cached.level /\ CachedLeaf(cached, LeafIn(tables, p))
    BY <1>0, <1>3 DEF MapInv, CacheInv
  <2>2. cached.level \in Level
    BY <1>3 DEF MapInv, IInv, TypeOK
  <2>3. QED BY <1>1, <2>1, <2>2, Sizes DEF CachedLeaf, SameAttributes
<1>4. FlatMap'
  BY <1>0, <1>2 DEF FlatMap
<1>5. CacheInv'
  BY <1>1, <1>3 DEF CacheInv
<1>6. QED BY <1>1, <1>4, <1>5

(* A new table of nothing maps nothing.                                    *)
LEMMA NewTableMap ==
  ASSUME MapInv, NewTable
  PROVE  PathOfRegion' /\ FlatMap' /\ CacheInv'
<1>0. /\ pc = "walk" /\ pc' = "walk" /\ Settled = tables /\ Settled' = tables'
      /\ \A p : ~Changing(p) /\ ~Changing(p)'
  BY NewTableLeaves, SettledIs DEF NewTable, Changing, EntryChanges
<1>1. /\ UNCHANGED cached /\ PathOfRegion'
      /\ \A p \in Pages :
           \/ LeafIn(tables', p) = LeafIn(tables, p)
           \/ /\ LeafIn(tables, p).entry.bits = TT_TYPE_INVALID
              /\ LeafIn(tables', p).entry = ZeroEntry
  BY NewTableLeaves
<1>2. ZeroEntry.bits = TT_TYPE_INVALID /\ ~ZeroEntry.af
  BY DEF ZeroEntry
<1>3. ASSUME NEW p \in Pages
      PROVE  FlatLeaf(LeafIn(tables', p), p)
  <2>1. FlatLeaf(LeafIn(tables, p), p)
    BY <1>0 DEF MapInv, FlatMap
  <2>2. QED BY <1>1, <1>2, <2>1 DEF FlatLeaf
<1>4. ASSUME cached # NotCached, NEW p \in Pages,
             BlockEntryAddress(cached.level, p) = cached.page
      PROVE  /\ LeafIn(tables', p).level >= cached.level
             /\ CachedLeaf(cached, LeafIn(tables', p))
  <2>1. LeafIn(tables, p).level >= cached.level /\ CachedLeaf(cached, LeafIn(tables, p))
    BY <1>0, <1>4 DEF MapInv, CacheInv
  <2>2. QED BY <1>1, <2>1 DEF CachedLeaf
<1>5. FlatMap'
  BY <1>0, <1>3 DEF FlatMap
<1>6. CacheInv'
  BY <1>1, <1>4 DEF CacheInv
<1>7. QED BY <1>1, <1>5, <1>6

(* What a request makes of an entry maps, to the address it is given.      *)
LEMMA UpdatedMaps ==
  ASSUME NEW e \in Entry, NEW r \in Requests, NEW p, NEW level \in Level
  PROVE  /\ Updated(e, r, p, level).bits # TT_TYPE_INVALID
         /\ Updated(e, r, p, level).addr = p
<1>1. BlockType(level) \in {1, 3}
  BY DEF BlockType, TT_TYPE_BLOCK_ENTRY, TT_TYPE_BLOCK_ENTRY_LEVEL3
<1> DEFINE m == Masked(e, r)
           u == Ored(m, r, p, level)
<1>2. m.bits \in {0, 1, 3}
  <2>1. m \in Entry
    BY MaskedEntry
  <2> HIDE DEF m
  <2>2. QED BY <2>1 DEF Entry
<1> HIDE DEF m
<1>3. /\ u.bits = IF m.bits > BlockType(level) THEN m.bits ELSE BlockType(level)
      /\ u.addr = p
  BY DEF Ored
<1> HIDE DEF u
<1>4. u.bits # TT_TYPE_INVALID
  BY <1>1, <1>2, <1>3 DEF TT_TYPE_INVALID
<1>5. QED BY <1>3, <1>4 DEF u, m, Updated

(* The masking store settles what the pages of a block that starts where   *)
(* the region does will be; of the other pages the TLB holds what it held. *)
LEMMA MaskMap ==
  ASSUME MapInv, MaskEntry
  PROVE  PathOfRegion' /\ FlatMap' /\ CacheInv'
<1> DEFINE s == RegionStart
           l == PageLevel
           e == tables[TranslationTable][BlockEntry]
           u == Updated(e, request, s, l)
<1>1. /\ pc = "fill" /\ pc' = "set"
      /\ UNCHANGED <<cached, RegionStart, IndexLevel, PageLevel, TranslationTable,
                     BlockEntry>>
  BY DEF MaskEntry, regionVars, walkVars
<1>2. /\ IInv /\ s \in Pages /\ l \in Level /\ Aligned(l, s) /\ request \in Requests
      /\ IndexLevel = l /\ PathOfRegion
  BY <1>1, RegionInPages DEF MapInv, PathOfRegion, IInv, PathInv
<1>3. /\ e \in Entry /\ Settled = tables
      /\ TableAt(tables', l, s) = TranslationTable /\ Reaches(tables', l, s)
      /\ \A p \in Pages :
           /\ SameBlock(l, p, s) =>
                /\ LeafIn(tables, p) = [level |-> l, entry |-> e]
                /\ LeafIn(tables', p).level = l
                /\ LeafIn(Settled', p) = [level |-> l, entry |-> u]
           /\ ~SameBlock(l, p, s) =>
                /\ LeafIn(tables', p) = LeafIn(tables, p)
                /\ LeafIn(Settled', p) = LeafIn(tables, p)
  BY MaskLeaves
<1>4. u.bits # TT_TYPE_INVALID /\ u.addr = s
  BY <1>2, <1>3, UpdatedMaps
<1> HIDE DEF e, u
<1>5. \A p \in Pages : BlockEntryAddress(l, p) = s <=> SameBlock(l, p, s)
  BY <1>1, <1>2, ChangingBlock
<1>6. ASSUME NEW p \in Pages
      PROVE  FlatLeaf(LeafIn(Settled', p), p)
  <2>1. CASE SameBlock(l, p, s)
    BY <1>3, <1>4, <1>5, <2>1 DEF FlatLeaf
  <2>2. CASE ~SameBlock(l, p, s)
    BY <1>3, <2>2 DEF MapInv, FlatMap
  <2>3. QED BY <2>1, <2>2
<1>7. FlatMap'
  BY <1>6 DEF FlatMap
<1>8. ASSUME cached # NotCached, NEW p \in Pages,
             BlockEntryAddress(cached.level, p) = cached.page
      PROVE  /\ LeafIn(tables', p).level >= cached.level
             /\ ~Changing(p)' => CachedLeaf(cached, LeafIn(tables', p))
  <2>1. LeafIn(tables, p).level >= cached.level /\ CachedLeaf(cached, LeafIn(tables, p))
    BY <1>1, <1>8 DEF MapInv, CacheInv, Changing, EntryChanges
  <2>2. Changing(p)' <=> SameBlock(l, p, s)
    BY <1>1, <1>5 DEF Changing, EntryChanges
  <2>3. QED BY <1>3, <2>1, <2>2
<1>9. CacheInv'
  BY <1>1, <1>8 DEF CacheInv
<1>10. PathOfRegion'
  BY <1>1, <1>2, <1>3 DEF PathOfRegion, Aligned
<1>11. QED BY <1>7, <1>9, <1>10

(* The second store settles the tables.                                    *)
LEMMA SetMap ==
  ASSUME MapInv, SetEntry
  PROVE  PathOfRegion' /\ FlatMap' /\ CacheInv'
<1>1. /\ pc = "set" /\ pc' = "update"
      /\ UNCHANGED <<cached, RegionStart, IndexLevel, PageLevel, TranslationTable,
                     BlockEntry>>
  BY DEF SetEntry, regionVars, walkVars
<1>2. IInv /\ PathOfRegion /\ IndexLevel = PageLevel
  BY <1>1 DEF MapInv, IInv, PathInv
<1>3. /\ Settled' = Settled
      /\ TableAt(tables', PageLevel, RegionStart) = TranslationTable
      /\ Reaches(tables', PageLevel, RegionStart)
      /\ \A p \in Pages :
           /\ LeafIn(tables', p).level = LeafIn(tables, p).level
           /\ ~SameBlock(PageLevel, p, RegionStart) =>
                LeafIn(tables', p) = LeafIn(tables, p)
  BY SetLeaves
<1>4. FlatMap'
  BY <1>3 DEF MapInv, FlatMap
<1>5. ASSUME cached # NotCached, NEW p \in Pages,
             BlockEntryAddress(cached.level, p) = cached.page
      PROVE  /\ LeafIn(tables', p).level >= cached.level
             /\ ~Changing(p)' => CachedLeaf(cached, LeafIn(tables', p))
  <2>1. /\ LeafIn(tables, p).level >= cached.level
        /\ ~Changing(p) => CachedLeaf(cached, LeafIn(tables, p))
    BY <1>5 DEF MapInv, CacheInv
  <2>2. /\ Changing(p)' <=> Changing(p)
        /\ Changing(p) <=> SameBlock(PageLevel, p, RegionStart)
    BY <1>1, <1>2, ChangingBlock DEF Changing, EntryChanges
  <2>3. QED BY <1>3, <2>1, <2>2
<1>6. CacheInv'
  BY <1>1, <1>5 DEF CacheInv
<1>7. PathOfRegion'
  BY <1>1, <1>2, <1>3 DEF PathOfRegion, Aligned
<1>8. QED BY <1>4, <1>6, <1>7

(* The maintenance at the end of a change leaves nothing in the TLB that   *)
(* covers a page of the entry.                                             *)
LEMMA UpdateMap ==
  ASSUME MapInv, UpdateEntry
  PROVE  FlatMap' /\ CacheInv'
<1> DEFINE s == RegionStart
           l == PageLevel
<1>1. /\ pc = "update" /\ pc' \in {"idle", "walk", "fill"}
      /\ cached' = Invalidate(cached, s) /\ tables' = tables
  BY DEF UpdateEntry, Returns, StartWalk
<1>2. /\ IInv /\ PathOfRegion /\ s \in Pages /\ l \in Level /\ FillPoint
  BY <1>1, RegionInPages, AtFillPoint DEF MapInv, PathOfRegion
<1>3. Settled = tables /\ Settled' = tables'
  BY <1>1, SettledIs
<1>4. FlatMap'
  BY <1>1, <1>3 DEF MapInv, FlatMap
<1>5. ASSUME cached' # NotCached
      PROVE  /\ cached # NotCached /\ cached' = cached
             /\ BlockEntryAddress(cached.level, s) # cached.page
  BY <1>1, <1>5 DEF Invalidate, Covers
<1>6. ASSUME cached' # NotCached, NEW p \in Pages,
             BlockEntryAddress(cached.level, p) = cached.page
      PROVE  /\ LeafIn(tables', p).level >= cached.level
             /\ CachedLeaf(cached, LeafIn(tables', p))
  <2>1. cached # NotCached /\ BlockEntryAddress(cached.level, s) # cached.page
    BY <1>5, <1>6
  <2>2. /\ LeafIn(tables, p).level >= cached.level /\ cached.level \in Level
        /\ ~Changing(p) => CachedLeaf(cached, LeafIn(tables, p))
    BY <1>6, <2>1 DEF MapInv, CacheInv, IInv, TypeOK
  <2>3. ~SameBlock(l, p, s)
    <3>0. SUFFICES ASSUME SameBlock(l, p, s) PROVE FALSE
      OBVIOUS
    <3>1. LeafIn(tables, p).level = l
      <4>1. PICK e : e = tables[TranslationTable][BlockEntry]
        OBVIOUS
      <4>2. PICK U : U = [tables EXCEPT ![TranslationTable][BlockEntry] = e]
        OBVIOUS
      <4>3. ~IsTable(l, e)
        BY <1>2, <4>1 DEF FillPoint
      <4>4. StoredAs(U, e)
        BY <1>1, <1>2, <4>2, <4>3, StoreLeaves
      <4>5. LeafIn(tables, p) = [level |-> l, entry |-> e]
        BY <3>0, <4>1, <4>4 DEF StoredAs
      <4>6. QED BY <4>5
    <3>2. cached.level <= l
      BY <2>2, <3>1, Sizes
    <3>3. SameBlock(cached.level, p, s)
      BY <1>2, <3>0, <2>2, <3>2, BlockOnPath
    <3>4. BlockEntryAddress(cached.level, p) = BlockEntryAddress(cached.level, s)
      BY <1>2, <2>2, <3>3, SameBlockAddress
    <3>5. QED BY <1>6, <2>1, <3>4
  <2>4. ~Changing(p)
    BY <1>1, <1>2, <2>3, ChangingBlock DEF Changing
  <2>5. QED BY <1>1, <2>2, <2>4
<1>7. CacheInv'
  BY <1>5, <1>6 DEF CacheInv
<1>8. QED BY <1>4, <1>7

(* The call goes on with the next page.                                    *)
LEMMA UpdatePath ==
  ASSUME MapInv, UpdateEntry
  PROVE  PathOfRegion'
<1> DEFINE s == RegionStart
           l == PageLevel
           size == BlockEntrySize(l)
           left == RegionLength - size
           next == BlockEntry + 1
<1>1. pc = "update" /\ tables' = tables /\ RegionStart' = s + size
  BY DEF UpdateEntry
<1>2. /\ IInv /\ s \in Pages /\ l \in Level /\ Aligned(l, s)
      /\ BlockEntry = IndexAt(l, s)
      /\ IndexLevel = l
  BY <1>1, RegionInPages DEF MapInv, PathOfRegion, IInv, PathInv
<1>3. /\ RegionLength \in Nat \ {0} /\ size \in Nat \ {0} /\ size <= RegionLength
      /\ s + RegionLength <= PageCount /\ PageCount \in Nat /\ s \in Nat
  BY <1>1, <1>2, RegionInPages
<1>4. \/ left = 0 /\ Returns("EFI_SUCCESS")
      \/ /\ left # 0 /\ left >= size /\ next <= LastBlockEntry
         /\ BlockEntry' = next /\ pc' = "fill"
         /\ UNCHANGED <<IndexLevel, PageLevel, TranslationTable>>
      \/ left # 0 /\ StartWalk(s + size, left)
  BY Zenon DEF UpdateEntry
<1>5. CASE left = 0 /\ Returns("EFI_SUCCESS")
  BY <1>5 DEF Returns, PathOfRegion
<1>6. ASSUME left # 0
      PROVE  left \in Nat \ {0} /\ s + size \in Pages
  <2> HIDE DEF size
  <2>1. QED BY <1>3, <1>6 DEF Pages
<1>7. CASE left # 0 /\ StartWalk(s + size, left)
  BY <1>1, <1>6, <1>7, PathStarts
<1>8. CASE /\ left # 0 /\ left >= size /\ next <= LastBlockEntry
           /\ BlockEntry' = next /\ pc' = "fill"
           /\ UNCHANGED <<IndexLevel, PageLevel, TranslationTable>>
  <2>1. next \in Indices(l)
    <3>1. BlockEntry \in 0 .. EntryCount(l) - 1 /\ EntryCount(l) \in Nat
      BY <1>2, Sizes DEF IInv, TypeOK, Indices
    <3>2. QED BY <1>8, <3>1 DEF Indices, LastBlockEntry
  <2>2. /\ Aligned(l, s + size) /\ IndexAt(l, s + size) = next
        /\ \A k \in Level : k < l => IndexAt(k, s + size) = IndexAt(k, s)
    BY <1>2, <1>6, <1>8, <2>1, NextBlock
  <2>3. TableAt(tables', l, s) = TranslationTable /\ Reaches(tables', l, s)
    BY <1>1, <1>2 DEF MapInv, PathOfRegion
  <2> DEFINE q == s + size
  <2>4. SamePath(l, q, s)
    BY <2>2 DEF SamePath
  <2> HIDE DEF q, size
  <2>5. TableAt(tables', l, q) = TranslationTable /\ Reaches(tables', l, q)
    BY <1>2, <2>3, <2>4, PathShared
  <2>6. QED BY <1>1, <1>2, <1>6, <1>8, <2>2, <2>5 DEF PathOfRegion, Aligned, q
<1>9. QED BY <1>4, <1>5, <1>7, <1>8

(* The processor caches what its walk finds.                               *)
LEMMA CacheMap ==
  ASSUME MapInv, NEW p \in Pages, CpuCaches(p)
  PROVE  PathOfRegion' /\ FlatMap' /\ CacheInv'
<1> DEFINE leaf == LeafIn(tables, p)
<1>1. /\ leaf.entry.bits # TT_TYPE_INVALID
      /\ cached' = [level |-> leaf.level, page |-> BlockEntryAddress(leaf.level, p),
                    entry |-> leaf.entry]
      /\ UNCHANGED <<tables, request, pc, regionVars, walkVars>>
  <2>1. Leaf(p) = leaf
    BY DEF Leaf
  <2>2. QED BY <2>1 DEF CpuCaches
<1>2. PathOfRegion'
  BY <1>1 DEF MapInv, PathOfRegion, regionVars, walkVars
<1>3. FlatMap' /\ \A q : Changing(q)' <=> Changing(q)
  <2>1. Settled' = Settled
    BY <1>1 DEF Settled, regionVars, walkVars
  <2>2. QED
    BY <1>1, <2>1 DEF MapInv, FlatMap, Changing, EntryChanges, regionVars, walkVars
<1>4. \A q \in Pages : ~Changing(q) => FlatLeaf(LeafIn(tables, q), q)
  BY SettledLeaf DEF MapInv, FlatMap
<1>5. PICK level \in Level : EndsAt(tables, level, p)
  BY LeafExists
<1>6. leaf.level = level
  BY <1>5, LeafAt
<1>7. ASSUME NEW q \in Pages, BlockEntryAddress(level, q) = BlockEntryAddress(level, p)
      PROVE  LeafIn(tables, q) = leaf
  <2>1. SameBlock(level, p, q)
    BY <1>7, SameBlockAddress
  <2>2. QED BY <1>5, <2>1, LeafShared
<1>8. ASSUME NEW q \in Pages, BlockEntryAddress(level, q) = BlockEntryAddress(level, p)
      PROVE  /\ LeafIn(tables, q).level >= cached'.level
             /\ ~Changing(q) => CachedLeaf(cached', LeafIn(tables, q))
  <2> HIDE DEF leaf
  <2>1. LeafIn(tables, q) = leaf
    BY <1>7, <1>8
  <2>2. /\ cached'.level = level /\ cached'.entry = leaf.entry
        /\ cached'.page = BlockEntryAddress(level, q)
    BY <1>1, <1>6, <1>8
  <2>3. ~Changing(q) => leaf.entry.addr = BlockEntryAddress(level, q)
    BY <1>1, <1>4, <1>6, <2>1 DEF FlatLeaf
  <2>4. QED BY <1>1, <1>6, <2>1, <2>2, <2>3, Sizes DEF CachedLeaf, SameAttributes
<1> HIDE DEF leaf
<1>9. cached'.page = BlockEntryAddress(level, p) /\ cached'.level = level
  BY <1>1, <1>6
<1>10. CacheInv'
  BY <1>1, <1>3, <1>8, <1>9 DEF CacheInv
<1>11. QED BY <1>2, <1>3, <1>10

(* Every step keeps the map flat and the TLB true.                         *)
LEMMA MapInductive == MapInv /\ [Next]_vars => MapInv'
<1> SUFFICES ASSUME MapInv, [Next]_vars
             PROVE  MapInv'
  OBVIOUS
<1>1. IInv'
  BY InvInductive DEF MapInv
<1>2. ASSUME UNCHANGED <<tables, cached>>,
             pc \notin {"set", "update"}, pc' \notin {"set", "update"}
      PROVE  FlatMap' /\ CacheInv'
  BY <1>2, SameTables DEF MapInv
<1>3. SUFFICES PathOfRegion' /\ FlatMap' /\ CacheInv'
  BY <1>1 DEF MapInv
<1>4. ASSUME NEW r \in Requests, NEW s \in Pages, NEW n \in 1 .. PageCount,
             UpdateRegionMapping(r, s, n)
      PROVE  PathOfRegion' /\ FlatMap' /\ CacheInv'
  <2>1. /\ UNCHANGED <<tables, cached>> /\ RegionStart' = s /\ StartWalk(s, n)
        /\ pc = "idle" /\ pc' = "walk"
    BY <1>4 DEF UpdateRegionMapping, StartWalk
  <2>2. n \in Nat \ {0}
    BY Sizes
  <2>3. QED BY <1>2, <2>1, <2>2, PathStarts
<1>5. CASE GoToNextTable
  <2>1. UNCHANGED <<tables, cached>> /\ pc = "walk" /\ pc' = "walk"
    BY <1>5 DEF GoToNextTable
  <2>2. QED BY <1>2, <1>5, <2>1, NextTablePath
<1>6. CASE SplitBlock
  BY <1>6, SplitMap
<1>7. CASE NewTable
  BY <1>7, NewTableMap
<1>8. CASE AllocatePagesFails
  <2>1. UNCHANGED <<tables, cached>> /\ pc = "walk" /\ pc' = "idle"
    BY <1>8 DEF AllocatePagesFails, Returns
  <2>2. PathOfRegion'
    BY <2>1 DEF PathOfRegion
  <2>3. QED BY <1>2, <2>1, <2>2
<1>9. CASE FoundEntry
  <2>1. /\ UNCHANGED <<tables, cached, RegionStart, IndexLevel, PageLevel,
                       TranslationTable>>
        /\ pc = "walk" /\ pc' = "fill" /\ IndexLevel = PageLevel
        /\ BlockEntry' = IndexAt(IndexLevel, RegionStart)
    BY <1>9 DEF FoundEntry, regionVars
  <2>2. PathOfRegion'
    BY <2>1 DEF MapInv, PathOfRegion
  <2>3. QED BY <1>2, <2>1, <2>2
<1>10. CASE MaskEntry
  BY <1>10, MaskMap
<1>11. CASE SetEntry
  BY <1>11, SetMap
<1>12. CASE UpdateEntry
  BY <1>12, UpdateMap, UpdatePath
<1>13. CASE ArmEnableMmu
  <2>1. UNCHANGED <<tables, cached, pc, regionVars, walkVars>> /\ pc = "idle"
    BY <1>13 DEF ArmEnableMmu
  <2>2. PathOfRegion'
    BY <2>1 DEF MapInv, PathOfRegion, regionVars, walkVars
  <2>3. QED BY <1>2, <2>1, <2>2
<1>14. ASSUME NEW p \in Pages, CpuCaches(p)
       PROVE  PathOfRegion' /\ FlatMap' /\ CacheInv'
  BY <1>14, CacheMap
<1>15. CASE UNCHANGED vars
  <2>1. UNCHANGED <<tables, cached, request, pc, RegionStart, IndexLevel, PageLevel,
                    TranslationTable, BlockEntry>>
    BY <1>15 DEF vars, regionVars, walkVars
  <2>2. Settled' = Settled /\ \A p : Changing(p)' <=> Changing(p)
    BY <2>1 DEF Settled, Changing, EntryChanges
  <2>3. PathOfRegion' /\ FlatMap' /\ CacheInv'
    BY <2>1, <2>2 DEF MapInv, PathOfRegion, FlatMap, CacheInv
  <2>4. QED BY <2>3
<1>16. QED
  BY <1>4, <1>5, <1>6, <1>7, <1>8, <1>9, <1>10, <1>11, <1>12, <1>13, <1>14, <1>15
  DEF Next, Walk, Fill

(* The path, the flat map and the cached translation are right in every    *)
(* behaviour.                                                              *)
LEMMA MapHolds == Spec => []MapInv
BY MapInit, MapInductive, PTL DEF Spec

(* No stale translation: for every page the TLB covers it holds what the   *)
(* tables say, though blocks are split and tables added without            *)
(* invalidating anything, and though the processor may walk the tables     *)
(* between the two stores to an entry.  The pages of the one entry that is *)
(* under change, from its first store to the end of its maintenance, are   *)
(* excepted, and only they.                                                *)
THEOREM NoStaleTranslationHolds == Spec => []NoStaleTranslation
<1>1. MapInv => NoStaleTranslation
  <2> SUFFICES ASSUME MapInv, cached # NotCached, NEW p \in Pages, Covers(cached, p),
                      ~Changing(p)
               PROVE  LET leaf == Leaf(p)
                      IN /\ [leaf.entry EXCEPT !.addr = 0, !.bits = 0] =
                              [cached.entry EXCEPT !.addr = 0, !.bits = 0]
                         /\ leaf.entry.addr + (p % BlockEntrySize(leaf.level)) =
                              cached.entry.addr + (p % BlockEntrySize(cached.level))
    BY Zenon DEF NoStaleTranslation
  <2> DEFINE leaf == LeafIn(tables, p)
  <2>1. /\ cached \in [level : Level, page : Pages, entry : Entry]
        /\ leaf.level \in Level /\ leaf.entry \in Entry /\ Leaf(p) = leaf
    BY SettledLeaf DEF MapInv, IInv, TypeOK, Leaf
  <2>2. BlockEntryAddress(cached.level, p) = cached.page
    BY DEF Covers
  <2>3. CachedLeaf(cached, leaf) /\ cached.entry.addr = cached.page
    BY <2>2 DEF MapInv, CacheInv, CachedLeaf
  <2>4. leaf.entry.addr = BlockEntryAddress(leaf.level, p)
    <3>1. LeafIn(Settled, p) = leaf
      BY SettledLeaf DEF MapInv
    <3>2. FlatLeaf(leaf, p)
      BY <3>1 DEF MapInv, FlatMap
    <3>3. QED BY <2>3, <3>2 DEF FlatLeaf, CachedLeaf
  <2>5. p \in Nat /\ cached.level \in Level /\ cached.entry \in Entry
    BY <2>1, Sizes DEF Pages
  <2> HIDE DEF leaf
  <2>6. /\ leaf.entry.addr + (p % BlockEntrySize(leaf.level)) = p
        /\ cached.entry.addr + (p % BlockEntrySize(cached.level)) = p
    BY <2>1, <2>2, <2>3, <2>4, <2>5, BlockOfPage
  <2>7. ASSUME NEW d \in Entry, NEW e \in Entry, SameAttributes(d, e)
        PROVE  [d EXCEPT !.addr = 0, !.bits = 0] = [e EXCEPT !.addr = 0, !.bits = 0]
    BY <2>7 DEF Entry, SameAttributes
  <2>8. [leaf.entry EXCEPT !.addr = 0, !.bits = 0] =
          [cached.entry EXCEPT !.addr = 0, !.bits = 0]
    BY <2>1, <2>3, <2>5, <2>7 DEF CachedLeaf
  <2>9. QED BY <2>1, <2>6, <2>8
<1>2. QED BY <1>1, MapHolds, PTL

-----------------------------------------------------------------------------
(* The refinement.                                                         *)
\* What the refinement takes for the abstract map and the abstract call.
MapNow == [p \in Pages |->
             LET leaf == LeafIn(Settled, p)
                 e    == leaf.entry
             IN IF e.bits = TT_TYPE_INVALID \/ ~e.af
                  THEN [type |-> "none"]
                  ELSE [out  |-> e.addr + (p % BlockEntrySize(leaf.level)),
                        type |-> e.type, ro |-> e.ro, xn |-> e.xn]]

TodoNow == IF pc = "idle" THEN [len |-> 0]
           ELSE [request |-> request, start |-> RegionStart, len |-> RegionLength]

ChangingNow == IF EntryChanges THEN BlockEntrySize(PageLevel) ELSE 0

\* What a page's entry maps it to: itself, or nothing.
Mapping(e, p) == IF e.af THEN Map!Mapped(p, e.type, e.ro, e.xn) ELSE Map!Unmapped

(* While the tables are a flat map, each page is mapped to itself or not   *)
(* at all, with its entry's attributes.                                    *)
LEMMA MapIsFlat ==
  ASSUME MapInv
  PROVE  MapNow = [p \in Pages |-> Mapping(LeafIn(Settled, p).entry, p)]
<1>1. ASSUME NEW p \in Pages
      PROVE  LET leaf == LeafIn(Settled, p)
                 e    == leaf.entry
             IN (IF e.bits = TT_TYPE_INVALID \/ ~e.af
                   THEN [type |-> "none"]
                   ELSE [out  |-> e.addr + (p % BlockEntrySize(leaf.level)),
                         type |-> e.type, ro |-> e.ro, xn |-> e.xn])
                  = Mapping(LeafIn(Settled, p).entry, p)
  <2> DEFINE leaf == LeafIn(Settled, p)
             e    == leaf.entry
  <2>1. leaf.level \in Level /\ e \in Entry /\ p \in Nat
    BY SettledLeaf, Sizes DEF Pages, MapInv
  <2>2. FlatLeaf(leaf, p)
    BY DEF MapInv, FlatMap
  <2>3. e.af \in BOOLEAN
    BY <2>1 DEF Entry
  <2> HIDE DEF leaf
  <2>4. CASE ~e.af
    BY <2>1, <2>4 DEF Mapping, Map!Unmapped, leaf
  <2>5. CASE e.af
    <3>1. e.bits # TT_TYPE_INVALID /\ e.addr = BlockEntryAddress(leaf.level, p)
      BY <2>2, <2>5 DEF FlatLeaf
    <3>2. e.addr + (p % BlockEntrySize(leaf.level)) = p
      BY <2>1, <3>1, BlockOfPage
    <3>3. Mapping(e, p) = [out |-> p, type |-> e.type, ro |-> e.ro, xn |-> e.xn]
      BY <2>5 DEF Mapping, Map!Mapped
    <3>4. QED BY <2>1, <2>5, <3>1, <3>2, <3>3 DEF leaf
  <2>6. QED BY <2>4, <2>5
<1>2. QED BY <1>1 DEF MapNow

(* A request changes an entry as its caller asks.                          *)
LEMMA UpdatedIsApplied ==
  ASSUME NEW e \in Entry, NEW r \in Requests, NEW s, NEW p, NEW level \in Level
  PROVE  Mapping(Updated(e, r, s, level), p) = Map!Applied(r, p, Mapping(e, p))
<1> DEFINE u == Updated(e, r, s, level)
<1>1. /\ e.type \in Types /\ e.type # "none"
      /\ e.af \in BOOLEAN /\ e.ro \in BOOLEAN /\ e.xn \in BOOLEAN
  BY TypesAssumption DEF Entry
<1>2. /\ u.type = IF "type" \in BlockEntryMask(r) THEN e.type ELSE r.type
      /\ u.af = (Attributes(r).af \/ ("af" \in BlockEntryMask(r) /\ e.af))
      /\ u.ro = (Attributes(r).ro \/ ("ro" \in BlockEntryMask(r) /\ e.ro))
      /\ u.xn = (Attributes(r).xn \/ ("xn" \in BlockEntryMask(r) /\ e.xn))
  <2> DEFINE m == Masked(e, r)
  <2>1. /\ m.type = IF "type" \in BlockEntryMask(r) THEN e.type ELSE "Device"
        /\ m.af = ("af" \in BlockEntryMask(r) /\ e.af)
        /\ m.ro = ("ro" \in BlockEntryMask(r) /\ e.ro)
        /\ m.xn = ("xn" \in BlockEntryMask(r) /\ e.xn)
    BY DEF Masked
  <2> HIDE DEF m
  <2>2. /\ u.type = IF r.type = "none" THEN m.type ELSE r.type
        /\ u.af = (Attributes(r).af \/ m.af)
        /\ u.ro = (Attributes(r).ro \/ m.ro)
        /\ u.xn = (Attributes(r).xn \/ m.xn)
    BY DEF Updated, Ored, m
  <2>3. "type" \in BlockEntryMask(r) <=> r.type = "none"
    BY RequestsAssumption DEF BlockEntryMask, KeptByAttributes, Apis
  <2> HIDE DEF u
  <2>4. QED BY <2>1, <2>2, <2>3
<1>3. /\ Attributes(r).af = (r.type # "none")
      /\ Attributes(r).ro = (r.api = "ArmSetMemoryRegionReadOnly" \/ r.ro)
      /\ Attributes(r).xn = (r.api = "ArmSetMemoryRegionNoExec" \/ r.xn
                               \/ r.type = "Device")
  BY DEF Attributes
<1>4. /\ r.api \in Apis /\ r.ro \in BOOLEAN /\ r.xn \in BOOLEAN
      /\ r.api = "FillTranslationTable" => r.type # "none"
      /\ r.api \notin {"FillTranslationTable", "ArmSetMemoryAttributes"} =>
           r.type = "none" /\ ~r.ro /\ ~r.xn
  BY RequestsAssumption
<1> HIDE DEF u
<1>5. CASE r.type # "none"
  <2>1. r.api \in {"FillTranslationTable", "ArmSetMemoryAttributes"}
    BY <1>4, <1>5
  <2>2. BlockEntryMask(r) = {}
    BY <1>5, <2>1 DEF BlockEntryMask, KeptByAttributes
  <2>3. /\ u.type = r.type /\ u.af /\ u.ro = r.ro
        /\ u.xn = (r.xn \/ r.type = "Device")
    BY <1>2, <1>3, <1>4, <1>5, <2>1, <2>2
  <2>4. Mapping(u, p) = Map!Mapped(p, r.type, r.ro, r.xn \/ r.type = "Device")
    BY <2>3, Zenon DEF Mapping
  <2>5. QED BY <1>5, <2>4, Zenon DEF Map!Applied, u
<1>6. CASE r.type = "none"
  <2>1. {"type", "af"} \subseteq BlockEntryMask(r) /\ r.api # "FillTranslationTable"
    BY <1>4, <1>6 DEF BlockEntryMask, KeptByAttributes, Apis
  <2>2. u.type = e.type /\ u.af = e.af
    BY <1>1, <1>2, <1>3, <1>6, <2>1
  <2>3. CASE ~e.af
    <3>1. Mapping(u, p) = Map!Unmapped /\ Mapping(e, p) = Map!Unmapped
      BY <2>2, <2>3, Zenon DEF Mapping
    <3>2. QED BY <1>6, <3>1, Zenon DEF Map!Applied, u
  <2>4. CASE e.af
    <3> DEFINE old == Map!Mapped(p, e.type, e.ro, e.xn)
    <3>1. Mapping(e, p) = old /\ Mapping(u, p) = Map!Mapped(p, e.type, u.ro, u.xn)
      BY <2>2, <2>4, Zenon DEF Mapping
    <3>2. old # Map!Unmapped
      BY <1>1 DEF Map!Mapped, Map!Unmapped
    <3>3. Map!Applied(r, p, old) = Map!Permissions(r, old)
      BY <1>6, <3>2, Zenon DEF Map!Applied
    <3>4. /\ u.ro = (r.api = "ArmSetMemoryRegionReadOnly" \/ r.ro
                       \/ ("ro" \in BlockEntryMask(r) /\ e.ro))
          /\ u.xn = (r.api = "ArmSetMemoryRegionNoExec" \/ r.xn
                       \/ ("xn" \in BlockEntryMask(r) /\ e.xn))
      BY <1>2, <1>3, <1>6
    <3> HIDE DEF old
    <3>5. Map!Permissions(r, old) = Map!Mapped(p, e.type, u.ro, u.xn)
      <4>1. CASE r.api = "ArmSetMemoryAttributes"
        <5>1. u.ro = r.ro /\ u.xn = r.xn
          BY <1>1, <1>4, <1>6, <3>4, <4>1 DEF BlockEntryMask, KeptByAttributes
        <5>2. Map!Permissions(r, old) = [old EXCEPT !.ro = r.ro, !.xn = r.xn]
          BY <4>1 DEF Map!Permissions
        <5>3. QED BY <5>1, <5>2 DEF old, Map!Mapped
      <4>2. CASE r.api = "ArmSetMemoryRegionNoExec"
        <5>1. u.ro = e.ro /\ u.xn = TRUE
          BY <1>1, <1>4, <3>4, <4>2 DEF BlockEntryMask
        <5>2. Map!Permissions(r, old) = [old EXCEPT !.xn = TRUE]
          BY <4>2 DEF Map!Permissions
        <5>3. QED BY <5>1, <5>2 DEF old, Map!Mapped
      <4>3. CASE r.api = "ArmClearMemoryRegionNoExec"
        <5>1. u.ro = e.ro /\ u.xn = FALSE
          BY <1>1, <1>4, <3>4, <4>3 DEF BlockEntryMask
        <5>2. Map!Permissions(r, old) = [old EXCEPT !.xn = FALSE]
          BY <4>3 DEF Map!Permissions
        <5>3. QED BY <5>1, <5>2 DEF old, Map!Mapped
      <4>4. CASE r.api = "ArmSetMemoryRegionReadOnly"
        <5>1. u.ro = TRUE /\ u.xn = e.xn
          BY <1>1, <1>4, <3>4, <4>4 DEF BlockEntryMask
        <5>2. Map!Permissions(r, old) = [old EXCEPT !.ro = TRUE]
          BY <4>4 DEF Map!Permissions
        <5>3. QED BY <5>1, <5>2 DEF old, Map!Mapped
      <4>5. CASE r.api = "ArmClearMemoryRegionReadOnly"
        <5>1. u.ro = FALSE /\ u.xn = e.xn
          BY <1>1, <1>4, <3>4, <4>5 DEF BlockEntryMask
        <5>2. Map!Permissions(r, old) = [old EXCEPT !.ro = FALSE]
          BY <4>5 DEF Map!Permissions
        <5>3. QED BY <5>1, <5>2 DEF old, Map!Mapped
      <4>6. QED BY <1>4, <2>1, <4>1, <4>2, <4>3, <4>4, <4>5 DEF Apis
    <3>6. QED BY <3>1, <3>3, <3>5, Zenon DEF u
  <2>5. QED BY <1>1, <2>3, <2>4
<1>7. QED BY <1>5, <1>6

\* A call begins, and leaves the map as it is.
LEMMA AbstractCall ==
  ASSUME TodoNow = Map!NoCall,
         TodoNow' \in [request : Requests, start : Pages, len : 1 .. PageCount],
         TodoNow'.start + TodoNow'.len <= PageCount,
         MapNow' = MapNow, ChangingNow' = ChangingNow, status' = status
  PROVE  Map!Next
<1>1. Map!Call
  BY Zenon DEF Map!Call, Map!NoCall, Map!Pages, Pages, MapNow, TodoNow, ChangingNow
<1>2. QED BY <1>1, Zenon DEF Map!Next

(* The change of the next pages to the attributes asked for begins ...     *)
LEMMA AbstractBegin ==
  ASSUME NEW k \in 1 .. PageCount,
         TodoNow # Map!NoCall, ChangingNow = 0, k <= TodoNow.len,
         ChangingNow' = k,
         MapNow' = [p \in Pages |->
                      IF p \in TodoNow.start .. TodoNow.start + k - 1
                        THEN Map!Applied(TodoNow.request, p, MapNow[p])
                        ELSE MapNow[p]],
         TodoNow' = TodoNow, status' = status
  PROVE  Map!Next
<1>1. Map!Begin(k)
  BY Zenon DEF Map!Begin, Map!NoCall, Map!Pages, Pages, MapNow, TodoNow, ChangingNow
<1>2. QED BY <1>1, Zenon DEF Map!Next

(* ... and ends.                                                           *)
LEMMA AbstractEnd ==
  ASSUME ChangingNow # 0, ChangingNow' = 0,
         IF ChangingNow = TodoNow.len
           THEN TodoNow' = Map!NoCall /\ status' = "EFI_SUCCESS"
           ELSE /\ TodoNow' = [TodoNow EXCEPT !.start = @ + ChangingNow,
                                             !.len = @ - ChangingNow]
                /\ UNCHANGED status,
         MapNow' = MapNow
  PROVE  Map!Next
<1>1. Map!End
  BY Zenon DEF Map!End, Map!NoCall, MapNow, TodoNow, ChangingNow
<1>2. QED BY <1>1, Zenon DEF Map!Next

(* The call ends without memory for a table.                               *)
LEMMA AbstractFail ==
  ASSUME TodoNow # Map!NoCall, TodoNow' = Map!NoCall,
         ChangingNow = 0, ChangingNow' = 0,
         status' = "EFI_OUT_OF_RESOURCES", MapNow' = MapNow
  PROVE  Map!Next
<1>1. Map!Fail
  BY Zenon DEF Map!Fail, Map!NoCall, MapNow, TodoNow, ChangingNow
<1>2. QED BY <1>1, Zenon DEF Map!Next

(* Nothing the abstract map shows has changed.                             *)
LEMMA AbstractStutter ==
  ASSUME TodoNow' = TodoNow, MapNow' = MapNow, ChangingNow' = ChangingNow,
         status' = status
  PROVE  UNCHANGED Map!mapVars
BY Zenon DEF Map!mapVars, MapNow, TodoNow, ChangingNow

(* The abstract map is empty at first.                                     *)
LEMMA AbstractInit ==
  ASSUME MapNow = [p \in Pages |-> Map!Unmapped], TodoNow = Map!NoCall,
         ChangingNow = 0, status = "none"
  PROVE  Map!Init
BY Zenon DEF Map!Init, MapNow, TodoNow, ChangingNow, Map!Pages, Pages

(* The map a step leads to is as flat.                                     *)
LEMMA MapOfNext ==
  ASSUME MapInv'
  PROVE  MapNow' = [p \in Pages |-> Mapping(LeafIn(Settled', p).entry, p)]
<1>1. (MapInv => MapNow = [p \in Pages |-> Mapping(LeafIn(Settled, p).entry, p)])'
  BY MapIsFlat, PTL
<1>2. QED BY <1>1

(* The map stays where every page keeps its entry's attributes.            *)
LEMMA MapKept ==
  ASSUME MapInv, MapInv',
         \A p \in Pages : Mapping(LeafIn(Settled', p).entry, p)
                            = Mapping(LeafIn(Settled, p).entry, p)
  PROVE  MapNow' = MapNow
<1>1. MapNow = [p \in Pages |-> Mapping(LeafIn(Settled, p).entry, p)]
  BY MapIsFlat
<1>2. QED BY <1>1, MapOfNext

(* The first store has not been made yet.                                  *)
LEMMA InitRefines == Init => Map!Init
<1> SUFFICES ASSUME Init
             PROVE  Map!Init
  OBVIOUS
<1>1. MapInv /\ Settled = tables
  BY MapInit DEF Init, Settled
<1>2. MapNow = [p \in Pages |-> Mapping(LeafIn(tables, p).entry, p)]
  BY <1>1, MapIsFlat
<1>3. ASSUME NEW p \in Pages
      PROVE  Mapping(LeafIn(tables, p).entry, p) = Map!Unmapped
  <2>1. IndexAt(1, p) \in Indices(1)
    BY IndexInTable, Sizes DEF Pages
  <2>2. EntryAt(tables, 1, p) = ZeroEntry
    BY <2>1, Path DEF Init, ZeroTable, EntryAt, RootTableLevel
  <2>3. ~IsTable(1, ZeroEntry) /\ ZeroEntry.af = FALSE
    BY DEF ZeroEntry, IsTable, TT_TYPE_INVALID, TT_TYPE_TABLE_ENTRY
  <2>4. EndsAt(tables, 1, p)
    BY <2>2, <2>3, Path DEF EndsAt
  <2>5. LeafIn(tables, p).entry = ZeroEntry
    BY <2>2, <2>4, LeafAt, Sizes
  <2>6. QED BY <2>3, <2>5 DEF Mapping
<1>4. MapNow = [p \in Pages |-> Map!Unmapped]
  BY <1>2, <1>3
<1>5. TodoNow = Map!NoCall /\ ChangingNow = 0 /\ status = "none"
  BY DEF Init, TodoNow, ChangingNow, EntryChanges, Map!NoCall
<1>6. QED BY <1>4, <1>5, AbstractInit

\* A call is not mistaken for none: its region is not empty.
LEMMA Running ==
  ASSUME IInv, pc # "idle"
  PROVE  /\ TodoNow = [request |-> request, start |-> RegionStart, len |-> RegionLength]
         /\ TodoNow # Map!NoCall
         /\ TodoNow.request = request /\ TodoNow.start = RegionStart
         /\ TodoNow.len = RegionLength
<1>1. TodoNow = [request |-> request, start |-> RegionStart, len |-> RegionLength]
  BY DEF TodoNow
<1>2. RegionLength # 0
  BY RegionInPages
<1>3. TodoNow.len = RegionLength /\ Map!NoCall.len = 0
  BY <1>1 DEF Map!NoCall
<1>4. QED BY <1>1, <1>2, <1>3

(* The first store to an entry begins the change of the pages of its block.*)
LEMMA MaskRefines ==
  ASSUME MapInv, MapInv', MaskEntry
  PROVE  Map!Next
<1> DEFINE s == RegionStart
           l == PageLevel
           size == BlockEntrySize(l)
           e == tables[TranslationTable][BlockEntry]
           u == Updated(e, request, s, l)
<1>1. /\ pc = "fill" /\ pc' = "set"
      /\ UNCHANGED <<request, RegionStart, RegionLength, PageLevel, status>>
  BY DEF MaskEntry, regionVars, walkVars
<1>2. /\ IInv /\ s \in Pages /\ l \in Level /\ Aligned(l, s) /\ request \in Requests
  BY <1>1, RegionInPages DEF MapInv, PathOfRegion
<1>3. /\ RegionLength \in Nat \ {0} /\ size \in Nat \ {0} /\ size <= RegionLength
      /\ s + RegionLength <= PageCount /\ PageCount \in Nat /\ s \in Nat
  BY <1>1, <1>2, RegionInPages
<1>4. /\ TodoNow # Map!NoCall /\ TodoNow' = TodoNow
      /\ TodoNow.request = request /\ TodoNow.start = s /\ TodoNow.len = RegionLength
  BY <1>1, <1>2, Running DEF TodoNow
<1>5. /\ e \in Entry /\ Settled = tables
      /\ \A p \in Pages :
           /\ SameBlock(l, p, s) =>
                /\ LeafIn(tables, p) = [level |-> l, entry |-> e]
                /\ LeafIn(Settled', p) = [level |-> l, entry |-> u]
           /\ ~SameBlock(l, p, s) => LeafIn(Settled', p) = LeafIn(tables, p)
  BY MaskLeaves
<1>6. \A p \in Pages : Mapping(u, p) = Map!Applied(request, p, Mapping(e, p))
  BY <1>2, <1>5, UpdatedIsApplied
<1> HIDE DEF e, u
<1>7. \A p \in Pages : SameBlock(l, p, s) <=> p \in s .. s + size - 1
  BY <1>2, AlignedBlock
<1>8. MapNow = [p \in Pages |-> Mapping(LeafIn(tables, p).entry, p)]
  BY <1>5, MapIsFlat
<1>9. MapNow' = [p \in Pages |-> Mapping(LeafIn(Settled', p).entry, p)]
  BY MapOfNext
<1>10. MapNow' = [p \in Pages |->
                    IF p \in TodoNow.start .. TodoNow.start + size - 1
                      THEN Map!Applied(TodoNow.request, p, MapNow[p])
                      ELSE MapNow[p]]
  <2> HIDE DEF size
  <2>1. ASSUME NEW p \in Pages
        PROVE  Mapping(LeafIn(Settled', p).entry, p)
                 = IF p \in s .. s + size - 1
                     THEN Map!Applied(request, p, MapNow[p]) ELSE MapNow[p]
    <3>1. MapNow[p] = Mapping(LeafIn(tables, p).entry, p)
      BY <1>8
    <3>2. CASE SameBlock(l, p, s)
      <4>1. LeafIn(tables, p).entry = e /\ LeafIn(Settled', p).entry = u
        BY <1>5, <3>2
      <4>2. p \in s .. s + size - 1
        BY <1>7, <3>2
      <4>3. QED BY <1>6, <3>1, <4>1, <4>2, Zenon
    <3>3. CASE ~SameBlock(l, p, s)
      <4>1. p \notin s .. s + size - 1
        BY <1>7, <3>3
      <4>2. LeafIn(Settled', p) = LeafIn(tables, p)
        BY <1>5, <3>3
      <4>3. QED BY <3>1, <4>1, <4>2, Zenon
    <3>4. QED BY <3>2, <3>3
  <2>2. QED BY <1>4, <1>9, <2>1
<1>11. ChangingNow = 0 /\ ChangingNow' = size
  BY <1>1 DEF ChangingNow, EntryChanges
<1>12. size \in 1 .. PageCount /\ size <= TodoNow.len
  <2> HIDE DEF size
  <2>1. QED BY <1>3, <1>4
<1>13. QED
  <2> HIDE DEF size
  <2>1. QED BY <1>1, <1>4, <1>10, <1>11, <1>12, AbstractBegin

(* The end of the maintenance of an entry is the end of that change.       *)
LEMMA UpdateRefines ==
  ASSUME MapInv, MapInv', UpdateEntry
  PROVE  Map!Next
<1> DEFINE s == RegionStart
           size == BlockEntrySize(PageLevel)
           left == RegionLength - size
<1>1. /\ pc = "update" /\ RegionStart' = s + size /\ RegionLength' = left
      /\ UNCHANGED <<tables, request>>
  BY DEF UpdateEntry
<1>2. IInv /\ PageLevel \in Level
  BY DEF MapInv, IInv, TypeOK
<1>3. /\ RegionLength \in Nat \ {0} /\ size \in Nat \ {0} /\ size <= RegionLength
      /\ s \in Nat
  BY <1>1, <1>2, RegionInPages
<1>4. /\ TodoNow = [request |-> request, start |-> s, len |-> RegionLength]
      /\ TodoNow.len = RegionLength /\ TodoNow.start = s
  BY <1>1, <1>2, Running
<1>5. \/ left = 0 /\ Returns("EFI_SUCCESS")
      \/ left # 0 /\ UNCHANGED status /\ pc' \in {"fill", "walk"}
  <2>1. \/ left = 0 /\ Returns("EFI_SUCCESS")
        \/ left # 0 /\ UNCHANGED status /\ pc' = "fill"
        \/ left # 0 /\ UNCHANGED status /\ StartWalk(s + size, left)
    BY Zenon DEF UpdateEntry
  <2>2. QED BY <2>1 DEF StartWalk
<1>6. pc' \in {"idle", "fill", "walk"}
  BY <1>5 DEF Returns
<1>7. ChangingNow = size /\ ChangingNow' = 0
  BY <1>1, <1>6 DEF ChangingNow, EntryChanges
<1>8. MapNow' = MapNow
  <2>1. Settled' = Settled
    BY <1>1, <1>6, SettledIs
  <2>2. QED BY <2>1, MapKept
<1>9. size = RegionLength <=> left = 0
  <2> HIDE DEF size
  <2>1. QED BY <1>3
<1>10. IF size = TodoNow.len
         THEN TodoNow' = Map!NoCall /\ status' = "EFI_SUCCESS"
         ELSE /\ TodoNow' = [TodoNow EXCEPT !.start = @ + size, !.len = @ - size]
              /\ UNCHANGED status
  <2>1. CASE left = 0
    <3>1. Returns("EFI_SUCCESS")
      BY <1>5, <2>1
    <3>2. pc' = "idle" /\ status' = "EFI_SUCCESS"
      BY <3>1 DEF Returns
    <3>3. TodoNow' = Map!NoCall
      BY <3>2 DEF TodoNow, Map!NoCall
    <3>4. QED BY <1>4, <1>9, <2>1, <3>2, <3>3
  <2>2. CASE left # 0
    <3>1. UNCHANGED status /\ pc' # "idle"
      BY <1>5, <2>2
    <3>2. TodoNow' = [request |-> request, start |-> s + size, len |-> left]
      BY <1>1, <3>1 DEF TodoNow
    <3> HIDE DEF size
    <3>3. [TodoNow EXCEPT !.start = @ + size, !.len = @ - size]
            = [request |-> request, start |-> s + size, len |-> left]
      <4>1. PICK t : t = [[request |-> request, start |-> s, len |-> RegionLength]
                            EXCEPT !.start = s + size, !.len = left]
        BY Zenon
      <4>2. t = [request |-> request, start |-> s + size, len |-> left]
        BY <4>1
      <4>3. [TodoNow EXCEPT !.start = s + size, !.len = RegionLength - size] = t
        BY <1>4, <4>1, Zenon
      <4>4. QED BY <1>4, <4>2, <4>3, Zenon
    <3>4. QED BY <1>4, <1>9, <2>2, <3>1, <3>2, <3>3
  <2>3. QED BY <2>1, <2>2
<1>11. size # 0
  <2> HIDE DEF size
  <2>1. QED BY <1>3
<1>12. QED
  <2> HIDE DEF size
  <2>1. QED BY <1>7, <1>8, <1>10, <1>11, AbstractEnd

(* Every step of the tables is one of the map, or leaves it as it is.      *)
LEMMA StepRefines == MapInv /\ MapInv' /\ [Next]_vars => [Map!Next]_(Map!mapVars)
<1> SUFFICES ASSUME MapInv, MapInv', [Next]_vars
             PROVE  Map!Next \/ UNCHANGED Map!mapVars
  OBVIOUS
<1> DEFINE quiet == {"idle", "walk", "fill"}
<1>1. ASSUME pc \in quiet, pc' \in quiet
      PROVE  /\ Settled = tables /\ Settled' = tables'
             /\ ChangingNow = 0 /\ ChangingNow' = 0
             /\ UNCHANGED tables => MapNow' = MapNow
  <2>1. Settled = tables /\ Settled' = tables'
    BY <1>1, SettledIs
  <2>2. ChangingNow = 0 /\ ChangingNow' = 0
    BY <1>1 DEF ChangingNow, EntryChanges
  <2>3. UNCHANGED tables => MapNow' = MapNow
    BY <2>1, MapKept
  <2>4. QED BY <2>1, <2>2, <2>3
<1>2. ASSUME pc # "idle", UNCHANGED <<request, regionVars>>, pc' # "idle"
      PROVE  TodoNow' = TodoNow
  BY <1>2 DEF TodoNow, regionVars
<1>3. ASSUME NEW r \in Requests, NEW s \in Pages, NEW n \in 1 .. PageCount,
             UpdateRegionMapping(r, s, n)
      PROVE  Map!Next
  <2>1. /\ pc = "idle" /\ pc' = "walk" /\ request' = r /\ RegionStart' = s
        /\ RegionLength' = n /\ s + n <= PageCount /\ UNCHANGED <<tables, status>>
    BY <1>3 DEF UpdateRegionMapping, StartWalk
  <2>2. TodoNow = Map!NoCall
    BY <2>1 DEF TodoNow, Map!NoCall
  <2>3. TodoNow' = [request |-> r, start |-> s, len |-> n]
    BY <2>1 DEF TodoNow
  <2>4. /\ TodoNow' \in [request : Requests, start : Pages, len : 1 .. PageCount]
        /\ TodoNow'.start + TodoNow'.len <= PageCount
    BY <2>1, <2>3
  <2>5. MapNow' = MapNow /\ ChangingNow' = ChangingNow
    BY <1>1, <2>1
  <2>6. QED BY <2>1, <2>2, <2>4, <2>5, AbstractCall
<1>4. CASE GoToNextTable
  <2>1. /\ pc = "walk"
        /\ UNCHANGED <<tables, request, pc, regionVars, status>>
    BY <1>4 DEF GoToNextTable
  <2>2. QED BY <1>1, <1>2, <2>1, AbstractStutter
<1>5. CASE SplitBlock
  <2>1. /\ UNCHANGED <<request, pc, regionVars, status>>
        /\ \A p \in Pages :
             \/ LeafIn(tables', p) = LeafIn(tables, p)
             \/ SameAttributes(LeafIn(tables', p).entry, LeafIn(tables, p).entry)
    BY <1>5, SplitLeaves
  <2>2. pc = "walk"
    BY <1>5 DEF SplitBlock
  <2>3. \A p \in Pages : Mapping(LeafIn(tables', p).entry, p)
                           = Mapping(LeafIn(tables, p).entry, p)
    BY <2>1 DEF SameAttributes, Mapping
  <2>4. MapNow' = MapNow /\ ChangingNow' = ChangingNow
    BY <1>1, <2>1, <2>2, <2>3, MapKept
  <2>5. QED BY <1>2, <2>1, <2>2, <2>4, AbstractStutter
<1>6. CASE NewTable
  <2>1. /\ UNCHANGED <<request, pc, regionVars, status>>
        /\ \A p \in Pages :
             \/ LeafIn(tables', p) = LeafIn(tables, p)
             \/ /\ LeafIn(tables, p).entry.bits = TT_TYPE_INVALID
                /\ LeafIn(tables', p).entry = ZeroEntry
    BY <1>6, NewTableLeaves
  <2>2. pc = "walk" /\ Settled = tables
    BY <1>6, SettledIs DEF NewTable
  <2>3. ASSUME NEW p \in Pages
        PROVE  Mapping(LeafIn(tables', p).entry, p)
                 = Mapping(LeafIn(tables, p).entry, p)
    <3>1. ASSUME LeafIn(tables, p).entry.bits = TT_TYPE_INVALID,
                 LeafIn(tables', p).entry = ZeroEntry
          PROVE  ~LeafIn(tables, p).entry.af /\ ~LeafIn(tables', p).entry.af
      BY <2>2, <3>1 DEF MapInv, FlatMap, FlatLeaf, ZeroEntry
    <3>2. CASE LeafIn(tables', p) = LeafIn(tables, p)
      BY <3>2
    <3>3. CASE /\ LeafIn(tables, p).entry.bits = TT_TYPE_INVALID
               /\ LeafIn(tables', p).entry = ZeroEntry
      BY <3>1, <3>3, Zenon DEF Mapping
    <3>4. QED BY <2>1, <3>2, <3>3
  <2>4. MapNow' = MapNow /\ ChangingNow' = ChangingNow
    BY <1>1, <2>1, <2>2, <2>3, MapKept
  <2>5. QED BY <1>2, <2>1, <2>2, <2>4, AbstractStutter
<1>7. CASE AllocatePagesFails
  <2>1. /\ pc = "walk" /\ pc' = "idle" /\ status' = "EFI_OUT_OF_RESOURCES"
        /\ UNCHANGED tables
    BY <1>7 DEF AllocatePagesFails, Returns
  <2>2. TodoNow # Map!NoCall
    BY <2>1, Running DEF MapInv
  <2>3. TodoNow' = Map!NoCall
    BY <2>1 DEF TodoNow, Map!NoCall
  <2>4. QED BY <1>1, <2>1, <2>2, <2>3, AbstractFail
<1>8. CASE FoundEntry
  <2>1. /\ pc = "walk" /\ pc' = "fill"
        /\ UNCHANGED <<tables, request, regionVars, status>>
    BY <1>8 DEF FoundEntry
  <2>2. QED BY <1>1, <1>2, <2>1, AbstractStutter
<1>9. CASE MaskEntry
  BY <1>9, MaskRefines
<1>10. CASE SetEntry
  <2>1. /\ pc = "set" /\ pc' = "update"
        /\ UNCHANGED <<request, regionVars, PageLevel, status>>
    BY <1>10 DEF SetEntry, walkVars
  <2>2. Settled' = Settled
    BY <1>10, SetLeaves
  <2>3. MapNow' = MapNow
    BY <2>2, MapKept
  <2>4. ChangingNow' = ChangingNow
    BY <2>1 DEF ChangingNow, EntryChanges
  <2>5. QED BY <1>2, <2>1, <2>3, <2>4, AbstractStutter
<1>11. CASE UpdateEntry
  BY <1>11, UpdateRefines
<1>12. ASSUME UNCHANGED <<tables, request, pc, regionVars, walkVars, status>>
       PROVE  UNCHANGED Map!mapVars
  <2>1. TodoNow' = TodoNow /\ ChangingNow' = ChangingNow
    BY <1>12 DEF TodoNow, ChangingNow, EntryChanges, regionVars, walkVars
  <2>2. Settled' = Settled
    BY <1>12 DEF Settled, regionVars, walkVars
  <2>3. MapNow' = MapNow
    BY <2>2, MapKept
  <2>4. QED BY <1>12, <2>1, <2>3, AbstractStutter
<1>13. CASE ArmEnableMmu
  BY <1>12, <1>13 DEF ArmEnableMmu
<1>14. ASSUME NEW p \in Pages, CpuCaches(p)
       PROVE  UNCHANGED Map!mapVars
  BY <1>12, <1>14 DEF CpuCaches
<1>15. CASE UNCHANGED vars
  BY <1>12, <1>15 DEF vars
<1>16. QED
  BY <1>3, <1>4, <1>5, <1>6, <1>7, <1>8, <1>9, <1>10, <1>11, <1>13, <1>14, <1>15
  DEF Next, Walk, Fill

(* The tables implement the map: the first store to an entry begins the    *)
(* change of the pages of its block, at the front of what is left of the   *)
(* region, to what the caller asked for, and the end of the entry's        *)
(* maintenance ends it; no store changes any other page, and a split, a    *)
(* new table and a cached translation change nothing.  A call that runs    *)
(* out of pages for tables leaves the rest of its region as it was.        *)
THEOREM TablesAreAMap == Spec => ImplementsAddressMap
<1>1. Spec => Map!Init
  BY InitRefines DEF Spec
<1>2. Spec => [][Map!Next]_(Map!mapVars)
  BY MapHolds, StepRefines, PTL DEF Spec
<1>3. QED BY <1>1, <1>2, PTL DEF ImplementsAddressMap, Map!Spec

=============================================================================
