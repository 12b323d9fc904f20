--------------------------- MODULE MemoryInitProofs -------------------------
(* MemoryPeim's loops stay inside the map they read, the device tree they  *)
(* add up and the table they fill, for any device tree and any build; and  *)
(* what they make of the map: reserved memory is neither given away nor    *)
(* mapped as anything else, free memory is cacheable, and the layout of    *)
(* the NB1 is the memory it has.                                           *)
EXTENDS MemoryInit, SequenceTheorems, TLAPS

-----------------------------------------------------------------------------
(* Where the regions of the map lie.  DBI_Dump, the one region that takes  *)
(* pages of free memory, is a case of its own.                             *)
EarlyRegions(b) ==
  Range(LowRegions) \union Range(PilRegion(b)) \union {DisplayReserved, DxeHeap}
    \union Range(FirmwareRegions)

LateRegions(b) ==
  Range(RamPartitions(b)) \union Range(OtherRegions) \union Range(RegisterRegions)

Descriptors(b) ==
  EarlyRegions(b) \union {DbiDump} \union Range(Nb1Regions(b))
    \union LateRegions(b) \union {Terminator}

Pages(d) == d.Address .. d.Address + d.Length - 1

IsFree(d) == d.ResourceType = "SYS_MEM" /\ d.MemoryType = "Conv"

\* Regions are never empty, so two of them overlap or one is before the other.
Inside(d, first, after) == first <= d.Address /\ d.Address + d.Length <= after
Outside(d, first, after) == d.Address + d.Length <= first \/ after <= d.Address

\* The free memory below the Mem4G partition, and what every device reserves.
InLowMemory(b, d) ==
  Inside(d, \h80000, \h81AC0) \/ Inside(d, Hlos3Start(b), \h9D400)
OutsideLowMemory(b, d) ==
  Outside(d, \h80000, \h81AC0) /\ Outside(d, Hlos3Start(b), \h9D400)
InShared(b, d) ==
  Inside(d, \h85800, Hlos3Start(b)) \/ Inside(d, \h9FA00, \h9FC00)
OutsideShared(b, d) ==
  Outside(d, \h85800, Hlos3Start(b)) /\ Outside(d, \h9FA00, \h9FC00)

EarlyRegion(b, d) ==
  /\ d.Address \in Nat /\ d.Length \in Nat \ {0}
  /\ d.Address + d.Length <= \hA0000
  /\ d.HobOption \in {"AddMem", "NoHob"}
  /\ IsFree(d) => d.ArmAttributes = "WRITE_BACK" /\ InLowMemory(b, d)
  /\ d.ArmAttributes # "WRITE_BACK" => OutsideLowMemory(b, d)
  /\ IF d.MemoryType = "Reserv" THEN InShared(b, d) ELSE OutsideShared(b, d)

LateRegion(d) ==
  /\ d.Address \in Nat /\ d.Length \in Nat \ {0}
  /\ d.MemoryType # "Reserv"
  /\ d.HobOption \in Layouts \union {"AddDev", "NoHob"}
  /\ IF IsFree(d)
       THEN /\ d.ArmAttributes = "WRITE_BACK"
            /\ d.Address >= \h40000
            /\ d.Address + d.Length <= \h80000 \/ d.Address >= \hA0000
       ELSE d.Address + d.Length <= \h40000

(* The regions up to the Info_Blk lie below the Mem4G partition, the free  *)
(* ones are write-back memory no device is in, and none is half reserved.  *)
LEMMA EarlyRegionsLie ==
  ASSUME NEW b, NEW d \in EarlyRegions(b)
  PROVE  EarlyRegion(b, d)
<1> DEFINE P(r) == EarlyRegion(b, r)
<1>h. Hlos3Start(b) \in {\h95E15, \h95F15}
  BY DEF Hlos3Start
<1> USE <1>h DEF EarlyRegion, InLowMemory, OutsideLowMemory, InShared, OutsideShared,
                 Inside, Outside, IsFree, SysMem, DescriptorEx
<1>1. \A r \in Range(LowRegions) : P(r)
  BY SMT DEF LowRegions, Range
<1>2. \A r \in Range(PilRegion(b)) : P(r)
  BY SMT DEF PilRegion, Hlos3Start, Range
<1>3. P(DisplayReserved) /\ P(DxeHeap)
  BY SMT DEF DisplayReserved, DxeHeap
<1>4. \A r \in Range(FirmwareRegions) : P(r)
  BY SMT DEF FirmwareRegions, Range
<1> HIDE DEF P
<1>5. P(d)
  BY <1>1, <1>2, <1>3, <1>4 DEF EarlyRegions
<1>6. QED BY <1>5 DEF P

(* The partitions above 512 MB and those of 1 GB are free write-back       *)
(* memory, and the registers after them are all below them.                *)
LEMMA LateRegionsLie ==
  ASSUME NEW b, NEW d \in LateRegions(b)
  PROVE  LateRegion(d)
<1>1. \A r \in Range(RamPartitions(b)) : LateRegion(r)
  <2>1. TopPartition(b) \in {\hFCBC0, \hFCCC0}
    BY DEF TopPartition
  <2>2. QED
    BY <2>1, SMT
    DEF LateRegion, IsFree, RamPartitions, RamPartition, SysMem, DescriptorEx, Range, Layouts
<1>2. \A r \in Range(OtherRegions) : LateRegion(r)
  BY SMT DEF LateRegion, IsFree, OtherRegions, Device, DescriptorEx, Range
<1>3. \A r \in Range(RegisterRegions) : LateRegion(r)
  <2>1. Len(Registers) = 35
    BY SMT DEF Registers
  <2>2. \A i \in 1 .. 35 : /\ Registers[i][1] \in Nat /\ Registers[i][2] \in Nat \ {0}
                           /\ Registers[i][1] + Registers[i][2] <= \h40000
    BY SMT DEF Registers
  <2>3. QED
    BY <2>1, <2>2, SMT DEF LateRegion, IsFree, RegisterRegions, Device, DescriptorEx, Range
<1>4. QED BY <1>1, <1>2, <1>3 DEF LateRegions

(* What the NB1 reserves is at the start of the first partition.           *)
LEMMA Nb1RegionsLie ==
  ASSUME NEW b, NEW d \in Range(Nb1Regions(b))
  PROVE  /\ d.Address \in Nat /\ d.Length \in Nat \ {0}
         /\ d.Address >= \hA0000
         /\ d.MemoryType = "Reserv"
         /\ d.HobOption = "AddMem"
<1>1. CASE b = "NB1_FIXED"
  <2>1. Nb1Regions(b) =
          <<SysMem("FIH_Region", \hA0000, \hB00, "AddMem", "Reserv", "NS_DEVICE"),
            SysMem("Ramoops", \hA0B00, \h200, "AddMem", "Reserv", "NS_DEVICE")>>
    BY <1>1, SMT DEF Nb1Regions
  <2>2. QED BY <2>1, SMT DEF SysMem, DescriptorEx, Range
<1>2. CASE b # "NB1_FIXED"
  <2>1. Nb1Regions(b) = <<>>
    BY <1>2, SMT DEF Nb1Regions
  <2>2. QED BY <2>1, SMT DEF Range
<1>3. QED BY <1>1, <1>2

-----------------------------------------------------------------------------
(* Which region is where in the map.                                       *)
\* s is p elements of r, and after them q of t.
Joins(s, r, t, p, q) ==
  /\ Len(s) = p + q
  /\ \A i \in 1 .. p : s[i] = r[i]
  /\ \A i \in p + 1 .. p + q : s[i] = t[i - p]

(* A sequence joined to another has the elements of both, in their places. *)
LEMMA ConcatJoins ==
  ASSUME NEW D, NEW r \in Seq(D), NEW t \in Seq(D)
  PROVE  r \o t \in Seq(D) /\ Joins(r \o t, r, t, Len(r), Len(t))
<1>1. \A i \in 1 .. Len(r) + Len(t) :
        (r \o t)[i] = IF i <= Len(r) THEN r[i] ELSE t[i - Len(r)]
  BY ConcatProperties
<1>2. Len(r) \in Nat /\ Len(t) \in Nat
  OBVIOUS
<1>3. \A i \in 1 .. Len(r) : (r \o t)[i] = r[i]
  BY <1>1, <1>2
<1>4. \A i \in Len(r) + 1 .. Len(r) + Len(t) : (r \o t)[i] = t[i - Len(r)]
  BY <1>1, <1>2
<1>5. QED BY <1>3, <1>4, ConcatProperties DEF Joins

(* A sequence is of any set that has its elements.                         *)
LEMMA RangeIn ==
  ASSUME NEW D, NEW E \in SUBSET D, NEW s, s \in Seq(Range(s)), Range(s) \subseteq E
  PROVE  s \in Seq(D) /\ \A i \in 1 .. Len(s) : s[i] \in E
<1>1. s \in Seq(D)
  <2>1. ASSUME NEW R \in SUBSET D, NEW u \in Seq(R)
        PROVE  u \in Seq(D)
    OBVIOUS
  <2>2. QED BY <2>1
<1>2. \A i \in 1 .. Len(s) : s[i] \in Range(s)
  BY ElementOfSeq
<1>3. QED BY <1>1, <1>2

\* The part of the map before the NB1's regions.
EarlyPart(b) == LowRegions \o PilRegion(b) \o HeapRegions \o FirmwareRegions

(* Before the NB1's regions, DBI_Dump is the 12th and DXE_Heap the next.   *)
LEMMA EarlyPartAt ==
  ASSUME NEW b
  PROVE  /\ EarlyPart(b) \in Seq(EarlyRegions(b) \union {DbiDump})
         /\ Len(EarlyPart(b)) = 28
         /\ EarlyPart(b)[12] = DbiDump
         /\ EarlyPart(b)[13] = DxeHeap
         /\ \A i \in 1 .. 28 : i # 12 => EarlyPart(b)[i] \in EarlyRegions(b)
<1> DEFINE E == EarlyRegions(b)
           D == E \union {DbiDump}
           S == Seq(D)
           m1 == LowRegions \o PilRegion(b)
           m2 == m1 \o HeapRegions
           m3 == m2 \o FirmwareRegions
<1>e. /\ Range(LowRegions) \subseteq E /\ Range(PilRegion(b)) \subseteq E
      /\ Range(FirmwareRegions) \subseteq E /\ DisplayReserved \in E /\ DxeHeap \in E
  BY DEF EarlyRegions
<1> HIDE DEF E
<1>d. E \in SUBSET D
  OBVIOUS
<1> HIDE DEF D
<1>1. LowRegions \in S /\ Len(LowRegions) = 8
      /\ \A i \in 1 .. 8 : LowRegions[i] \in E
  <2>1. LowRegions \in Seq(Range(LowRegions)) /\ Len(LowRegions) = 8
    BY SMT DEF LowRegions, Range
  <2>2. QED BY <2>1, <1>d, <1>e, RangeIn
<1>2. PilRegion(b) \in S /\ Len(PilRegion(b)) = 2
      /\ \A i \in 1 .. 2 : PilRegion(b)[i] \in E
  <2>1. PilRegion(b) \in Seq(Range(PilRegion(b))) /\ Len(PilRegion(b)) = 2
    BY SMT DEF PilRegion, Range
  <2>2. QED BY <2>1, <1>d, <1>e, RangeIn
<1>3. /\ HeapRegions \in S /\ Len(HeapRegions) = 3
      /\ HeapRegions[1] \in E /\ HeapRegions[2] = DbiDump
      /\ HeapRegions[3] = DxeHeap
  BY <1>e, SMT DEF HeapRegions, D
<1>4. FirmwareRegions \in S /\ Len(FirmwareRegions) = 15
      /\ \A i \in 1 .. 15 : FirmwareRegions[i] \in E
  <2>1. FirmwareRegions \in Seq(Range(FirmwareRegions)) /\ Len(FirmwareRegions) = 15
    BY SMT DEF FirmwareRegions, Range
  <2>2. QED BY <2>1, <1>d, <1>e, RangeIn
<1> HIDE DEF S, m1, m2, m3
<1>5. /\ m1 \in S /\ Len(m1) = 10
      /\ \A i \in 1 .. 10 : m1[i] \in E
  <2>0. m1 \in S /\ Joins(m1, LowRegions, PilRegion(b), Len(LowRegions), Len(PilRegion(b)))
    BY ConcatJoins, <1>1, <1>2, Zenon DEF m1, S
  <2>1. /\ m1 \in S
        /\ Len(m1) = 8 + 2
        /\ \A i \in 1 .. 8 : m1[i] = LowRegions[i]
        /\ \A i \in 8 + 1 .. 8 + 2 : m1[i] = PilRegion(b)[i - 8]
    BY <2>0, <1>1, <1>2 DEF Joins
  <2>2. \A i \in 1 .. 10 : i \in 1 .. 8 \/ (i \in 9 .. 10 /\ i - 8 \in 1 .. 2)
    OBVIOUS
  <2>3. QED BY <1>1, <1>2, <2>1, <2>2
<1>6. /\ m2 \in S /\ Len(m2) = 13
      /\ m2[12] = DbiDump /\ m2[13] = DxeHeap
      /\ \A i \in 1 .. 13 : i # 12 => m2[i] \in E
  <2>0. m2 \in S /\ Joins(m2, m1, HeapRegions, Len(m1), Len(HeapRegions))
    BY ConcatJoins, <1>3, <1>5, Zenon DEF m2, S
  <2>1. /\ m2 \in S
        /\ Len(m2) = 10 + 3
        /\ \A i \in 1 .. 10 : m2[i] = m1[i]
        /\ \A i \in 10 + 1 .. 10 + 3 : m2[i] = HeapRegions[i - 10]
    BY <2>0, <1>3, <1>5 DEF Joins
  <2>2. m2[11] = HeapRegions[1] /\ m2[12] = HeapRegions[2] /\ m2[13] = HeapRegions[3]
    BY <2>1
  <2>3. \A i \in 1 .. 13 : i # 12 => i \in 1 .. 10 \/ i = 11 \/ i = 13
    OBVIOUS
  <2>4. QED BY <1>3, <1>5, <1>e, <2>1, <2>2, <2>3
<1>7. /\ m3 \in S /\ Len(m3) = 28
      /\ m3[12] = DbiDump /\ m3[13] = DxeHeap
      /\ \A i \in 1 .. 28 : i # 12 => m3[i] \in E
  <2>0. m3 \in S /\ Joins(m3, m2, FirmwareRegions, Len(m2), Len(FirmwareRegions))
    BY ConcatJoins, <1>4, <1>6, Zenon DEF m3, S
  <2>1. /\ m3 \in S
        /\ Len(m3) = 13 + 15
        /\ \A i \in 1 .. 13 : m3[i] = m2[i]
        /\ \A i \in 13 + 1 .. 13 + 15 : m3[i] = FirmwareRegions[i - 13]
    BY <2>0, <1>4, <1>6 DEF Joins
  <2>2. \A i \in 1 .. 28 : i \in 1 .. 13 \/ (i \in 14 .. 28 /\ i - 13 \in 1 .. 15)
    OBVIOUS
  <2>3. 12 \in 1 .. 13 /\ 13 \in 1 .. 13
    OBVIOUS
  <2>4. QED BY <1>4, <1>6, <2>1, <2>2, <2>3
<1>8. EarlyPart(b) = m3
  BY DEF EarlyPart, m1, m2, m3
<1>9. m3 \in Seq(EarlyRegions(b) \union {DbiDump})
  BY <1>7, Zenon DEF S, D, E
<1>10. QED BY <1>7, <1>8, <1>9 DEF E

(* After them are the partitions and the registers, and the terminator.    *)
LEMMA RegionAt ==
  ASSUME NEW b
  PROVE  LET map == gDeviceMemoryDescriptorEx(b)
             n == 28 + Len(Nb1Regions(b))
         IN /\ map \in Seq(Descriptors(b))
            /\ Len(Nb1Regions(b)) \in Nat /\ Len(Nb1Regions(b)) <= 2
            /\ Len(map) = n + 45
            /\ map[12] = DbiDump /\ map[13] = DxeHeap
            /\ \A i \in 1 .. 28 : i # 12 => map[i] \in EarlyRegions(b)
            /\ \A i \in 29 .. n : map[i] \in Range(Nb1Regions(b))
            /\ \A i \in n + 1 .. n + 44 : map[i] \in LateRegions(b)
            /\ map[n + 5] = RamPartitions(b)[5] /\ map[n + 6] = RamPartitions(b)[6]
            /\ map[n + 45] = Terminator
<1> DEFINE L == LateRegions(b)
           N == Range(Nb1Regions(b))
           D == Descriptors(b)
           S == Seq(D)
           k == Len(Nb1Regions(b))
           n == 28 + k
           m3 == EarlyPart(b)
           m4 == m3 \o Nb1Regions(b)
           m5 == m4 \o RamPartitions(b)
           m6 == m5 \o OtherRegions
           m7 == m6 \o RegisterRegions
           m8 == m7 \o <<Terminator>>
<1>e. /\ Range(RamPartitions(b)) \subseteq L /\ Range(OtherRegions) \subseteq L
      /\ Range(RegisterRegions) \subseteq L
  BY DEF LateRegions
<1>d. L \in SUBSET D /\ N \in SUBSET D /\ EarlyRegions(b) \union {DbiDump} \in SUBSET D
      /\ Terminator \in D
  BY DEF Descriptors
<1> HIDE DEF L, N, D
<1>1. m3 \in S /\ Len(m3) = 28
  <2>1. ASSUME NEW u \in Seq(EarlyRegions(b) \union {DbiDump})
        PROVE  u \in S
    BY <1>d
  <2>2. QED BY <2>1, EarlyPartAt
<1>2. Nb1Regions(b) \in S /\ Len(Nb1Regions(b)) = k /\ k \in 0 .. 2
      /\ \A i \in 1 .. k : Nb1Regions(b)[i] \in N
  <2>1. Nb1Regions(b) \in Seq(N) /\ Len(Nb1Regions(b)) \in 0 .. 2
    <3>1. CASE b = "NB1_FIXED"
      <4>1. Nb1Regions(b) =
              <<SysMem("FIH_Region", \hA0000, \hB00, "AddMem", "Reserv", "NS_DEVICE"),
                SysMem("Ramoops", \hA0B00, \h200, "AddMem", "Reserv", "NS_DEVICE")>>
        BY <3>1, SMT DEF Nb1Regions
      <4>2. QED BY <4>1, SMT DEF N, Range
    <3>2. CASE b # "NB1_FIXED"
      <4>1. Nb1Regions(b) = <<>>
        BY <3>2, SMT DEF Nb1Regions
      <4>2. QED BY <4>1, SMT
    <3>3. QED BY <3>1, <3>2
  <2>2. QED BY <2>1, <1>d
<1>3. RamPartitions(b) \in S /\ Len(RamPartitions(b)) = 6
      /\ \A i \in 1 .. 6 : RamPartitions(b)[i] \in L
  <2>1. RamPartitions(b) \in Seq(Range(RamPartitions(b))) /\ Len(RamPartitions(b)) = 6
    BY SMT DEF RamPartitions, Range
  <2>2. QED BY <2>1, <1>d, <1>e, RangeIn
<1>4. OtherRegions \in S /\ Len(OtherRegions) = 3
      /\ \A i \in 1 .. 3 : OtherRegions[i] \in L
  <2>1. OtherRegions \in Seq(Range(OtherRegions)) /\ Len(OtherRegions) = 3
    BY SMT DEF OtherRegions, Range
  <2>2. QED BY <2>1, <1>d, <1>e, RangeIn
<1>5. RegisterRegions \in S /\ Len(RegisterRegions) = 35
      /\ \A i \in 1 .. 35 : RegisterRegions[i] \in L
  <2>1. Len(Registers) = 35
    BY SMT DEF Registers
  <2>2. RegisterRegions \in Seq(Range(RegisterRegions)) /\ Len(RegisterRegions) = 35
    BY <2>1, SMT DEF RegisterRegions, Range
  <2>3. QED BY <2>2, <1>d, <1>e, RangeIn
<1>6. <<Terminator>> \in S /\ Len(<<Terminator>>) = 1 /\ <<Terminator>>[1] = Terminator
  BY <1>d
<1> HIDE DEF S, k, m3, m4, m5, m6, m7, m8
<1>7. /\ m4 \in S /\ Len(m4) = n
      /\ \A i \in 1 .. 28 : m4[i] = m3[i]
      /\ \A i \in 29 .. n : m4[i] \in N
  <2>0. m4 \in S /\ Joins(m4, m3, Nb1Regions(b), Len(m3), Len(Nb1Regions(b)))
    BY ConcatJoins, <1>1, <1>2, Zenon DEF m4, S
  <2>1. /\ m4 \in S
        /\ Len(m4) = 28 + k
        /\ \A i \in 1 .. 28 : m4[i] = m3[i]
        /\ \A i \in 28 + 1 .. 28 + k : m4[i] = Nb1Regions(b)[i - 28]
    BY <2>0, <1>1, <1>2 DEF Joins
  <2>2. \A i \in 29 .. n : i \in 28 + 1 .. 28 + k /\ i - 28 \in 1 .. k
    BY <1>2
  <2>3. QED BY <1>2, <2>1, <2>2
<1> HIDE DEF n
<1>n. n \in Nat /\ n >= 28 /\ n = 28 + k
  BY <1>2 DEF n
<1>8. /\ m5 \in S /\ Len(m5) = n + 6
      /\ \A i \in 1 .. n : m5[i] = m4[i]
      /\ \A i \in n + 1 .. n + 6 : m5[i] \in L
      /\ m5[n + 5] = RamPartitions(b)[5] /\ m5[n + 6] = RamPartitions(b)[6]
  <2>0. m5 \in S /\ Joins(m5, m4, RamPartitions(b), Len(m4), Len(RamPartitions(b)))
    BY ConcatJoins, <1>3, <1>7, Zenon DEF m5, S
  <2>1. /\ m5 \in S
        /\ Len(m5) = n + 6
        /\ \A i \in 1 .. n : m5[i] = m4[i]
        /\ \A i \in n + 1 .. n + 6 : m5[i] = RamPartitions(b)[i - n]
    BY <2>0, <1>3, <1>7 DEF Joins
  <2>2. /\ \A i \in n + 1 .. n + 6 : i - n \in 1 .. 6
        /\ n + 5 \in n + 1 .. n + 6 /\ n + 6 \in n + 1 .. n + 6
        /\ (n + 5) - n = 5 /\ (n + 6) - n = 6
    BY <1>n
  <2>3. m5[n + 5] = RamPartitions(b)[(n + 5) - n] /\ m5[n + 6] = RamPartitions(b)[(n + 6) - n]
    BY <2>1, <2>2, Zenon
  <2>4. QED BY <1>3, <2>1, <2>2, <2>3
<1>9. /\ m6 \in S /\ Len(m6) = n + 9
      /\ \A i \in 1 .. n + 6 : m6[i] = m5[i]
      /\ \A i \in n + 7 .. n + 9 : m6[i] \in L
  <2>0. m6 \in S /\ Joins(m6, m5, OtherRegions, Len(m5), Len(OtherRegions))
    BY ConcatJoins, <1>4, <1>8, Zenon DEF m6, S
  <2>1. /\ m6 \in S
        /\ Len(m6) = (n + 6) + 3
        /\ \A i \in 1 .. n + 6 : m6[i] = m5[i]
        /\ \A i \in (n + 6) + 1 .. (n + 6) + 3 : m6[i] = OtherRegions[i - (n + 6)]
    BY <2>0, <1>4, <1>8 DEF Joins
  <2>2. \A i \in n + 7 .. n + 9 : i \in (n + 6) + 1 .. (n + 6) + 3 /\ i - (n + 6) \in 1 .. 3
    BY <1>n
  <2>3. (n + 6) + 3 = n + 9
    BY <1>n
  <2>4. QED BY <1>4, <2>1, <2>2, <2>3
<1>10. /\ m7 \in S /\ Len(m7) = n + 44
       /\ \A i \in 1 .. n + 9 : m7[i] = m6[i]
       /\ \A i \in n + 10 .. n + 44 : m7[i] \in L
  <2>0. m7 \in S /\ Joins(m7, m6, RegisterRegions, Len(m6), Len(RegisterRegions))
    BY ConcatJoins, <1>5, <1>9, Zenon DEF m7, S
  <2>1. /\ m7 \in S
        /\ Len(m7) = (n + 9) + 35
        /\ \A i \in 1 .. n + 9 : m7[i] = m6[i]
        /\ \A i \in (n + 9) + 1 .. (n + 9) + 35 : m7[i] = RegisterRegions[i - (n + 9)]
    BY <2>0, <1>5, <1>9 DEF Joins
  <2>2. \A i \in n + 10 .. n + 44 : i \in (n + 9) + 1 .. (n + 9) + 35 /\ i - (n + 9) \in 1 .. 35
    BY <1>n
  <2>3. (n + 9) + 35 = n + 44
    BY <1>n
  <2>4. QED BY <1>5, <2>1, <2>2, <2>3
<1>11. /\ m8 \in S /\ Len(m8) = n + 45
       /\ \A i \in 1 .. n + 44 : m8[i] = m7[i]
       /\ m8[n + 45] = Terminator
  <2>0. m8 \in S /\ Joins(m8, m7, <<Terminator>>, Len(m7), Len(<<Terminator>>))
    BY ConcatJoins, <1>6, <1>10, Zenon DEF m8, S
  <2>1. /\ m8 \in S
        /\ Len(m8) = (n + 44) + 1
        /\ \A i \in 1 .. n + 44 : m8[i] = m7[i]
        /\ \A i \in (n + 44) + 1 .. (n + 44) + 1 : m8[i] = <<Terminator>>[i - (n + 44)]
    BY <2>0, <1>6, <1>10 DEF Joins
  <2>2. n + 45 = (n + 44) + 1 /\ (n + 45) - (n + 44) = 1
        /\ n + 45 \in (n + 44) + 1 .. (n + 44) + 1
    BY <1>n
  <2>3. m8[n + 45] = <<Terminator>>[(n + 45) - (n + 44)]
    BY <2>1, <2>2, Zenon
  <2>4. QED BY <1>6, <2>1, <2>2, <2>3
<1>12. gDeviceMemoryDescriptorEx(b) = m8
  BY DEF gDeviceMemoryDescriptorEx, EarlyPart, m3, m4, m5, m6, m7, m8
<1>13. \A i \in 1 .. n : m8[i] = m4[i]
  <2>1. \A i \in 1 .. n : i \in 1 .. n + 44 /\ i \in 1 .. n + 9 /\ i \in 1 .. n + 6
    BY <1>n
  <2>2. QED BY <2>1, <1>8, <1>9, <1>10, <1>11
<1>14. \A i \in 1 .. 28 : m8[i] = m3[i]
  <2>1. \A i \in 1 .. 28 : i \in 1 .. n
    BY <1>n
  <2>2. QED BY <2>1, <1>7, <1>13
<1>15. \A i \in 29 .. n : m8[i] \in N
  <2>1. \A i \in 29 .. n : i \in 1 .. n
    BY <1>n
  <2>2. QED BY <2>1, <1>7, <1>13
<1>16. \A i \in n + 1 .. n + 44 : m8[i] \in L
  <2>1. \A i \in n + 1 .. n + 44 :
          \/ i \in n + 1 .. n + 6 /\ i \in 1 .. n + 6
          \/ i \in n + 7 .. n + 9 /\ i \in 1 .. n + 9
          \/ i \in n + 10 .. n + 44
    BY <1>n
  <2>2. \A i \in 1 .. n + 9 : i \in 1 .. n + 44
    BY <1>n
  <2>3. \A i \in 1 .. n + 6 : i \in 1 .. n + 9
    BY <1>n
  <2>4. \A i \in n + 1 .. n + 44 : i \in 1 .. n + 44
    BY <1>n
  <2>5. QED BY <2>1, <2>2, <2>3, <2>4, <1>8, <1>9, <1>10, <1>11
<1>17. m8[n + 5] = RamPartitions(b)[5] /\ m8[n + 6] = RamPartitions(b)[6]
  <2>1. /\ n + 5 \in 1 .. n + 6 /\ n + 5 \in 1 .. n + 9 /\ n + 5 \in 1 .. n + 44
        /\ n + 6 \in 1 .. n + 6 /\ n + 6 \in 1 .. n + 9 /\ n + 6 \in 1 .. n + 44
    BY <1>n
  <2>2. QED BY <2>1, <1>8, <1>9, <1>10, <1>11
<1>18. m8[12] = DbiDump /\ m8[13] = DxeHeap
       /\ \A i \in 1 .. 28 : i # 12 => m8[i] \in EarlyRegions(b)
  <2>1. /\ m3[12] = DbiDump /\ m3[13] = DxeHeap
        /\ \A i \in 1 .. 28 : i # 12 => m3[i] \in EarlyRegions(b)
    BY EarlyPartAt DEF m3
  <2>2. 12 \in 1 .. 28 /\ 13 \in 1 .. 28
    OBVIOUS
  <2>3. QED BY <1>14, <2>1, <2>2
<1>19. Len(Nb1Regions(b)) \in Nat /\ Len(Nb1Regions(b)) <= 2
  BY <1>2 DEF k
<1>s. m8 \in Seq(Descriptors(b))
  BY <1>11, Zenon DEF S, D
<1>20. QED
  BY <1>11, <1>12, <1>15, <1>16, <1>17, <1>18, <1>19, <1>s DEF n, k, N, L

-----------------------------------------------------------------------------
\* What the loop makes of the descriptors.
HobRecords(b) == {[base |-> d.Address, len |-> d.Length,
                   resource |-> d.ResourceType,
                   memory |-> d.MemoryType] : d \in Descriptors(b)}
MmuRecords(b) == {[base |-> d.Address, len |-> d.Length,
                   attributes |-> d.ArmAttributes] : d \in Descriptors(b)}

(* The lengths in the map are numbers.                                     *)
LEMMA LengthsAreNumbers ==
  ASSUME NEW b, NEW d \in Descriptors(b)
  PROVE  d.Length \in Nat
<1>1. DbiDump.Length \in Nat /\ Terminator.Length \in Nat
  BY SMT DEF DbiDump, Terminator, Device, DescriptorEx
<1>2. QED
  BY <1>1, EarlyRegionsLie, LateRegionsLie, Nb1RegionsLie
  DEF Descriptors, EarlyRegion, LateRegion

(* The map of any build has fewer descriptors than the table has room for, *)
(* and ends with one of no length.                                         *)
LEMMA MapShape ==
  ASSUME NEW b
  PROVE  LET map == gDeviceMemoryDescriptorEx(b)
         IN /\ map \in Seq(Descriptors(b))
            /\ Len(map) \in 1 .. MAX_ARM_MEMORY_REGION_DESCRIPTOR_COUNT - 1
            /\ map[Len(map)].Length = 0
<1> DEFINE map == gDeviceMemoryDescriptorEx(b)
           k == Len(Nb1Regions(b))
           n == 28 + k
<1>1. /\ map \in Seq(Descriptors(b))
      /\ k \in Nat /\ k <= 2
      /\ Len(map) = n + 45
      /\ map[n + 45] = Terminator
  BY RegionAt
<1>2. Terminator.Length = 0
  BY SMT DEF Terminator, DescriptorEx
<1> HIDE DEF map, k
<1>3. Len(map) \in 1 .. MAX_ARM_MEMORY_REGION_DESCRIPTOR_COUNT - 1
  BY <1>1 DEF MAX_ARM_MEMORY_REGION_DESCRIPTOR_COUNT
<1>4. map[Len(map)].Length = 0
  BY <1>1, <1>2
<1>5. QED BY <1>1, <1>3, <1>4 DEF map

-----------------------------------------------------------------------------
\* No more entries than descriptors the loop has passed.
IInv ==
  /\ TypeOK
  /\ MemoryTable \in Seq(MmuRecords(build))
  /\ hobs \in Seq(HobRecords(build))
  /\ Len(MemoryTable) < MemoryDescriptorEx

(* The loop that adds up the memory nodes keeps to the device tree.        *)
LEMMA NodeInTree ==
  ASSUME TypeOK
  PROVE  fdt \in Seq([base : Nat, size : Nat])
BY TreesAssumption DEF TypeOK

(* The loop over the map does not pass its terminator.                     *)
LEMMA LoopInMap ==
  ASSUME IInv, InLoop
  PROVE  /\ Descriptor \in Descriptors(build)
         /\ MemoryDescriptorEx + 1 \in 1 .. Len(gDeviceMemoryDescriptorEx(build))
         /\ MemoryDescriptorEx + 1 < MAX_ARM_MEMORY_REGION_DESCRIPTOR_COUNT
<1> DEFINE map == gDeviceMemoryDescriptorEx(build)
<1>1. /\ map \in Seq(Descriptors(build))
      /\ Len(map) \in 1 .. MAX_ARM_MEMORY_REGION_DESCRIPTOR_COUNT - 1
      /\ map[Len(map)].Length = 0
  BY MapShape
<1>2. MemoryDescriptorEx \in 1 .. Len(map)
  BY DEF IInv, TypeOK
<1>3. map[MemoryDescriptorEx] \in Descriptors(build)
  BY <1>1, <1>2, ElementOfSeq
<1>4. MemoryDescriptorEx # Len(map)
  BY <1>1 DEF InLoop, Descriptor
<1>5. Descriptor = map[MemoryDescriptorEx]
  BY DEF Descriptor
<1> HIDE DEF map
<1>6. MemoryDescriptorEx + 1 \in 1 .. Len(map)
  BY <1>1, <1>2, <1>4 DEF MAX_ARM_MEMORY_REGION_DESCRIPTOR_COUNT
<1>7. MemoryDescriptorEx + 1 < MAX_ARM_MEMORY_REGION_DESCRIPTOR_COUNT
  <2>1. \A n, m : n \in 1 .. MAX_ARM_MEMORY_REGION_DESCRIPTOR_COUNT - 1 /\ m \in 1 .. n
                    => m < MAX_ARM_MEMORY_REGION_DESCRIPTOR_COUNT
    BY DEF MAX_ARM_MEMORY_REGION_DESCRIPTOR_COUNT
  <2>2. QED BY <1>1, <1>6, <2>1, Zenon
<1>8. QED BY <1>3, <1>5, <1>6, <1>7 DEF map

(* MemoryPeim starts in the invariant.                                     *)
LEMMA InitEstablishes == Init => IInv
<1> SUFFICES ASSUME Init
             PROVE  IInv
  OBVIOUS
<1>1. 1 \in 1 .. Len(gDeviceMemoryDescriptorEx(build))
  <2>1. Len(gDeviceMemoryDescriptorEx(build)) \in
          1 .. MAX_ARM_MEMORY_REGION_DESCRIPTOR_COUNT - 1
    BY MapShape
  <2>2. \A n \in 1 .. MAX_ARM_MEMORY_REGION_DESCRIPTOR_COUNT - 1 : 1 \in 1 .. n
    BY DEF MAX_ARM_MEMORY_REGION_DESCRIPTOR_COUNT
  <2>3. QED BY <2>1, <2>2, Zenon
<1>2. Len(fdt) \in Nat
  BY TreesAssumption DEF Init
<1>3. MemoryTable \in Seq(MmuRecords(build)) /\ Len(MemoryTable) = 0
  BY DEF Init
<1>4. hobs \in Seq(HobRecords(build)) /\ Len(hobs) = 0
  BY DEF Init
<1>5. QED
  BY <1>1, <1>2, <1>3, <1>4
  DEF Init, IInv, TypeOK, Layouts, MAX_ARM_MEMORY_REGION_DESCRIPTOR_COUNT

(* Every step keeps the invariant.                                         *)
LEMMA InvInductive == IInv /\ [Next]_vars => IInv'
<1> SUFFICES ASSUME IInv, [Next]_vars
             PROVE  IInv'
  OBVIOUS
<1> USE DEF inputs
<1>1. CASE AddNode
  <2>1. fdt[Node + 1].size \in Nat /\ Node + 1 \in 0 .. Len(fdt)
    <3>1. fdt \in Seq([base : Nat, size : Nat]) /\ Node \in 0 .. Len(fdt)
      BY NodeInTree DEF IInv, TypeOK
    <3>2. Node + 1 \in 1 .. Len(fdt)
      BY <1>1, <3>1 DEF AddNode
    <3>3. fdt[Node + 1] \in [base : Nat, size : Nat]
      BY <3>1, <3>2, ElementOfSeq, Zenon
    <3>4. QED BY <3>1, <3>2, <3>3
  <2>2. QED BY <1>1, <2>1 DEF AddNode, Plus, IInv, TypeOK
<1>2. CASE SelectConfig
  BY <1>2 DEF SelectConfig, Layouts, IInv, TypeOK
<1>3. CASE SkipOtherLayout
  <2>1. /\ Descriptor \in Descriptors(build)
        /\ MemoryDescriptorEx + 1 \in 1 .. Len(gDeviceMemoryDescriptorEx(build))
    BY <1>3, LoopInMap DEF SkipOtherLayout
  <2>2. MemoryTotal' \in Nat
    BY <1>3, <2>1, LengthsAreNumbers, SMT
    DEF SkipOtherLayout, CountConventional, IInv, TypeOK
  <2>3. QED
    BY <1>3, <2>1, <2>2, LoopInMap DEF SkipOtherLayout, IInv, TypeOK
<1>4. CASE TakeDescriptor
  <2>1. /\ Descriptor \in Descriptors(build)
        /\ MemoryDescriptorEx + 1 \in 1 .. Len(gDeviceMemoryDescriptorEx(build))
        /\ MemoryDescriptorEx + 1 < MAX_ARM_MEMORY_REGION_DESCRIPTOR_COUNT
    BY <1>4, LoopInMap DEF TakeDescriptor
  <2>2. MemoryDescriptorEx' = MemoryDescriptorEx + 1
    BY <1>4 DEF TakeDescriptor
  <2>12. UNCHANGED <<build, fdt, pc, Node, Mem, mmu>>
    BY <1>4 DEF TakeDescriptor
  <2>3. hobs' \in Seq(HobRecords(build)) /\ Len(hobs') <= Len(hobs) + 1
    BY <1>4, <2>1, <2>12 DEF TakeDescriptor, IInv, HobRecords
  <2>4. MemoryTable' \in Seq(MmuRecords(build)) /\ Len(MemoryTable') <= Len(MemoryTable) + 1
    BY <1>4, <2>1, <2>12 DEF TakeDescriptor, IInv, MmuRecords
  <2>5. MemoryTotal' \in Nat
    BY <1>4, <2>1, LengthsAreNumbers
    DEF TakeDescriptor, CountConventional, IInv, TypeOK
  <2>6. /\ Len(hobs) < MemoryDescriptorEx /\ Len(MemoryTable) < MemoryDescriptorEx
        /\ Len(hobs) \in Nat /\ Len(MemoryTable) \in Nat
        /\ MemoryDescriptorEx \in Nat
    BY MapShape DEF IInv, TypeOK
  <2>7. Len(hobs') < MemoryDescriptorEx' /\ Len(MemoryTable') < MemoryDescriptorEx'
    BY <2>2, <2>3, <2>4, <2>6
  <2>8. Len(MemoryTable') < MAX_ARM_MEMORY_REGION_DESCRIPTOR_COUNT
    BY <2>1, <2>2, <2>4, <2>6, <2>7 DEF MAX_ARM_MEMORY_REGION_DESCRIPTOR_COUNT
  <2>10. TypeOK'
    BY <2>1, <2>2, <2>5, <2>7, <2>8, <2>12 DEF IInv, TypeOK
  <2>11. QED BY <2>12, <2>3, <2>4, <2>7, <2>10 DEF IInv
<1>5. CASE InitMmu
  BY <1>5 DEF InitMmu, IInv, TypeOK
<1>6. CASE UNCHANGED vars
  BY <1>6 DEF vars, IInv, TypeOK
<1>7. QED
  BY <1>1, <1>2, <1>3, <1>4, <1>5, <1>6 DEF Next, MemoryPeim

(* For any device tree and any build the table for the MMU has room for    *)
(* its terminator, and neither loop leaves the array it reads.             *)
THEOREM TypeCorrect == Spec => []TypeOK
<1>1. IInv => TypeOK
  BY DEF IInv
<1>2. QED BY <1>1, InitEstablishes, InvInductive, PTL DEF Spec

-----------------------------------------------------------------------------
(* The last entry of a table that covers a page.                           *)
LastCover(table, page) ==
  LET I == {i \in 1 .. Len(table) : Covers(table[i], page)}
  IN IF I # {} THEN Max(I) ELSE 0

(* A page has the attributes of the last entry that covers it.             *)
LEMMA AttributesAreOfLast ==
  ASSUME NEW page
  PROVE  AttributesOf(page) = IF LastCover(MemoryTable, page) = 0 THEN "unmapped"
                              ELSE MemoryTable[LastCover(MemoryTable, page)].attributes
BY DEF AttributesOf, LastCover, SelectLastInSeq

(* A new entry is the last of the pages it covers, and of no other.        *)
LEMMA LastOfAppend ==
  ASSUME NEW T, NEW table \in Seq(T), NEW e, NEW page
  PROVE  LastCover(Append(table, e), page) =
           IF Covers(e, page) THEN Len(table) + 1 ELSE LastCover(table, page)
<1> DEFINE t == Append(table, e)
           n == Len(table)
           I == {i \in 1 .. n : Covers(table[i], page)}
           J == {i \in 1 .. Len(t) : Covers(t[i], page)}
<1>1. n \in Nat /\ Len(t) = n + 1 /\ t[n + 1] = e
      /\ \A i \in 1 .. n : t[i] = table[i]
  OBVIOUS
<1>2. CASE Covers(e, page)
  <2>1. n + 1 \in J /\ \A i \in J : n + 1 >= i
    BY <1>1, <1>2
  <2>2. ASSUME NEW m \in J, \A i \in J : m >= i
        PROVE  m = n + 1
    BY <1>1, <2>1, <2>2
  <2>3. Max(J) = n + 1
    <3> HIDE DEF J
    <3>1. \E m \in J : \A i \in J : m >= i
      BY <2>1
    <3>2. Max(J) \in J /\ \A i \in J : Max(J) >= i
      BY <3>1 DEF Max
    <3>3. QED BY <2>2, <3>2
  <2>4. J # {}
    BY <2>1
  <2> HIDE DEF J
  <2>5. LastCover(t, page) = IF J # {} THEN Max(J) ELSE 0
    BY DEF LastCover, J
  <2>6. QED BY <1>2, <2>3, <2>4, <2>5
<1>3. CASE ~Covers(e, page)
  <2>1. I = J
    BY <1>1, <1>3
  <2>2. QED BY <1>3, <2>1, Zenon DEF LastCover
<1>4. QED BY <1>2, <1>3

(* Append adds one element.                                                *)
LEMMA RangeOfAppend ==
  ASSUME NEW T, NEW s \in Seq(T), NEW e
  PROVE  Range(Append(s, e)) = Range(s) \union {e}
<1>1. Len(s) \in Nat /\ DOMAIN s = 1 .. Len(s) /\ DOMAIN Append(s, e) = 1 .. Len(s) + 1
  OBVIOUS
<1>2. /\ \A i \in 1 .. Len(s) : Append(s, e)[i] = s[i]
      /\ Append(s, e)[Len(s) + 1] = e
  OBVIOUS
<1>3. \A i \in 1 .. Len(s) + 1 : i \in 1 .. Len(s) \/ i = Len(s) + 1
  BY <1>1
<1>4. \A i \in 1 .. Len(s) : i \in 1 .. Len(s) + 1
  BY <1>1
<1>5. Len(s) + 1 \in 1 .. Len(s) + 1
  BY <1>1
<1>6. QED BY <1>1, <1>2, <1>3, <1>4, <1>5 DEF Range

-----------------------------------------------------------------------------
(* What the loop has made of the descriptors it has passed.                *)
HobOf(d) == [base |-> d.Address, len |-> d.Length,
             resource |-> d.ResourceType, memory |-> d.MemoryType]
EntryOf(d) == [base |-> d.Address, len |-> d.Length, attributes |-> d.ArmAttributes]

Passed == 1 .. MemoryDescriptorEx - 1

\* The HOBs and the table are those of the descriptors passed, no more, no less.
LoopInv ==
  LET map == gDeviceMemoryDescriptorEx(build)
  IN
  /\ pc = "fdt" => MemoryDescriptorEx = 1
  /\ mmu = "off" \/ pc = "done"
  /\ pc = "done" => Descriptor.Length = 0
  /\ \A i \in Passed :
       map[i].HobOption \notin Layouts \ {Mem} =>
         /\ AddsHob(map[i].HobOption) => HobOf(map[i]) \in Range(hobs)
         /\ EntryOf(map[i]) \in Range(MemoryTable)
  /\ \A h \in Range(hobs) :
       \E i \in Passed : AddsHob(map[i].HobOption) /\ h = HobOf(map[i])
  /\ \A e \in Range(MemoryTable) : \E i \in Passed : e = EntryOf(map[i])

\* AttributesOf reads an entry of the table.
LastInv ==
  \A page \in Int :
    LET k == LastCover(MemoryTable, page)
    IN IF \E e \in Range(MemoryTable) : Covers(e, page)
         THEN k \in 1 .. Len(MemoryTable) /\ Covers(MemoryTable[k], page)
         ELSE k = 0

\* DBI_Dump takes pages of HLOS 3, and the next descriptor gives them back.
CacheInv ==
  \A page \in Int :
    Offered(page) => \/ AttributesOf(page) = "WRITE_BACK"
                     \/ MemoryDescriptorEx = 13 /\ page \in Pages(DbiDump)

\* The two nodes of the NB1 add up to 8139 MB.
Nb1Inv ==
  build = "NB1_FIXED" /\ fdt = Nb1Memory =>
    IF pc = "fdt"
      THEN MemoryTotal = IF Node = 0 THEN 0
                         ELSE IF Node = 1 THEN \h100000 ELSE \h1FCBC0
      ELSE Mem = "Mem8G"

MapInv == IInv /\ LoopInv /\ LastInv /\ CacheInv /\ Nb1Inv

-----------------------------------------------------------------------------
(* All descriptors but the terminator have pages, and all are mapped.      *)
LEMMA DescriptorAt ==
  ASSUME NEW b, NEW i \in 1 .. Len(gDeviceMemoryDescriptorEx(b))
  PROVE  LET d == gDeviceMemoryDescriptorEx(b)[i]
             n == 28 + Len(Nb1Regions(b))
         IN /\ Len(Nb1Regions(b)) \in Nat
            /\ Len(gDeviceMemoryDescriptorEx(b)) = n + 45
            /\ d.Address \in Nat /\ d.Length \in Nat
            /\ IsMapped(d.HobOption)
            /\ \/ i \in 1 .. 28 /\ i # 12 /\ EarlyRegion(b, d) /\ d.Length # 0
                  /\ d \notin Range(Nb1Regions(b))
               \/ i = 12 /\ d = DbiDump /\ d.Length # 0
               \/ i \in 29 .. n /\ d \in Range(Nb1Regions(b)) /\ d.Length # 0
               \/ i \in n + 1 .. n + 44 /\ LateRegion(d) /\ d.Length # 0
               \/ i = n + 45 /\ d = Terminator /\ d.Length = 0
<1> DEFINE map == gDeviceMemoryDescriptorEx(b)
           k == Len(Nb1Regions(b))
           n == 28 + k
           d == map[i]
<1>1. /\ k \in Nat
      /\ Len(map) = n + 45
      /\ map[12] = DbiDump
      /\ \A j \in 1 .. 28 : j # 12 => map[j] \in EarlyRegions(b)
      /\ \A j \in 29 .. n : map[j] \in Range(Nb1Regions(b))
      /\ \A j \in n + 1 .. n + 44 : map[j] \in LateRegions(b)
      /\ map[n + 45] = Terminator
  BY RegionAt
<1>2. \/ i = 12
      \/ i \in 1 .. 28 /\ i # 12
      \/ i \in 29 .. n
      \/ i \in n + 1 .. n + 44
      \/ i = n + 45
  <2>1. k \in Nat /\ i \in 1 .. n + 45
    BY <1>1
  <2> HIDE DEF map, k
  <2>2. QED BY <2>1
<1> HIDE DEF map, n
<1>3. CASE i = 12
  <2>1. /\ DbiDump.Address \in Nat /\ DbiDump.Length \in Nat /\ DbiDump.Length # 0
        /\ IsMapped(DbiDump.HobOption)
    BY SMT DEF DbiDump, Device, DescriptorEx, IsMapped
  <2>2. QED BY <1>1, <1>3, <2>1 DEF n, map
<1>4. CASE i \in 1 .. 28 /\ i # 12
  <2>1. EarlyRegion(b, d)
    BY <1>1, <1>4, EarlyRegionsLie
  <2>2. d \notin Range(Nb1Regions(b))
    BY <2>1, Nb1RegionsLie DEF EarlyRegion
  <2>3. d.Address \in Nat /\ d.Length \in Nat \ {0} /\ IsMapped(d.HobOption)
    BY <2>1 DEF EarlyRegion, IsMapped
  <2> HIDE DEF d
  <2>4. QED BY <1>1, <1>4, <2>1, <2>2, <2>3 DEF n, map, d
<1>5. CASE i \in 29 .. n
  <2>1. d \in Range(Nb1Regions(b))
    BY <1>1, <1>5
  <2>2. d.Address \in Nat /\ d.Length \in Nat \ {0} /\ IsMapped(d.HobOption)
    BY <2>1, Nb1RegionsLie DEF IsMapped
  <2> HIDE DEF d
  <2>3. QED BY <1>1, <1>5, <2>1, <2>2 DEF n, map, d
<1>6. CASE i \in n + 1 .. n + 44
  <2>1. LateRegion(d)
    BY <1>1, <1>6, LateRegionsLie
  <2>2. d.Address \in Nat /\ d.Length \in Nat \ {0} /\ IsMapped(d.HobOption)
    BY <2>1 DEF LateRegion, IsMapped, Layouts
  <2> HIDE DEF d
  <2>3. QED BY <1>1, <1>6, <2>1, <2>2 DEF n, map, d
<1>7. CASE i = n + 45
  <2>1. /\ Terminator.Address \in Nat /\ Terminator.Length = 0
        /\ IsMapped(Terminator.HobOption)
    BY SMT DEF Terminator, DescriptorEx, IsMapped
  <2>2. d = Terminator
    BY <1>1, <1>7
  <2>3. d.Address \in Nat /\ d.Length = 0 /\ IsMapped(d.HobOption)
    BY <2>1, <2>2
  <2>4. k \in Nat /\ Len(map) = n + 45 /\ d.Length \in Nat
    BY <1>1, <2>3
  <2> HIDE DEF d
  <2>5. QED BY <1>7, <2>2, <2>3, <2>4, Zenon DEF n, map, d
<1>8. QED BY <1>2, <1>3, <1>4, <1>5, <1>6, <1>7

(* What a step over a descriptor does, all of them being mapped.           *)
LEMMA TakeAppends ==
  ASSUME IInv, TakeDescriptor
  PROVE  LET d == gDeviceMemoryDescriptorEx(build)[MemoryDescriptorEx]
         IN /\ MemoryDescriptorEx \in 1 .. Len(gDeviceMemoryDescriptorEx(build))
            /\ d.HobOption \notin Layouts \ {Mem}
            /\ MemoryTable' = Append(MemoryTable, EntryOf(d))
            /\ Range(MemoryTable') = Range(MemoryTable) \union {EntryOf(d)}
            /\ Range(hobs') = IF AddsHob(d.HobOption)
                                THEN Range(hobs) \union {HobOf(d)} ELSE Range(hobs)
            /\ pc = "map"
            /\ MemoryDescriptorEx' = MemoryDescriptorEx + 1
            /\ UNCHANGED <<build, fdt, pc, Node, Mem, mmu>>
<1> DEFINE d == gDeviceMemoryDescriptorEx(build)[MemoryDescriptorEx]
<1>1. MemoryDescriptorEx \in 1 .. Len(gDeviceMemoryDescriptorEx(build))
  BY DEF IInv, TypeOK
<1>2. IsMapped(d.HobOption)
  BY <1>1, DescriptorAt
<1> HIDE DEF d
<1>3. Descriptor = d
  BY DEF Descriptor, d
<1>4. MemoryTable' = Append(MemoryTable, EntryOf(d))
  BY <1>2, <1>3, Zenon DEF TakeDescriptor, EntryOf
<1>5. hobs' = IF AddsHob(d.HobOption) THEN Append(hobs, HobOf(d)) ELSE hobs
  BY <1>3, Zenon DEF TakeDescriptor, HobOf
<1>6. MemoryTable \in Seq(MmuRecords(build)) /\ hobs \in Seq(HobRecords(build))
  BY DEF IInv
<1>7. /\ Range(MemoryTable') = Range(MemoryTable) \union {EntryOf(d)}
      /\ Range(hobs') = IF AddsHob(d.HobOption)
                          THEN Range(hobs) \union {HobOf(d)} ELSE Range(hobs)
  BY <1>4, <1>5, <1>6, RangeOfAppend, Zenon
<1>8. d.HobOption \notin Layouts \ {Mem} /\ pc = "map"
      /\ MemoryDescriptorEx' = MemoryDescriptorEx + 1
      /\ UNCHANGED <<build, fdt, pc, Node, Mem, mmu>>
  BY <1>3, Zenon DEF TakeDescriptor, InLoop, inputs
<1>9. QED BY <1>1, <1>4, <1>7, <1>8, Zenon DEF d

(* Free memory comes from a free descriptor that was passed.               *)
LEMMA OfferedIsFree ==
  ASSUME IInv, LoopInv, NEW page, Offered(page)
  PROVE  LET map == gDeviceMemoryDescriptorEx(build)
         IN \E i \in Passed : /\ i \in 1 .. Len(map)
                              /\ AddsHob(map[i].HobOption)
                              /\ IsFree(map[i]) /\ page \in Pages(map[i])
<1> DEFINE map == gDeviceMemoryDescriptorEx(build)
<1>1. PICK h \in Range(hobs) : /\ h.resource = "SYS_MEM" /\ h.memory = "Conv"
                               /\ Covers(h, page)
  BY DEF Offered
<1>2. PICK i \in Passed : AddsHob(map[i].HobOption) /\ h = HobOf(map[i])
  BY <1>1 DEF LoopInv
<1>3. IsFree(map[i]) /\ page \in Pages(map[i])
  <2> HIDE DEF map
  <2>1. QED BY <1>1, <1>2 DEF HobOf, IsFree, Pages, Covers
<1>4. i \in 1 .. Len(map)
  <2>1. MemoryDescriptorEx \in 1 .. Len(map) /\ Len(map) \in Nat
    BY MapShape DEF IInv, TypeOK
  <2> HIDE DEF map
  <2>2. QED BY <2>1 DEF Passed
<1>5. QED BY <1>2, <1>3, <1>4

-----------------------------------------------------------------------------
(* Both steps of the loop pass one descriptor.                             *)
LEMMA PassedGrows ==
  ASSUME IInv, MemoryDescriptorEx' = MemoryDescriptorEx + 1
  PROVE  Passed' = Passed \union {MemoryDescriptorEx}
<1>1. MemoryDescriptorEx \in Nat /\ MemoryDescriptorEx >= 1
  BY MapShape DEF IInv, TypeOK
<1>2. QED BY <1>1 DEF Passed

(* Every step keeps the HOBs and the table those of the descriptors passed. *)
LEMMA LoopInductive ==
  ASSUME IInv, LoopInv, [Next]_vars
  PROVE  LoopInv'
<1> DEFINE map == gDeviceMemoryDescriptorEx(build)
<1> USE DEF inputs
<1>1. CASE AddNode
  BY <1>1 DEF AddNode, LoopInv, Passed, Descriptor, AddsHob
<1>2. CASE SelectConfig
  <2>1. Passed = {} /\ Passed' = {}
    BY <1>2 DEF SelectConfig, LoopInv, Passed
  <2>2. Range(hobs) = {} /\ Range(MemoryTable) = {}
    BY <2>1 DEF LoopInv
  <2>3. pc' = "map" /\ mmu' = "off" /\ hobs' = hobs /\ MemoryTable' = MemoryTable
    BY <1>2 DEF SelectConfig, LoopInv
  <2>4. QED BY <2>1, <2>2, <2>3 DEF LoopInv
<1>3. CASE SkipOtherLayout
  <2>1. Passed' = Passed \union {MemoryDescriptorEx}
    BY <1>3, PassedGrows DEF SkipOtherLayout
  <2>2. pc = "map" /\ UNCHANGED <<build, pc, Mem, MemoryTable, hobs, mmu>>
        /\ map[MemoryDescriptorEx].HobOption \in Layouts \ {Mem}
    BY <1>3 DEF SkipOtherLayout, InLoop, Descriptor
  <2> HIDE DEF map
  <2>3. map' = map
    BY <2>2 DEF map
  <2>4. QED BY <2>1, <2>2, <2>3 DEF LoopInv, AddsHob, map
<1>4. CASE TakeDescriptor
  <2> DEFINE d == map[MemoryDescriptorEx]
  <2>1. Passed' = Passed \union {MemoryDescriptorEx}
    BY <1>4, TakeAppends, PassedGrows
  <2>2. /\ pc = "map" /\ UNCHANGED <<build, pc, Mem, mmu>>
        /\ Range(MemoryTable') = Range(MemoryTable) \union {EntryOf(d)}
        /\ Range(hobs') = IF AddsHob(d.HobOption)
                            THEN Range(hobs) \union {HobOf(d)} ELSE Range(hobs)
    BY <1>4, TakeAppends
  <2> HIDE DEF map
  <2>3. map' = map
    BY <2>2 DEF map
  <2>4. \A i \in Passed' : map[i].HobOption \notin Layouts \ {Mem} =>
          /\ AddsHob(map[i].HobOption) => HobOf(map[i]) \in Range(hobs')
          /\ EntryOf(map[i]) \in Range(MemoryTable')
    BY <2>1, <2>2 DEF LoopInv, map
  <2>5. \A h \in Range(hobs') :
          \E i \in Passed' : AddsHob(map[i].HobOption) /\ h = HobOf(map[i])
    BY <2>1, <2>2 DEF LoopInv, map
  <2>6. \A e \in Range(MemoryTable') : \E i \in Passed' : e = EntryOf(map[i])
    BY <2>1, <2>2 DEF LoopInv, map
  <2>7. mmu' = "off" /\ pc' = "map"
    BY <2>2 DEF LoopInv
  <2>8. QED BY <2>2, <2>3, <2>4, <2>5, <2>6, <2>7 DEF LoopInv, AddsHob, map
<1>5. CASE InitMmu
  BY <1>5 DEF InitMmu, LoopInv, Passed, Descriptor, AddsHob
<1>6. CASE UNCHANGED vars
  BY <1>6 DEF vars, LoopInv, Passed, Descriptor, AddsHob
<1>7. QED
  BY <1>1, <1>2, <1>3, <1>4, <1>5, <1>6 DEF Next, MemoryPeim

(* Every step keeps the last entry of a page an entry of the table.        *)
LEMMA LastInductive ==
  ASSUME IInv, LastInv, [Next]_vars
  PROVE  LastInv'
<1>1. CASE TakeDescriptor
  <2> DEFINE e == EntryOf(gDeviceMemoryDescriptorEx(build)[MemoryDescriptorEx])
             n == Len(MemoryTable)
  <2>1. /\ MemoryTable' = Append(MemoryTable, e)
        /\ Range(MemoryTable') = Range(MemoryTable) \union {e}
    BY <1>1, TakeAppends
  <2>2. MemoryTable \in Seq(MmuRecords(build))
    BY DEF IInv
  <2> HIDE DEF e
  <2>3. /\ n \in Nat /\ Len(MemoryTable') = n + 1 /\ MemoryTable'[n + 1] = e
        /\ \A i \in 1 .. n : MemoryTable'[i] = MemoryTable[i]
    BY <2>1, <2>2
  <2>4. ASSUME NEW page \in Int
        PROVE  LET k == LastCover(MemoryTable', page)
               IN IF \E r \in Range(MemoryTable') : Covers(r, page)
                    THEN k \in 1 .. Len(MemoryTable') /\ Covers(MemoryTable'[k], page)
                    ELSE k = 0
    <3>1. LastCover(MemoryTable', page) =
            IF Covers(e, page) THEN n + 1 ELSE LastCover(MemoryTable, page)
      BY <2>1, <2>2, LastOfAppend, Zenon
    <3>2. n + 1 \in 1 .. n + 1 /\ \A i \in 1 .. n : i \in 1 .. n + 1
      BY <2>3
    <3> HIDE DEF n
    <3>3. LET k == LastCover(MemoryTable, page)
          IN IF \E r \in Range(MemoryTable) : Covers(r, page)
               THEN k \in 1 .. n /\ Covers(MemoryTable[k], page)
               ELSE k = 0
      BY DEF LastInv, n
    <3>4. CASE Covers(e, page)
      BY <3>1, <3>2, <3>4, <2>1, <2>3, Zenon
    <3>5. CASE ~Covers(e, page)
      BY <3>1, <3>2, <3>3, <3>5, <2>1, <2>3, Zenon
    <3>6. QED BY <3>4, <3>5
  <2>5. QED BY <2>4, Zenon DEF LastInv, LastCover
<1>2. CASE UNCHANGED MemoryTable
  BY <1>2, Zenon DEF LastInv, LastCover
<1>3. QED
  BY <1>1, <1>2
  DEF Next, MemoryPeim, AddNode, SelectConfig, SkipOtherLayout, InitMmu, vars

-----------------------------------------------------------------------------
(* The pages of a descriptor are between its ends.                         *)
LEMMA PageWithin ==
  ASSUME NEW d, d.Address \in Nat, d.Length \in Nat, NEW page \in Pages(d)
  PROVE  page \in Int /\ d.Address <= page /\ page < d.Address + d.Length
<1>1. \A p, a, len : a \in Nat /\ len \in Nat /\ p \in a .. a + len - 1
                        => p \in Int /\ a <= p /\ p < a + len
  OBVIOUS
<1>2. QED BY <1>1, Zenon DEF Pages

(* A descriptor with other attributes that has a page of free memory       *)
(* described before it is DBI_Dump.                                        *)
LEMMA FreeMemoryIsKept ==
  ASSUME NEW b, NEW i \in 1 .. Len(gDeviceMemoryDescriptorEx(b)), NEW j \in 1 .. i - 1,
         NEW page,
         IsFree(gDeviceMemoryDescriptorEx(b)[j]),
         page \in Pages(gDeviceMemoryDescriptorEx(b)[j]),
         page \in Pages(gDeviceMemoryDescriptorEx(b)[i]),
         gDeviceMemoryDescriptorEx(b)[i].ArmAttributes # "WRITE_BACK"
  PROVE  i = 12
<1> DEFINE map == gDeviceMemoryDescriptorEx(b)
           h == Hlos3Start(b)
           n == 28 + Len(Nb1Regions(b))
           d == map[i]
           f == map[j]
<1>1. /\ n \in Nat /\ n >= 28
      /\ d.Address \in Nat /\ d.Length \in Nat
      /\ \/ i \in 1 .. 28 /\ i # 12 /\ EarlyRegion(b, d)
         \/ i = 12
         \/ i \in 29 .. n /\ d \in Range(Nb1Regions(b))
         \/ i \in n + 1 .. n + 44 /\ LateRegion(d)
         \/ i = n + 45 /\ d.Length = 0
  BY DescriptorAt
<1>2. j \in 1 .. Len(map)
  BY DescriptorAt
<1>3. /\ f.Address \in Nat /\ f.Length \in Nat
      /\ \/ j \in 1 .. 28 /\ EarlyRegion(b, f)
         \/ j \in 29 .. n /\ f \in Range(Nb1Regions(b))
         \/ j \in n + 1 .. n + 44 /\ LateRegion(f)
         \/ j = n + 45 /\ f.Length = 0
  <2>1. ~IsFree(DbiDump)
    BY SMT DEF IsFree, DbiDump, Device, DescriptorEx
  <2>2. QED BY <1>2, <2>1, DescriptorAt
<1>h. h \in {\h95E15, \h95F15}
  BY SMT DEF Hlos3Start
<1> HIDE DEF map, h, n, d, f
<1>4. IsFree(f) /\ page \in Pages(f) /\ page \in Pages(d)
      /\ d.ArmAttributes # "WRITE_BACK" /\ i \in Int /\ j \in 1 .. i - 1
  BY DEF map, d, f
<1>5. /\ page \in Int
      /\ f.Address <= page /\ page < f.Address + f.Length
      /\ d.Address <= page /\ page < d.Address + d.Length
  BY <1>1, <1>3, <1>4, PageWithin, Zenon
<1>6. SUFFICES ASSUME i # 12 PROVE FALSE
  OBVIOUS
\* Where the free page is ...
<1>7. \/ j \in 1 .. 28 /\ \/ page >= \h80000 /\ page < \h81AC0
                          \/ page >= h /\ page < \h9D400
      \/ j > n /\ page >= \h40000 /\ (page < \h80000 \/ page >= \hA0000)
  <2>1. CASE j \in 1 .. 28 /\ EarlyRegion(b, f)
    <3>1. InLowMemory(b, f)
      BY <1>4, <2>1 DEF EarlyRegion
    <3>2. QED BY <1>3, <1>5, <1>h, <2>1, <3>1, SMT DEF InLowMemory, Inside, h
  <2>2. CASE j \in 29 .. n /\ f \in Range(Nb1Regions(b))
    BY <1>4, <2>2, Nb1RegionsLie DEF IsFree
  <2>3. CASE j \in n + 1 .. n + 44 /\ LateRegion(f)
    <3>1. f.Address >= \h40000 /\ (f.Address + f.Length <= \h80000 \/ f.Address >= \hA0000)
      BY <1>4, <2>3 DEF LateRegion
    <3>2. QED BY <1>1, <1>3, <1>5, <2>3, <3>1, SMT
  <2>4. CASE f.Length = 0
    BY <1>3, <1>5, <2>4
  <2>5. QED BY <1>3, <2>1, <2>2, <2>3, <2>4
\* ... the region cannot reach.
<1>8. CASE i \in 1 .. 28 /\ EarlyRegion(b, d)
  <2>1. OutsideLowMemory(b, d) /\ j \in 1 .. 28
    BY <1>1, <1>4, <1>7, <1>8 DEF EarlyRegion
  <2>2. QED
    BY <1>1, <1>5, <1>7, <1>h, <1>8, <2>1, SMT DEF OutsideLowMemory, Outside, h
<1>9. CASE i \in 29 .. n /\ d \in Range(Nb1Regions(b))
  <2>1. d.Address >= \hA0000
    BY <1>9, Nb1RegionsLie
  <2>2. QED BY <1>1, <1>4, <1>5, <1>7, <1>h, <1>9, <2>1, SMT
<1>10. CASE i \in n + 1 .. n + 44 /\ LateRegion(d)
  <2>1. d.Address + d.Length <= \h40000
    BY <1>4, <1>10 DEF LateRegion
  <2>2. QED BY <1>1, <1>5, <1>7, <1>h, <2>1, SMT
<1>11. CASE d.Length = 0
  BY <1>1, <1>5, <1>11
<1>12. QED BY <1>1, <1>6, <1>8, <1>9, <1>10, <1>11

(* DXE_Heap has all pages of DBI_Dump.                                     *)
LEMMA HeapTakesBack == Pages(DbiDump) \subseteq Pages(DxeHeap)
<1>1. /\ DbiDump.Address = \h9D330 /\ DbiDump.Length = \hD0
      /\ DxeHeap.Address = \h97C00 /\ DxeHeap.Length = \h5800
  BY SMT DEF DbiDump, DxeHeap, Device, SysMem, DescriptorEx
<1>2. ASSUME NEW page \in Pages(DbiDump)
      PROVE  page \in Pages(DxeHeap)
  BY <1>1, SMT DEF Pages
<1> HIDE DEF Pages
<1>3. QED BY <1>2, Zenon

(* AttributesAreOfLast, of the state after a step.                         *)
LEMMA AttributesAfter ==
  ASSUME NEW page
  PROVE  AttributesOf(page)' = IF LastCover(MemoryTable', page) = 0 THEN "unmapped"
                               ELSE MemoryTable'[LastCover(MemoryTable', page)].attributes
<1>1. (AttributesOf(page) = IF LastCover(MemoryTable, page) = 0 THEN "unmapped"
                            ELSE MemoryTable[LastCover(MemoryTable, page)].attributes)'
  BY AttributesAreOfLast, PTL
<1>2. QED BY <1>1 DEF LastCover, Covers

(* Every step keeps free memory cacheable but for the pages DBI_Dump took. *)
LEMMA CacheInductive ==
  ASSUME IInv, LoopInv, LastInv, CacheInv, [Next]_vars
  PROVE  CacheInv'
<1>1. CASE TakeDescriptor
  <2> DEFINE map == gDeviceMemoryDescriptorEx(build)
             d == map[MemoryDescriptorEx]
             k(page) == LastCover(MemoryTable, page)
  <2>1. /\ MemoryDescriptorEx \in 1 .. Len(map)
        /\ MemoryTable' = Append(MemoryTable, EntryOf(d))
        /\ Range(hobs') = IF AddsHob(d.HobOption)
                            THEN Range(hobs) \union {HobOf(d)} ELSE Range(hobs)
        /\ MemoryDescriptorEx' = MemoryDescriptorEx + 1
    BY <1>1, TakeAppends
  <2>2. MemoryTable \in Seq(MmuRecords(build)) /\ MemoryDescriptorEx \in Nat
    BY MapShape DEF IInv, TypeOK
  <2>3. ASSUME NEW page \in Int, Offered(page)'
        PROVE  \/ AttributesOf(page)' = "WRITE_BACK"
               \/ MemoryDescriptorEx' = 13 /\ page \in Pages(DbiDump)
    <3>1. AttributesOf(page)' =
            IF page \in Pages(d) THEN d.ArmAttributes ELSE AttributesOf(page)
      <4>1. LastCover(MemoryTable', page) =
              IF page \in Pages(d) THEN Len(MemoryTable) + 1 ELSE k(page)
        <5>1. Covers(EntryOf(d), page) <=> page \in Pages(d)
          BY DEF Covers, EntryOf, Pages
        <5>2. QED BY <2>1, <2>2, <5>1, LastOfAppend, Zenon
      <4>2. AttributesOf(page)' =
              IF LastCover(MemoryTable', page) = 0 THEN "unmapped"
              ELSE MemoryTable'[LastCover(MemoryTable', page)].attributes
        BY AttributesAfter
      <4>3. AttributesOf(page) =
              IF k(page) = 0 THEN "unmapped" ELSE MemoryTable[k(page)].attributes
        BY AttributesAreOfLast
      <4>4. k(page) \in 0 .. Len(MemoryTable)
        <5>1. k(page) \in 1 .. Len(MemoryTable) \/ k(page) = 0
          BY DEF LastInv
        <5> HIDE DEF k
        <5>2. QED BY <2>2, <5>1
      <4> HIDE DEF d, k
      <4>5. /\ MemoryTable'[Len(MemoryTable) + 1] = EntryOf(d)
            /\ \A i \in 1 .. Len(MemoryTable) : MemoryTable'[i] = MemoryTable[i]
            /\ Len(MemoryTable) \in Nat
        BY <2>1, <2>2
      <4>6. EntryOf(d).attributes = d.ArmAttributes
        BY DEF EntryOf
      <4>7. QED BY <4>1, <4>2, <4>3, <4>4, <4>5, <4>6
    <3>2. CASE AddsHob(d.HobOption) /\ IsFree(d) /\ page \in Pages(d)
      <4>1. d.ArmAttributes = "WRITE_BACK"
        <5>1. ~IsFree(DbiDump) /\ ~IsFree(Terminator)
          BY SMT DEF IsFree, DbiDump, Terminator, Device, DescriptorEx
        <5>2. \/ EarlyRegion(build, d) \/ LateRegion(d)
              \/ d \in Range(Nb1Regions(build))
          BY <2>1, <3>2, <5>1, DescriptorAt
        <5> HIDE DEF d
        <5>3. QED BY <3>2, <5>2, Nb1RegionsLie DEF EarlyRegion, LateRegion, IsFree
      <4>2. QED BY <3>1, <3>2, <4>1
    <3>3. CASE Offered(page)
      <4>1. PICK j \in Passed : IsFree(map[j]) /\ page \in Pages(map[j])
        BY <3>3, OfferedIsFree
      <4>2. j \in 1 .. MemoryDescriptorEx - 1
        BY DEF Passed
      <4>3. CASE page \in Pages(d)
        <5>1. CASE d.ArmAttributes = "WRITE_BACK"
          BY <3>1, <4>3, <5>1
        <5>2. CASE d.ArmAttributes # "WRITE_BACK"
          <6>1. MemoryDescriptorEx = 12
            BY <2>1, <4>1, <4>2, <4>3, <5>2, FreeMemoryIsKept
          <6>2. d = DbiDump
            BY <6>1, RegionAt
          <6> HIDE DEF d
          <6>3. QED BY <2>1, <4>3, <6>1, <6>2
        <5>3. QED BY <5>1, <5>2
      <4>4. CASE page \notin Pages(d)
        <5>1. AttributesOf(page)' = AttributesOf(page)
          BY <3>1, <4>4
        <5>2. CASE MemoryDescriptorEx = 13 /\ page \in Pages(DbiDump)
          <6>1. d = DxeHeap
            BY <5>2, RegionAt
          <6>2. Pages(DbiDump) \subseteq Pages(DxeHeap)
            BY HeapTakesBack
          <6> HIDE DEF d
          <6>3. QED BY <4>4, <5>2, <6>1, <6>2
        <5>3. QED BY <3>3, <5>1, <5>2 DEF CacheInv
      <4>5. QED BY <4>3, <4>4
    <3>4. Offered(page) \/ (AddsHob(d.HobOption) /\ IsFree(d) /\ page \in Pages(d))
      <4>1. PICK h \in Range(hobs') :
              h.resource = "SYS_MEM" /\ h.memory = "Conv" /\ Covers(h, page)
        BY <2>3 DEF Offered, Covers
      <4> HIDE DEF d
      <4>2. CASE h \in Range(hobs)
        BY <4>1, <4>2 DEF Offered
      <4>3. CASE h = HobOf(d) /\ AddsHob(d.HobOption)
        BY <4>1, <4>3 DEF HobOf, IsFree, Pages, Covers
      <4>4. QED BY <2>1, <4>2, <4>3
    <3>5. QED BY <3>2, <3>3, <3>4
  <2>4. QED BY <2>3 DEF CacheInv, Pages
<1>2. CASE SkipOtherLayout
  <2>1. DxeHeap.HobOption \notin Layouts
    BY SMT DEF DxeHeap, SysMem, DescriptorEx, Layouts
  <2>2. gDeviceMemoryDescriptorEx(build)[13] = DxeHeap
    BY RegionAt
  <2>3. MemoryDescriptorEx # 13
    BY <1>2, <2>1, <2>2 DEF SkipOtherLayout, Descriptor
  <2>4. UNCHANGED <<MemoryTable, hobs>>
    BY <1>2 DEF SkipOtherLayout
  <2>5. QED
    BY <2>3, <2>4 DEF CacheInv, Offered, AttributesOf, SelectLastInSeq, Covers
<1>3. CASE UNCHANGED <<MemoryTable, hobs, MemoryDescriptorEx>>
  BY <1>3 DEF CacheInv, Offered, AttributesOf, SelectLastInSeq, Covers
<1>4. QED
  BY <1>1, <1>2, <1>3 DEF Next, MemoryPeim, AddNode, SelectConfig, InitMmu, vars

(* Every step keeps the sum of the NB1's nodes, which chooses its layout.  *)
LEMMA Nb1Inductive ==
  ASSUME IInv, LoopInv, Nb1Inv, [Next]_vars
  PROVE  Nb1Inv'
<1> SUFFICES ASSUME build' = "NB1_FIXED", fdt' = Nb1Memory
             PROVE  IF pc' = "fdt"
                      THEN MemoryTotal' = IF Node' = 0 THEN 0
                                          ELSE IF Node' = 1 THEN \h100000 ELSE \h1FCBC0
                      ELSE Mem' = "Mem8G"
  BY DEF Nb1Inv
<1> DEFINE N0 == \h100000
           N1 == \hFCBC0
           N2 == \h1FCBC0
<1>0. UNCHANGED inputs /\ build = "NB1_FIXED" /\ fdt = Nb1Memory
  BY DEF Next, MemoryPeim, AddNode, SelectConfig, SkipOtherLayout, TakeDescriptor,
         InitMmu, vars, inputs
<1>m. Len(fdt) = 2 /\ fdt[1].size = N0 /\ fdt[2].size = N1
  BY <1>0, SMT DEF Nb1Memory
<1>n. N0 \in Nat /\ N0 + N1 = N2 /\ 0 + N0 = N0
  BY SMT
<1>t. Node \in 0 .. 2
  BY <1>m DEF IInv, TypeOK
<1>5. IF pc = "fdt"
        THEN MemoryTotal = IF Node = 0 THEN 0 ELSE IF Node = 1 THEN N0 ELSE N2
        ELSE Mem = "Mem8G"
  BY <1>0 DEF Nb1Inv
<1>1. CASE AddNode
  <2>1. pc = "fdt" /\ pc' = "fdt" /\ Node \in 0 .. 1 /\ Node' = Node + 1
        /\ MemoryTotal' = MemoryTotal + fdt[Node + 1].size
    BY <1>1, <1>m, <1>t, SMT DEF AddNode, Plus
  <2>2. QED BY <1>5, <1>m, <1>n, <2>1, SMT
<1>2. CASE SelectConfig
  <2>1. pc = "fdt" /\ MemoryTotal = N2
    BY <1>2, <1>5, <1>m, SMT DEF SelectConfig
  <2>2. SIZE_MB_IN(7168, 8704)
    BY <2>1, SMT DEF SIZE_MB_IN, SIZE_MB
  <2>3. QED BY <1>2, <2>2, SMT DEF SelectConfig
<1>3. CASE UNCHANGED <<pc, Mem>> /\ pc # "fdt"
  BY <1>3, <1>5
<1>4. CASE UNCHANGED vars
  BY <1>4, <1>5 DEF vars
<1>6. CASE InitMmu
  BY <1>5, <1>6 DEF InitMmu
<1>7. QED
  BY <1>1, <1>2, <1>3, <1>4, <1>6
  DEF Next, MemoryPeim, SkipOtherLayout, TakeDescriptor, InLoop

(* MemoryPeim starts in the invariant, and every step keeps it.            *)
LEMMA MapInit == Init => MapInv
<1> SUFFICES ASSUME Init
             PROVE  MapInv
  OBVIOUS
<1>1. Range(hobs) = {} /\ Range(MemoryTable) = {} /\ Passed = {}
  BY DEF Init, Range, Passed
<1>2. LoopInv
  BY <1>1 DEF Init, LoopInv
<1>3. LastInv
  <2>1. ASSUME NEW page \in Int PROVE LastCover(MemoryTable, page) = 0
    <3>1. {i \in 1 .. Len(MemoryTable) : Covers(MemoryTable[i], page)} = {}
      BY DEF Init
    <3>2. QED BY <3>1, Zenon DEF LastCover
  <2>2. QED BY <1>1, <2>1 DEF LastInv
<1>4. CacheInv
  BY <1>1 DEF CacheInv, Offered
<1>5. Nb1Inv
  BY DEF Init, Nb1Inv
<1>6. QED BY <1>2, <1>3, <1>4, <1>5, InitEstablishes DEF MapInv

(* Every step keeps the parts of the invariant.                            *)
LEMMA MapInductive == MapInv /\ [Next]_vars => MapInv'
BY InvInductive, LoopInductive, LastInductive, CacheInductive, Nb1Inductive DEF MapInv

(* The parts of the invariant hold of every run of MemoryPeim.             *)
LEMMA MapHolds == Spec => []MapInv
BY MapInit, MapInductive, PTL DEF Spec

-----------------------------------------------------------------------------
(* At the end the whole map has been read.                                 *)
LEMMA AllPassed ==
  ASSUME MapInv, pc = "done"
  PROVE  MemoryDescriptorEx = Len(gDeviceMemoryDescriptorEx(build))
<1> DEFINE map == gDeviceMemoryDescriptorEx(build)
           n == 28 + Len(Nb1Regions(build))
<1>1. MemoryDescriptorEx \in 1 .. Len(map)
  BY DEF MapInv, IInv, TypeOK
<1>2. map[MemoryDescriptorEx].Length = 0
  BY DEF MapInv, LoopInv, Descriptor
<1>3. Len(map) = n + 45 /\ MemoryDescriptorEx = n + 45
  BY <1>1, <1>2, DescriptorAt
<1>4. QED BY <1>3

(* At the end DXE_Heap has long taken back what DBI_Dump took.             *)
LEMMA CacheableFromInv == MapInv => FreeMemoryIsCacheable
<1> SUFFICES ASSUME MapInv, mmu = "on", NEW page \in Boundaries, Offered(page)
             PROVE  AttributesOf(page) = "WRITE_BACK"
  BY DEF FreeMemoryIsCacheable
<1>1. MemoryDescriptorEx # 13
  <2>1. pc = "done"
    BY DEF MapInv, LoopInv
  <2>2. MemoryDescriptorEx = 28 + Len(Nb1Regions(build)) + 45
        /\ Len(Nb1Regions(build)) \in Nat
    BY <2>1, AllPassed, RegionAt
  <2>3. QED BY <2>2
<1>2. page \in Int
  BY OfferedIsFree DEF MapInv, Pages
<1>3. QED BY <1>1, <1>2 DEF MapInv, CacheInv

(* Free memory is write-back memory on every device: no region that takes  *)
(* some of its pages, not even DBI_Dump, has the last word on them.        *)
THEOREM FreeMemoryStaysCacheable == Spec => []FreeMemoryIsCacheable
BY MapHolds, CacheableFromInv, PTL

-----------------------------------------------------------------------------
\* The pages all devices reserve, which no other descriptor has.
SharedPages(b) == \h85800 .. Hlos3Start(b) - 1 \union \h9FA00 .. \h9FBFF

(* No descriptor but those that all devices reserve has a page of theirs.  *)
LEMMA SharedAreReserved ==
  ASSUME NEW b, NEW i \in 1 .. Len(gDeviceMemoryDescriptorEx(b)),
         NEW page,
         page \in SharedPages(b),
         page \in Pages(gDeviceMemoryDescriptorEx(b)[i])
  PROVE  /\ gDeviceMemoryDescriptorEx(b)[i].MemoryType = "Reserv"
         /\ gDeviceMemoryDescriptorEx(b)[i].Length # 0
         /\ gDeviceMemoryDescriptorEx(b)[i] \notin Range(Nb1Regions(b))
         /\ gDeviceMemoryDescriptorEx(b)[i].HobOption \notin Layouts
<1> DEFINE d == gDeviceMemoryDescriptorEx(b)[i]
           h == Hlos3Start(b)
<1>1. /\ d.Address \in Nat /\ d.Length \in Nat
      /\ \/ EarlyRegion(b, d) /\ d \notin Range(Nb1Regions(b))
         \/ d = DbiDump
         \/ d \in Range(Nb1Regions(b))
         \/ LateRegion(d)
         \/ d.Length = 0
  BY DescriptorAt
<1>h. h \in {\h95E15, \h95F15}
  BY SMT DEF Hlos3Start
<1> HIDE DEF d, h
<1>2. /\ page \in Int
      /\ \/ page >= \h85800 /\ page < h
         \/ page >= \h9FA00 /\ page < \h9FC00
      /\ d.Address <= page /\ page < d.Address + d.Length
  <2>1. page \in \h85800 .. h - 1 \union \h9FA00 .. \h9FBFF
        /\ page \in d.Address .. d.Address + d.Length - 1
    BY SMT DEF d, h, Pages, SharedPages
  <2>2. QED BY <1>1, <1>h, <2>1, SMT
<1>3. CASE EarlyRegion(b, d) /\ d \notin Range(Nb1Regions(b))
  <2>1. CASE d.MemoryType = "Reserv"
    BY <1>3, <2>1 DEF EarlyRegion, Layouts, d
  <2>2. CASE d.MemoryType # "Reserv"
    <3>1. OutsideShared(b, d)
      BY <1>3, <2>2 DEF EarlyRegion
    <3>2. QED BY <1>1, <1>2, <1>h, <3>1, SMT DEF OutsideShared, Outside, h
  <2>3. QED BY <2>1, <2>2
<1>4. CASE d = DbiDump
  <2>1. DbiDump.Address = \h9D330 /\ DbiDump.Length = \hD0
    BY SMT DEF DbiDump, Device, DescriptorEx
  <2>2. QED BY <1>2, <1>h, <1>4, <2>1, SMT
<1>5. CASE d \in Range(Nb1Regions(b))
  <2>1. d.Address >= \hA0000
    BY <1>5, Nb1RegionsLie
  <2>2. QED BY <1>1, <1>2, <1>h, <2>1, SMT
<1>6. CASE LateRegion(d)
  <2>1. CASE IsFree(d)
    <3>1. d.Address + d.Length <= \h80000 \/ d.Address >= \hA0000
      BY <1>6, <2>1 DEF LateRegion
    <3>2. QED BY <1>1, <1>2, <1>h, <3>1, SMT
  <2>2. CASE ~IsFree(d)
    <3>1. d.Address + d.Length <= \h40000
      BY <1>6, <2>2 DEF LateRegion
    <3>2. QED BY <1>1, <1>2, <1>h, <3>1, SMT
  <2>3. QED BY <2>1, <2>2
<1>7. CASE d.Length = 0
  BY <1>1, <1>2, <1>7
<1>8. QED BY <1>1, <1>3, <1>4, <1>5, <1>6, <1>7

(* So the last entry of a reserved page is one of a shared reservation.    *)
LEMMA SharedFromInv == MapInv => SharedReservationsHold
<1> DEFINE map == gDeviceMemoryDescriptorEx(build)
           R == Reservations \ Range(Nb1Regions(build))
           h == Hlos3Start(build)
<1> SUFFICES ASSUME MapInv, NEW page \in Boundaries, IsReserved(page, R)
             PROVE  /\ ~Offered(page)
                    /\ mmu = "on" => \E d \in R : /\ page \in Pages(d)
                                                  /\ AttributesOf(page) = d.ArmAttributes
  BY DEF SharedReservationsHold, ReservationsHold, Pages
<1>1. PICK i \in 1 .. Len(map) : map[i] \in R /\ page \in Pages(map[i])
  <2>1. PICK r \in R : page \in Pages(r)
    BY DEF IsReserved, Pages
  <2>2. r \in Range(map)
    BY DEF Reservations
  <2>3. DOMAIN map = 1 .. Len(map)
    BY MapShape
  <2> HIDE DEF map, R
  <2>4. QED BY <2>1, <2>2, <2>3 DEF Range
<1>2. page \in Int
  BY <1>1 DEF Pages
<1>3. page \in SharedPages(build)
  <2> DEFINE d == map[i]
  <2>1. d.MemoryType = "Reserv" /\ d.Length # 0 /\ d \notin Range(Nb1Regions(build))
    BY <1>1 DEF Reservations
  <2>2. DbiDump.MemoryType # "Reserv"
    BY SMT DEF DbiDump, Device, DescriptorEx
  <2>3. EarlyRegion(build, d)
    BY <2>1, <2>2, DescriptorAt DEF LateRegion
  <2>4. InShared(build, d) /\ d.Address \in Nat /\ d.Length \in Nat
    BY <2>1, <2>3 DEF EarlyRegion
  <2>5. page \in Pages(d)
    BY <1>1
  <2>6. h \in {\h95E15, \h95F15}
    BY SMT DEF Hlos3Start
  <2> HIDE DEF d, h
  <2>7. page \in Int /\ d.Address <= page /\ page < d.Address + d.Length
    BY <2>4, <2>5, PageWithin, Zenon
  <2>8. \/ \h85800 <= page /\ page <= h - 1
        \/ \h9FA00 <= page /\ page <= \h9FBFF
    BY <2>4, <2>6, <2>7, SMT DEF InShared, Inside, h
  <2>9. QED BY <2>6, <2>7, <2>8, SMT DEF SharedPages, h
<1>4. ~Offered(page)
  <2>1. SUFFICES ASSUME Offered(page) PROVE FALSE
    OBVIOUS
  <2>2. PICK j \in Passed : j \in 1 .. Len(map) /\ IsFree(map[j]) /\ page \in Pages(map[j])
    BY <2>1, OfferedIsFree DEF MapInv
  <2>3. map[j].MemoryType = "Reserv"
    BY <1>3, <2>2, SharedAreReserved
  <2> HIDE DEF map, R, h
  <2>4. "Reserv" # "Conv"
    OBVIOUS
  <2>5. QED BY <2>2, <2>3, <2>4, SMT DEF IsFree
<1>5. ASSUME mmu = "on"
      PROVE  \E d \in R : page \in Pages(d) /\ AttributesOf(page) = d.ArmAttributes
  <2> DEFINE k == LastCover(MemoryTable, page)
  <2>1. MemoryDescriptorEx = Len(map)
    BY <1>5, AllPassed DEF MapInv, LoopInv
  <2>2. EntryOf(map[i]) \in Range(MemoryTable)
    <3>1. i \in Passed
      <4>1. map[i].Length # 0
        BY <1>1 DEF Reservations
      <4>2. map[Len(map)].Length = 0 /\ Len(map) \in Nat
        BY MapShape
      <4> HIDE DEF map
      <4>3. i # Len(map)
        BY <4>1, <4>2
      <4>4. QED BY <2>1, <4>2, <4>3 DEF Passed
    <3>2. map[i].HobOption \notin Layouts
      BY <1>1, <1>3, SharedAreReserved
    <3>3. QED BY <3>1, <3>2 DEF MapInv, LoopInv
  <2>3. Covers(EntryOf(map[i]), page)
    BY <1>1 DEF Covers, EntryOf, Pages
  <2>4. k \in 1 .. Len(MemoryTable) /\ Covers(MemoryTable[k], page)
    BY <1>2, <2>2, <2>3 DEF MapInv, LastInv
  <2>5. MemoryTable[k] \in Range(MemoryTable)
    <3>1. MemoryTable \in Seq(MmuRecords(build))
      BY DEF MapInv, IInv
    <3> HIDE DEF k
    <3>2. QED BY <2>4, <3>1 DEF Range
  <2>6. PICK j \in Passed : MemoryTable[k] = EntryOf(map[j])
    BY <2>5 DEF MapInv, LoopInv
  <2>7. j \in 1 .. Len(map)
    <3>1. Len(map) \in Nat
      BY MapShape
    <3> HIDE DEF map
    <3>2. QED BY <2>1, <3>1 DEF Passed
  <2>8. page \in Pages(map[j])
    <3> HIDE DEF map, k
    <3>1. QED BY <2>4, <2>6 DEF Covers, EntryOf, Pages
  <2>9. map[j] \in R
    <3>1. /\ map[j].MemoryType = "Reserv" /\ map[j].Length # 0
          /\ map[j] \notin Range(Nb1Regions(build))
      BY <1>3, <2>7, <2>8, SharedAreReserved
    <3>2. map[j] \in Range(map)
      <4>1. DOMAIN map = 1 .. Len(map)
        BY MapShape
      <4> HIDE DEF map
      <4>2. QED BY <2>7, <4>1 DEF Range
    <3>3. QED BY <3>1, <3>2 DEF Reservations
  <2>10. AttributesOf(page) = map[j].ArmAttributes
    <3>1. AttributesOf(page) = IF k = 0 THEN "unmapped" ELSE MemoryTable[k].attributes
      BY AttributesAreOfLast
    <3> HIDE DEF map, k
    <3>2. QED BY <2>4, <2>6, <3>1 DEF EntryOf
  <2>11. QED BY <2>8, <2>9, <2>10
<1>6. QED BY <1>4, <1>5

(* What all devices reserve is free memory on none of them, and is mapped  *)
(* as it was reserved: no later descriptor takes a page of it.             *)
THEOREM SharedReservationsStay == Spec => []SharedReservationsHold
BY MapHolds, SharedFromInv, PTL

-----------------------------------------------------------------------------
\* Where the layout of 8 GB begins, and where the memory of the NB1 ends and
\* that layout with it.
Nb1LayoutStart == \hA0000
Nb1End == \h27CBC0

(* The partitions of the NB1's layout of 8 GB begin at 512 MB, and the     *)
(* last ends where its memory does.                                        *)
LEMMA Nb1LayoutLies ==
  ASSUME NEW b, b = "NB1_FIXED", NEW d \in LateRegions(b), IsFree(d),
         d.HobOption \notin {"Mem4G", "Mem6G"}
  PROVE  Nb1LayoutStart <= d.Address /\ d.Address + d.Length <= Nb1End
<1> DEFINE P(r) == IsFree(r) /\ r.HobOption \notin {"Mem4G", "Mem6G"}
                     => Nb1LayoutStart <= r.Address /\ r.Address + r.Length <= Nb1End
<1>1. \A r \in Range(RamPartitions(b)) : P(r)
  <2>1. TopPartition(b) = \hFCBC0
    BY SMT DEF TopPartition
  <2>2. QED
    BY <2>1, SMT
    DEF Nb1LayoutStart, Nb1End, IsFree, RamPartitions, RamPartition, SysMem, DescriptorEx, Range
<1>2. \A r \in Range(OtherRegions) : P(r)
  BY SMT DEF IsFree, OtherRegions, Device, DescriptorEx, Range
<1>3. \A r \in Range(RegisterRegions) : P(r)
  <2>1. \A r \in Range(RegisterRegions) : r.ResourceType = "MMAP_IO"
    BY SMT DEF RegisterRegions, Device, DescriptorEx, Range
  <2>2. QED BY <2>1, SMT DEF IsFree
<1> HIDE DEF P
<1>4. P(d)
  BY <1>1, <1>2, <1>3 DEF LateRegions
<1>5. QED BY <1>4, SMT DEF P

(* The HOBs of that layout are within the nodes, and all of them from      *)
(* 512 MB up.                                                              *)
LEMMA LayoutFromInv == MapInv => Nb1LayoutIsItsMemory
<1> DEFINE map == gDeviceMemoryDescriptorEx(build)
           n == 28 + Len(Nb1Regions(build))
           First == \h80000
           Low == \hA0000
           Mid == \h180000
           Nodes == UNION {r.base .. r.base + r.size - 1 : r \in Range(fdt)}
<1> SUFFICES ASSUME MapInv, build = "NB1_FIXED", fdt = Nb1Memory, pc = "done",
                    NEW page \in Boundaries
             PROVE  /\ Offered(page) => page \in Nodes
                    /\ page \in Nodes /\ page >= Low => Offered(page)
  <2>1. ASSUME NEW page
        PROVE  page \in Nodes <=> InMemory(page)
    BY DEF InMemory
  <2> HIDE DEF Nodes
  <2>2. QED BY <2>1, SMT DEF Nb1LayoutIsItsMemory
<1> HIDE DEF First, Low, Mid, Nodes
<1>m. Mem = "Mem8G"
  BY SMT DEF MapInv, Nb1Inv
<1>1. /\ Mem = "Mem8G" /\ n \in Nat /\ Len(map) = n + 45
      /\ MemoryDescriptorEx = n + 45
      /\ \A i \in n + 1 .. n + 44 : map[i] \in LateRegions(build)
      /\ map[n + 5] = RamPartitions(build)[5] /\ map[n + 6] = RamPartitions(build)[6]
  <2>1. MemoryDescriptorEx = Len(map)
    BY AllPassed
  <2>2. /\ n \in Nat /\ Len(map) = n + 45
        /\ \A i \in n + 1 .. n + 44 : map[i] \in LateRegions(build)
        /\ map[n + 5] = RamPartitions(build)[5] /\ map[n + 6] = RamPartitions(build)[6]
    <3>1. Len(Nb1Regions(build)) \in Nat
      BY RegionAt, Zenon
    <3>2. n \in Nat
      BY <3>1
    <3>3. QED BY <3>2, RegionAt, Zenon
  <2> HIDE DEF map, n
  <2>3. QED BY <1>m, <2>1, <2>2
<1> HIDE DEF n
<1>2. page \in Nodes <=> page \in Int /\ First <= page /\ page < Nb1End
  <2> DEFINE A == [base |-> \h80000, size |-> \h100000]
             B == [base |-> \h180000, size |-> \hFCBC0]
  <2>1. Range(fdt) = {A, B}
    BY SMT DEF Nb1Memory, Range
  <2>2. /\ A.base = \h80000 /\ A.size = \h100000
        /\ B.base = \h180000 /\ B.size = \hFCBC0
    OBVIOUS
  <2> HIDE DEF A, B
  <2>3. page \in Nodes <=> (\/ page \in A.base .. A.base + A.size - 1
                            \/ page \in B.base .. B.base + B.size - 1)
    BY <2>1, Zenon DEF Nodes
  <2>4. \A p, base, size \in Int : p \in base .. base + size - 1
                                     <=> base <= p /\ p < base + size
    OBVIOUS
  <2>5. page \in Nodes => page \in Int
    BY <2>3
  <2>6. CASE page \in Int
    <3>1. page \in Nodes <=> \/ A.base <= page /\ page < A.base + A.size
                             \/ B.base <= page /\ page < B.base + B.size
      <4>1. A.base \in Int /\ A.size \in Int /\ B.base \in Int /\ B.size \in Int
        BY <2>2
      <4>2. QED BY <2>3, <2>4, <2>6, <4>1, Zenon
    <3>2. ASSUME \/ A.base <= page /\ page < A.base + A.size
                 \/ B.base <= page /\ page < B.base + B.size
          PROVE  First <= page /\ page < Nb1End
      BY <2>2, <2>6, <3>2, SMT DEF First, Nb1End
    <3>3. First <= page /\ page < Nb1End
            => \/ A.base <= page /\ page < A.base + A.size
               \/ B.base <= page /\ page < B.base + B.size
      BY <2>2, <2>6, SMT DEF First, Nb1End
    <3>4. QED BY <2>6, <3>1, <3>2, <3>3, Zenon
  <2>7. QED BY <2>5, <2>6, Zenon
<1>3. ASSUME Offered(page)
      PROVE  page \in Int /\ First <= page /\ page < Nb1End
  <2>1. PICK j \in Passed : /\ j \in 1 .. Len(map) /\ AddsHob(map[j].HobOption)
                            /\ IsFree(map[j]) /\ page \in Pages(map[j])
    BY <1>3, OfferedIsFree DEF MapInv
  <2> DEFINE d == map[j]
  <2>2. /\ d.Address \in Nat /\ d.Length \in Nat
        /\ \/ EarlyRegion(build, d)
           \/ d = DbiDump
           \/ d \in Range(Nb1Regions(build))
           \/ j \in n + 1 .. n + 44
           \/ d.Length = 0
    BY <2>1, DescriptorAt DEF n
  <2>3. IsFree(d) /\ AddsHob(d.HobOption) /\ page \in Pages(d)
    BY <2>1
  <2>4. ~IsFree(DbiDump)
    BY SMT DEF IsFree, DbiDump, Device, DescriptorEx
  <2>5. j \in n + 1 .. n + 44 => d \in LateRegions(build)
    BY <1>1
  <2> HIDE DEF map, d
  <2>6. page \in Int /\ d.Address <= page /\ page < d.Address + d.Length
    BY <2>2, <2>3, SMT DEF Pages
  <2>7. CASE EarlyRegion(build, d)
    <3>1. d.Address + d.Length <= \hA0000 /\ InLowMemory(build, d)
      BY <2>3, <2>7, SMT DEF EarlyRegion
    <3>2. Hlos3Start(build) \in {\h95E15, \h95F15}
      BY SMT DEF Hlos3Start
    <3>3. \h80000 <= d.Address
      BY <2>2, <3>1, <3>2, SMT DEF InLowMemory, Inside
    <3>4. QED BY <2>2, <2>6, <3>1, <3>3, SMT DEF First, Nb1End
  <2>8. CASE d \in Range(Nb1Regions(build))
    <3>1. d.MemoryType = "Reserv"
      BY <2>8, Nb1RegionsLie
    <3>2. QED BY <2>3, <3>1, SMT DEF IsFree
  <2>9. CASE j \in n + 1 .. n + 44
    <3>1. d.HobOption \notin {"Mem4G", "Mem6G"}
      BY <1>1, <2>3, SMT DEF AddsHob
    <3>2. Nb1LayoutStart <= d.Address /\ d.Address + d.Length <= Nb1End
      BY <2>3, <2>5, <2>9, <3>1, Nb1LayoutLies, Zenon
    <3>3. QED BY <2>2, <2>6, <3>2, SMT DEF First, Nb1LayoutStart, Nb1End
  <2>10. CASE d.Length = 0
    BY <2>2, <2>6, <2>10, SMT
  <2>11. QED BY <2>2, <2>3, <2>4, <2>7, <2>8, <2>9, <2>10, Zenon
<1>4. ASSUME page \in Int, Low <= page, page < Nb1End
      PROVE  Offered(page)
  <2>1. /\ RamPartitions(build)[5] = RamPartition(\hA0000, \hE0000, "Mem8G")
        /\ RamPartitions(build)[6] = RamPartition(\h180000, \hFCBC0, "Mem8G")
    BY SMT DEF RamPartitions, TopPartition
  <2>2. ASSUME NEW i \in {n + 5, n + 6}, map[i].HobOption = "Mem8G",
               IsFree(map[i]), page \in Pages(map[i])
        PROVE  Offered(page)
    <3>1. i \in Passed
      BY <1>1 DEF Passed
    <3>2. AddsHob(map[i].HobOption) /\ map[i].HobOption \notin Layouts \ {Mem}
      BY <1>1, <2>2 DEF AddsHob
    <3>3. HobOf(map[i]) \in Range(hobs)
      BY <3>1, <3>2 DEF MapInv, LoopInv
    <3> HIDE DEF map
    <3>4. QED BY <2>2, <3>3 DEF Offered, HobOf, IsFree, Covers, Pages
  <2> HIDE DEF map
  <2>3. CASE page < Mid
    <3>1. /\ map[n + 5].HobOption = "Mem8G" /\ IsFree(map[n + 5])
          /\ page \in Pages(map[n + 5])
      BY <1>1, <1>4, <2>1, <2>3, SMT
      DEF RamPartition, SysMem, DescriptorEx, IsFree, Pages, Low, Mid, Nb1End
    <3>2. QED BY <2>2, <3>1, Zenon
  <2>4. CASE ~(page < Mid)
    <3>1. /\ map[n + 6].HobOption = "Mem8G" /\ IsFree(map[n + 6])
          /\ page \in Pages(map[n + 6])
      BY <1>1, <1>4, <2>1, <2>4, SMT
      DEF RamPartition, SysMem, DescriptorEx, IsFree, Pages, Low, Mid, Nb1End
    <3>2. QED BY <2>2, <3>1, Zenon
  <2>5. QED BY <2>3, <2>4, Zenon
<1>5. page \in Int /\ page >= Low => Low <= page
  BY SMT DEF Low
<1>6. QED BY <1>2, <1>3, <1>4, <1>5, Zenon

(* On the NB1 the two memory nodes choose the layout of 8 GB: the HOBs     *)
(* offer no page outside of the nodes, and every page of them from 512 MB  *)
(* up that no descriptor reserves.                                         *)
THEOREM Nb1LayoutIsRight == Spec => []Nb1LayoutIsItsMemory
BY MapHolds, LayoutFromInv, PTL
=============================================================================
