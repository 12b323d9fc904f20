----------------------------- MODULE PageTables -----------------------------
(***************************************************************************)
(* The AArch64 translation tables ArmMmuLib builds and later changes while *)
(* they are in use.  Addresses are page numbers.  A step is one store to a *)
(* table that is in use, and an interrupt, which runs code and so caches   *)
(* translations, may fall between any two of them.                         *)
(*                                                                         *)
(* UpdateRegionMapping works its way through a region: it walks from the   *)
(* root to the entry of the largest block that fits, splitting blocks and  *)
(* adding tables on the way (pc = "walk"), then changes entries of that    *)
(* table one after the other, in two stores each and with the TLB's        *)
(* maintenance behind them (pc = "fill", "set", "update").                 *)
(***************************************************************************)
EXTENDS Integers, FiniteSets

CONSTANTS
  TT_ENTRY_COUNT,        \* entries of a table, 512 on AArch64
  RootTableEntryCount,   \* entries of the root table
  Types,                 \* memory types, "Device" one of them
  Requests,              \* [api, type, ro, xn]: what callers ask for
  MaxTables,             \* bound: pages AllocatePages can give for tables
  MaxCalls               \* bound: calls in a behaviour

ASSUME CountsAssumption == /\ TT_ENTRY_COUNT \in Nat \ {0, 1}
                           /\ RootTableEntryCount \in Nat \ {0}
                           /\ MaxTables \in Nat \ {0}
                           /\ MaxCalls \in Nat
ASSUME TypesAssumption == "Device" \in Types /\ "none" \notin Types

\* ArmConfigureMmu's loop, and the functions that change attributes; only
\* ArmSetMemoryAttributes may leave the memory type as it is.
Apis == {"FillTranslationTable", "ArmSetMemoryAttributes",
         "ArmSetMemoryRegionNoExec", "ArmClearMemoryRegionNoExec",
         "ArmSetMemoryRegionReadOnly", "ArmClearMemoryRegionReadOnly"}

\* The functions that change one permission take nothing but a region.
ASSUME RequestsAssumption ==
  \A r \in Requests :
    /\ r.api \in Apis
    /\ r.type \in Types \union {"none"}
    /\ r.api = "FillTranslationTable" => r.type # "none"
    /\ r.ro \in BOOLEAN
    /\ r.xn \in BOOLEAN
    /\ r.api \notin {"FillTranslationTable", "ArmSetMemoryAttributes"} =>
         r.type = "none" /\ ~r.ro /\ ~r.xn

VARIABLES
  tables,            \* the pages in use as translation tables
  mmu,               \* "off" until ArmConfigureMmu succeeds, or "failed"
  freed,             \* the pages in `tables' that were given back
  cached,            \* history: a translation the TLB may hold, any one
  request,           \* the call: its attributes and mask
  pc,                \* where UpdateRegionMapping is
  RegionStart,
  RegionLength,
  IndexLevel,
  PageLevel,
  TranslationTable,
  BlockEntry,        \* its index in TranslationTable
  status,
  calls

regionVars == <<RegionStart, RegionLength>>
walkVars   == <<IndexLevel, PageLevel, TranslationTable, BlockEntry>>
vars == <<tables, mmu, freed, cached, request, pc, regionVars, walkVars, status,
          calls>>

Root == 1
RootTableLevel == 1
Level == RootTableLevel .. 3

TT_TYPE_INVALID            == 0
TT_TYPE_BLOCK_ENTRY        == 1
TT_TYPE_TABLE_ENTRY        == 3
TT_TYPE_BLOCK_ENTRY_LEVEL3 == 3

EntryCount(level) == IF level = RootTableLevel THEN RootTableEntryCount
                     ELSE TT_ENTRY_COUNT

BlockEntrySize(level) == IF level = 3 THEN 1
                         ELSE IF level = 2 THEN TT_ENTRY_COUNT
                         ELSE TT_ENTRY_COUNT * TT_ENTRY_COUNT

PageCount == RootTableEntryCount * BlockEntrySize(RootTableLevel)
Pages     == 0 .. PageCount - 1

\* TT_GET_ENTRY_FOR_ADDRESS, as an index into the table.
IndexAt(level, p) == (p \div BlockEntrySize(level)) % EntryCount(level)

\* The first page of the block of this level that p is in.
BlockEntryAddress(level, p) == p - (p % BlockEntrySize(level))

Indices(level) == 0 .. EntryCount(level) - 1

-----------------------------------------------------------------------------
(* Entries.  A table entry's addr is a table, a block entry's a page; at   *)
(* level 3 the type bits of a page are those of a table.                   *)
Entry == [bits : {0, 1, 3}, addr : Nat, type : Types, af : BOOLEAN,
          ro : BOOLEAN, xn : BOOLEAN]

ZeroEntry == [bits |-> TT_TYPE_INVALID, addr |-> 0, type |-> "Device",
              af |-> FALSE, ro |-> FALSE, xn |-> FALSE]

TableEntry(t) == [ZeroEntry EXCEPT !.bits = TT_TYPE_TABLE_ENTRY, !.addr = t]

IsTable(level, e) == level # 3 /\ e.bits = TT_TYPE_TABLE_ENTRY

BlockType(level) == IF level = 3 THEN TT_TYPE_BLOCK_ENTRY_LEVEL3
                    ELSE TT_TYPE_BLOCK_ENTRY

(* The fields of an entry a request keeps, BlockEntryMask, and the bits it *)
(* sets, Attributes.                                                       *)
KeptByAttributes(r) == IF r.type = "none" THEN {"bits", "type", "af"} ELSE {}

BlockEntryMask(r) ==
  CASE r.api = "FillTranslationTable"         -> {}
    [] r.api = "ArmSetMemoryAttributes"       -> KeptByAttributes(r)
    [] r.api = "ArmSetMemoryRegionNoExec"     -> {"bits", "type", "af", "ro", "xn"}
    [] r.api = "ArmClearMemoryRegionNoExec"   -> {"bits", "type", "af", "ro"}
    [] r.api = "ArmSetMemoryRegionReadOnly"   -> {"bits", "type", "af", "ro", "xn"}
    [] r.api = "ArmClearMemoryRegionReadOnly" -> {"bits", "type", "af", "xn"}

\* ArmMemoryAttributeToPageAttribute and GcdAttributeToPageAttribute: device
\* memory is never executable.
Attributes(r) ==
  [af |-> r.type # "none",
   ro |-> r.api = "ArmSetMemoryRegionReadOnly" \/ r.ro,
   xn |-> r.api = "ArmSetMemoryRegionNoExec" \/ r.xn \/ r.type = "Device"]

\* *BlockEntry &= BlockEntryMask: the address always goes, and a field that is
\* not kept is 0, which as a memory type is that of devices.
Masked(e, r) ==
  LET keeps(field) == field \in BlockEntryMask(r)
  IN [bits |-> IF keeps("bits") THEN e.bits ELSE TT_TYPE_INVALID,
      addr |-> 0,
      type |-> IF keeps("type") THEN e.type ELSE "Device",
      af   |-> keeps("af") /\ e.af,
      ro   |-> keeps("ro") /\ e.ro,
      xn   |-> keeps("xn") /\ e.xn]

\* *BlockEntry |= the address, Attributes and Type; a request with a memory type
\* has masked the old one away.
Ored(e, r, p, level) ==
  [bits |-> IF e.bits > BlockType(level) THEN e.bits ELSE BlockType(level),
   addr |-> p,
   type |-> IF r.type = "none" THEN e.type ELSE r.type,
   af   |-> Attributes(r).af \/ e.af,
   ro   |-> Attributes(r).ro \/ e.ro,
   xn   |-> Attributes(r).xn \/ e.xn]

-----------------------------------------------------------------------------
(* What the processor finds: its table walk, and its TLB.                  *)
LeafIn(T, p) ==
  LET at(level, t) == [level |-> level, entry |-> T[t][IndexAt(level, p)]]
      l1 == at(1, Root)
      l2 == at(2, l1.entry.addr)
      l3 == at(3, l2.entry.addr)
  IN IF ~IsTable(1, l1.entry) THEN l1
     ELSE IF ~IsTable(2, l2.entry) THEN l2
     ELSE l3

Leaf(p) == LeafIn(tables, p)

\* The pages of the entry that is being changed, from the first store to it to
\* the end of the maintenance that follows the second.
EntryChanges == pc \in {"set", "update"}
Changing(p)  == EntryChanges /\ BlockEntryAddress(PageLevel, p) = RegionStart

\* The tables as they are after the second store.
Settled ==
  IF pc = "set"
    THEN [tables EXCEPT ![TranslationTable][BlockEntry] =
            Ored(@, request, RegionStart, PageLevel)]
    ELSE tables

Map == INSTANCE AddressMap WITH
         map  <- [p \in Pages |->
                    LET leaf == LeafIn(Settled, p)
                        e    == leaf.entry
                    IN IF e.bits = TT_TYPE_INVALID \/ ~e.af
                         THEN [type |-> "none"]
                         ELSE [out  |-> e.addr + (p % BlockEntrySize(leaf.level)),
                               type |-> e.type, ro |-> e.ro, xn |-> e.xn]],
         todo <- IF pc = "idle" THEN [len |-> 0]
                 ELSE [request |-> request, start |-> RegionStart,
                       len |-> RegionLength],
         changing <- IF EntryChanges THEN BlockEntrySize(PageLevel) ELSE 0

NotCached == [level |-> 0]

Covers(c, p) == c # NotCached /\ BlockEntryAddress(c.level, p) = c.page

\* Faulty: no TLB maintenance.
Keep(c, p) == c

\* ArmUpdateTranslationTableEntry: TLB invalidation by address.
Invalidate(c, p) == IF Covers(c, p) THEN NotCached ELSE c

CpuCaches(p) ==
  LET leaf == Leaf(p)
  IN /\ mmu = "on"
     /\ leaf.entry.bits # TT_TYPE_INVALID
     /\ leaf.entry.af
     /\ cached = NotCached
     /\ cached' = [level |-> leaf.level,
                   page  |-> BlockEntryAddress(leaf.level, p),
                   entry |-> leaf.entry]
     /\ UNCHANGED <<tables, mmu, freed, request, pc, regionVars, walkVars, status,
                    calls>>

-----------------------------------------------------------------------------
(* GetBlockEntryListFromAddress.                                           *)

\* Faulty: the level is chosen by the alignment of the base alone.
LevelOfBase(s, n) ==
  CHOOSE level \in Level :
    /\ s % BlockEntrySize(level) = 0
    /\ \A l \in Level : s % BlockEntrySize(l) = 0 => level <= l

\* The largest block that the base is aligned to and that is not longer than
\* the region; a base of 0 counts as aligned like the length.
TargetLevel(s, n) ==
  LET aligned(level) == (IF s = 0 THEN n ELSE s) % BlockEntrySize(level) = 0
      fits(level)    == BlockEntrySize(level) <= n
  IN CHOOSE level \in Level :
       /\ aligned(level)
       /\ fits(level)
       /\ \A l \in Level : aligned(l) /\ fits(l) => level <= l

StartWalk(s, n) ==
  /\ pc' = "walk"
  /\ IndexLevel' = RootTableLevel
  /\ PageLevel' = TargetLevel(s, n)
  /\ TranslationTable' = Root
  /\ BlockEntry' = 0

Returns(s) ==
  /\ pc' = "idle"
  /\ status' = s
  /\ IndexLevel' = RootTableLevel
  /\ PageLevel' = RootTableLevel
  /\ TranslationTable' = Root
  /\ BlockEntry' = 0

WalkEntry == tables[TranslationTable][IndexAt(IndexLevel, RegionStart)]

\* Faulty: a table in the place of the block to change does not lower the
\* target.
GoPastTarget ==
  /\ pc = "walk"
  /\ IsTable(IndexLevel, WalkEntry)
  /\ TranslationTable' = WalkEntry.addr
  /\ IndexLevel' = IndexLevel + 1
  /\ UNCHANGED <<tables, mmu, freed, cached, request, pc, regionVars, PageLevel,
                 BlockEntry, status, calls>>

GoToNextTable ==
  /\ pc = "walk"
  /\ IsTable(IndexLevel, WalkEntry)
  /\ TranslationTable' = WalkEntry.addr
  /\ IndexLevel' = IndexLevel + 1
  /\ PageLevel' = IF IndexLevel = PageLevel THEN PageLevel + 1 ELSE PageLevel
  /\ UNCHANGED <<tables, mmu, freed, cached, request, pc, regionVars, BlockEntry,
                 status, calls>>

\* Faulty: the split block is taken to start where the region does.
SplitFromRegion(e, level) ==
  [i \in Indices(level + 1) |->
     [e EXCEPT !.bits = BlockType(level + 1),
               !.addr = RegionStart + i * BlockEntrySize(level + 1)]]

\* A table that maps what the block e of this level maps.
SplitOf(e, level) ==
  [i \in Indices(level + 1) |->
     [e EXCEPT !.bits = BlockType(level + 1),
               !.addr = BlockEntryAddress(level, RegionStart)
                          + i * BlockEntrySize(level + 1)]]

ZeroTable(level) == [i \in Indices(level) |-> ZeroEntry]

\* The walk's entry becomes a table with this content.
AddTable(content) ==
  LET new == Cardinality(DOMAIN tables) + 1
  IN /\ new <= MaxTables
     /\ tables' = [t \in DOMAIN tables \union {new} |->
          IF t = new THEN content
          ELSE IF t = TranslationTable
            THEN [tables[t] EXCEPT ![IndexAt(IndexLevel, RegionStart)] =
                    TableEntry(new)]
          ELSE tables[t]]
     /\ TranslationTable' = new
     /\ IndexLevel' = IndexLevel + 1
     /\ UNCHANGED <<mmu, freed, cached, request, pc, regionVars, PageLevel,
                    BlockEntry, status, calls>>

SplitBlock ==
  /\ pc = "walk"
  /\ IndexLevel # PageLevel
  /\ WalkEntry.bits = TT_TYPE_BLOCK_ENTRY
  /\ AddTable(SplitOf(WalkEntry, IndexLevel))

NewTable ==
  /\ pc = "walk"
  /\ IndexLevel # PageLevel
  /\ WalkEntry.bits = TT_TYPE_INVALID
  /\ AddTable(ZeroTable(IndexLevel + 1))

\* ArmConfigureMmu's exit: FreePages of the root.  The tables it links to stay
\* allocated and nothing refers to them any more.
FREE_TRANSLATION_TABLE ==
  IF mmu = "off" THEN mmu' = "failed" /\ freed' = {Root}
  ELSE UNCHANGED <<mmu, freed>>

AllocatePagesFails ==
  /\ pc = "walk"
  /\ IndexLevel # PageLevel
  /\ WalkEntry.bits # TT_TYPE_TABLE_ENTRY
  /\ Returns("EFI_OUT_OF_RESOURCES")
  /\ FREE_TRANSLATION_TABLE
  /\ UNCHANGED <<tables, cached, request, regionVars, calls>>

FoundEntry ==
  /\ pc = "walk"
  /\ IndexLevel = PageLevel
  /\ ~IsTable(IndexLevel, WalkEntry)
  /\ pc' = "fill"
  /\ BlockEntry' = IndexAt(IndexLevel, RegionStart)
  /\ UNCHANGED <<tables, mmu, freed, cached, request, regionVars, IndexLevel,
                 PageLevel, TranslationTable, status, calls>>

-----------------------------------------------------------------------------
(* UpdateRegionMapping's inner loop, for one entry: the store that masks   *)
(* it, the one that sets it, and ArmUpdateTranslationTableEntry.           *)
LastBlockEntry == EntryCount(PageLevel) - 1

\* Faulty: tables in the way are overwritten.
TableIsIgnored(i) == FALSE

NextIsTable(i) == i <= LastBlockEntry /\
                  IsTable(PageLevel, tables[TranslationTable][i])

MaskEntry ==
  /\ pc = "fill"
  /\ tables' = [tables EXCEPT ![TranslationTable][BlockEntry] = Masked(@, request)]
  /\ pc' = "set"
  /\ UNCHANGED <<mmu, freed, cached, request, regionVars, walkVars, status, calls>>

SetEntry ==
  /\ pc = "set"
  /\ tables' = Settled
  /\ pc' = "update"
  /\ UNCHANGED <<mmu, freed, cached, request, regionVars, walkVars, status, calls>>

UpdateEntry ==
  LET size == BlockEntrySize(PageLevel)
      left == RegionLength - size
      next == BlockEntry + 1
  IN
  /\ pc = "update"
  /\ cached' = Invalidate(cached, RegionStart)
  /\ RegionStart' = RegionStart + size
  /\ RegionLength' = left
  /\ IF left = 0 THEN Returns("EFI_SUCCESS")
     ELSE /\ UNCHANGED status
          /\ IF left >= size /\ next <= LastBlockEntry /\ ~NextIsTable(next)
               THEN /\ BlockEntry' = next
                    /\ pc' = "fill"
                    /\ UNCHANGED <<IndexLevel, PageLevel, TranslationTable>>
               ELSE StartWalk(RegionStart + size, left)
  /\ UNCHANGED <<tables, mmu, freed, request, calls>>

-----------------------------------------------------------------------------
(* The callers: ArmConfigureMmu's loop over the memory table while the MMU *)
(* is off, the attribute functions once it is on.                          *)
UpdateRegionMapping(r, s, n) ==
  /\ pc = "idle"
  /\ calls < MaxCalls
  /\ mmu # "failed"
  /\ (mmu = "off") <=> (r.api = "FillTranslationTable")
  /\ s + n <= PageCount
  /\ calls' = calls + 1
  /\ request' = r
  /\ RegionStart' = s
  /\ RegionLength' = n
  /\ StartWalk(s, n)
  /\ UNCHANGED <<tables, mmu, freed, cached, status>>

ArmEnableMmu ==
  /\ pc = "idle"
  /\ mmu = "off"
  /\ mmu' = "on"
  /\ UNCHANGED <<tables, freed, cached, request, pc, regionVars, walkVars, status,
                 calls>>

Init ==
  /\ tables = [t \in {Root} |-> ZeroTable(RootTableLevel)]
  /\ mmu = "off"
  /\ freed = {}
  /\ cached = NotCached
  /\ request \in Requests
  /\ pc = "idle"
  /\ RegionStart = 0
  /\ RegionLength = 0
  /\ IndexLevel = RootTableLevel
  /\ PageLevel = RootTableLevel
  /\ TranslationTable = Root
  /\ BlockEntry = 0
  /\ status = "none"
  /\ calls = 0

Walk == GoToNextTable \/ SplitBlock \/ NewTable \/ AllocatePagesFails \/ FoundEntry
Fill == MaskEntry \/ SetEntry \/ UpdateEntry

Next ==
  \/ \E r \in Requests, s \in Pages, n \in 1 .. PageCount :
       UpdateRegionMapping(r, s, n)
  \/ Walk
  \/ Fill
  \/ ArmEnableMmu
  \/ \E p \in Pages : CpuCaches(p)

Spec == Init /\ [][Next]_vars

\* The processor gets on with the call that runs.
FairSpec == Spec /\ WF_vars(Walk \/ Fill)

-----------------------------------------------------------------------------
TypeOK ==
  /\ DOMAIN tables \in {1 .. n : n \in 1 .. MaxTables}
  /\ tables[Root] \in [Indices(RootTableLevel) -> Entry]
  /\ \A t \in DOMAIN tables \ {Root} : tables[t] \in [Indices(3) -> Entry]
  /\ mmu \in {"off", "on", "failed"}
  /\ freed \subseteq {Root}
  /\ cached # NotCached =>
       cached \in [level : Level, page : Pages, entry : Entry]
  /\ request \in Requests
  /\ pc \in {"idle", "walk", "fill", "set", "update"}
  /\ RegionStart \in 0 .. PageCount
  /\ RegionLength \in 0 .. PageCount - RegionStart
  /\ IndexLevel \in Level
  /\ PageLevel \in Level
  /\ TranslationTable \in DOMAIN tables
  /\ BlockEntry \in Indices(PageLevel)
  /\ status \in {"none", "EFI_SUCCESS", "EFI_OUT_OF_RESOURCES"}
  /\ calls \in 0 .. MaxCalls

(* The tables are a flat map from pages to themselves: whatever blocks are *)
(* split and whatever tables are added on the way, after every single      *)
(* store the processor finds each page as it was or as the caller asked,   *)
(* front to back and in the call's region only, but for the pages of one   *)
(* entry, which is masked by one store and set by the next.  A call        *)
(* succeeds when it has changed all pages, and one that runs out of pages  *)
(* for tables leaves the rest of its region as it was.  A change of        *)
(* permissions maps nothing that was not mapped.                           *)
ImplementsAddressMap == Map!Spec

(* No table is lost: "Rerun GetBlockEntryListFromAddress to avoid page     *)
(* table memory leak".  Every table but the root is the target of one      *)
(* entry, and of one only, whichever entries have been overwritten and     *)
(* whichever calls have run out of pages, as long as there is a root: when *)
(* ArmConfigureMmu itself fails it frees the root alone.                   *)
Links ==
  LET linked(t, level) == {<<t, i>> : i \in {i \in Indices(level) :
                                           IsTable(level, tables[t][i])}}
      fromRoot == linked(Root, 1)
      second   == {tables[l[1]][l[2]].addr : l \in fromRoot} \intersect DOMAIN tables
  IN fromRoot \union UNION {linked(t, 2) : t \in second}

EveryTableIsLinkedOnce ==
  Root \notin freed =>
    /\ {tables[l[1]][l[2]].addr : l \in Links} = DOMAIN tables \ {Root}
    /\ Cardinality(Links) = Cardinality(DOMAIN tables) - 1

(* No stale translation: what the TLB holds is what the tables say, though *)
(* blocks are split in live tables without invalidating anything, and      *)
(* though the processor may walk the tables between the two stores to an   *)
(* entry.  Only the pages of an entry whose change has not ended yet may   *)
(* be translated in another way.                                           *)
NoStaleTranslation ==
  cached # NotCached =>
    \A p \in Pages : Covers(cached, p) /\ ~Changing(p) =>
      LET leaf == Leaf(p)
      IN /\ [leaf.entry EXCEPT !.addr = 0, !.bits = 0] =
              [cached.entry EXCEPT !.addr = 0, !.bits = 0]
         /\ leaf.entry.addr + (p % BlockEntrySize(leaf.level)) =
              cached.entry.addr + (p % BlockEntrySize(cached.level))

(* UpdateRegionMapping's loops end.                                        *)
CallsReturn == pc # "idle" ~> pc = "idle"
=============================================================================
