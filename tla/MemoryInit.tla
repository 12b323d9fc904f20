------------------------------ MODULE MemoryInit ----------------------------
(***************************************************************************)
(* MemoryPeim: reads the size of the memory from the device tree, chooses  *)
(* the layout of that size, and turns the platform's memory map into HOBs, *)
(* which tell the firmware what memory there is, and a table for the MMU.  *)
(***************************************************************************)
EXTENDS PlatformMemoryMap, FiniteSets, SequencesExt

CONSTANTS
  Builds,       \* "shared", or the device whose changes are compiled in
  DeviceTrees   \* sequences of memory nodes [base, size], in pages

ASSUME TreesAssumption == DeviceTrees \subseteq Seq([base : Nat, size : Nat])

VARIABLES
  build,
  fdt,                \* the device tree
  pc,
  Node,
  MemoryTotal,
  Mem,                \* the chosen layout
  MemoryDescriptorEx, \* position in the memory map
  MemoryTable,
  hobs,               \* resource and memory allocation HOBs
  mmu                 \* "off", "on" or "failed"

inputs == <<build, fdt>>
vars == <<inputs, pc, Node, MemoryTotal, Mem, MemoryDescriptorEx, MemoryTable,
          hobs, mmu>>

\* Faulty: the table is outgrown.
SmallTable == 64

MAX_ARM_MEMORY_REGION_DESCRIPTOR_COUNT == 128

SIZE_MB == 256   \* pages

\* The memory nodes of the NB1, PORTING-nb1.md:28.
Nb1Memory == <<[base |-> \h80000, size |-> \h100000],
               [base |-> \h180000, size |-> \hFCBC0]>>

Descriptor == gDeviceMemoryDescriptorEx(build)[MemoryDescriptorEx]

-----------------------------------------------------------------------------
\* Faulty: only the last node counts.
LastNode(total, size) == size

Plus(total, size) == total + size

AddNode ==
  /\ pc = "fdt"
  /\ Node < Len(fdt)
  /\ MemoryTotal' = Plus(MemoryTotal, fdt[Node + 1].size)
  /\ Node' = Node + 1
  /\ UNCHANGED <<inputs, pc, Mem, MemoryDescriptorEx, MemoryTable, hobs, mmu>>

SIZE_MB_IN(min, max) == MemoryTotal > min * SIZE_MB /\ MemoryTotal < max * SIZE_MB

SelectConfig ==
  /\ pc = "fdt"
  /\ Node = Len(fdt)
  /\ pc' = "map"
  /\ Mem' = IF SIZE_MB_IN(7168, 8704) THEN "Mem8G"
            ELSE IF SIZE_MB_IN(5120, 6656) THEN "Mem6G"
            ELSE "Mem4G"
  /\ UNCHANGED <<inputs, Node, MemoryTotal, MemoryDescriptorEx, MemoryTable,
                 hobs, mmu>>

-----------------------------------------------------------------------------
(* The loop over the memory map.                                           *)
Layouts == {"Mem4G", "Mem6G", "Mem8G"}

InLoop == pc = "map" /\ Descriptor.Length # 0

\* Also for the descriptors of other layouts; nothing reads it any more.
CountConventional ==
  MemoryTotal' = IF Descriptor.MemoryType = "Conv"
                   THEN MemoryTotal + Descriptor.Length ELSE MemoryTotal

\* Faulty: passed over before it is counted, and without a step to the next.
StayAtOtherLayout ==
  /\ InLoop
  /\ Descriptor.HobOption \in Layouts \ {Mem}
  /\ UNCHANGED vars

SkipOtherLayout ==
  /\ InLoop
  /\ Descriptor.HobOption \in Layouts \ {Mem}
  /\ CountConventional
  /\ MemoryDescriptorEx' = MemoryDescriptorEx + 1
  /\ UNCHANGED <<inputs, pc, Node, Mem, MemoryTable, hobs, mmu>>

AddsHob(option) == option \in {"AddMem", "AddDev", "HobOnlyNoCacheSetting", Mem}
IsMapped(option) == option # "HobOnlyNoCacheSetting"

TakeDescriptor ==
  LET d == Descriptor
  IN
  /\ InLoop
  /\ d.HobOption \notin Layouts \ {Mem}
  /\ hobs' = IF AddsHob(d.HobOption)
               THEN Append(hobs, [base |-> d.Address, len |-> d.Length,
                                  resource |-> d.ResourceType,
                                  memory |-> d.MemoryType])
               ELSE hobs
  /\ MemoryTable' = IF IsMapped(d.HobOption)
                      THEN Append(MemoryTable, [base |-> d.Address,
                                                len |-> d.Length,
                                                attributes |-> d.ArmAttributes])
                      ELSE MemoryTable
  /\ CountConventional
  /\ MemoryDescriptorEx' = MemoryDescriptorEx + 1
  /\ UNCHANGED <<inputs, pc, Node, Mem, mmu>>

\* A failure is logged, and the firmware goes on with the MMU off.
InitMmu ==
  /\ pc = "map"
  /\ Descriptor.Length = 0
  /\ pc' = "done"
  /\ mmu' \in {"on", "failed"}
  /\ UNCHANGED <<inputs, Node, MemoryTotal, Mem, MemoryDescriptorEx,
                 MemoryTable, hobs>>

Init ==
  /\ build \in Builds
  /\ fdt \in DeviceTrees
  /\ pc = "fdt"
  /\ Node = 0
  /\ MemoryTotal = 0
  /\ Mem = "Mem4G"
  /\ MemoryDescriptorEx = 1
  /\ MemoryTable = <<>>
  /\ hobs = <<>>
  /\ mmu = "off"

MemoryPeim == AddNode \/ SelectConfig \/ SkipOtherLayout \/ TakeDescriptor \/ InitMmu
Next == MemoryPeim

Spec == Init /\ [][Next]_vars /\ WF_vars(MemoryPeim)

-----------------------------------------------------------------------------
(* What the MMU maps a page with: ArmConfigureMmu takes the entries of its *)
(* table in order, and a region replaces what its pages had.               *)
Covers(region, page) == page \in region.base .. region.base + region.len - 1

AttributesOf(page) ==
  LET entry == SelectLastInSeq(MemoryTable, LAMBDA e : Covers(e, page))
  IN IF entry = 0 THEN "unmapped" ELSE MemoryTable[entry].attributes

(* Everything is constant between two boundaries, so the first pages of    *)
(* regions, and the pages after them, stand for all.                       *)
Boundaries ==
  LET map == gDeviceMemoryDescriptorEx(build)
  IN {map[i].Address : i \in 1 .. Len(map) - 1}
       \union {map[i].Address + map[i].Length : i \in 1 .. Len(map) - 1}
       \union {n.base : n \in Range(fdt)} \union {n.base + n.size : n \in Range(fdt)}

\* Memory the firmware may give away: both HOBs say so.
Offered(page) ==
  \E h \in Range(hobs) : /\ h.resource = "SYS_MEM"
                         /\ h.memory = "Conv"
                         /\ Covers(h, page)

Reservations == {d \in Range(gDeviceMemoryDescriptorEx(build)) :
                   d.MemoryType = "Reserv" /\ d.Length # 0}

IsReserved(page, reservations) ==
  \E d \in reservations : page \in d.Address .. d.Address + d.Length - 1

ReservationsHold(reservations) ==
  \A page \in Boundaries : IsReserved(page, reservations) =>
    /\ ~Offered(page)
    /\ mmu = "on" =>
         \E d \in reservations :
           /\ page \in d.Address .. d.Address + d.Length - 1
           /\ AttributesOf(page) = d.ArmAttributes

-----------------------------------------------------------------------------
TypeOK ==
  /\ build \in Builds
  /\ fdt \in DeviceTrees
  /\ pc \in {"fdt", "map", "done"}
  /\ Node \in 0 .. Len(fdt)
  /\ MemoryTotal \in Nat
  /\ Mem \in Layouts
  /\ MemoryDescriptorEx \in 1 .. Len(gDeviceMemoryDescriptorEx(build))
  /\ Len(MemoryTable) < MAX_ARM_MEMORY_REGION_DESCRIPTOR_COUNT
  /\ Len(hobs) < MemoryDescriptorEx
  /\ mmu \in {"off", "on", "failed"}

(* The regions all devices reserve, for the secure world, the modem and    *)
(* the other processors: none is ever described as free memory, and each   *)
(* is mapped with its own attributes once the MMU is on.                   *)
SharedReservationsHold ==
  ReservationsHold(Reservations \ Range(Nb1Regions(build)))

(* The regions this build reserves, those of the NB1 with them: the map    *)
(* "would hand them to UEFI as free RAM" but for these descriptors.        *)
DeviceReservationsHold == ReservationsHold(Reservations)

(* Free memory is write-back memory, which unaligned and atomic accesses   *)
(* need: no device region that overlaps it has the last word.              *)
FreeMemoryIsCacheable ==
  mmu = "on" => \A page \in Boundaries :
                  Offered(page) => AttributesOf(page) = "WRITE_BACK"

(* On the NB1 the layout that is chosen is the memory it has: the HOBs     *)
(* offer no page outside of the device tree's memory nodes, and above the  *)
(* first 512 MB every page of the nodes that no descriptor reserves.       *)
InMemory(page) == \E n \in Range(fdt) : page \in n.base .. n.base + n.size - 1

Nb1LayoutIsItsMemory ==
  build = "NB1_FIXED" /\ fdt = Nb1Memory /\ pc = "done" =>
    \A page \in Boundaries :
      /\ Offered(page) => InMemory(page)
      /\ InMemory(page) /\ page >= \hA0000 /\ ~IsReserved(page, Reservations) =>
           Offered(page)

(* The loops over the device tree and the memory map end.                  *)
MemoryPeimReturns == <>(pc = "done")
=============================================================================
