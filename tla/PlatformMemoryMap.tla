-------------------------- MODULE PlatformMemoryMap -------------------------
(***************************************************************************)
(* The memory map all devices share, with the changes two of them make.    *)
(* Addresses and lengths are in pages of 4 KB.                             *)
(***************************************************************************)
EXTENDS Integers, Sequences

DescriptorEx(name, address, length, hob, resource, memory, arm) ==
  [Name |-> name, Address |-> address, Length |-> length, HobOption |-> hob,
   ResourceType |-> resource, MemoryType |-> memory, ArmAttributes |-> arm]

SysMem(name, address, length, hob, memory, arm) ==
  DescriptorEx(name, address, length, hob, "SYS_MEM", memory, arm)

Device(name, address, length, hob, memory) ==
  DescriptorEx(name, address, length, hob, "MMAP_IO", memory, "NS_DEVICE")

\* WRITE_BACK_XN and UNCACHED_UNBUFFERED_XN are the attributes without _XN.
LowRegions == <<
  SysMem("RAM_Partition", \h80000, \h1AC0, "AddMem", "Conv", "WRITE_BACK"),
  SysMem("HLOS_1", \h81AC0, \h3C40, "AddMem", "BsData", "WRITE_BACK"),
  SysMem("Hypervisor", \h85800, \h600, "AddMem", "Reserv", "NS_DEVICE"),
  SysMem("MPSS_EFS", \h85E00, \h200, "AddMem", "Reserv", "NS_DEVICE"),
  DescriptorEx("SMEM", \h86000, \h200, "AddMem", "MEM_RES", "Reserv", "UNCACHED"),
  SysMem("TZ", \h86200, \hB00, "AddMem", "Reserv", "NS_DEVICE"),
  SysMem("TZApps", \h86D00, \h2200, "NoHob", "Reserv", "NS_DEVICE"),
  SysMem("HLOS_2", \h88F00, \h1C00, "NoHob", "Reserv", "NS_DEVICE")>>

\* Faulty: the region after a larger PIL_REGION stays where it was.
SameHlos3Start(build) == \h95E15

Hlos3Start(build) == IF build = "LG_PIL_FIXED" THEN \h95F15 ELSE \h95E15

PilRegion(build) == <<
  SysMem("PIL_REGION", \h8AB00, IF build = "LG_PIL_FIXED" THEN \hB415 ELSE \hB315,
         "AddMem", "Reserv", "UNCACHED"),
  SysMem("HLOS_3", Hlos3Start(build), \h9D400 - Hlos3Start(build),
         "AddMem", "Conv", "WRITE_BACK")>>

DisplayReserved == DescriptorEx("Display_Reserved", \h9D400, \h2400, "AddMem",
                                "MEM_RES", "MaxMem", "WRITE_THROUGH")
DbiDump == Device("DBI_Dump", \h9D330, \hD0, "NoHob", "Conv")
DxeHeap == SysMem("DXE_Heap", \h97C00, \h5800, "AddMem", "Conv", "WRITE_BACK")

\* Faulty: in the order of their addresses.
SortedHeap == <<DxeHeap, DbiDump, DisplayReserved>>

\* All of DBI Dump and DXE Heap is inside HLOS 3.
HeapRegions == <<DisplayReserved, DbiDump, DxeHeap>>

FirmwareRegions == <<
  SysMem("FV_Region", \h9F800, \h200, "AddMem", "BsData", "WRITE_BACK"),
  SysMem("ABOOT_FV", \h9FA00, \h200, "AddMem", "Reserv", "WRITE_BACK"),
  SysMem("UEFI_FD", \h9FC00, \h300, "AddMem", "BsData", "WRITE_BACK"),
  SysMem("SEC_Heap", \h9FF00, \h8C, "AddMem", "BsData", "WRITE_BACK"),
  SysMem("CPU_Vectors", \h9FF8C, 1, "AddMem", "BsData", "WRITE_BACK"),
  SysMem("MMU_PageTables", \h9FF8D, 3, "AddMem", "BsData", "WRITE_BACK"),
  SysMem("UEFI_Stack", \h9FF90, \h40, "AddMem", "BsData", "WRITE_BACK"),
  SysMem("RSRV1", \h9FFD0, 10, "AddMem", "RtData", "WRITE_BACK"),
  SysMem("TPMControl", \h9FFDA, 3, "AddMem", "RtData", "UNCACHED"),
  SysMem("Reset_Data", \h9FFDD, 4, "AddMem", "RtData", "UNCACHED"),
  SysMem("RSRV3", \h9FFE1, 1, "AddMem", "RtData", "WRITE_BACK"),
  SysMem("Capsule_Header", \h9FFE2, 1, "AddMem", "RtData", "UNCACHED"),
  SysMem("RSRV2", \h9FFE3, \h14, "AddMem", "RtData", "WRITE_BACK"),
  SysMem("Log_Buffer", \h9FFF7, 8, "AddMem", "RtData", "WRITE_BACK"),
  SysMem("Info_Blk", \h9FFFF, 1, "AddMem", "RtData", "WRITE_BACK")>>

Nb1Regions(build) ==
  IF build = "NB1_FIXED"
    THEN <<SysMem("FIH_Region", \hA0000, \hB00, "AddMem", "Reserv", "NS_DEVICE"),
           SysMem("Ramoops", \hA0B00, \h200, "AddMem", "Reserv", "NS_DEVICE")>>
    ELSE <<>>

\* Faulty: the top of memory of the other devices.
SharedTop(build) == \hFCCC0

TopPartition(build) == IF build = "NB1_FIXED" THEN \hFCBC0 ELSE \hFCCC0

RamPartition(address, length, hob) ==
  SysMem("RAM_Partition", address, length, hob, "Conv", "WRITE_BACK")

RamPartitions(build) == <<
  RamPartition(\hA0000, \hDE4C0, "Mem4G"),
  RamPartition(\h40000, \h40000, "Mem6G"),
  RamPartition(\hA0000, \h60000, "Mem6G"),
  RamPartition(\h100000, \hBD8C0, "Mem6G"),
  RamPartition(\hA0000, \hE0000, "Mem8G"),
  RamPartition(\h180000, TopPartition(build), "Mem8G")>>

OtherRegions == <<
  Device("IMEM_Base", \h14680, \h40, "NoHob", "Conv"),
  Device("IMEM_Cookie_Base", \h146BF, 1, "AddDev", "Conv"),
  Device("QDSS_STM", \h16000, \h1000, "AddDev", "Conv")>>

Registers == <<
  <<\h70, \h10>>, <<\h100, \hB0>>, <<\h620, \h20>>, <<\h778, 8>>, <<\h780, 7>>,
  <<\h790, \h10>>, <<\h10A3, 1>>, <<\h10AA, 1>>, <<\h10AB, 1>>, <<\h10AC, 1>>,
  <<\h10AD, 1>>, <<\h10AE, 1>>, <<\h1680, 9>>, <<\h1C00, 7>>, <<\h1DA0, \h20>>,
  <<\h1DC0, \h40>>, <<\h1FC0, \h26>>, <<\h3400, \hC00>>, <<\h5026, 2>>,
  <<\h502A, 2>>, <<\h5030, 2>>, <<\h5065, 9>>, <<\h6000, \h100>>,
  <<\h6400, \h200>>, <<\h8000, \h2800>>, <<\hA800, \h11B>>, <<\hA920, \h10>>,
  <<\hC000, \h200>>, <<\hC800, \h800>>, <<\h17800, \h100>>, <<\h17900, \h30>>,
  <<\h17A00, \h10>>, <<\h17B00, \h100>>, <<\h17C00, \h40>>, <<\h1B000, \h1000>>>>

RegisterRegions ==
  [i \in 1 .. Len(Registers) |->
     Device("registers", Registers[i][1], Registers[i][2], "AddDev", "MmIO")]

Terminator == DescriptorEx("Terminator", 0, 0, "NoHob", "NONE", "Reserv", "NONE")

gDeviceMemoryDescriptorEx(build) ==
  LowRegions \o PilRegion(build) \o HeapRegions \o FirmwareRegions
    \o Nb1Regions(build) \o RamPartitions(build) \o OtherRegions
    \o RegisterRegions \o <<Terminator>>
=============================================================================
