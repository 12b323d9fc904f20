# TLA+ models of the MSM8998 UEFI platform

This directory models and checks the C code of the `Msm8998FamilyPkg` platform
(an EDK2 port for phones with the Snapdragon 835). The firmware runs on one
processor; its concurrency is that of UEFI task priority levels (TPL): code at
a higher level interrupts code at a lower one, at any point, and never the
reverse. `PROJECT.json` lists components, runs, mutants, the source lines of
every definition, findings, hazards and theorems; this file explains them.

`FP` below stands for `src/Platforms/Msm8998FamilyPkg`.

## 1. Inventory

| Component | State it keeps | Operations | Hard behaviour | Correct when |
|---|---|---|---|---|
| Key queue (`KeypadTextIn.c`, `Keypad.h`) | `Head`, `Tail`, `Buffer` | push, pop, clear | wrap-around, push into a full ring | bounded FIFO that forgets its oldest key |
| Keypad text input (`KeypadDxe`) | two queues, `NotifyList`, toggles, signalled event | Reset, ReadKeyStroke(Ex), WaitForKey(Ex), SetState, Register/UnregisterKeyNotify, timer, `KeyNotifyProcessHandler` | timer at TPL_NOTIFY against handler at TPL_CALLBACK against the application; callbacks that call the driver again | no keystroke, wake-up or registration is lost |
| Keypad driver binding (`Keypad.c`) | private data, four events, protocols, names, device opened | Supported, Start, Stop | failure of any step; timer running while resources are taken and freed; refused Stop | all or nothing; no callback on freed data |
| Page tables (`ArmMmuLib/AArch64`) | translation tables, MMU on/off | ArmConfigureMmu, ArmSetMemoryAttributes, Set/Clear NoExec/ReadOnly | block splitting in live tables, entries changed by two stores, running out of pages | implements a flat map from pages to attributes but for the entry that is being changed |
| Memory layout (`MemoryInitPei`, `PlatformMemoryMapLib`) | HOB list, table for the MMU | MemoryPeim | choice of layout from device tree, overlapping descriptors | every reserved region stays reserved |
| Touch driver (`SynapticsRmi4Dxe`) | X, Y, touch flags, I2C bus, events | Start, Stop, Reset, GetState, WaitForInput, poll callback, ExitBootServices | polling callback against readers; partial Start | no torn or lost report; bus closed once |
| Frame buffer console (`FrameBufferSerialPortLib`) | cursor, colour, frame buffer, interrupt state | SerialPortInitialize, SerialPortWrite, SerialPortWriteCritical | wrap at the right and bottom edges; writes from interrupt handlers on top of writes | no glyph off the screen, no printed glyph lost, colour and interrupt state restored |
| Boot manager (`PlatformBootManagerLib`) | boot options, hotkeys, console variables, capsules | BeforeConsole, AfterConsole, WaitCallback | a failure of any library call; options that drivers, the platform and the menu add in between; resets by capsules | hotkeys start the option they were made for; outputs become consoles; an update ends the boot (the exceptions the code makes are in section 6) |
| In-memory serial log (`InMemorySerialPortLib`), in no platform description | offset | write | writes from interrupting code | characters stay in the buffer |
| Virtual clock (`VirtualRealTimeClockLib`) | none but a counter | GetTime | 8-bit day | valid dates |
| Frame buffer GOP, SMBIOS, logo, platform libraries, entry points | little or none | one-time initialisation | - | - |
| 32-bit ARM page tables | | | not built (all platforms are AARCH64) | - |
| ACPI tables, prebuilt binaries, Python tools, build scripts | | | not firmware code with source | - |

Interaction. The boot manager binds drivers and console devices; the console
splitter opens the keypad's text input protocols and calls them, and checks
their events from `WaitForEvent`. The keypad driver polls a keypad device
protocol whose implementation (`KeypadDeviceImplLib`) is not in the
repository: it is modelled as returning any key data in any poll. The memory
component builds the table that the page table component turns into
translation tables. The touch driver calls the vendor I2C protocol. Everything
is single-threaded except for timer and event notifications.

Which parts are in an image. No platform description in the repository lists
`KeypadDxe`, `GenericKeypadDeviceDxe` or `SynapticsRmi4Dxe` at present (the
Nokia NB1 port plans to use the touch driver); they are complete drivers of
the repository and hold its real concurrency, so they are modelled as drivers.
In every image: `ArmMmuLib`, `MemoryInitPei` with `PlatformMemoryMapLib`,
`PlatformBootManagerLib`, `FrameBufferSerialPortLib`,
`VirtualRealTimeClockLib`, `SimpleFbDxe`, SMBIOS, `msm8998Dxe` and the logo.

## 2. Modules

| Module | Models | State and actions |
|---|---|---|
| `BoundedFifo` | what a key queue promises (abstract) | `fifo`, `result`; Push, Pop, PopEmpty, Clear |
| `KeyQueue` | `EFI_KEY_QUEUE` as a ring | `head`, `tail`, `Buffer`; PopEfikeyBufHead, PushEfikeyBufTail, InitKeypad |
| `Keypad` | text input, timer, notification handler | queues, `NotifyList`, handler position and the link left in a node freed under it, callers' view; one action per handler or per key of a poll. Its queues are the FIFOs of `BoundedFifo` (`Fifo!`), which `KeyQueue` is proved to implement |
| `KeypadBinding` | Supported, Start, ErrorExit, Stop | resources held; one action per operation, environment actions in between |
| `AddressMap` | what the page tables promise (abstract) | a flat map from pages to attributes, and how many pages are being changed; Call, Begin and End of a change, Fail |
| `PageTables` | `ArmMmuLibCore.c` (AArch64) | tables with their entries, the call's walk, one translation the TLB may hold, the page that is given back; one action per store, and one for the TLB maintenance behind the two stores to an entry |
| `PlatformMemoryMap` | the descriptor table and the layouts of each build | no state: sequences of descriptors in 4 KB pages |
| `MemoryInit` | `MemoryPeim` | device tree loop, map loop, HOBs, table for the MMU; one action per node and per descriptor |
| `SynapticsTouch` | the touch driver | bus, events, probe, pointer data, reader; one action per operation of Start and Stop, per poll, and per memory access of a reader |
| `FrameBufferConsole` | the debug console on the frame buffer | cursor, colour, interrupt mask and a stack of writes; one action per access that an interrupt can come between |
| `BootManager` | `PlatformBm.c` and the wait of BDS that follows it | handles, console variables, options, keys, capsules; one action per device, option, key or capsule |
| `MCKeyQueue`, `MCKeypad`, `MCPageTables`, `MCMemoryInit`, `MCBootManager` | | values of constants, symmetry, reference definitions |
| `KeyQueueProofs`, `KeypadProofs`, `KeypadBindingProofs`, `SynapticsTouchProofs`, `FrameBufferConsoleProofs`, `BootManagerProofs`, `MemoryInitProofs`, `PageTablesProofs` | | theorems, one module for each modelled component |

How state corresponds to the code. Variables have the names of the C fields
wherever there is one (`Head`, `NotifyList`, `IsSupportPartialKey`,
`RegionStart`, `MemoryTotal`, `gI2CInstance`, `StateChanged`); lower-case names
are program counters (`pc`, `call`, `handler`, `running`/`at`), firmware state
(`events`, `bus`, `device`, `hobs`, `cached`) or histories, which are marked
`history:` and which no guard of an operation reads.

How concurrency is modelled. Code at a task priority level is interrupted by
code at a higher one only. In `Keypad` a TPL_NOTIFY section is one step, and
one that polls the device is a step per key the device returns; the handler at
TPL_CALLBACK moves in steps between which the timer may fire, and a read loop
at TPL_APPLICATION between which all of them may. In `KeypadBinding` every
operation of Start and Stop is a step, and the timer, a pending event, an
application's registration or another driver's open may come in between. In
`SynapticsTouch` a poll is a step and a reader moves one memory access at a
time. `FrameBufferConsole` is below the task priority levels: a write that runs
with interrupts enabled may be interrupted by a handler that writes, whose write
ends before the interrupted one goes on (a stack, not an interleaving).

What is abstracted, by module:

- `Keypad`: keystrokes are numbers into the history `typed`; the control-code
  translation of a key and the NULL-parameter checks are left out; `KeypadErr`
  does not appear because nothing calls `KeypadError`. A notification function
  may call Reset, SetState, Register and Unregister, also for its own
  registration. The handler then reads the `ForwardLink` of a freed node
  (`KeypadTextIn.c:692-697`), for which the model has three outcomes: the link
  the memory was left with (`forward`), if that leads somewhere; the link of a
  new registration that was given the same memory; and a handler that goes
  astray for good (`fault`), while the timer goes on.
- `KeypadBinding`: the firmware's UninstallMultipleProtocolInterfaces is atomic
  and refuses only while an agent holds a protocol; event creation fails or
  succeeds at will; the failed pool allocation goes to `ErrorExit` and faults
  in `KbdFreeNotifyList (&NULL->NotifyList)` (`Keypad.c:393`), which is the
  state `fault`.
- `PageTables`: addresses are page numbers, attributes are the memory type,
  read-only, execute-never and the access flag; TCR, MAIR and cache
  maintenance are left out, the NS bit and DEBUG assertions too. The root is at
  level 1, as it is with 36-bit addresses. An entry is changed by the store that
  masks it, the one that sets it and the maintenance, as in
  `ArmMmuLibCore.c:371-374`, and the processor may fetch a translation between
  any two of them. The TLB is one arbitrary translation, which is enough for a
  property about each translation; that it holds two of different size for one
  page (a block and the table entries it was split into) is not modelled as the
  conflict that the architecture lets such a TLB report.
- `MemoryInit`: all that the code computes from the table is there; what
  `ArmConfigureMmu` does with it is reduced to the last entry that covers a
  page (`AttributesOf`), which is what `PageTables` shows of it.
- `SynapticsTouch`: touches are numbers, so scaling and inversion of
  coordinates are left out; no code at TPL_NOTIFY checks the wait event during
  a poll (the driver's own critical section is commented out at line 482);
  there is one reader; a failed event creation asserts.
- `FrameBufferConsole`: a glyph is the rectangle of pixels it paints, a
  character one of five kinds (line feed, carriage return, space, other
  printable, ignored); cache maintenance and the shapes of the font are left
  out. `intstate` is read uninitialised after a `\n` (the `goto` at
  `FrameBufferSerialPortLib.c:127` jumps over its initialisation): its value is
  a nondeterministic choice. `breaks` and `exposed` are histories, which only
  the properties read. Screens hold three rows of large text at least
  (`ConstantsAssumption`); on a smaller one a line feed would reset the screen
  for ever.
- `BootManager`: a device path is its handle, a boot option what it starts, and
  a number its place in `Boot####`. LocateHandleBuffer may fail for each of the
  three loops, which then process nothing. The functions of the boot manager
  library (`FreeOptionNumber`, `AddNumberedOption`, `AddKeyOption`) may fail
  whenever they have not succeeded by then; they refuse a number that is in use
  and a key for an option that does not exist. Options may exist when BDS starts,
  Simple Init among them, and the platform's may come with a number. UEFI
  variables are emulated in memory (`PcdEmuVariableNvModeEnable`), so that a boot
  never meets those of the boot before: losing power in the middle of a boot
  loses nothing that the next boot relies on, and only capsules survive a reset;
  the cold reset of `HandleCapsules` leaves none. Progress bar, splash screen and
  the consoles at fixed paths are left out.

## 3. Plan

Done, in this order: key queue, text input, driver binding; page tables; memory
layout; touch driver; frame buffer console; boot manager; a module of theorems
for each of them.

The safety and action properties of the passing runs are all theorems, the
refinements of `BoundedFifo` and `AddressMap` among them. What would add to
that:

1. What the liveness properties rest on beside fairness: a measure that each
   step of a running call, probe, write or boot brings down. It is a property of
   steps, so that it can be proved where the liveness cannot.
2. A root of the page tables at level 0, which more than 39 address bits need:
   the lemmas of `PageTablesProofs` on blocks and paths are about three levels.
3. What the findings leave true: how often a function is called for one
   keystroke, and that all builds but the NB1's keep every reservation.

## 4. What the runs check

| Run | Question | Bounds | Distinct states |
|---|---|---|---|
| `KeyQueue` | is the ring a bounded FIFO? | 4 slots, 3 keys | 2,349 |
| `Keypad` | safety of every interleaving of text input | ring of 3, 3 keystrokes, 2 registrations | 1,079,763 |
| `KeypadLive` | do queued keystrokes get processed, do reads return? | ring of 3, 2 keystrokes (plain, partial), 2 registrations of a function | 241,821 |
| `KeypadBinding` | any failure, any interruption of Start and Stop | 3 starts, 2 registrations | 2,288 |
| `PageTables` | do the tables implement the flat map? | tables of 2 entries, 8 pages, 7 tables, 2 calls, 3 kinds of request | 226,827 |
| `MemoryInit` | are reserved and free memory kept apart? | 3 builds, 16 device trees, the whole table | 3,728 |
| `SynapticsTouch` | bus, events and reports of the touch driver | 5 touches, with and without a reset pin | 357,000 |
| `FrameBufferConsole` | glyphs, colours and interrupts of nested writes | screens of 2 columns and 5 or 6 rows, writes of 2 characters, 2 writes on top of each other | 632,484 |
| `BootManager` | hotkeys, consoles and capsules of a boot | 6 handles, 2 boots, 3 lists of options that exist before, 3 offers of the platform, 5 lists of capsules | 1,987,564 |
| `KeypadCalledOnce`, `KeypadRefusedStop`, `MemoryInitNb1` | findings, section 6 | | |

Why the bounds are enough.

- `KEYPAD_EFI_KEY_MAX_COUNT` is 256 in the code. With 3 the ring holds two
  keys, so that a third overflows it; with 4, head and tail take all sixteen
  positions and wrap several times. Nothing distinguishes larger rings, which
  the theorems of section 7 confirm.
- Three keystrokes (plain, shifted and partial of one key) fill and overflow a
  queue, and one can come before, during and after a walk of two registrations:
  a list of two has a first node, a last node, and one that can be removed or
  added behind the walk. The liveness run leaves out the shifted keystroke and
  toggles that are refused, which its two properties do not tell apart. The
  safety run counts states that differ only in what the last call returned as
  one (`VIEW WithoutReturns`): no step reads that, and a property of a step is
  evaluated on every step all the same.
- Three starts let a third instance follow one that failed and one that was
  stopped.
- Eight pages under a root of two and tables of two entries give blocks of four,
  two and one pages: all three levels of the code, regions that begin and end
  inside blocks, and seven tables, the most such a tree can have. Two
  calls are what it takes for a call to meet what another one left, and lowering
  a region of an already split tree needs no third. The requests are two with a
  memory type (write-back memory and device registers) and one that keeps the
  type and sets read-only; the other functions of the library differ in their
  masks only, and the theorems hold for any request.
- Device tree sizes lie on both sides of each bound of the layout choice, and a
  page is inspected at each boundary of the table only (`Boundaries`): between
  two of them nothing changes.
- The two heights of the console are one whose last row of text is reached in
  steps of the scale and one whose last row is not; a screen of two columns and
  three lines of large text is the smallest the assumption admits, so that a
  few characters fill a row, the last row and the screen. Two writes let a
  handler's write interrupt one at each of its accesses; the theorems extend
  this to any depth.
- The boot manager's devices are one of each kind that a loop tells apart: a
  PCI bridge, a display adapter behind it with an output of its own, another
  PCI device, the frame buffer driver's output and an output without a device
  path. Of the lists of options that exist before, one has
  Simple Init behind another option, so that the number 0 is not its own. The
  offers contain an option that exists before, one that is offered twice, one
  without a key, Simple Init, and numbers that are free or in use; the capsule
  lists one that fails first and one that fails last. Two boots show what a
  reset leaves.
- Five touches let a report be torn by a poll between any two of its accesses,
  twice over.

What the properties say beyond that is in the comment in front of each; the
ones that take the most to break:

- `NoLostNotify`, `WalkStaysOnList`, `WalkMissesNobody` (`Keypad`): wake-ups are
  not lost between the timer's push and the handler's last look at the queue,
  and the list walk survives callbacks that change the list. A callback that
  unregisters its own registration is what the walk does not survive: the
  properties say that nothing else takes the walk off the list or makes it miss
  a registration.
- `ReadyMeansKey`, `FullKeysAreKept` (`Keypad`): a reader that WaitForKey woke
  finds a key, and full keystrokes leave the reading queue only by being read,
  reset or overrun by newer ones. `WaitForKeyEx` shares WaitForKey's function
  and so throws partial keys away too.
- `ContextsAreLive`, `SignalsAnEvent`, `AllOrNothing` (`KeypadBinding`): the
  unwinding of Start and Stop under interruption.
- `ImplementsAddressMap`, `NoStaleTranslation`, `EveryTableIsLinkedOnce`
  (`PageTables`): after every single store the tables map each page as before or
  as asked, also when memory runs out, except for the pages of one entry, from
  the store that masks it to the end of its TLB maintenance. What the
  processor finds there in between (address 0, a device type, or nothing) is not
  promised, but no translation taken then outlives the maintenance. Blocks are
  split without a break-before-make sequence; each changed entry is invalidated
  by address, which is what keeps the TLB free of stale translations here. No
  table leaks as long as there is a root, also after a call ran out of pages;
  what ArmConfigureMmu's own failure leaves behind is in section 6.
- `SharedReservationsHold`, `FreeMemoryIsCacheable` (`MemoryInit`): the table is
  applied in order and later entries win, so that both depend on the order of
  descriptors (DBI Dump ends up write-back only because DXE Heap follows it).
- `Nb1LayoutIsItsMemory` (`MemoryInit`): the layout chosen from the sum of the
  memory nodes neither offers memory that is not there nor leaves out any that
  is and that no descriptor reserves. It is stated for the device whose nodes the
  repository gives; it does not ask for reserved memory to be free (that it is,
  in the code, is the finding of `MemoryInitNb1`).
- `BusIsOpenWhilePolled`, `ReportsAdvance`, `WokenReaderFindsReport`
  (`SynapticsTouch`). What the code does not promise shows there too: a report
  may combine two touches and a touch stored before the flag is cleared is
  lost; each report is news in both coordinates all the same.
- `GlyphsStayOnScreen`, `PrintedIsOnScreen`, `InterruptsAreKept`,
  `ForegroundComesBack` (`FrameBufferConsole`): the row counter moves in steps of
  the scale to a bound that need not be a multiple of it, a character that fills
  the screen has to survive its reset, and the colour is saved before interrupts
  are disabled. Interrupts stay disabled through a write whatever it prints,
  unless a line feed found TRUE in the uninitialised `intstate`; and a line break
  that such an interrupt cuts in two may cost one line, which the property on
  glyphs allows. That these happen is in section 6.
- `HotkeysStartTheirOptions`, `GraphicsAreConsoles`, `UpdatesEndTheBoot`
  (`BootManager`): which option a number names after everyone has added theirs,
  the order of the three loops over devices, and what a boot does behind
  capsules of which any may fail. Each states the exception that the code makes:
  UP for a Simple Init that was there before, outputs that were refused or could
  not be located, updates in front of a capsule that failed.

Deadlock is checked in the runs of the key queue, the keypad and the console, which go on for
ever. It is off where the system really stops: `MemoryPeim` returns once,
nothing follows ExitBootServices, the last boot ends in its option, the fault of `KbdFreeNotifyList` stops the
machine, and `MaxCalls` ends the calls of `PageTables`.

## 5. Fairness

- `Keypad`: weak fairness of the end of a poll, as the device's GetKeys returns
  when it has no more keys. Strong fairness of the handler and of a read loop
  that has begun: a timer tick disables them while it runs, again and again, but
  the code it interrupted gets the processor back before the next tick. Notification
  functions register others finitely often: a registration goes to the tail of
  the list, so that a function that registers another one whenever it is called
  keeps the walk going for ever, in the code as in the model. Nothing else is
  assumed of the user or of applications.
- `PageTables`: weak fairness of the running call (`Walk`, `Fill`), which nothing
  interrupts.
- `MemoryInit`: weak fairness of the only thread.
- `SynapticsTouch`: weak fairness of the probe's steps: Start's loop keeps the
  processor. That the device answers is not assumed; a failed transfer ends
  the loop as the code says.

- `FrameBufferConsole`: weak fairness of the innermost write, whose processor
  nothing but a further interrupt takes. Interrupts may keep coming, so that
  `WritesReturn` promises an end only if they stop.
- `BootManager`: weak fairness of the boot, which one thread runs. The user may
  press a hotkey or not, and the operating system may reset or not.

## 6. Findings

- A keystroke that matches two registrations is queued once for each of them
  and every queued copy walks the whole list: each function is called twice
  (`KeypadCalledOnce`; `Keypad.c:182-198`).
- Stop closes the polling timer before the firmware may refuse to uninstall the
  protocols: the driver stays bound and no longer polls (`KeypadRefusedStop`;
  `Keypad.c:467-485`).
- On the NB1 the regions its descriptors reserve (FIH Region, Ramoops) are
  described as free memory by the RAM partition that is listed later and covers
  them, and are mapped write-back (`MemoryInitNb1`;
  `PlatformMemoryMapLib.c:43-62`).

Met on the way, most of it with no document to contradict it:

- Keypad: a notification function that unregisters its own registration makes
  the handler read a freed node (`KeypadTextIn.c:692-697`); one that registers
  another whenever it is called keeps the walk going. `SetState` returns a
  status it never assigned when it succeeds (`KeypadTextIn.c:495`).
- Page tables: a live entry is changed by two stores, so that its pages are
  mapped elsewhere or not at all in between (`ArmMmuLibCore.c:371-372`); a block
  is split without break-before-make, and a TLB that holds the block and an
  entry of its table at once is not excluded, nor is any property about it. If
  ArmConfigureMmu runs out of pages it frees the root alone
  (`ArmMmuLibCore.c:750-752`) and the tables below it are lost. A failed
  `InitMmu` is logged and boot goes on.
- Touch driver: a Start that finds no touch function on the last page succeeds
  and polls address 0; ExitBootServices closes a bus that Stop closed before; the
  device protocol is opened BY_DRIVER and never released, so that a touch device
  is started once.
- Console: `intstate` is uninitialised after a line feed and may enable interrupts
  in the middle of a write; a handler's write that falls between the two halves
  of a line break finds the cursor up to one line of large text too low, which on
  a display of 2560 rows is eight rows of pixels behind the frame buffer (still in
  the region reserved for the display; on 1920, 2160 and 2880 rows it is on the
  screen).
- Boot manager: an option found instead of added has its unassigned number
  0x10000 cut to 0 (`PlatformBm.c:329`): if Simple Init is registered before, UP
  is bound to Boot0000, whatever that is, against the comment at
  `PlatformBm.c:440`. In the images of the repository nobody registers it before,
  as variables are emulated in memory. A capsule that fails behind good ones
  leaves those without their reset (`PlatformBm.c:573-578`). ESC is set up and
  never registered (`PlatformBm.c:444`) and the prompt "Press any side button"
  (`PlatformBm.c:625`, 704) holds for the button that sends UP only;
  `handles[1]` is used without looking at how many handles there are
  (`PlatformBm.c:520`).

## 7. What is proved

For every value of the constants that satisfies the named assumptions of the
module (`CountAssumption`: the ring has at least two slots;
`KeyDataAssumption` and `TogglesAssumption`: the fields of the records;
`HandlesAssumption`: the list's end is no node, and neither is the absence of one; `BoundsAssumption`,
`ConstantsAssumption`: the bounds are numbers, and the console's screen holds
three lines; `CountsAssumption`: tables have two entries at least;
`TypesAssumption`, `RequestsAssumption`: what callers may ask for;
`OptionsAssumption`: options that exist before are finitely many and offers come
with a number of 16 bits or none; UP, which has no character, is no key of an
offer;
`CapsulesAssumption`, `TimeOutAssumption`, `TreesAssumption`: types):

| Module | Theorem | Argument |
|---|---|---|
| `KeyQueueProofs` | `TypeCorrect`, `KeyQueueImplementsFifo` | the contents of the ring between head and tail (`ContentsOK`), by cases on wrap-around; each step of the ring is a step of `BoundedFifo` under the refinement mapping |
| `KeypadProofs` | `TypeCorrect`, `NoNotifyIsLost`, `WalkIsSafe` | `Inv`, the conjunction of the three, is inductive: that the walk stays on the list, unless the function it called unregistered its own registration (`forward`), needs the types of the list, and a lost wake-up is excluded only because the handler looks at the queue again after each walk |
| `KeypadProofs` | `WalkIsComplete` | `WalkInv` adds that handles differ and that all matching registrations in front of the walk have been called (`WalkServed`) while no node was freed under the walk, with lemmas for the shift of positions when a callback appends to or removes from the list |
| `KeypadProofs` | `ReadyIsKept`, `NoFullKeyIsLost` | given the types, `ReadyMeansKey` is inductive: the answer ends with the read, a reset or an overrun of the queue, and until then the full key only moves forward. Both rest on what each step does to the readers' queue: a read takes its first key (`ReadQueue`), WaitForKey drops partial keys in front (`WaitQueue`), a key of a poll goes behind all others and may push out the first (`ReturnKeyQueue`) |
| `KeypadBindingProofs` | `TypeCorrect`, `NoDanglingContext`, `SignalsAreSafe`, `BindingIsAllOrNothing` | `Inv` states what is held before each operation of Start, ErrorExit and Stop (`StartHolds`, `ErrorExitHolds`, `StopHolds`, `IdleHolds`, `FaultHolds`) |
| `SynapticsTouchProofs` | `TypeCorrect` | `ProbeInv`: a page is left only after at least one counted function, so the page number never exceeds the function count, and the address loses six for each function |
| `SynapticsTouchProofs` | `PollsFindTheBusOpen`, `TheOsFindsTheBusClosed` | `BusInv`: which events and which bus each operation of Start and Stop finds; that an open bus is always known to ExitBootServices |
| `SynapticsTouchProofs` | `EachReportIsNews` | `NewsInv`: while the flag is set and no reset is half done, both stored coordinates are newer than the last report |
| `SynapticsTouchProofs` | `WokenReadersFindReports` | `WakeInv`: the event is signalled only while a check of it is half done and the flag is set; a woken reader has cleared nothing since |
| `PageTablesProofs` | `TypeCorrect`, `TablesAreLinkedOnce` | `IInv`: the links from the root and from the tables of the second level have the other tables as their targets, one each (`Tree`); the call's table is one of its level and the entry it fills leads to no table (`PathInv`). Lemmas: each of the two stores to such an entry leaves the tree as it is (`MaskStep`, `SetStep`, `SameLinks`), a new table adds one link (`LinksAdded`, `TreeGrows`), and only ArmConfigureMmu's failure frees a page, the root |
| `PageTablesProofs` | `NoStaleTranslationHolds` | `MapInv` adds to `IInv` where the call is (`PathOfRegion`: its table is the one on the path to the first page left, and that page starts a block), what an entry says once the second store is made (`FlatMap`, over `Settled`: a block maps its pages to themselves) and what the TLB holds (`CacheInv`: a page of the cached block ends at an entry no larger than that block, with its attributes unless it is under change; the maintenance at the end of a change removes what covers a page of it). Lemmas about division give the blocks of each level; `LeafOf` before and after a store differs in the pages of one block only, and linking a new table changes it nowhere |
| `PageTablesProofs` | `TablesAreAMap` | from `MapInv`, the first store to an entry is the Begin of `AddressMap` for the pages of one block (`AbstractBegin`), the end of its maintenance the End (`AbstractEnd`), a failed allocation its `Fail`, and every other step, the second store included, leaves the map as it is |
| `MemoryInitProofs` | `TypeCorrect` | the shape of the map for each build (`MapShape`: fewer descriptors than the table has room for, the last one empty), and that a loop has added at most one entry for each descriptor it has passed (`LoopInMap`) |
| `MemoryInitProofs` | `FreeMemoryStaysCacheable`, `SharedReservationsStay`, `Nb1LayoutIsRight` | `MapInv`: HOBs and table are those of the descriptors passed, no more and no less (`LoopInv`); `AttributesOf` finds an entry that covers the page if one does (`LastInv`); free pages are write-back, except DBI Dump's until DXE Heap, the next descriptor, takes them back (`CacheInv`); the nodes of the NB1 add up to the layout of 8 GB (`Nb1Inv`), whose free partitions begin at 512 MB and end where the nodes do (`Nb1LayoutLies`). They rest on where the regions of the map lie (`EarlyRegionsLie`, `LateRegionsLie`, `Nb1RegionsLie`) and which of them is at which place (`RegionAt`) |
| `FrameBufferConsoleProofs` | `TypeCorrect`, `GlyphsStay` | `Inv`: each write knows how many line breaks are half done below it (`Nested`), and only these leave the cursor below the last line, each by one line (`RowInv`) |
| `FrameBufferConsoleProofs` | `ColourComesBack` | `ColorInv`: each critical write has saved the colour that the writes below it alone would have left, by induction on the stack's steps |
| `FrameBufferConsoleProofs` | `InterruptsKept`, `PrintedStays` | `MaskInv`: a write is interrupted only before it has disabled interrupts or after it found TRUE in the `intstate` of a line feed, never in the line break of a printable character |
| `BootManagerProofs` | `HotkeysStartTheirs` | `KeyInv`: options are added at numbers that are free and never removed, and the number kept for UP is that of the Simple Init just added, or 0 if it was found |
| `BootManagerProofs` | `GraphicsBecomeConsoles` | `ConsoleInv`: while the last of the three loops runs, an output that is no console, was not refused and could be located is still to come; the outputs that connecting the display adapters brought are all in front of it when it begins |
| `BootManagerProofs` | `UpdatesEndBoots` | `CapsuleInv`: `NeedReset` stands for a capsule processed, and the last of the results behind the loop is a failure |

The histories and the bounds (`MaxTyped`, `MaxStarts`, `MaxNotify`,
`MaxTouches`, `MaxCalls`, `MaxTables`, `MaxText`, `MaxDepth`, `MaxReboots`) are
arbitrary in the theorems, so these hold of behaviours of any length. TLC
checked each strengthened invariant, or the property it is for, before it was
proved.

Only model-checked: the liveness properties (`NotifyDrains`, `ReadReturns`,
`CallsReturn`, `MemoryPeimReturns`, `ProbeEnds`, `WritesReturn`, `BootEnds`).
They rest on fairness, and so on ENABLED, which the prover does not handle. The
three properties of section 6 do not hold; TLC shows the behaviours against
them.

The reference definition of repeated pushes in `MCKeypad` is recursive and
compared with `PushTimes` by an assumption TLC evaluates.

Mutants. For each property of a passing run one definition is replaced by a
faulty form, kept next to it under a comment that begins with `Faulty:`, under
which TLC finds the property violated: for instance the handler that takes one
keystroke per event, Stop that closes the bus first, or a split that takes the
block to start where the region does.

## 8. What is not modelled, and why

- In-memory log: in no platform description of the repository, and one function
  that stores a character and advances an offset.
- Virtual clock: divisions of one counter, without state, order or failure; its
  day number starts at 0 and does not carry into the month.
- Simple frame buffer driver, SMBIOS, logo, `msm8998Dxe`, platform libraries:
  sequential initialisation without a later operation on what it sets up.
- 32-bit ARM page tables: not built by any platform of the repository.
- ACPI tables, prebuilt drivers (among them `LinuxSimpleMassStorage`, a binary
  here), Python tools and build scripts: no firmware code with source.
- Inside modelled parts: the vendor I2C driver (external, may fail), the keypad
  device's hardware access, timing in seconds, cache maintenance and the
  contents of logs; in the boot manager the consoles at fixed paths, the splash
  screen and the progress bar; in the console `FbConScrollUp`, which nothing calls.
