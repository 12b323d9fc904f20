----------------------------- MODULE BootManager -----------------------------
(***************************************************************************)
(* PlatformBootManagerLib between its two calls by BdsDxe: the consoles,   *)
(* the boot options and hotkeys, the capsules, and the wait for a hotkey   *)
(* that follows; and the next boot, after a reset.                         *)
(*                                                                         *)
(* The variables of UEFI are emulated in memory (PcdEmuVariableNvModeEnable *)
(* is TRUE): each boot starts without those of the last, so that power     *)
(* lost in the middle of a boot leaves nothing behind.  Assertions do not  *)
(* stop the boot, as in a RELEASE build.  Boot options are what they       *)
(* start, and a handle with a device path stands for the path.  The fixed  *)
(* consoles and the second text input are left out.                        *)
(***************************************************************************)
EXTENDS Integers, Sequences, FiniteSets

CONSTANTS
  FirstHandles,    \* the handles present when BDS starts
  Children,        \* the handles that connecting a handle produces
  BridgeHandles,   \* PCI root bridges
  PciHandles,      \* handles with PciIo on them
  DisplayHandles,  \* those of the display class
  OutputHandles,   \* handles with a GOP on them
  PathHandles,     \* handles with a device path
  DriverOptions,   \* boot options that drivers may have added before
  PlatformOffers,  \* what the platform boot manager protocol offers: options,
                   \* their numbers if they have any, and keys
  CapsuleLists,    \* capsules a reset may leave, TRUE for one that is valid
  PcdPlatformBootTimeOut,
  MaxReboots       \* bound: resets by the operating system

Offered == UNION {{list[i] : i \in DOMAIN list} : list \in PlatformOffers}

LoadOptionNumberUnassigned == 65536

\* UP has no character: an offer of it is an offer without a key.
ASSUME OptionsAssumption ==
  /\ \A list \in DriverOptions :
       IsFiniteSet(DOMAIN list) /\ DOMAIN list \subseteq Nat
  /\ PlatformOffers \subseteq Seq(Offered)
  /\ \A offer \in Offered :
       /\ offer.number \in 0..LoadOptionNumberUnassigned
       /\ offer.key # "UP"

ASSUME CapsulesAssumption == CapsuleLists \subseteq Seq(BOOLEAN)

ASSUME TimeOutAssumption == PcdPlatformBootTimeOut \in Nat

VARIABLES
  phase,         \* what comes next
  reboots,       \* resets by the operating system so far
  handles,       \* the handles present
  todo,          \* located handles that FilterAndProcess has not come to
  refused,       \* history: outputs that could not be added to ConOut
  missed,        \* history: outputs present while none could be located
  ConOut, ErrOut,
  options,       \* Boot####: numbers to options
  keys,          \* Key####: keys to numbers of options
  offers,        \* platform options not registered yet
  CurrentBootOptions,
  OptionSimpleInit,
  found,         \* history: Simple Init was registered before
  capsules,      \* capsules not processed yet
  NeedReset,
  updates,       \* history: the results of this boot's capsules
  TimeoutRemain,
  started        \* the hotkey that ended the wait, if one did

consoleVars == <<handles, todo, refused, missed, ConOut, ErrOut>>
optionVars  == <<options, keys, offers, CurrentBootOptions, OptionSimpleInit,
                 found>>
capsuleVars == <<capsules, NeedReset, updates>>
endVars     == <<TimeoutRemain, started>>
vars == <<phase, reboots, consoleVars, optionVars, capsuleVars, endVars>>

At(p) == phase = p
Goto(p) == phase' = p

Empty == [n \in {} |-> n]
With(f, a, b) == [c \in DOMAIN f \cup {a} |-> IF c = a THEN b ELSE f[c]]

\* The handles of a loop, or none: LocateHandleBuffer may fail.
Located(loop) == CASE loop = "bridges" -> {{}, handles' \cap BridgeHandles}
                   [] loop = "displays" -> {{}, handles' \cap PciHandles}
                   [] loop = "outputs" -> {{}, handles' \cap OutputHandles}
                   [] OTHER -> {{}}

PowerOn ==
  /\ At("off")
  /\ Goto("bridges")
  /\ handles' = FirstHandles
  /\ todo' \in Located("bridges")
  /\ options' \in DriverOptions
  /\ TimeoutRemain' = PcdPlatformBootTimeOut
  /\ UNCHANGED <<reboots, refused, missed, ConOut, ErrOut, keys, offers,
                 CurrentBootOptions, OptionSimpleInit, found, capsuleVars,
                 started>>

\* Nothing but the capsules survives.
Reset(left) ==
  /\ Goto("off")
  /\ handles' = {} /\ todo' = {}
  /\ refused' = {} /\ missed' = {} /\ ConOut' = {} /\ ErrOut' = {}
  /\ options' = Empty /\ keys' = Empty /\ CurrentBootOptions' = Empty
  /\ offers' = <<>>
  /\ OptionSimpleInit' = 0 /\ found' = FALSE
  /\ capsules' = left
  /\ NeedReset' = FALSE
  /\ updates' = <<>>
  /\ TimeoutRemain' = 0
  /\ started' = "none"

-----------------------------------------------------------------------------
(* PlatformBootManagerBeforeConsole: FilterAndProcess, three times.        *)
ExceptConsoles == UNCHANGED <<reboots, optionVars, capsuleVars, endVars>>

\* Connecting a handle may fail.
Connect(h) ==
  /\ handles' \in {handles, handles \cup Children[h]}
  /\ UNCHANGED <<refused, ConOut, ErrOut>>

\* A PCI device that cannot be read is no display.
IsPciDisplay(h) == {FALSE, (h \in DisplayHandles)}

\* Either update may fail; a handle without a path is added to none.
AddOutput(h) ==
  \E added \in {FALSE, (h \in PathHandles)}, taken \in BOOLEAN :
    /\ ConOut' = IF added THEN ConOut \cup {h} ELSE ConOut
    /\ refused' = IF added THEN refused ELSE refused \cup {h}
    /\ ErrOut' = IF added /\ taken
                 THEN ErrOut \cup {h} ELSE ErrOut
    /\ UNCHANGED handles

Process(h) ==
  \/ At("bridges") /\ Connect(h)
  \/ At("displays") /\ \E display \in IsPciDisplay(h) :
       IF display THEN Connect(h)
                  ELSE UNCHANGED <<handles, refused, ConOut, ErrOut>>
  \/ At("outputs") /\ AddOutput(h)

\* Faulty: the outputs are added before the displays are connected.
LoopsSwapped == [bridges |-> "outputs", outputs |-> "displays",
                 displays |-> "platform"]

Loops == [bridges |-> "displays", displays |-> "outputs",
          outputs |-> "platform"]

\* The next handle of a loop, or the next loop.
FilterAndProcess ==
  /\ phase \in DOMAIN Loops
  /\ IF todo # {}
       THEN /\ \E h \in todo : Process(h) /\ todo' = todo \ {h}
            /\ UNCHANGED <<phase, missed>>
       ELSE /\ Goto(Loops[phase])
            /\ UNCHANGED <<handles, refused, ConOut, ErrOut>>
            /\ todo' \in Located(Loops[phase])
            /\ missed' = IF Loops[phase] = "outputs" /\ todo' = {}
                         THEN handles \cap OutputHandles ELSE missed
  /\ ExceptConsoles

-----------------------------------------------------------------------------
(* Boot options and hotkeys.                                               *)
ExceptOptions == UNCHANGED <<reboots, consoleVars, capsuleVars, endVars>>

Numbers(list, option) == {n \in DOMAIN list : list[n] = option}
Least(numbers) == CHOOSE n \in numbers : \A k \in numbers : n <= k
FreeOptionNumber == Least(0..Cardinality(DOMAIN options) \ DOMAIN options)

\* An option without a number gets a free one.
Assigned(number) == IF number = LoadOptionNumberUnassigned
                    THEN FreeOptionNumber ELSE number

\* A number that is in use is refused.
AddNumberedOption(option, number) ==
  /\ number \notin DOMAIN options
  /\ options' = With(options, number, option)

AddLoadOption(option) == AddNumberedOption(option, FreeOptionNumber)

\* A key without a character is no request.  A key that has an option, and an
\* option that does not exist, are refused; others may be.
AddKeyOption(key, number) ==
  \/ /\ key # "none"
     /\ key \notin DOMAIN keys
     /\ number \in DOMAIN options'
     /\ keys' = With(keys, key, number)
  \/ UNCHANGED keys

LocatePlatformOptions ==
  /\ At("platform")
  /\ Goto("offers")
  /\ offers' \in PlatformOffers \cup {<<>>}
  /\ CurrentBootOptions' = options
  /\ UNCHANGED <<options, keys, OptionSimpleInit, found>>
  /\ ExceptOptions

\* An option that cannot be added gets no key.
RegisterOffer ==
  LET offer == Head(offers)
      match == Numbers(CurrentBootOptions, offer.option)
      number == IF match # {} THEN Least(match) ELSE Assigned(offer.number)
  IN
  /\ At("offers")
  /\ offers # <<>>
  /\ offers' = Tail(offers)
  /\ \/ match = {} /\ UNCHANGED <<options, keys>>
     \/ /\ IF match # {} THEN UNCHANGED options
                         ELSE AddNumberedOption(offer.option, number)
        /\ AddKeyOption(offer.key, number)
  /\ UNCHANGED <<phase, CurrentBootOptions, OptionSimpleInit, found>>
  /\ ExceptOptions

\* EfiBootManagerGetBootManagerMenu registers the menu, if there is one.
GetBootManagerMenu ==
  /\ At("offers")
  /\ offers = <<>>
  /\ Goto("SimpleInit")
  /\ UNCHANGED options \/ AddLoadOption("BootManagerMenu")
  /\ UNCHANGED <<keys, offers, CurrentBootOptions, OptionSimpleInit, found>>
  /\ ExceptOptions

\* Faulty: the number is the one the option had before it was added.
NumberBeforeAdding(number) == LoadOptionNumberUnassigned % 65536

NumberOf(number) == number

\* An option that exists is not added: its number stays unassigned, which is 0
\* in 16 bits.  Adding assigns the number even if it fails.
PlatformRegisterFvBootOption(option, OptionNumber) ==
  IF Numbers(options, option) # {}
    THEN /\ OptionNumber = LoadOptionNumberUnassigned % 65536
         /\ UNCHANGED options
    ELSE /\ OptionNumber = NumberOf(FreeOptionNumber)
         /\ AddLoadOption(option) \/ UNCHANGED options

RegisterSimpleInit ==
  /\ At("SimpleInit")
  /\ Goto("UP")
  /\ PlatformRegisterFvBootOption("SimpleInit", OptionSimpleInit')
  /\ found' = (Numbers(options, "SimpleInit") # {})
  /\ UNCHANGED <<keys, offers, CurrentBootOptions>>
  /\ ExceptOptions

RegisterUp ==
  /\ At("UP")
  /\ Goto("capsules")
  /\ UNCHANGED options
  /\ AddKeyOption("UP", OptionSimpleInit)
  /\ UNCHANGED <<offers, CurrentBootOptions, OptionSimpleInit, found>>
  /\ ExceptOptions

-----------------------------------------------------------------------------
(* PlatformBootManagerAfterConsole.                                        *)
ProcessCapsule ==
  /\ At("capsules")
  /\ capsules # <<>>
  /\ capsules' = Tail(capsules)
  /\ updates' = Append(updates, Head(capsules))
  /\ IF Head(capsules) THEN NeedReset' = TRUE /\ UNCHANGED phase
                       ELSE Goto("refresh") /\ UNCHANGED NeedReset
  /\ UNCHANGED <<reboots, consoleVars, optionVars, endVars>>

\* Faulty: a single capsule asks for no reset.
ResetAfterTwo(need) == need /\ Len(updates) > 1

\* Faulty: the firmware resets without need.
ResetAnyway(need) == TRUE

ResetNeeded(need) == need

HandleCapsules ==
  /\ At("capsules")
  /\ capsules = <<>>
  /\ IF ResetNeeded(NeedReset)
       THEN Reset(<<>>) /\ UNCHANGED reboots
       ELSE Goto("refresh") /\ UNCHANGED <<reboots, consoleVars, optionVars,
                                           capsuleVars, endVars>>

\* EfiBootManagerRefreshAllBootOption adds the options of the devices found.
RefreshAllBootOption ==
  /\ At("refresh")
  /\ Goto("UefiShell")
  /\ UNCHANGED options \/ AddLoadOption("Disk")
  /\ UNCHANGED <<keys, offers, CurrentBootOptions, OptionSimpleInit, found>>
  /\ ExceptOptions

RegisterFvOption(option, next) ==
  /\ At(option)
  /\ Goto(next)
  /\ \E OptionNumber \in 0..Cardinality(DOMAIN options) :
       PlatformRegisterFvBootOption(option, OptionNumber)
  /\ UNCHANGED <<keys, offers, CurrentBootOptions, OptionSimpleInit, found>>
  /\ ExceptOptions

RegisterFvOptions ==
  RegisterFvOption("UefiShell", "UasStorage")
    \/ RegisterFvOption("UasStorage", "wait")

-----------------------------------------------------------------------------
(* The wait of BdsDxe, and what follows.                                   *)
Wait ==
  /\ At("wait")
  /\ \/ /\ TimeoutRemain > 0
        /\ TimeoutRemain' = TimeoutRemain - 1
        /\ UNCHANGED <<phase, started>>
     \/ /\ Goto("started")
        /\ started' \in DOMAIN keys \cup {"none"}
        /\ UNCHANGED TimeoutRemain
  /\ UNCHANGED <<reboots, consoleVars, optionVars, capsuleVars>>

\* The operating system resets, with capsules for the firmware or without.
Reboot ==
  /\ At("started")
  /\ reboots < MaxReboots
  /\ reboots' = reboots + 1
  /\ \E left \in CapsuleLists : Reset(left)

Init ==
  /\ phase = "off"
  /\ reboots = 0
  /\ handles = {} /\ todo = {} /\ refused = {} /\ missed = {}
  /\ ConOut = {} /\ ErrOut = {}
  /\ options = Empty /\ keys = Empty /\ CurrentBootOptions = Empty
  /\ offers = <<>>
  /\ OptionSimpleInit = 0 /\ found = FALSE
  /\ capsules \in CapsuleLists
  /\ NeedReset = FALSE
  /\ updates = <<>>
  /\ TimeoutRemain = 0
  /\ started = "none"

BootStep == \/ PowerOn \/ FilterAndProcess
            \/ LocatePlatformOptions \/ RegisterOffer \/ GetBootManagerMenu
            \/ RegisterSimpleInit \/ RegisterUp
            \/ ProcessCapsule \/ HandleCapsules \/ RefreshAllBootOption
            \/ RegisterFvOptions \/ Wait

Next == BootStep \/ Reboot

Spec == Init /\ [][Next]_vars

\* The processor goes on with the boot.
FairSpec == Spec /\ WF_vars(BootStep)

-----------------------------------------------------------------------------
\* Each hotkey starts an option, and the one it was registered for, whatever
\* options are added before and after it, with numbers or without: another key
\* than UP one that the platform asked for with that key, UP Simple Init.  An
\* UP for a Simple Init that somebody has registered before is excepted: it
\* starts Boot0000, whatever that is, and no other.
HotkeysStartTheirOptions ==
  \A key \in DOMAIN keys :
    /\ keys[key] \in DOMAIN options
    /\ IF key = "UP"
         THEN IF found THEN keys[key] = 0
                       ELSE options[keys[key]] = "SimpleInit"
         ELSE \E offer \in Offered :
                offer.key = key /\ offer.option = options[keys[key]]

\* When the platform's options are registered, each graphics output that
\* BeforeConsole could reach shows the console, unless its path was refused or
\* the outputs could not be located, and none shows errors alone.
GraphicsAreConsoles ==
  /\ At("platform") =>
       handles \cap OutputHandles \subseteq ConOut \cup refused \cup missed
  /\ ErrOut \cap OutputHandles \subseteq ConOut

\* Firmware that was updated is not started from: a boot that has processed a
\* capsule goes on only if a later one failed.
UpdatesEndTheBoot ==
  phase \in {"refresh", "UefiShell", "UasStorage", "wait", "started"} =>
    \A i \in DOMAIN updates : updates[i] => \E j \in DOMAIN updates :
      j > i /\ ~updates[j]

\* Whatever capsules a reset leaves, the boot ends in an option or a hotkey,
\* and not in one reset after another.
BootEnds == []<>At("started")
=============================================================================
