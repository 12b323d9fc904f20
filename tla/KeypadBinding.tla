--------------------------- MODULE KeypadBinding ---------------------------
(***************************************************************************)
(* The driver-binding half of KeypadDxe: what a Start takes hold of, step  *)
(* by step, what its ErrorExit and a Stop let go of, and in which order,   *)
(* while the keypad timer, KeyNotifyProcessHandler and the users of the    *)
(* installed protocols run in between.                                     *)
(*                                                                         *)
(* A call of Start or Stop is a list of operations, one step each; between *)
(* two of them the timer (TPL_NOTIFY) may fire and, when the call was made *)
(* at TPL_APPLICATION, TPL_CALLBACK code runs.                             *)
(***************************************************************************)
EXTENDS Integers, Sequences

CONSTANTS
  MaxStarts,   \* bound: instances of the private data in a behaviour
  MaxNotify    \* bound: registrations on NotifyList

ASSUME BoundsAssumption == MaxStarts \in Nat \ {0} /\ MaxNotify \in Nat

VARIABLES
  device,      \* who holds the keypad device protocol open BY_DRIVER
  starts,      \* history: instances of KEYPAD_CONSOLE_IN_DEV allocated so far
  ConsoleIn,   \* the live instance, 0 when there is none
  fields,      \* its event fields that are not NULL
  names,       \* its ControllerNameTable is not NULL
  notify,      \* the length of its NotifyList
  events,      \* the firmware's open events, [kind, context]
  armed,       \* the timer event is set periodic
  installed,   \* both text input protocols are installed
  agent,       \* another driver holds them open BY_DRIVER
  pending,     \* KeyNotifyProcessEvent is signalled, not dispatched
  running,     \* the function that is running, or how the last one ended
  at,          \* which of its operations is next
  level,       \* the TPL it was called at
  status       \* what it will return, or returned

callVars == <<running, at, level, status>>
dataVars == <<starts, ConsoleIn, names, notify>>
vars == <<device, dataVars, fields, events, armed, installed, agent, pending,
          callVars>>

EventKinds == {"WaitForKey", "WaitForKeyEx", "TimerEvent",
               "KeyNotifyProcessEvent"}

\* What each function does after the device was opened, in program order.

\* Faulty: an event is created before its context is.
EventBeforePool ==
  <<"WaitForKey", "pool", "WaitForKeyEx", "TimerEvent", "SetTimer",
    "KeyNotifyProcessEvent", "Reset", "names", "Install">>

\* Faulty: the protocols are there before the event they signal.
InstallBeforeEvent ==
  <<"pool", "WaitForKey", "WaitForKeyEx", "TimerEvent", "SetTimer", "Install",
    "KeyNotifyProcessEvent", "Reset", "names">>

StartOps ==
  <<"pool", "WaitForKey", "WaitForKeyEx", "TimerEvent", "SetTimer",
    "KeyNotifyProcessEvent", "Reset", "names", "Install">>

\* Faulty: the private data is freed before the timer is closed.
FreePoolFirst ==
  <<"WaitForKey", "pool", "TimerEvent", "WaitForKeyEx", "KeyNotifyProcessEvent",
    "NotifyList", "names", "device">>

ErrorExitOps ==
  <<"WaitForKey", "TimerEvent", "WaitForKeyEx", "KeyNotifyProcessEvent",
    "NotifyList", "names", "pool", "device">>

\* Faulty: the list is not freed.
KeepNotifyList ==
  <<"TimerEvent", "Uninstall", "device", "WaitForKey", "WaitForKeyEx",
    "KeyNotifyProcessEvent", "names", "pool">>

StopOps ==
  <<"TimerEvent", "Uninstall", "device", "WaitForKey", "WaitForKeyEx",
    "KeyNotifyProcessEvent", "NotifyList", "names", "pool">>

Functions == {"Start", "ErrorExit", "Stop"}

Ops == [Start |-> StartOps, ErrorExit |-> ErrorExitOps, Stop |-> StopOps]

-----------------------------------------------------------------------------
Init ==
  /\ device = "free"
  /\ starts = 0
  /\ ConsoleIn = 0
  /\ fields = {}
  /\ names = FALSE
  /\ notify = 0
  /\ events = {}
  /\ armed = FALSE
  /\ installed = FALSE
  /\ agent = FALSE
  /\ pending = FALSE
  /\ running = "none"
  /\ at = 0
  /\ level = "TPL_APPLICATION"
  /\ status = "none"

\* The running call has the processor, and op is its next operation.
Does(f, op) ==
  /\ running = f
  /\ Ops[f][at] = op
  /\ pending => level = "TPL_CALLBACK"

\* The call goes on, and returns EFI_SUCCESS or its error after the last
\* operation.
Advance ==
  /\ IF at = Len(Ops[running])
       THEN /\ running' = "none"
            /\ at' = 0
            /\ status' = IF running = "ErrorExit" THEN status ELSE "EFI_SUCCESS"
       ELSE /\ at' = at + 1
            /\ UNCHANGED <<running, status>>
  /\ UNCHANGED level

GotoErrorExit(error) ==
  /\ running' = "ErrorExit"
  /\ at' = 1
  /\ status' = error
  /\ UNCHANGED level

Refuse(error) ==
  /\ status' = error
  /\ UNCHANGED <<running, at, level>>

-----------------------------------------------------------------------------
(* Supported opens the device and closes it again: only its answer shows.  *)
KeypadControllerDriverSupported ==
  /\ running = "none"
  /\ Refuse(IF device = "free" THEN "EFI_SUCCESS" ELSE "EFI_ACCESS_DENIED")
  /\ UNCHANGED <<device, dataVars, fields, events, armed, installed, agent,
                 pending>>

KeypadControllerDriverStart(tpl) ==
  /\ running = "none"
  /\ starts < MaxStarts
  /\ IF device = "free"
       THEN /\ device' = "this"
            /\ running' = "Start"
            /\ at' = 1
            /\ level' = tpl
            /\ UNCHANGED status
       ELSE /\ Refuse("EFI_ACCESS_DENIED")
            /\ UNCHANGED device
  /\ UNCHANGED <<dataVars, fields, events, armed, installed, agent, pending>>

KeypadControllerDriverStop(tpl) ==
  /\ running = "none"
  /\ IF installed
       THEN /\ running' = "Stop"
            /\ at' = 1
            /\ level' = tpl
            /\ UNCHANGED status
       ELSE Refuse("EFI_UNSUPPORTED")
  /\ UNCHANGED <<device, dataVars, fields, events, armed, installed, agent,
                 pending>>

-----------------------------------------------------------------------------
(* Operations of Start; each may fail.                                     *)
AllocatePool ==
  /\ Does("Start", "pool")
  /\ \/ /\ starts' = starts + 1
        /\ ConsoleIn' = starts + 1
        /\ Advance
     \/ /\ GotoErrorExit("EFI_OUT_OF_RESOURCES")
        /\ UNCHANGED <<starts, ConsoleIn>>
  /\ UNCHANGED <<device, fields, names, notify, events, armed, installed,
                 agent, pending>>

CreateEvent(kind) ==
  /\ Does("Start", kind)
  /\ \/ /\ events' = events \union {[kind |-> kind, context |-> ConsoleIn]}
        /\ fields' = fields \union {kind}
        /\ Advance
     \/ /\ GotoErrorExit("EFI_OUT_OF_RESOURCES")
        /\ UNCHANGED <<events, fields>>
  /\ UNCHANGED <<device, dataVars, armed, installed, agent, pending>>

SetTimer ==
  /\ Does("Start", "SetTimer")
  /\ \/ armed' = TRUE /\ Advance
     \/ GotoErrorExit("EFI_OUT_OF_RESOURCES") /\ UNCHANGED armed
  /\ UNCHANGED <<device, dataVars, fields, events, installed, agent, pending>>

\* InitKeypad only ever succeeds: Start's branch for its failure is dead.
Reset ==
  /\ Does("Start", "Reset")
  /\ Advance
  /\ UNCHANGED <<device, dataVars, fields, events, armed, installed, agent,
                 pending>>

\* The status of AddUnicodeString2 is ignored.
AddNames ==
  /\ Does("Start", "names")
  /\ names' \in BOOLEAN
  /\ Advance
  /\ UNCHANGED <<device, starts, ConsoleIn, notify, fields, events, armed,
                 installed, agent, pending>>

Install ==
  /\ Does("Start", "Install")
  /\ \/ installed' = TRUE /\ Advance
     \/ GotoErrorExit("EFI_OUT_OF_RESOURCES") /\ UNCHANGED installed
  /\ UNCHANGED <<device, dataVars, fields, events, armed, agent, pending>>

-----------------------------------------------------------------------------
(* Operations of ErrorExit and Stop.                                       *)
Releases(op) == Does("ErrorExit", op) \/ Does("Stop", op)

\* Stop also sets the field to NULL; ErrorExit leaves it dangling.
CloseEvent(kind) ==
  /\ Releases(kind)
  /\ events' = IF kind \in fields
                 THEN events \ {[kind |-> kind, context |-> ConsoleIn]}
                 ELSE events
  /\ fields' = IF running = "Stop" THEN fields \ {kind} ELSE fields
  /\ armed' = (armed /\ kind # "TimerEvent")
  /\ pending' = (pending /\ kind # "KeyNotifyProcessEvent")
  /\ Advance
  /\ UNCHANGED <<device, dataVars, installed, agent>>

\* The firmware asks the agents to let go, and refuses when one does not.
Uninstall ==
  /\ Does("Stop", "Uninstall")
  /\ \/ /\ installed' = FALSE
        /\ agent' = FALSE
        /\ Advance
     \/ /\ agent
        /\ running' = "none"
        /\ at' = 0
        /\ status' = "EFI_ACCESS_DENIED"
        /\ UNCHANGED <<installed, agent, level>>
  /\ UNCHANGED <<device, dataVars, fields, events, armed, pending>>

CloseDevice ==
  /\ Releases("device")
  /\ device' = "free"
  /\ Advance
  /\ UNCHANGED <<dataVars, fields, events, armed, installed, agent, pending>>

\* With no private data, ErrorExit walks a list near address 0, which is not
\* mapped: the processor takes a fault it does not return from.
KbdFreeNotifyList ==
  /\ Releases("NotifyList")
  /\ IF ConsoleIn = 0
       THEN /\ running' = "fault"
            /\ UNCHANGED <<notify, at, level, status>>
       ELSE /\ notify' = 0
            /\ Advance
  /\ UNCHANGED <<device, starts, ConsoleIn, names, fields, events, armed,
                 installed, agent, pending>>

FreeNames ==
  /\ Releases("names")
  /\ names' = FALSE
  /\ Advance
  /\ UNCHANGED <<device, starts, ConsoleIn, notify, fields, events, armed,
                 installed, agent, pending>>

FreePool ==
  /\ Releases("pool")
  /\ ConsoleIn' = 0
  /\ fields' = {}
  /\ Advance
  /\ UNCHANGED <<device, starts, names, notify, events, armed, installed,
                 agent, pending>>

-----------------------------------------------------------------------------
(* What runs in between.                                                   *)
CallbacksRun == running = "none" \/ (running # "fault" /\ level = "TPL_APPLICATION")

\* A key that matches a registration, polled by the timer or for a reader.
KeyMatches ==
  /\ running # "fault"
  /\ armed \/ (installed /\ CallbacksRun)
  /\ notify > 0
  /\ pending' = TRUE
  /\ UNCHANGED <<device, dataVars, fields, events, armed, installed, agent,
                 callVars>>

KeyNotifyProcessHandler ==
  /\ CallbacksRun
  /\ pending
  /\ pending' = FALSE
  /\ UNCHANGED <<device, dataVars, fields, events, armed, installed, agent,
                 callVars>>

RegisterOrUnregister ==
  /\ CallbacksRun
  /\ installed
  /\ notify' \in 0 .. MaxNotify
  /\ UNCHANGED <<device, starts, ConsoleIn, names, fields, events, armed,
                 installed, agent, pending, callVars>>

\* The console splitter opens the protocols, or closes them.
AgentOpensOrCloses ==
  /\ running = "none"
  /\ installed
  /\ agent' = ~agent
  /\ UNCHANGED <<device, dataVars, fields, events, armed, installed, pending,
                 callVars>>

OtherOpensOrCloses ==
  /\ running = "none"
  /\ \/ device = "free" /\ device' = "other"
     \/ device = "other" /\ device' = "free"
  /\ UNCHANGED <<dataVars, fields, events, armed, installed, agent, pending,
                 callVars>>

-----------------------------------------------------------------------------
Call == \E tpl \in {"TPL_APPLICATION", "TPL_CALLBACK"} :
          \/ KeypadControllerDriverStart(tpl)
          \/ KeypadControllerDriverStop(tpl)

Acquire == \/ AllocatePool
           \/ \E kind \in EventKinds : CreateEvent(kind)
           \/ SetTimer
           \/ Reset
           \/ AddNames
           \/ Install

Release == \/ \E kind \in EventKinds : CloseEvent(kind)
           \/ Uninstall
           \/ CloseDevice
           \/ KbdFreeNotifyList
           \/ FreeNames
           \/ FreePool

Environment == \/ KeyMatches
               \/ KeyNotifyProcessHandler
               \/ RegisterOrUnregister
               \/ AgentOpensOrCloses
               \/ OtherOpensOrCloses

Next == KeypadControllerDriverSupported \/ Call \/ Acquire \/ Release \/ Environment

Spec == Init /\ [][Next]_vars

-----------------------------------------------------------------------------
TypeOK ==
  /\ device \in {"free", "this", "other"}
  /\ starts \in 0 .. MaxStarts
  /\ ConsoleIn \in {0, starts}
  /\ fields \in SUBSET EventKinds
  /\ names \in BOOLEAN
  /\ notify \in 0 .. MaxNotify
  /\ events \in SUBSET [kind : EventKinds, context : 1 .. MaxStarts]
  /\ armed \in BOOLEAN
  /\ installed \in BOOLEAN
  /\ agent \in BOOLEAN
  /\ pending \in BOOLEAN
  /\ running \in Functions \union {"none", "fault"}
  /\ at \in 0 .. 9
  /\ level \in {"TPL_APPLICATION", "TPL_CALLBACK"}
  /\ status \in {"none", "EFI_SUCCESS", "EFI_ACCESS_DENIED",
                 "EFI_UNSUPPORTED", "EFI_OUT_OF_RESOURCES"}

(* No notification function of the driver can run on freed private data:   *)
(* whatever step of Start, ErrorExit or Stop the timer interrupts, every   *)
(* open event has the live KEYPAD_CONSOLE_IN_DEV as its context.           *)
ContextsAreLive ==
  \A e \in events : e.context = ConsoleIn /\ ConsoleIn # 0

(* A key can match a registration only when the event it signals exists,   *)
(* so KeypadReturnApiPushEfikeyBufTail never signals a NULL event: nobody  *)
(* can register before the event is created or after it is closed while    *)
(* the keypad is polled.                                                   *)
SignalsAnEvent ==
  /\ notify > 0 /\ (armed \/ installed) => "KeyNotifyProcessEvent" \in fields
  /\ pending =>
       [kind |-> "KeyNotifyProcessEvent", context |-> ConsoleIn] \in events

(* Start is all or nothing, and so is Stop: when no call is running the    *)
(* driver either is bound, with all it needs to serve the protocols, or    *)
(* holds nothing: whichever step failed, no event, no pool, no             *)
(* registration and no open protocol is left behind.                       *)
Bound ==
  /\ ConsoleIn # 0
  /\ device = "this"
  /\ EventKinds \ {"TimerEvent"} \subseteq fields
  /\ \A kind \in fields : [kind |-> kind, context |-> ConsoleIn] \in events

HoldsNothing ==
  /\ ConsoleIn = 0
  /\ device # "this"
  /\ events = {}
  /\ ~names
  /\ notify = 0
  /\ ~armed
  /\ ~pending

AllOrNothing == running = "none" => IF installed THEN Bound ELSE HoldsNothing

(* Stop returns an error when the driver "was not removed from this        *)
(* device"; a driver that was not removed polls the keypad "at a fixed     *)
(* interval", which is what calls the registered functions.                *)
BoundIsPolled == running = "none" /\ installed => armed
=============================================================================
