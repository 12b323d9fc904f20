---------------------------- MODULE SynapticsTouch --------------------------
(***************************************************************************)
(* The touch screen driver: Start, which finds the touch function of the   *)
(* controller and starts polling it, Stop and ExitBootServices, which give *)
(* the I2C bus back, and a reader of the pointer at TPL_APPLICATION that   *)
(* the polling timer interrupts between any two of its memory accesses.    *)
(*                                                                         *)
(* Touches are known by their number: LastX = 3 is the X of touch 3.  A    *)
(* poll is one step: the timer's (TPL_CALLBACK) and AbsPWaitForInput's     *)
(* (TPL_NOTIFY) interrupt the reader, and no code at TPL_NOTIFY that       *)
(* checks the event during a poll is assumed.                              *)
(***************************************************************************)
EXTENDS Integers, Sequences

CONSTANTS
  ResetPins,    \* ControllerResetPin, 0 when there is none
  MaxTouches    \* bound: touches in a behaviour

ASSUME ConstantsAssumption == ResetPins \subseteq Nat /\ MaxTouches \in Nat

VARIABLES
  device,        \* who holds the touch device protocol open BY_DRIVER
  bus,           \* the I2C controller
  gI2CInstance,  \* the instance ExitBootServices knows of, or NULL
  polling,       \* PollingTimerEvent is set
  waitEvent,     \* WaitForInput: "none", "open" or "signalled"
  installed,     \* the absolute pointer protocol
  exited,        \* the operating system runs
  call,          \* where Start or Stop is
  Page, Function, Address,
  LastX, LastY, StateChanged,
  pc,            \* where the reader is
  woken,         \* its wait returned, and it has not read since
  State,         \* what GetState has read so far
  report,        \* history: the last report of GetState
  touches        \* history: touches the controller has told of

probeVars    == <<Page, Function, Address>>
busVars      == <<device, bus, gI2CInstance>>
eventVars    == <<polling, waitEvent>>
dataVars     == <<LastX, LastY, StateChanged, touches>>
readerVars   == <<pc, woken, State, report>>
vars == <<busVars, eventVars, installed, exited, call, probeVars, dataVars,
          readerVars>>

TOUCH_RMI_PAGE_INFO_BYTES   == 6
TOUCH_RMI_PAGE_INFO_ADDRESS == 233
TOUCH_RMI_MAX_FUNCTIONS     == 10

Calls == {"none", "I2cOpen", "PowerUp", "probe", "poll", "Install",
          "StopPolling", "StopWait", "StopBus"}

\* Nobody is between two steps of a call or a function of the driver.
Idle == call = "none" /\ pc = "idle" /\ ~exited

-----------------------------------------------------------------------------
(* Start, at TPL_CALLBACK.                                                 *)
Start ==
  /\ Idle
  /\ device = "free"
  /\ device' = "this"
  /\ call' = "I2cOpen"
  /\ UNCHANGED <<bus, gI2CInstance, eventVars, installed, exited, probeVars,
                 dataVars, readerVars>>

\* Exit: the bus is closed after a device error only.
StartFails(status) ==
  /\ call' = "none"
  /\ bus' = IF status = "EFI_DEVICE_ERROR" THEN "closed" ELSE bus

\* Faulty: the instance is remembered when Start has succeeded.
RememberLater == gI2CInstance

RememberInstance == "Instance"

I2cOpen ==
  /\ call = "I2cOpen"
  /\ \/ /\ bus' = "open"
        /\ gI2CInstance' = RememberInstance
        /\ call' = "PowerUp"
     \/ /\ call' = "none"
        /\ UNCHANGED <<bus, gI2CInstance>>
  /\ UNCHANGED <<device, eventVars, installed, exited, probeVars, dataVars,
                 readerVars>>

SynaPowerUpController(resetLine) ==
  /\ call = "PowerUp"
  /\ IF resetLine = 0
       THEN StartFails("EFI_INVALID_PARAMETER") /\ UNCHANGED probeVars
       ELSE /\ call' = "probe"
            /\ Page' = 0
            /\ Function' = 0
            /\ Address' = TOUCH_RMI_PAGE_INFO_ADDRESS
            /\ UNCHANGED bus
  /\ UNCHANGED <<device, gI2CInstance, eventVars, installed, exited, dataVars,
                 readerVars>>

\* A transfer of the probe fails.
ProbeFails ==
  /\ call = "probe"
  /\ StartFails("EFI_DEVICE_ERROR")
  /\ UNCHANGED <<device, gI2CInstance, eventVars, installed, exited, probeVars,
                 dataVars, readerVars>>

\* The touch function, or the end of the last page, which counts as success.
ProbeFinds ==
  /\ call = "probe"
  /\ call' = "poll"
  /\ UNCHANGED <<busVars, eventVars, installed, exited, probeVars, dataVars,
                 readerVars>>

\* Faulty: functions are counted page by page.
CountFromNewPage(f) == 0

CountOnNewPage(f) == f

\* The end of another page: the next one.
ProbeSwitchesPage ==
  /\ call = "probe"
  /\ Address # TOUCH_RMI_PAGE_INFO_ADDRESS
  /\ Page' = (Page + 1) % 256
  /\ Address' = TOUCH_RMI_PAGE_INFO_ADDRESS
  /\ Function' = CountOnNewPage(Function)
  /\ UNCHANGED <<busVars, eventVars, installed, exited, call, dataVars,
                 readerVars>>

\* Faulty: only the address ends the loop.
UntilAddress0(address, f) == address > 0

ProbeGoesOn(address, f) == address > 0 /\ f < TOUCH_RMI_MAX_FUNCTIONS

\* Another function: the entry below it is next.
ProbePassesFunction ==
  LET below == (Address - TOUCH_RMI_PAGE_INFO_BYTES) % 256
  IN
  /\ call = "probe"
  /\ Function' = Function + 1
  /\ Address' = below
  /\ IF ProbeGoesOn(below, Function + 1)
       THEN UNCHANGED <<call, bus>>
       ELSE StartFails("EFI_DEVICE_ERROR")
  /\ UNCHANGED <<device, gI2CInstance, eventVars, installed, exited, Page,
                 dataVars, readerVars>>

ProbeSteps == ProbeFails \/ ProbeFinds \/ ProbeSwitchesPage \/ ProbePassesFunction

AbsStartPolling ==
  /\ call = "poll"
  /\ call' = "Install"
  /\ polling' = TRUE
  /\ waitEvent' = "open"
  /\ UNCHANGED <<busVars, installed, exited, probeVars, dataVars, readerVars>>

\* Polling goes on when the installation fails.
Install ==
  /\ call = "Install"
  /\ call' = "none"
  /\ installed' \in BOOLEAN
  /\ UNCHANGED <<busVars, eventVars, exited, probeVars, dataVars, readerVars>>

-----------------------------------------------------------------------------
(* Stop, at the caller's TPL: the timer may fire between its steps.        *)

\* Faulty: the bus is closed first.
BusFirst == <<"StopBus", "StopPolling", "StopWait">>

StopOrder == <<"StopPolling", "StopWait", "StopBus">>

\* The next operation of Stop, or its end.
AfterStop(op) == LET i == CHOOSE i \in 1 .. 3 : StopOrder[i] = op
                 IN IF i = 3 THEN "none" ELSE StopOrder[i + 1]

Stop ==
  /\ Idle
  /\ installed
  /\ installed' = FALSE
  /\ call' = StopOrder[1]
  /\ UNCHANGED <<busVars, eventVars, exited, probeVars, dataVars, readerVars>>

StopStep(op) ==
  /\ call = op
  /\ call' = AfterStop(op)
  /\ polling' = (polling /\ op # "StopPolling")
  /\ waitEvent' = IF op = "StopWait" THEN "none" ELSE waitEvent
  /\ bus' = IF op = "StopBus" THEN "closed" ELSE bus
  /\ UNCHANGED <<device, gI2CInstance, installed, exited, probeVars, dataVars,
                 readerVars>>

SynapticsTouchDxeExitBootService ==
  /\ Idle
  /\ exited' = TRUE
  /\ bus' = IF gI2CInstance # "NULL" THEN "closed" ELSE bus
  /\ UNCHANGED <<device, gI2CInstance, eventVars, installed, call, probeVars,
                 dataVars, readerVars>>

-----------------------------------------------------------------------------
(* A poll either finds a touch, or a transfer fails or nothing touches.    *)
SyncGetTouchData ==
  \/ /\ touches < MaxTouches
     /\ touches' = touches + 1
     /\ LastX' = touches + 1
     /\ LastY' = touches + 1
     /\ StateChanged' = TRUE
  \/ UNCHANGED dataVars

SyncPollCallback ==
  /\ polling
  /\ ~exited
  /\ call \in {"none", "StopPolling", "StopWait", "StopBus"}
  /\ SyncGetTouchData
  /\ UNCHANGED <<busVars, eventVars, installed, exited, call, probeVars,
                 readerVars>>

\* Faulty: the event is signalled after every poll.
AlwaysReady(changed) == TRUE

IsReady(changed) == changed

\* Some code checks an event that is not signalled.
AbsPWaitForInput ==
  /\ waitEvent = "open"
  /\ ~exited
  /\ call \in {"none", "StopPolling", "StopWait", "StopBus"}
  /\ SyncGetTouchData
  /\ waitEvent' = IF IsReady(StateChanged') THEN "signalled" ELSE waitEvent
  /\ UNCHANGED <<busVars, polling, installed, exited, call, probeVars>>

\* CheckEvent consumes the signal, after the notification if need be.
CheckEvent ==
  /\ Idle
  /\ installed
  /\ pc' = "check"
  /\ UNCHANGED <<busVars, eventVars, installed, exited, call, probeVars,
                 dataVars, woken, State, report>>

WaitForInput ==
  /\ pc = "check"
  /\ AbsPWaitForInput
  /\ pc' = "recheck"
  /\ UNCHANGED <<woken, State, report>>

\* Code at TPL_CALLBACK consumes it instead.
Recheck ==
  /\ pc = "recheck"
  /\ pc' = "idle"
  /\ woken' = (waitEvent = "signalled")
  /\ waitEvent' = "open"
  /\ UNCHANGED <<busVars, polling, installed, exited, call, probeVars,
                 dataVars, State, report>>

CallbackConsumes ==
  /\ pc = "recheck"
  /\ waitEvent = "signalled"
  /\ waitEvent' = "open"
  /\ UNCHANGED <<busVars, polling, installed, exited, call, probeVars,
                 dataVars, readerVars>>

-----------------------------------------------------------------------------
(* The reader's functions, one access to the instance a step.              *)
ReaderGoesOn(from, to) ==
  /\ pc = from
  /\ pc' = to
  /\ UNCHANGED <<busVars, eventVars, installed, exited, call, probeVars, touches>>

AbsPGetState ==
  /\ Idle
  /\ installed
  /\ ReaderGoesOn("idle", "flag")
  /\ UNCHANGED <<LastX, LastY, StateChanged, woken, State, report>>

GetStateFlag ==
  /\ ReaderGoesOn("flag", IF StateChanged THEN "readX" ELSE "idle")
  /\ woken' = FALSE
  /\ UNCHANGED <<LastX, LastY, StateChanged, State, report>>

GetStateX ==
  /\ ReaderGoesOn("readX", "readY")
  /\ State' = [State EXCEPT !.x = LastX]
  /\ UNCHANGED <<LastX, LastY, StateChanged, woken, report>>

GetStateY ==
  /\ ReaderGoesOn("readY", "clear")
  /\ State' = [State EXCEPT !.y = LastY]
  /\ UNCHANGED <<LastX, LastY, StateChanged, woken, report>>

\* Faulty: the report stays ready.
KeepFlag(changed) == changed

Cleared(changed) == FALSE

GetStateClear ==
  /\ ReaderGoesOn("clear", "idle")
  /\ StateChanged' = Cleared(StateChanged)
  /\ report' = State
  /\ UNCHANGED <<LastX, LastY, woken, State>>

AbsPReset ==
  /\ Idle
  /\ installed
  /\ ReaderGoesOn("idle", "resetY")
  /\ LastX' = 0
  /\ woken' = FALSE
  /\ UNCHANGED <<LastY, StateChanged, State, report>>

ResetY ==
  /\ ReaderGoesOn("resetY", "resetFlag")
  /\ LastY' = 0
  /\ UNCHANGED <<LastX, StateChanged, woken, State, report>>

ResetFlag ==
  /\ ReaderGoesOn("resetFlag", "idle")
  /\ StateChanged' = FALSE
  /\ UNCHANGED <<LastX, LastY, woken, State, report>>

-----------------------------------------------------------------------------
Init ==
  /\ device = "free"
  /\ bus = "closed"
  /\ gI2CInstance = "NULL"
  /\ polling = FALSE
  /\ waitEvent = "none"
  /\ installed = FALSE
  /\ exited = FALSE
  /\ call = "none"
  /\ Page = 0
  /\ Function = 0
  /\ Address = TOUCH_RMI_PAGE_INFO_ADDRESS
  /\ LastX = 0
  /\ LastY = 0
  /\ StateChanged = FALSE
  /\ pc = "idle"
  /\ woken = FALSE
  /\ State = [x |-> 0, y |-> 0]
  /\ report = [x |-> 0, y |-> 0]
  /\ touches = 0

Next ==
  \/ Start \/ I2cOpen
  \/ \E pin \in ResetPins : SynaPowerUpController(pin)
  \/ ProbeSteps \/ AbsStartPolling \/ Install
  \/ Stop
  \/ \E op \in {"StopPolling", "StopWait", "StopBus"} : StopStep(op)
  \/ SynapticsTouchDxeExitBootService
  \/ SyncPollCallback
  \/ CheckEvent \/ WaitForInput \/ Recheck \/ CallbackConsumes
  \/ AbsPGetState \/ GetStateFlag \/ GetStateX \/ GetStateY \/ GetStateClear
  \/ AbsPReset \/ ResetY \/ ResetFlag

Spec == Init /\ [][Next]_vars

\* Start's loop keeps the processor.
FairSpec == Spec /\ WF_vars(ProbeSteps)

-----------------------------------------------------------------------------
TypeOK ==
  /\ device \in {"free", "this"}
  /\ bus \in {"closed", "open"}
  /\ gI2CInstance \in {"NULL", "Instance"}
  /\ polling \in BOOLEAN
  /\ waitEvent \in {"none", "open", "signalled"}
  /\ installed \in BOOLEAN
  /\ exited \in BOOLEAN
  /\ call \in Calls
  /\ Page \in 0 .. TOUCH_RMI_MAX_FUNCTIONS
  /\ Function \in 0 .. TOUCH_RMI_MAX_FUNCTIONS
  /\ Address \in 0 .. TOUCH_RMI_PAGE_INFO_ADDRESS
  /\ LastX \in 0 .. MaxTouches
  /\ LastY \in 0 .. MaxTouches
  /\ StateChanged \in BOOLEAN
  /\ pc \in {"idle", "check", "recheck", "flag", "readX", "readY", "clear",
             "resetY", "resetFlag"}
  /\ woken \in BOOLEAN
  /\ State \in [x : 0 .. MaxTouches, y : 0 .. MaxTouches]
  /\ report \in [x : 0 .. MaxTouches, y : 0 .. MaxTouches]
  /\ touches \in 0 .. MaxTouches

(* The polls of the timer and of AbsPWaitForInput, which may come at any   *)
(* time until the events are closed, find the bus open: after a Start that *)
(* failed and in the middle of a Stop too.                                 *)
BusIsOpenWhilePolled == (polling \/ waitEvent # "none") /\ ~exited => bus = "open"

(* The operating system finds the bus closed, however Start and Stop went: *)
(* what Start's exit leaves open, ExitBootServices closes.                 *)
BusIsClosedWhenTheOsStarts == exited => bus = "closed"

(* A reader that a wait on the event woke up finds a report.               *)
WokenReaderFindsReport == woken /\ pc = "flag" => StateChanged

(* Each report is news: both of its coordinates are of touches after those *)
(* of the report before, though a poll may store a new touch between any   *)
(* two accesses of AbsPGetState, and mix two touches in one report.        *)
ReportsAdvance ==
  [][pc = "clear" /\ pc' # pc => State.x > report.x /\ State.y > report.y]_vars

(* Start's loop over pages and functions ends, whatever the device says.   *)
ProbeEnds == call = "probe" ~> call # "probe"
=============================================================================
