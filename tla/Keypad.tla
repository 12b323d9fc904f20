------------------------------- MODULE Keypad -------------------------------
(***************************************************************************)
(* The text-input half of KeypadDxe: the two key queues, the two text      *)
(* input protocols an application calls, the timer that polls the keypad,  *)
(* and KeyNotifyProcessHandler, which passes keystrokes to the registered  *)
(* notification functions.                                                 *)
(*                                                                         *)
(* One processor runs all of it.  Code at a higher task priority level     *)
(* (TPL) interrupts code at a lower one, never the reverse:                *)
(*     application (TPL_APPLICATION)                                       *)
(*       <  KeyNotifyProcessHandler and what it calls (TPL_CALLBACK)       *)
(*       <  the timer, and every RaiseTPL (TPL_NOTIFY) section.            *)
(* A TPL_NOTIFY section is one step, except that a section that polls the  *)
(* keypad is a step per key the device returns (`poll` tells which).       *)
(*                                                                         *)
(* A keystroke is known by its number in `typed`; the queues hold numbers. *)
(* KeypadErr does not appear: only KeypadError sets it, and no code calls  *)
(* KeypadError.                                                            *)
(***************************************************************************)
EXTENDS Integers, FiniteSets, SequencesExt

CONSTANTS
  KEYPAD_EFI_KEY_MAX_COUNT,
  KeyData,       \* EFI_KEY_DATA: [code, shift, toggle] records
  NullCode,      \* the code of SCAN_NULL with CHAR_NULL: a partial keystroke
  Fns,           \* notification functions
  Handles,       \* addresses the pool can give a registration
  Toggles,       \* EFI_KEY_TOGGLE_STATE values: [valid, exposed, locks]
  MaxTyped       \* bound: keystrokes accepted in a behaviour

ASSUME CountAssumption == KEYPAD_EFI_KEY_MAX_COUNT \in Nat \ {0, 1}
ASSUME KeyDataAssumption ==
  \A k \in KeyData : /\ DOMAIN k = {"code", "shift", "toggle"}
                     /\ k.shift \in Nat
                     /\ k.toggle \in Nat
ASSUME TogglesAssumption ==
  \A t \in Toggles : /\ DOMAIN t = {"valid", "exposed", "locks"}
                     /\ t.valid \in BOOLEAN
                     /\ t.exposed \in BOOLEAN
                     /\ t.locks \in SUBSET {"scroll", "num", "caps"}
ASSUME HandlesAssumption == Handles \intersect {"end", "none"} = {}
ASSUME MaxTypedAssumption == MaxTyped \in Nat

VARIABLES
  typed,                 \* history: the key data of each accepted keystroke
  EfiKeyQueue,           \* for the readers
  EfiKeyQueueForNotify,  \* for KeyNotifyProcessHandler
  IsSupportPartialKey,
  locks,                 \* the set of ScrollLock, NumLock, CapsLock that are on
  NotifyList,            \* registrations, [handle, data, fn], in list order
  poll,                  \* whose TPL_NOTIFY section is polling the device
  pending,               \* KeyNotifyProcessEvent is signalled, not dispatched
  handler,               \* where KeyNotifyProcessHandler is
  cur,                   \* the keystroke it is passing on
  link,                  \* the registration its walk stands at
  forward,               \* the link left in a node freed under the walk
  reading,               \* a KeypadReadKeyStroke is between two iterations
  status,                \* what the last call returned to its caller
  lastRead,              \* history: the last keystroke given to a reader
  ready,                 \* history: the caller may count on a key to read
  heard                  \* history: the last keystroke each registration was
                         \* called for since KeyNotifyProcessHandler began

queueVars    == <<typed, EfiKeyQueue, EfiKeyQueueForNotify>>
settingVars  == <<IsSupportPartialKey, locks>>
handlerVars  == <<handler, cur, link, forward, heard>>
readerVars   == <<reading, status, lastRead, ready>>
vars == <<queueVars, settingVars, NotifyList, poll, pending, handlerVars,
          readerVars>>

Capacity == KEYPAD_EFI_KEY_MAX_COUNT - 1

\* The queue operations; KeyQueue shows that the ring implements them.
Fifo == INSTANCE BoundedFifo WITH
          Value <- 1 .. MaxTyped, Capacity <- Capacity,
          fifo <- EfiKeyQueue, result <- status

EndOfList == "end"
NotFreed  == "none"

Polls == {"none", "timer", "ReadKeyStroke", "ReadKeyStrokeEx", "WaitForKey",
          "WaitForKeyEx"}

Statuses == {"none", "EFI_SUCCESS", "EFI_NOT_READY", "EFI_UNSUPPORTED",
             "EFI_OUT_OF_RESOURCES", "EFI_INVALID_PARAMETER", "uninitialized",
             "signalled", "not signalled"}

-----------------------------------------------------------------------------
IsPartial(k) == k.code = NullCode

FullKeyIn(q) == \E i \in DOMAIN q : ~IsPartial(typed[q[i]])

\* reg is the registered key data, k the key that was pressed.
IsKeyRegistered(reg, k) ==
  /\ reg.code = k.code
  /\ reg.shift \in {0, k.shift}
  /\ reg.toggle \in {0, k.toggle}

Matching(list, k) == {i \in DOMAIN list : IsKeyRegistered(list[i].data, k)}

InList(h) == \E i \in DOMAIN NotifyList : NotifyList[i].handle = h

IndexOf(h) == CHOOSE i \in DOMAIN NotifyList : NotifyList[i].handle = h

FirstNode == IF NotifyList = <<>> THEN EndOfList ELSE NotifyList[1].handle

NextNode(h) == IF IndexOf(h) = Len(NotifyList) THEN EndOfList
               ELSE NotifyList[IndexOf(h) + 1].handle

-----------------------------------------------------------------------------
Init ==
  /\ typed = <<>>
  /\ EfiKeyQueue = <<>>
  /\ EfiKeyQueueForNotify = <<>>
  /\ IsSupportPartialKey = FALSE
  /\ locks = {}
  /\ NotifyList = <<>>
  /\ poll = "none"
  /\ pending = FALSE
  /\ handler = "idle"
  /\ cur = 0
  /\ link = EndOfList
  /\ forward = NotFreed
  /\ reading = FALSE
  /\ status = "none"
  /\ lastRead = 0
  /\ ready = FALSE
  /\ heard = [h \in Handles |-> 0]

\* The application runs only when nothing above it is running or due.
AppRuns == poll = "none" /\ ~pending /\ handler = "idle"

\* A protocol call starts: from the application, between its other calls, or
\* from a notification function.
CanCall == poll = "none" /\ ((AppRuns /\ ~reading) \/ handler = "called")

-----------------------------------------------------------------------------
(* Polling the keypad, at TPL_NOTIFY.                                      *)

TimerTick ==
  /\ poll = "none"
  /\ poll' = "timer"
  /\ UNCHANGED <<queueVars, settingVars, NotifyList, pending, handlerVars,
                 readerVars>>

Accepted(k) == IsSupportPartialKey \/ ~IsPartial(k)

\* Faulty: a full queue is not made room in.
PushWithoutRoom(id) == EfiKeyQueue' = Append(EfiKeyQueue, id)

PushEfikeyBufTail(id) == EfiKeyQueue' = Fifo!PushTail(EfiKeyQueue, id)

(* KeypadReturnApiPushEfikeyBufTail, called by GetKeys for one key.  The   *)
(* event is pushed for once per matching registration.                     *)
ReturnKey(k) ==
  LET id      == Len(typed) + 1
      matches == Matching(NotifyList, k)
  IN
  /\ poll # "none"
  /\ Len(typed) < MaxTyped
  /\ Accepted(k)
  /\ typed' = Append(typed, k)
  /\ EfiKeyQueueForNotify' =
       Fifo!PushTimes(EfiKeyQueueForNotify, Cardinality(matches), id)
  /\ pending' = (pending \/ matches # {})
  /\ PushEfikeyBufTail(id)
  /\ ready' = (ready /\ Len(EfiKeyQueue) < Capacity)
  /\ UNCHANGED <<settingVars, NotifyList, poll, handlerVars, reading, status,
                 lastRead>>

TimerReturns ==
  /\ poll = "timer"
  /\ poll' = "none"
  /\ UNCHANGED <<queueVars, settingVars, NotifyList, pending, handlerVars,
                 readerVars>>

-----------------------------------------------------------------------------
(* KeypadReadKeyStroke, KeypadReadKeyStrokeEx and their Worker.            *)

BeginRead(op) ==
  /\ AppRuns
  /\ reading => op = "ReadKeyStroke"
  /\ poll' = op
  /\ UNCHANGED <<queueVars, settingVars, NotifyList, pending, handlerVars,
                 readerVars>>

\* Faulty: a skipped partial keystroke stays at the head of the queue.
SkipInPlace ==
  /\ poll = "ReadKeyStroke"
  /\ EfiKeyQueue # <<>>
  /\ IsPartial(typed[Head(EfiKeyQueue)])
  /\ poll' = "none"
  /\ reading' = TRUE
  /\ UNCHANGED <<queueVars, settingVars, NotifyList, pending, handlerVars,
                 status, lastRead, ready>>

ReadPops ==
  /\ poll \in {"ReadKeyStroke", "ReadKeyStrokeEx"}
  /\ poll' = "none"
  /\ IF EfiKeyQueue = <<>>
       THEN /\ status' = "EFI_NOT_READY"
            /\ reading' = FALSE
            /\ ready' = FALSE
            /\ UNCHANGED <<EfiKeyQueue, lastRead>>
       ELSE LET id   == Head(EfiKeyQueue)
                skip == poll = "ReadKeyStroke" /\ IsPartial(typed[id])
            IN /\ EfiKeyQueue' = Tail(EfiKeyQueue)
               /\ reading' = skip
               /\ status' = IF skip THEN status ELSE "EFI_SUCCESS"
               /\ lastRead' = IF skip THEN lastRead ELSE id
               /\ ready' = (skip /\ ready)
  /\ UNCHANGED <<typed, EfiKeyQueueForNotify, settingVars, NotifyList, pending,
                 handlerVars>>

(* Checking the WaitForKey or the WaitForKeyEx event runs KeypadWaitForKey *)
(* (KeypadWaitForKeyEx is a call of it), which may signal the event.       *)
BeginWait(event) ==
  /\ AppRuns
  /\ ~reading
  /\ poll' = event
  /\ UNCHANGED <<queueVars, settingVars, NotifyList, pending, handlerVars,
                 readerVars>>

\* The number of partial keystrokes at the head of the queue.
Leading == {n \in 0 .. Len(EfiKeyQueue) :
              /\ \A i \in 1 .. n : IsPartial(typed[EfiKeyQueue[i]])
              /\ n < Len(EfiKeyQueue) => ~IsPartial(typed[EfiKeyQueue[n + 1]])}

\* Faulty: any queued keystroke counts as a key to read.
SignalWithoutSkipping ==
  /\ ready' = (EfiKeyQueue # <<>>)
  /\ UNCHANGED EfiKeyQueue

\* Faulty: the key that is found is popped like the partial ones before it.
PopWhatIsFound ==
  \E n \in Leading :
    /\ ready' = (n < Len(EfiKeyQueue))
    /\ EfiKeyQueue' = SubSeq(EfiKeyQueue, n + 2, Len(EfiKeyQueue))

\* The loop of KeypadWaitForKey: leading partial keystrokes are thrown away.
SkipAndSignal ==
  \E n \in Leading :
    /\ ready' = (n < Len(EfiKeyQueue))
    /\ EfiKeyQueue' = SubSeq(EfiKeyQueue, n + 1, Len(EfiKeyQueue))

KeypadWaitForKey ==
  /\ poll \in {"WaitForKey", "WaitForKeyEx"}
  /\ poll' = "none"
  /\ SkipAndSignal
  /\ status' = IF ready' THEN "signalled" ELSE "not signalled"
  /\ UNCHANGED <<typed, EfiKeyQueueForNotify, settingVars, NotifyList, pending,
                 handlerVars, reading, lastRead>>

-----------------------------------------------------------------------------
(* KeypadEfiReset and KeypadEfiResetEx, through InitKeypad.                *)

\* Faulty: a reset frees the registrations too.
ResetFreesNotifyList ==
  /\ CanCall
  /\ EfiKeyQueue' = <<>>
  /\ EfiKeyQueueForNotify' = <<>>
  /\ NotifyList' = <<>>
  /\ UNCHANGED <<typed, settingVars, poll, pending, handlerVars, readerVars>>

KeypadEfiReset ==
  /\ CanCall
  /\ EfiKeyQueue' = <<>>
  /\ EfiKeyQueueForNotify' = <<>>
  /\ IsSupportPartialKey' = FALSE
  /\ locks' = {}
  /\ ready' = FALSE
  /\ status' = "EFI_SUCCESS"
  /\ UNCHANGED <<typed, NotifyList, poll, pending, handlerVars, reading,
                 lastRead>>

\* No assignment to Status on the successful path: the caller gets whatever
\* the variable held.
KeypadSetState(t) ==
  /\ CanCall
  /\ IF t.valid
       THEN /\ IsSupportPartialKey' = t.exposed
            /\ locks' = t.locks
            /\ status' \in {"EFI_SUCCESS", "uninitialized"}
       ELSE /\ status' = "EFI_UNSUPPORTED"
            /\ UNCHANGED settingVars
  /\ UNCHANGED <<queueVars, NotifyList, poll, pending, handlerVars, reading,
                 lastRead, ready>>

\* Faulty: a new registration goes to the head of the list.
InsertHead(node) == NotifyList' = <<node>> \o NotifyList

InsertTail(node) == NotifyList' = Append(NotifyList, node)

KeypadRegisterKeyNotify(data, fn) ==
  /\ CanCall
  /\ IF \E i \in DOMAIN NotifyList :
          /\ IsKeyRegistered(NotifyList[i].data, data)
          /\ NotifyList[i].fn = fn
       THEN status' = "EFI_SUCCESS" /\ UNCHANGED NotifyList
       ELSE \/ /\ status' = "EFI_OUT_OF_RESOURCES"
               /\ UNCHANGED NotifyList
            \/ \E h \in Handles :
                 /\ ~InList(h)
                 /\ InsertTail([handle |-> h, data |-> data, fn |-> fn])
                 /\ status' = "EFI_SUCCESS"
  /\ UNCHANGED <<queueVars, settingVars, poll, pending, handlerVars, reading,
                 lastRead, ready>>

(* Any registration may be unregistered, by a notification function also   *)
(* the one it was called for: then the node the walk stands at is freed,   *)
(* and `forward` is the link the freed memory is left with.                *)
KeypadUnregisterKeyNotify(h) ==
  /\ CanCall
  /\ IF InList(h)
       THEN /\ NotifyList' = RemoveAt(NotifyList, IndexOf(h))
            /\ forward' = IF handler = "called" /\ h = link THEN NextNode(h)
                          ELSE forward
            /\ heard' = [heard EXCEPT ![h] = 0]
            /\ status' = "EFI_SUCCESS"
       ELSE /\ status' = "EFI_INVALID_PARAMETER"
            /\ UNCHANGED <<NotifyList, forward, heard>>
  /\ UNCHANGED <<queueVars, settingVars, poll, pending, handler, cur, link,
                 reading, lastRead, ready>>

-----------------------------------------------------------------------------
(* KeyNotifyProcessHandler, dispatched at TPL_CALLBACK.                    *)

DispatchNotify ==
  /\ poll = "none"
  /\ pending
  /\ handler = "idle"
  /\ pending' = FALSE
  /\ handler' = "pop"
  /\ UNCHANGED <<queueVars, settingVars, NotifyList, poll, cur, link, forward,
                 heard, readerVars>>

NotifyPops ==
  /\ poll = "none"
  /\ handler = "pop"
  /\ forward' = NotFreed
  /\ IF EfiKeyQueueForNotify = <<>>
       THEN /\ handler' = "idle"
            /\ cur' = 0
            /\ link' = EndOfList
            /\ heard' = [h \in Handles |-> 0]
            /\ UNCHANGED EfiKeyQueueForNotify
       ELSE /\ cur' = Head(EfiKeyQueueForNotify)
            /\ EfiKeyQueueForNotify' = Tail(EfiKeyQueueForNotify)
            /\ link' = FirstNode
            /\ handler' = "walk"
            /\ UNCHANGED heard
  /\ UNCHANGED <<typed, EfiKeyQueue, settingVars, NotifyList, poll, pending,
                 readerVars>>

\* One registration of the walk: its function is called if the key matches.
WalkVisits ==
  /\ poll = "none"
  /\ handler = "walk"
  /\ link # EndOfList
  /\ IF IsKeyRegistered(NotifyList[IndexOf(link)].data, typed[cur])
       THEN /\ handler' = "called"
            /\ heard' = [heard EXCEPT ![link] = cur]
            /\ UNCHANGED link
       ELSE /\ link' = NextNode(link)
            /\ UNCHANGED <<handler, heard>>
  /\ UNCHANGED <<queueVars, settingVars, NotifyList, poll, pending, cur,
                 forward, readerVars>>

(* The notification function returns, and the next node is read only now.  *)
(* Of a freed node, the link it held may still be there; the memory may be *)
(* a new registration, which has a link of its own; or the handler goes    *)
(* astray in what it finds and never comes back.                           *)
FunctionReturns ==
  /\ poll = "none"
  /\ handler = "called"
  /\ IF InList(link)
       THEN handler' = "walk" /\ link' = NextNode(link)
       ELSE \/ /\ forward = EndOfList \/ InList(forward)
               /\ handler' = "walk"
               /\ link' = forward
            \/ handler' = "fault" /\ UNCHANGED link
  /\ UNCHANGED <<queueVars, settingVars, NotifyList, poll, pending, cur,
                 forward, heard, readerVars>>

\* Faulty: one keystroke for each time the event is signalled.
OneKeyPerEvent ==
  /\ poll = "none"
  /\ handler = "walk"
  /\ link = EndOfList
  /\ handler' = "idle"
  /\ UNCHANGED <<queueVars, settingVars, NotifyList, poll, pending, cur, link,
                 forward, heard, readerVars>>

WalkEnds ==
  /\ poll = "none"
  /\ handler = "walk"
  /\ link = EndOfList
  /\ handler' = "pop"
  /\ UNCHANGED <<queueVars, settingVars, NotifyList, poll, pending, cur, link,
                 forward, heard, readerVars>>

-----------------------------------------------------------------------------
Device == TimerTick \/ TimerReturns \/ \E k \in KeyData : ReturnKey(k)

Reader ==
  \/ \E op \in {"ReadKeyStroke", "ReadKeyStrokeEx"} : BeginRead(op)
  \/ ReadPops
  \/ \E event \in {"WaitForKey", "WaitForKeyEx"} : BeginWait(event)
  \/ KeypadWaitForKey

Call ==
  \/ KeypadEfiReset
  \/ \E t \in Toggles : KeypadSetState(t)
  \/ \E data \in KeyData, fn \in Fns : KeypadRegisterKeyNotify(data, fn)
  \/ \E h \in Handles : KeypadUnregisterKeyNotify(h)

Handler ==
  DispatchNotify \/ NotifyPops \/ WalkVisits \/ FunctionReturns \/ WalkEnds

Next == Device \/ Reader \/ Call \/ Handler

Spec == Init /\ [][Next]_vars

(* Fairness.  GetKeys returns, and so does every notification function;    *)
(* the code a timer tick interrupts gets the processor back before the     *)
(* next tick, though each tick disables it: hence SF.                      *)
PollEnds == TimerReturns \/ ReadPops \/ KeypadWaitForKey

ReadGoesOn == reading /\ BeginRead("ReadKeyStroke")

\* A function that registers another at the tail of the list keeps the walk
\* it is called from going: only finitely many calls of functions do so.
FunctionRegisters == handler = "called" /\ Len(NotifyList') > Len(NotifyList)

FairSpec ==
  /\ Spec
  /\ WF_vars(PollEnds)
  /\ SF_vars(Handler)
  /\ SF_vars(ReadGoesOn)
  /\ <>[][~FunctionRegisters]_vars

-----------------------------------------------------------------------------
TypeOK ==
  /\ typed \in Seq(KeyData)
  /\ EfiKeyQueue \in Seq(1 .. Len(typed))
  /\ Len(EfiKeyQueue) <= Capacity
  /\ EfiKeyQueueForNotify \in Seq(1 .. Len(typed))
  /\ Len(EfiKeyQueueForNotify) <= Capacity
  /\ IsSupportPartialKey \in BOOLEAN
  /\ locks \in SUBSET {"scroll", "num", "caps"}
  /\ NotifyList \in Seq([handle : Handles, data : KeyData, fn : Fns])
  /\ poll \in Polls
  /\ pending \in BOOLEAN
  /\ handler \in {"idle", "pop", "walk", "called", "fault"}
  /\ cur \in 0 .. Len(typed)
  /\ link \in Handles \union {EndOfList}
  /\ forward \in Handles \union {EndOfList, NotFreed}
  /\ reading \in BOOLEAN
  /\ status \in Statuses
  /\ lastRead \in 0 .. Len(typed)
  /\ ready \in BOOLEAN
  /\ heard \in [Handles -> 0 .. Len(typed)]

(* No lost wake-up: a keystroke that waits for KeyNotifyProcessHandler has *)
(* the handler's event signalled or the handler still looping, however the *)
(* timer, the readers and the callbacks interleave with it.                *)
NoLostNotify ==
  EfiKeyQueueForNotify # <<>> => pending \/ handler # "idle"

(* The walk of NotifyList stands on a freed node only while a function     *)
(* that unregistered its own registration runs, and only such a function   *)
(* can lead the handler astray: nothing else that functions register,      *)
(* unregister or reset takes the node away whose link is read next.        *)
WalkStaysOnList ==
  /\ handler = "called" => link # EndOfList
  /\ handler = "walk" /\ link # EndOfList => InList(link)
  /\ handler = "called" => InList(link) \/ forward # NotFreed
  /\ handler = "fault" => forward # NotFreed

(* A keystroke's walk misses nobody: when it ends, every registration on   *)
(* the list that matches the keystroke has been called for it, unless one  *)
(* of the functions it called unregistered its own registration.           *)
WalkMissesNobody ==
  handler = "walk" /\ link = EndOfList /\ forward = NotFreed =>
    \A i \in Matching(NotifyList, typed[cur]) :
      heard[NotifyList[i].handle] = cur

\* Why: the registrations before the one the walk stands at have been called.
HandlesDiffer ==
  \A i, j \in DOMAIN NotifyList :
    NotifyList[i].handle = NotifyList[j].handle => i = j

WalkServed ==
  /\ handler \in {"walk", "called"} /\ forward = NotFreed =>
       \A i \in Matching(NotifyList, typed[cur]) :
         (link = EndOfList \/ i < IndexOf(link)) =>
           heard[NotifyList[i].handle] = cur
  /\ handler = "called" /\ forward = NotFreed => heard[link] = cur
  /\ handler \in {"walk", "called"} => cur > 0

(* The answer to "is there a key to read" stays true until the caller has  *)
(* read it: a positive WaitForKey is followed by a successful read, unless *)
(* the keypad was reset or a key overran the full queue in between.        *)
ReadyMeansKey == ready => FullKeyIn(EfiKeyQueue)

(* A full keystroke leaves the readers' queue only by being read, in a     *)
(* reset, or as the oldest key of a full queue that a new key overruns;    *)
(* checking an event or skipping partial keystrokes never loses one.       *)
FullKeyLeaves(id) ==
  \/ lastRead' = id /\ status' = "EFI_SUCCESS"
  \/ KeypadEfiReset
  \/ /\ Len(typed') > Len(typed)
     /\ Len(EfiKeyQueue) = Capacity
     /\ id = Head(EfiKeyQueue)

FullKeysAreKept ==
  [][\A id \in ToSet(EfiKeyQueue) \ ToSet(EfiKeyQueue') :
       ~IsPartial(typed[id]) => FullKeyLeaves(id)]_vars

(* RegisterKeyNotify promises a call of the function "when the key sequence *)
(* is typed": each registration is called once for a keystroke, however    *)
(* many other registrations match it.                                      *)
CalledOncePerKeystroke ==
  [][handler = "walk" /\ handler' = "called" => heard[link] # cur]_vars

(* Every keystroke queued for the notification functions gets processed,   *)
(* unless the handler went astray in a freed node.                         *)
NotifyDrains ==
  EfiKeyQueueForNotify # <<>> ~> EfiKeyQueueForNotify = <<>> \/ handler = "fault"

(* KeypadReadKeyStroke's loop over partial keystrokes returns, unless the  *)
(* handler that interrupts it went astray.                                 *)
ReadReturns == reading ~> ~reading \/ handler = "fault"
=============================================================================
